----------------------------- MODULE MCBrowser ------------------------------
(* Instances of Browser for TLC. *)
EXTENDS Browser, TLC

CONSTANTS s1, s2, s3, s4, s5, s6, w1, w2, c1, c2, c3

\* Session ids, tabs and request slots are interchangeable.
Swaps == Permutations(Ids) \cup Permutations(Tabs) \cup Permutations(Calls)

=============================================================================
