----------------------------- MODULE MCPresence -----------------------------
(* Instances of Presence for TLC. *)
EXTENDS Presence, TLC

CONSTANTS c1, c2

Swap == Permutations({c1, c2})

=============================================================================
