------------------------------ MODULE MCFleet -------------------------------
(* Instances of Fleet for TLC. *)
EXTENDS FleetRefinement, TLC

CONSTANTS d1, d2, t1, t2, r1, r2, b1, b2, cam, cam2, ip1, ip2, ipv6

\* The suffixer on preferred name cam: one candidate, so that two cams race
\* for it and the loser of the search gets 409, or two.
Suffixes1 == [b \in Bases |-> <<cam>>]
Suffixes2 == [b \in Bases |-> <<cam, cam2>>]

\* Cams, tokens, slots and addresses are interchangeable.
Swaps ==
  Permutations({d1, d2}) \cup Permutations({t1, t2})
    \cup Permutations({r1, r2}) \cup Permutations({b1, b2})
    \cup Permutations({ip1, ip2})

=============================================================================
