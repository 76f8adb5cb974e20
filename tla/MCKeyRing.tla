----------------------------- MODULE MCKeyRing ------------------------------
(* Instances of KeyRing for TLC. *)
EXTENDS KeyRing, TLC

CONSTANTS k1, k2, k3, k4

Swap == Permutations({k1, k2, k3, k4})

=============================================================================
