--------------------------- MODULE FleetRefinement ---------------------------
(***************************************************************************)
(* Fleet implements EnrollmentPromise.  The token's audit trail is what is *)
(* spent, the device rows say who holds which name, and the JWTs the cams  *)
(* have are what was granted.                                              *)
(***************************************************************************)
EXTENDS FleetInv

Claimed(row) == [dev |-> row.id, sub |-> row.sub]

Promise == INSTANCE EnrollmentPromise WITH
  spent <- [t \in Tokens |-> tokens[t].by],
  holders <- {Claimed(row) : row \in devices},
  granted <- jwts

\* THE HUB KEEPS ITS PROMISE.  Every step of every handler is a step of the
\* promise or none at all: in particular a rollback that deletes a row gives
\* back a name that was not granted, no insert takes a name that is held, and
\* no second registration spends a spent token, whichever calls fail.
KeepsPromise == Promise!Spec

=============================================================================
