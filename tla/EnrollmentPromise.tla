-------------------------- MODULE EnrollmentPromise --------------------------
(***************************************************************************)
(* What the hub promises the cams, without requests, calls, rollbacks or   *)
(* DNS: a token is spent on one cam; a cam that spent one takes a name     *)
(* nobody has; a name is given back only while its cam has not been        *)
(* granted it; what was granted is never taken away.                       *)
(* Module FleetRefinement maps Fleet to it.                                *)
(***************************************************************************)
CONSTANTS Devices, Names, Tokens

VARIABLES
  spent,      \* spent[t]: {d} once d spent token t
  holders,    \* which cam holds which name
  granted     \* the claims cams were handed

promiseVars == <<spent, holders, granted>>

Claim == [dev : Devices, sub : Names]

Init ==
  /\ spent = [t \in Tokens |-> {}]
  /\ holders = {}
  /\ granted = {}

Spend(t, d) ==
  /\ spent[t] = {}
  /\ spent' = [spent EXCEPT ![t] = {d}]
  /\ UNCHANGED <<holders, granted>>

Take(d, n) ==
  /\ \E t \in Tokens : spent[t] = {d}
  /\ \A h \in holders : h.dev # d /\ h.sub # n
  /\ holders' = holders \cup {[dev |-> d, sub |-> n]}
  /\ UNCHANGED <<spent, granted>>

GiveBack(d) ==
  /\ \A g \in granted : g.dev # d
  /\ holders' = {h \in holders : h.dev # d}
  /\ UNCHANGED <<spent, granted>>

Grant(h) ==
  /\ h \in holders
  /\ granted' = granted \cup {h}
  /\ UNCHANGED <<spent, holders>>

Next ==
  \/ \E t \in Tokens, d \in Devices : Spend(t, d)
  \/ \E d \in Devices, n \in Names : Take(d, n)
  \/ \E d \in Devices : GiveBack(d)
  \/ \E h \in holders : Grant(h)

Spec == Init /\ [][Next]_promiseVars

-----------------------------------------------------------------------------

\* What the promise comes to: a cam has one name, a name one cam, and a
\* granted name is held by the cam it was granted to.
OneNameOneCam ==
  /\ \A g, h \in holders : g.dev = h.dev \/ g.sub = h.sub => g = h
  /\ granted \subseteq holders

=============================================================================
