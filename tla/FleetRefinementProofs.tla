------------------------ MODULE FleetRefinementProofs ------------------------
(***************************************************************************)
(* Proof that Fleet implements EnrollmentPromise while no operator deletes *)
(* rows by hand, and that names are therefore never shared.                *)
(***************************************************************************)
EXTENDS FleetRefinement, FleetProofs

Spent == [t \in Tokens |-> tokens[t].by]
Holders == {Claimed(row) : row \in devices}

\* Heartbeats rewrite addresses, never who holds which name.
LEMMA HoldersKept ==
  ASSUME \A row \in devices' : \E old \in devices :
           old.id = row.id /\ old.sub = row.sub,
         \A old \in devices : \E row \in devices' :
           old.id = row.id /\ old.sub = row.sub
  PROVE  Holders' = Holders
<1>1. \A h \in Holders' : h \in Holders
  BY DEF Holders, Claimed
<1>2. \A h \in Holders : h \in Holders'
  BY DEF Holders, Claimed
<1> QED
  BY <1>1, <1>2

\* The initial states map to the initial state of the promise.
LEMMA PromiseInit == Init => Promise!Init
<1> SUFFICES ASSUME Init PROVE Promise!Init
  OBVIOUS
<1>1. tokens = [t \in Tokens |-> [minted |-> FALSE, expired |-> FALSE,
                                  consumed |-> FALSE, by |-> {}]]
      /\ devices = {} /\ jwts = {}
  BY DEF Init, StoreInit, EnrollInit
<1>2. [t \in Tokens |-> tokens[t].by] = [t \in Tokens |-> {}]
  BY <1>1
<1>3. {Claimed(row) : row \in devices} = {}
  BY <1>1
<1> QED
  BY <1>1, <1>2, <1>3 DEF Promise!Init

\* Every step of Fleet maps to a step of the promise or to none.
LEMMA PromiseStep ==
  ASSUME "admin_drop" \notin Faults
  PROVE  TypeInv /\ TokenInv /\ GrantInv /\ [Next]_vars
           => Promise!Next \/ UNCHANGED <<Spent, Holders, jwts>>
<1> SUFFICES ASSUME TypeInv, TokenInv, GrantInv, [Next]_vars
             PROVE  Promise!Next \/ UNCHANGED <<Spent, Holders, jwts>>
  OBVIOUS
<1> USE DEF storeVars, enrollVars, zoneVars
<1>s. UNCHANGED tokens => UNCHANGED Spent
  BY DEF Spent
<1>h. UNCHANGED devices => UNCHANGED Holders
  BY DEF Holders
<1>1. ASSUME NEW r \in Requests, RegConsume(r)
      PROVE  Promise!Next \/ UNCHANGED <<Spent, Holders, jwts>>
  <2> DEFINE T == reg[r].token
             D == reg[r].dev
  <2>1. T \in Tokens /\ D \in Devices
    BY <1>1 DEF RegConsume, At, TypeInv, TypeOK, EnrollTypeOK, RegRequest
  <2>2. UNCHANGED <<Holders, jwts>>
    BY <1>1, <1>h DEF RegConsume
  <2>3. UNCHANGED tokens \/ ConsumeToken(T, D)
    BY <1>1 DEF RegConsume
  <2>4. ASSUME Usable(T), ConsumeToken(T, D)
        PROVE  Promise!Spend(T, D)
    <3>1. tokens[T].by = {}
      BY <2>1, <2>4 DEF Usable, TokenInv
    <3>2. tokens' = [tokens EXCEPT ![T].consumed = TRUE, ![T].by = {D}]
      BY <2>4 DEF ConsumeToken
    <3>3. tokens \in [Tokens -> TokenRow]
      BY DEF TypeInv, TypeOK, StoreTypeOK
    <3>4. Spent' = [Spent EXCEPT ![T] = {D}]
      BY <2>1, <3>2, <3>3 DEF Spent, TokenRow
    <3>5. Spent[T] = {}
      BY <2>1, <3>1 DEF Spent
    <3> QED
      BY <2>2, <3>4, <3>5 DEF Promise!Spend, Spent, Holders
  <2>5. ASSUME Usable(T), ConsumeToken(T, D) PROVE Promise!Next
    <3>1. Promise!Spend(T, D)
      BY <2>4, <2>5
    <3>2. \E t \in Tokens, d \in Devices : Promise!Spend(t, d)
      <4> SUFFICES ASSUME NEW t \in Tokens, t = T, NEW d \in Devices, d = D
                   PROVE  Promise!Spend(t, d)
        BY <2>1
      <4> QED
        BY <3>1 DEF Promise!Spend
    <3> QED
      BY <3>2 DEF Promise!Next
  <2>6. ~Usable(T) /\ ConsumeToken(T, D) => UNCHANGED tokens
    BY DEF ConsumeToken
  <2> QED
    BY <1>s, <2>2, <2>3, <2>5, <2>6
<1>2. ASSUME NEW r \in Requests, RegRespond(r)
      PROVE  Promise!Next \/ UNCHANGED <<Spent, Holders, jwts>>
  <2> DEFINE c == [dev |-> reg[r].dev, sub |-> Assigned(r)]
  <2>1. UNCHANGED <<Spent, Holders>>
    BY <1>2, <1>s, <1>h DEF RegRespond
  <2>2. HasRow(r)
    BY <1>2 DEF RegRespond, At, HasRow
  <2>3. c \in Holders
    BY <2>2 DEF GrantInv, RowOf, Holders, Claimed
  <2>4. jwts' = jwts \cup {c} \/ UNCHANGED jwts
    BY <1>2 DEF RegRespond
  <2>5. ASSUME jwts' = jwts \cup {c} PROVE Promise!Next
    <3>1. Promise!Grant(c)
      BY <2>1, <2>3, <2>5 DEF Promise!Grant, Spent, Holders
    <3> QED
      BY <2>3, <3>1 DEF Promise!Next, Holders
  <2> QED
    BY <2>1, <2>4, <2>5
<1>3. ASSUME NEW r \in Requests, RegInsert(r), Insertable(NewRow(r)),
             devices' = devices \cup {NewRow(r)}
      PROVE  Promise!Next
  <2> DEFINE d == reg[r].dev
             n == Assigned(r)
  <2>1. UNCHANGED <<Spent, jwts>>
    BY <1>3, <1>s DEF RegInsert
  <2>2. /\ reg[r] # Idle /\ d \in Devices /\ reg[r].token \in Tokens /\ n \in Names
        /\ Enrolls(r)
    BY <1>3, AssignedName DEF RegInsert, At, Enrolls, TypeInv, TypeOK, EnrollTypeOK, RegRequest
  <2>3. tokens[reg[r].token].by = {d}
    BY <2>2 DEF TokenInv
  <2>4. Claimed(NewRow(r)) = [dev |-> d, sub |-> n]
    BY DEF Claimed, NewRow
  <2>5. Holders' = Holders \cup {[dev |-> d, sub |-> n]}
    BY <1>3, <2>4 DEF Holders
  <2>6. \A h \in Holders : h.dev # d /\ h.sub # n
    BY <1>3 DEF Insertable, NewRow, RowOf, RowsNamed, Holders, Claimed
  <2>7. Spent[reg[r].token] = {d}
    BY <2>2, <2>3 DEF Spent
  <2>8. Promise!Take(d, n)
    BY <2>1, <2>2, <2>5, <2>6, <2>7 DEF Promise!Take, Spent, Holders
  <2> QED
    BY <2>2, <2>8 DEF Promise!Next
<1>4. ASSUME NEW r \in Requests, RegDropRow(r), devices' = devices \ RowOf(reg[r].dev)
      PROVE  Promise!Next
  <2> DEFINE d == reg[r].dev
  <2>1. UNCHANGED <<Spent, jwts>>
    BY <1>4, <1>s DEF RegDropRow
  <2>2. HasRow(r) /\ d \in Devices
    BY <1>4 DEF RegDropRow, At, HasRow, TypeInv, TypeOK, EnrollTypeOK, RegRequest
  <2>3. \A g \in jwts : g.dev # d
    BY <2>2 DEF GrantInv
  <2>4. \A row \in devices : row \in devices' <=> row.id # d
    BY <1>4 DEF RowOf
  <2>5. Holders' = {h \in Holders : h.dev # d}
    BY <1>4, <2>4 DEF Holders, Claimed
  <2>6. Promise!GiveBack(d)
    BY <2>1, <2>3, <2>5 DEF Promise!GiveBack, Spent, Holders
  <2> QED
    BY <2>2, <2>6 DEF Promise!Next
<1>5. CASE RegisterNext
  <2>1. PICK r \in Requests : RegArrive(r) \/ RegStep(r) \/ RegClientGone(r)
    BY <1>5 DEF RegisterNext
  <2>2. CASE RegConsume(r)
    BY <1>1, <2>2
  <2>3. CASE RegRespond(r)
    BY <1>2, <2>3
  <2>4. CASE ~RegConsume(r) /\ ~RegRespond(r)
    <3>1. UNCHANGED tokens
      BY <2>1, <2>4, AfterConsume DEF RegArrive
    <3>2. UNCHANGED jwts
      BY <2>1, <2>4, RegJwts
    <3> QED
      BY <1>s, <1>h, <1>3, <1>4, <2>1, <3>1, <3>2, RegRows
  <2> QED
    BY <2>2, <2>3, <2>4
<1>6. CASE HeartbeatNext
  <2>1. PICK b \in Beats : BeatArrive(b) \/ BeatStep(b) \/ BeatClientGone(b)
    BY <1>6 DEF HeartbeatNext
  <2>2. UNCHANGED <<tokens, jwts>>
    BY <2>1, HeartbeatFrame
  <2>3. UNCHANGED Holders
    BY <2>1, HeartbeatRows, HoldersKept
  <2> QED
    BY <1>s, <2>2, <2>3
<1>7. CASE TokenNext
  <2>1. PICK t \in Tokens : MintToken(t) \/ Revoke(t) \/ TokenExpires(t)
    BY <1>7 DEF TokenNext
  <2>2. UNCHANGED <<devices, jwts>>
    BY <2>1 DEF MintToken, Revoke, TokenExpires
  <2>3. tokens \in [Tokens -> TokenRow]
    BY DEF TypeInv, TypeOK, StoreTypeOK
  <2>4. UNCHANGED Spent
    <3>1. \/ tokens' = [tokens EXCEPT ![t].minted = TRUE]
          \/ tokens' = [tokens EXCEPT ![t].consumed = TRUE]
          \/ tokens' = [tokens EXCEPT ![t].expired = TRUE]
      BY <2>1 DEF MintToken, Revoke, TokenExpires, CreateToken, RevokeToken, ExpireToken
    <3>2. \A u \in Tokens : tokens'[u].by = tokens[u].by
      BY <2>3, <3>1 DEF TokenRow
    <3> QED
      BY <3>2 DEF Spent
  <2> QED
    BY <1>h, <2>2, <2>4
<1>8. CASE \E d \in Devices : AdminDrop(d)
  BY <1>8 DEF AdminDrop
<1>9. CASE HubCrash
  BY <1>9, <1>s, <1>h DEF HubCrash
<1>10. CASE UNCHANGED vars
  BY <1>10, <1>s, <1>h DEF vars
<1> QED
  BY <1>5, <1>6, <1>7, <1>8, <1>9, <1>10 DEF Next

\* THE HUB KEEPS ITS PROMISE: Fleet implements EnrollmentPromise, whatever
\* calls fail and wherever the hub crashes.
THEOREM FleetKeepsPromise ==
  ASSUME "admin_drop" \notin Faults
  PROVE  Spec => KeepsPromise
<1>1. Init => TypeInv /\ TokenInv /\ GrantInv
  BY TypeInit DEF Init, StoreInit, EnrollInit, TokenInv, OneTokenOneEnrollment,
     Enrolls, GrantInv, GrantedKeepsRow, HasRow
<1>2. TypeInv /\ TokenInv /\ GrantInv /\ [Next]_vars
        => (TypeInv /\ TokenInv /\ GrantInv)' /\ [Promise!Next]_<<Spent, Holders, jwts>>
  BY TypeStep, TokenStep, GrantStep, PromiseStep
<1>3. Init => Promise!Init
  BY PromiseInit
<1> QED
  BY <1>1, <1>2, <1>3, PTL
     DEF Spec, KeepsPromise, Promise!Spec, Promise!promiseVars, Spent, Holders

\* ONE NAME, ONE CAM.  No two cams ever hold one name, no cam two names, and
\* a granted name is held by the cam it was granted to: the UNIQUE constraint
\* and the rollbacks together keep the fleet's address book unambiguous.
THEOREM NamesUnique ==
  ASSUME "admin_drop" \notin Faults
  PROVE  Spec => []Promise!OneNameOneCam
<1>1. Promise!Init => Promise!OneNameOneCam
  BY DEF Promise!Init, Promise!OneNameOneCam
<1>2. Promise!OneNameOneCam /\ [Promise!Next]_(Promise!promiseVars)
        => Promise!OneNameOneCam'
  <2> SUFFICES ASSUME Promise!OneNameOneCam, [Promise!Next]_(Promise!promiseVars)
               PROVE  Promise!OneNameOneCam'
    OBVIOUS
  <2> USE DEF Promise!OneNameOneCam
  <2>1. CASE \E t \in Tokens, d \in Devices : Promise!Spend(t, d)
    BY <2>1 DEF Promise!Spend
  <2>2. CASE \E d \in Devices, n \in Names : Promise!Take(d, n)
    BY <2>2 DEF Promise!Take
  <2>3. CASE \E d \in Devices : Promise!GiveBack(d)
    BY <2>3 DEF Promise!GiveBack
  <2>4. CASE \E h \in Holders : Promise!Grant(h)
    BY <2>4 DEF Promise!Grant, Holders
  <2>5. CASE UNCHANGED Promise!promiseVars
    BY <2>5 DEF Promise!promiseVars
  <2> QED
    BY <2>1, <2>2, <2>3, <2>4, <2>5 DEF Promise!Next, Holders
<1> QED
  BY <1>1, <1>2, FleetKeepsPromise, PTL DEF KeepsPromise, Promise!Spec

=============================================================================
