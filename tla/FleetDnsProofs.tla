---------------------------- MODULE FleetDnsProofs ----------------------------
(***************************************************************************)
(* More proofs about Fleet: no row is stranded, pointers are sound.  They  *)
(* build on the invariants proved in FleetProofs.                          *)
(***************************************************************************)
EXTENDS FleetProofs

-----------------------------------------------------------------------------
(* What a step does to its own request *)

\* A registration keeps what it was sent; only the probe moves on to another
\* candidate and only a POST that was answered adds an id, a fresh one.
LEMMA RegMoves ==
  ASSUME TypeInv, NEW r \in Requests, RegStep(r) \/ RegClientGone(r),
         reg'[r] # Idle
  PROVE  /\ reg[r] # Idle /\ reg[r] \in RegRequest
         /\ reg'[r].dev = reg[r].dev /\ reg'[r].base = reg[r].base
         /\ reg'[r].v4 = reg[r].v4 /\ reg'[r].v6 = reg[r].v6
         /\ reg'[r].live = reg[r].live \/ RegClientGone(r)
         /\ reg'[r].k = reg[r].k \/ (RegProbe(r) /\ reg'[r].pc = "probe")
         /\ \/ reg'[r].a = reg[r].a
            \/ /\ RegPostA(r) /\ reg'[r].a = {nextId} /\ reg[r].a = {}
               /\ PostRecord(Assigned(r), "A", reg[r].v4, reg[r].dev)
         /\ \/ reg'[r].aaaa = reg[r].aaaa
            \/ /\ RegPostAAAA(r) /\ reg'[r].aaaa = {nextId} /\ reg[r].aaaa = {}
               /\ PostRecord(Assigned(r), "AAAA", The(reg[r].v6), reg[r].dev)
<1> USE DEF At
<1>0. reg[r] # Idle /\ reg[r] \in RegRequest /\ reg \in [Requests -> {Idle} \cup RegRequest]
      /\ RegShape(reg[r])
  BY DEF RegStep, RegClientGone, RegConsume, RegProbe, RegPostA, RegPostAAAA,
         RegInsert, RegSign, RegUpsertA, RegUpsertAAAA, RegRespond, RegDropRow,
         RegUndoA, RegUndoAAAA, TypeInv, TypeOK, Shapes, EnrollTypeOK
<1>g. ASSUME NEW step, Goto(r, step)
      PROVE  /\ reg'[r].dev = reg[r].dev /\ reg'[r].base = reg[r].base
             /\ reg'[r].v4 = reg[r].v4 /\ reg'[r].v6 = reg[r].v6
             /\ reg'[r].live = reg[r].live /\ reg'[r].k = reg[r].k
             /\ reg'[r].a = reg[r].a /\ reg'[r].aaaa = reg[r].aaaa
  BY <1>0, <1>g DEF Goto, RegRequest
<1>a. ~Answer(r)
  BY <1>0 DEF Answer
<1>1. CASE RegClientGone(r)
  <2>1. reg'[r] = [reg[r] EXCEPT !.live = FALSE]
    BY <1>0, <1>1 DEF RegClientGone
  <2> QED
    BY <1>0, <1>1, <2>1 DEF RegRequest
<1>2. CASE RegConsume(r)
  BY <1>0, <1>a, <1>g, <1>2 DEF RegConsume
<1>3. CASE RegProbe(r)
  <2>1. Goto(r, "postA") \/ reg' = [reg EXCEPT ![r].k = @ + 1]
    BY <1>a, <1>3 DEF RegProbe
  <2>2. CASE Goto(r, "postA")
    BY <1>0, <1>g, <2>2
  <2>3. CASE reg' = [reg EXCEPT ![r].k = @ + 1]
    <3>1. reg'[r] = [reg[r] EXCEPT !.k = @ + 1] /\ reg[r].pc = "probe"
      BY <1>0, <1>3, <2>3 DEF RegProbe
    <3> QED
      BY <1>0, <1>3, <3>1 DEF RegRequest
  <2> QED
    BY <2>1, <2>2, <2>3
<1>4. CASE RegPostA(r)
  <2>1. /\ PostRecord(Assigned(r), "A", reg[r].v4, reg[r].dev)
        /\ reg' = [reg EXCEPT ![r].a = {nextId},
                     ![r].pc = IF reg[r].v6 = {} THEN "insert" ELSE "postAAAA"]
    BY <1>a, <1>4 DEF RegPostA, Done
  <2>2. reg'[r] = [reg[r] EXCEPT !.a = {nextId},
                     !.pc = IF reg[r].v6 = {} THEN "insert" ELSE "postAAAA"]
    BY <1>0, <2>1
  <2>3. reg[r].a = {}
    BY <1>0, <1>4 DEF RegPostA, RegShape
  <2> QED
    BY <1>0, <1>4, <2>1, <2>2, <2>3 DEF RegRequest
<1>5. CASE RegPostAAAA(r)
  <2>1. \/ Goto(r, "undoA")
        \/ /\ PostRecord(Assigned(r), "AAAA", The(reg[r].v6), reg[r].dev)
           /\ reg' = [reg EXCEPT ![r].aaaa = {nextId}, ![r].pc = "insert"]
    BY <1>5 DEF RegPostAAAA, Done
  <2>2. CASE Goto(r, "undoA")
    BY <1>0, <1>g, <2>2
  <2>3. CASE /\ PostRecord(Assigned(r), "AAAA", The(reg[r].v6), reg[r].dev)
             /\ reg' = [reg EXCEPT ![r].aaaa = {nextId}, ![r].pc = "insert"]
    <3>1. reg'[r] = [reg[r] EXCEPT !.aaaa = {nextId}, !.pc = "insert"]
      BY <1>0, <2>3
    <3>2. reg[r].aaaa = {}
      BY <1>0, <1>5 DEF RegPostAAAA, RegShape
    <3> QED
      BY <1>0, <1>5, <2>3, <3>1, <3>2 DEF RegRequest
  <2> QED
    BY <2>1, <2>2, <2>3
<1>6. CASE RegInsert(r) \/ RegSign(r) \/ RegUpsertA(r) \/ RegUpsertAAAA(r) \/ RegDropRow(r)
  <2>1. \E step : Goto(r, step)
    BY <1>6 DEF RegInsert, RegSign, RegUpsertA, RegUpsertAAAA, RegDropRow
  <2> QED
    BY <1>0, <1>g, <2>1
<1>7. CASE RegRespond(r) \/ RegUndoA(r) \/ RegUndoAAAA(r)
  <2>1. \E step : Goto(r, step)
    BY <1>a, <1>7 DEF RegRespond, RegUndoA, RegUndoAAAA
  <2> QED
    BY <1>0, <1>g, <2>1
<1> QED
  BY <1>1, <1>2, <1>3, <1>4, <1>5, <1>6, <1>7 DEF RegStep

-----------------------------------------------------------------------------
(* Stranded rows *)

\* A request that loses its row answers 201 or drops the row first.
LEMMA HasRowAfter ==
  ASSUME TypeInv, NEW r \in Requests, RegStep(r) \/ RegClientGone(r), HasRow(r)
  PROVE  RegRespond(r) \/ RegDropRow(r) \/ HasRow(r)'
<1> USE DEF TypeInv, TypeOK, EnrollTypeOK, At, Goto, Answer, HasRow
<1>0. reg[r] # Idle /\ reg[r] \in RegRequest
  OBVIOUS
<1>1. CASE RegClientGone(r)
  BY <1>0, <1>1 DEF RegClientGone, RegRequest, Idle
<1>2. CASE RegConsume(r) \/ RegProbe(r) \/ RegPostA(r) \/ RegPostAAAA(r)
           \/ RegUndoA(r) \/ RegUndoAAAA(r) \/ RegInsert(r)
  BY <1>2 DEF RegConsume, RegProbe, RegPostA, RegPostAAAA, RegUndoA, RegUndoAAAA, RegInsert
<1>3. CASE RegSign(r) \/ RegUpsertA(r) \/ RegUpsertAAAA(r)
  BY <1>0, <1>3 DEF RegSign, RegUpsertA, RegUpsertAAAA, RegRequest, Idle
<1> QED
  BY <1>1, <1>2, <1>3 DEF RegStep

\* The row of a cam under a name is granted, or held by its registration.
Held(d, n) == \E r \in Requests : HasRow(r) /\ reg[r].dev = d /\ Assigned(r) = n
Safe(d, n) == [dev |-> d, sub |-> n] \in jwts \/ Held(d, n)

\* While rollbacks run and answers are written, every row stays safe.
LEMMA StrandStep ==
  ASSUME Faults \cap StrandFaults = {}
  PROVE  TypeInv /\ StrandInv /\ [Next]_vars => StrandInv'
<1> SUFFICES ASSUME TypeInv, StrandInv, [Next]_vars PROVE StrandInv'
  OBVIOUS
<1>f. /\ "db_down" \notin Faults /\ "db_lost" \notin Faults
      /\ "gone" \notin Faults /\ "crash" \notin Faults
      /\ DbReplies(TRUE) = {"ok"}
  BY DEF StrandFaults, DbReplies, CallReplies, Replies
<1>0. /\ \A r \in Requests : reg[r] # Idle => reg[r].live
      /\ \A row \in devices : Safe(row.id, row.sub)
  BY DEF StrandInv, Safe, Held
<1>p. ASSUME \A r \in Requests : reg'[r] # Idle => reg'[r].live,
             \A row \in devices' : Safe(row.id, row.sub)'
      PROVE  StrandInv'
  BY <1>p DEF StrandInv, Safe, Held
<1>1. CASE RegisterNext
  <2>1. PICK r \in Requests : RegArrive(r) \/ RegStep(r)
    BY <1>f, <1>1 DEF RegisterNext, RegClientGone
  <2>2. \A s \in Requests : s # r => /\ reg'[s] = reg[s]
                                     /\ HasRow(s)' = HasRow(s)
                                     /\ Assigned(s)' = Assigned(s)
    BY <2>1, RegFrame DEF HasRow, Assigned
  <2>3. \A s \in Requests : reg'[s] # Idle => reg'[s].live
    <3>1. RegArrive(r) /\ reg'[r] # Idle => reg'[r].live
      BY DEF RegArrive, TypeInv, TypeOK, EnrollTypeOK
    <3>2. RegStep(r) /\ reg'[r] # Idle => reg'[r].live
      BY <1>0, <1>f, RegMoves DEF RegClientGone
    <3> QED
      BY <1>0, <2>1, <2>2, <3>1, <3>2
  <2>4. jwts \subseteq jwts'
    BY <2>1, RegJwts
  \* A row that was safe is safe, unless the request that holds it is done.
  <2>5. \A d, n : Safe(d, n) =>
          \/ Safe(d, n)'
          \/ HasRow(r) /\ reg[r].dev = d /\ RegDropRow(r)
    <3> SUFFICES ASSUME NEW d, NEW n, Safe(d, n)
                 PROVE  Safe(d, n)' \/ (HasRow(r) /\ reg[r].dev = d /\ RegDropRow(r))
      OBVIOUS
    <3>1. CASE [dev |-> d, sub |-> n] \in jwts
      BY <2>4, <3>1 DEF Safe
    <3>2. ASSUME NEW s \in Requests, s # r, HasRow(s), reg[s].dev = d, Assigned(s) = n
          PROVE  Held(d, n)'
      BY <2>2, <3>2 DEF Held
    <3>3. CASE HasRow(r) /\ reg[r].dev = d /\ Assigned(r) = n
      <4>1. RegStep(r)
        BY <2>1, <3>3 DEF RegArrive, HasRow
      <4>2. CASE RegRespond(r)
        <5>1. reg[r].live
          BY <1>0, <3>3 DEF HasRow
        <5> QED
          BY <3>3, <4>2, <5>1 DEF RegRespond, Safe
      <4>3. CASE HasRow(r)'
        BY <3>3, <4>1, <4>3, HasRowBefore DEF Safe, Held
      <4> QED
        BY <3>3, <4>1, <4>2, <4>3, HasRowAfter
    <3> QED
      BY <3>1, <3>2, <3>3 DEF Safe, Held
  <2>6. CASE UNCHANGED devices /\ ~RegDropRow(r)
    BY <1>0, <1>p, <2>3, <2>5, <2>6
  <2>7. CASE RegInsert(r) /\ Insertable(NewRow(r)) /\ devices' = devices \cup {NewRow(r)}
    <3>1. ~RegDropRow(r)
      BY <2>7 DEF RegInsert, RegDropRow, At
    <3>2. reg[r] # Idle /\ reg[r] \in RegRequest /\ reg[r].live
      BY <1>0, <2>7 DEF RegInsert, At, TypeInv, TypeOK, EnrollTypeOK
    <3>3. Goto(r, "sign")
      BY <1>f, <2>7, <3>2 DEF RegInsert
    <3>4. HasRow(r)'
      BY <3>2, <3>3 DEF Goto, HasRow, RegRequest, Idle, TypeInv, TypeOK, EnrollTypeOK
    <3>5. Assigned(r)' = Assigned(r) /\ reg'[r].dev = reg[r].dev
      BY <2>7, <3>4, HasRowBefore DEF RegStep
    <3>6. \A d, n : d = NewRow(r).id /\ n = NewRow(r).sub => Safe(d, n)'
      BY <3>4, <3>5 DEF NewRow, Safe, Held
    <3>7. \A row \in devices : Safe(row.id, row.sub)'
      BY <1>0, <2>5, <3>1
    <3>8. \A row \in devices' : Safe(row.id, row.sub)'
      BY <2>7, <3>6, <3>7
    <3> QED
      BY <1>p, <2>3, <3>8
  <2>8. CASE RegDropRow(r)
    <3>1. reg[r] # Idle /\ reg[r].live
      BY <1>0, <2>8 DEF RegDropRow, At
    <3>2. devices' = devices \ RowOf(reg[r].dev)
      BY <1>f, <2>8, <3>1 DEF RegDropRow, DeleteDevice, Done
    <3> QED
      BY <1>0, <1>p, <2>3, <2>5, <3>2 DEF RowOf
  <2> QED
    BY <2>1, <2>6, <2>7, <2>8, RegRows
<1>2. CASE HeartbeatNext
  <2>1. PICK b \in Beats : BeatArrive(b) \/ BeatStep(b) \/ BeatClientGone(b)
    BY <1>2 DEF HeartbeatNext
  <2>2. UNCHANGED <<reg, jwts>>
    BY <2>1, HeartbeatFrame
  <2>3. \A row \in devices' : \E old \in devices : old.id = row.id /\ old.sub = row.sub
    BY <2>1, HeartbeatRows
  <2>4. \A d, n : Safe(d, n) => Safe(d, n)'
    BY <2>2 DEF Safe, Held, HasRow, Assigned
  <2>5. \A row \in devices : Safe(row.id, row.sub)'
    BY <1>0, <2>4
  <2>6. \A row \in devices' : Safe(row.id, row.sub)'
    <3> SUFFICES ASSUME NEW row \in devices' PROVE Safe(row.id, row.sub)'
      OBVIOUS
    <3>1. PICK old \in devices : old.id = row.id /\ old.sub = row.sub
      BY <2>3
    <3>2. Safe(old.id, old.sub)'
      BY <2>5
    <3> QED
      BY <3>1, <3>2
  <2> QED
    BY <1>0, <1>p, <2>2, <2>6
<1>3. CASE TokenNext \/ (\E d \in Devices : AdminDrop(d)) \/ UNCHANGED vars
  <2>1. UNCHANGED <<reg, jwts>> /\ devices' \subseteq devices
    BY <1>3 DEF TokenNext, MintToken, Revoke, TokenExpires, AdminDrop, DeleteDevice, vars,
       storeVars, enrollVars
  <2>2. \A d, n : Safe(d, n) => Safe(d, n)'
    BY <2>1 DEF Safe, Held, HasRow, Assigned
  <2> QED
    BY <1>0, <1>p, <2>1, <2>2
<1>4. ~HubCrash
  BY <1>f DEF HubCrash
<1> QED
  BY <1>1, <1>2, <1>3, <1>4 DEF Next

\* NO STRANDED ROW, whatever Cloudflare, the signer or an operator does,
\* while the statements of a rollback run and the answer is written: a device
\* row is granted or in the hands of the request that inserted it.
THEOREM RowsNotStranded ==
  ASSUME Faults \cap StrandFaults = {}
  PROVE  Spec => []NoStrandedRow
<1>1. Init => StrandInv
  BY DEF Init, StoreInit, EnrollInit, StrandInv
<1>2. StrandInv => NoStrandedRow
  BY DEF StrandInv, NoStrandedRow, Enrolling, HasRow
<1> QED
  BY <1>1, <1>2, TypeInit, TypeStep, StrandStep, PTL DEF Spec

-----------------------------------------------------------------------------
(* Pointers *)

\* The step of a heartbeat that leads to a PUT or to the mirror: it found
\* the pointer, made the record, or rewrote it.
LEMMA BeatMoves ==
  ASSUME TypeInv, NEW b \in Beats, BeatStep(b) \/ BeatClientGone(b),
         BeatAt(b, "put")' \/ BeatAt(b, "mirror")'
  PROVE  /\ beat[b] # Idle /\ Cam(b)' = Cam(b) /\ beat'[b].claim.sub = beat[b].claim.sub
         /\ Current(b)' = Current(b)
         /\ \/ /\ BeatAt(b, "put") \/ BeatAt(b, "mirror")
               /\ beat'[b].cf = beat[b].cf
            \/ /\ SyncGet(b)
               /\ \E x \in DnsRowOf(Cam(b), Current(b)) : beat'[b].cf = {x.cf}
            \/ /\ SyncPost(b) /\ beat'[b].cf = {nextId}
               /\ PostRecord(beat[b].claim.sub, Current(b), Reported(b), Cam(b))
<1> USE DEF BeatAt
<1>1. /\ beat[b] # Idle /\ beat[b] \in BeatRequest /\ beat'[b] # Idle
      /\ beat \in [Beats -> {Idle} \cup BeatRequest]
      /\ beat'[b].claim = beat[b].claim
  BY BeatKeeps DEF TypeInv, TypeOK, BeatTypeOK
<1> SUFFICES
      /\ beat'[b].todo = beat[b].todo
      /\ \/ /\ BeatAt(b, "put") \/ BeatAt(b, "mirror")
            /\ beat'[b].cf = beat[b].cf
         \/ /\ SyncGet(b)
            /\ \E x \in DnsRowOf(Cam(b), Current(b)) : beat'[b].cf = {x.cf}
         \/ /\ SyncPost(b) /\ beat'[b].cf = {nextId}
            /\ PostRecord(beat[b].claim.sub, Current(b), Reported(b), Cam(b))
  BY <1>1 DEF Cam, Current
<1>2. ~BeatAnswer(b) /\ ~BeatGoto(b, "post")
  BY <1>1 DEF BeatAnswer, BeatGoto, BeatRequest
<1>3. ~SyncReturn(b)
  BY <1>1, <1>2 DEF SyncReturn, BeatRequest
<1>4. ASSUME NEW step, BeatGoto(b, step)
      PROVE  beat'[b].todo = beat[b].todo /\ beat'[b].cf = beat[b].cf
  BY <1>1, <1>4 DEF BeatGoto, BeatRequest
<1>5. ~BeatLookup(b)
  <2> SUFFICES ASSUME BeatLookup(b) PROVE FALSE
    OBVIOUS
  <2>0. ~BeatAnswer(b)
    BY <1>2
  <2>1. PICK row : beat' = [beat EXCEPT ![b].pc = "update", ![b].oldV4 = {row.v4},
                                        ![b].oldV6 = row.v6]
    BY <2>0 DEF BeatLookup
  <2>2. beat'[b] = [beat[b] EXCEPT !.pc = "update", !.oldV4 = {row.v4}, !.oldV6 = row.v6]
    BY <1>1, <2>1
  <2> QED
    BY <1>1, <2>2 DEF BeatRequest
<1>6. ~BeatUpdate(b)
  BY <1>1, <1>2 DEF BeatUpdate, BeatRequest
<1>7. CASE SyncGet(b)
  <2>1. PICK x \in DnsRowOf(Cam(b), Current(b)) :
          beat' = [beat EXCEPT ![b].pc = "put", ![b].cf = {x.cf}]
    BY <1>2, <1>3, <1>7 DEF SyncGet
  <2>2. beat'[b].todo = beat[b].todo /\ beat'[b].cf = {x.cf}
    BY <1>1, <2>1 DEF BeatRequest
  <2> QED
    BY <1>7, <2>2
<1>8. CASE SyncPost(b)
  <2>1. /\ PostRecord(beat[b].claim.sub, Current(b), Reported(b), Cam(b))
        /\ beat' = [beat EXCEPT ![b].pc = "mirror", ![b].cf = {nextId}]
    BY <1>3, <1>8 DEF SyncPost, Done
  <2>2. beat'[b].todo = beat[b].todo /\ beat'[b].cf = {nextId}
    BY <1>1, <2>1 DEF BeatRequest
  <2> QED
    BY <1>8, <2>1, <2>2
<1>9. CASE SyncPut(b)
  BY <1>1, <1>3, <1>4, <1>9 DEF SyncPut
<1>10. ~SyncMirror(b)
  BY <1>3 DEF SyncMirror
<1>11. CASE BeatClientGone(b)
  <2>1. beat'[b] = [beat[b] EXCEPT !.live = FALSE]
    BY <1>1, <1>11 DEF BeatClientGone
  <2> QED
    BY <1>1, <2>1 DEF BeatRequest
<1> QED
  BY <1>5, <1>6, <1>7, <1>8, <1>9, <1>10, <1>11 DEF BeatStep

\* The ids that are spoken of are numbers.
LEMMA LabelIds ==
  ASSUME TypeInv
  PROVE  /\ nextId \in Nat
         /\ \A l \in Labels : l.id \in Nat
<1> USE DEF TypeInv, TypeOK
<1>1. \A l \in ZoneLabels : l.id \in Nat
  BY DEF ZoneLabels, Label, ZoneTypeOK, ZoneRecord
<1>2. \A l \in RowLabels : l.id \in Nat
  BY DEF RowLabels, Label, StoreTypeOK, DnsRow
<1>3. \A r \in Requests : \A l \in RegLabels(r) : l.id \in Nat
  BY DEF RegLabels, Label, EnrollTypeOK, RegRequest, Opt
<1>4. \A b \in Beats : \A l \in BeatLabels(b) : l.id \in Nat
  BY DEF BeatLabels, BeatAt, Label, BeatTypeOK, BeatRequest, Opt
<1>5. nextId \in Nat
  BY DEF ZoneTypeOK
<1> HIDE DEF TypeInv, TypeOK
<1> QED
  BY <1>1, <1>2, <1>3, <1>4, <1>5 DEF Labels

\* A step that speaks of no id anew keeps the labels consistent, and so does
\* one that speaks of the fresh id only, with one label.
LEMMA LabelsGrow ==
  ASSUME TypeInv, LabelInv, NEW new,
         \/ nextId' = nextId /\ Labels' \subseteq Labels
         \/ /\ nextId' = nextId + 1 /\ new.id = nextId
            /\ Labels' \subseteq Labels \cup {new}
  PROVE  LabelInv'
<1>1. nextId \in Nat /\ \A l \in Labels : l.id \in Nat
  BY LabelIds
<1>2. \A l \in Labels : l.id < nextId
  BY DEF LabelInv
<1>3. \A l, m \in Labels : l.id = m.id => l = m
  BY DEF LabelInv
<1> SUFFICES /\ \A l \in Labels' : l.id < nextId'
             /\ \A l, m \in Labels' : l.id = m.id => l = m
  BY DEF LabelInv
<1> QED
  BY <1>1, <1>2, <1>3

\* The two POSTs of a registration, when they reach Cloudflare.
PostsA(r) == RegPostA(r) /\ PostRecord(Assigned(r), "A", reg[r].v4, reg[r].dev)
PostsAAAA(r) ==
  RegPostAAAA(r) /\ PostRecord(Assigned(r), "AAAA", The(reg[r].v6), reg[r].dev)

\* What a registration does to the zone: a POST, or at most a DELETE.
LEMMA RegZone ==
  ASSUME NEW r \in Requests, RegArrive(r) \/ RegStep(r) \/ RegClientGone(r)
  PROVE  PostsA(r) \/ PostsAAAA(r) \/ (nextId' = nextId /\ zone' \subseteq zone)
<1> USE DEF zoneVars
<1>1. CASE RegPostA(r)
  BY <1>1 DEF RegPostA, PostsA
<1>2. CASE RegPostAAAA(r)
  BY <1>2 DEF RegPostAAAA, PostsAAAA
<1>3. CASE RegUndoA(r) \/ RegUndoAAAA(r)
  BY <1>3 DEF RegUndoA, RegUndoAAAA, DeleteRecord
<1>4. CASE RegArrive(r) \/ RegClientGone(r) \/ RegConsume(r) \/ RegProbe(r) \/ RegInsert(r)
  BY <1>4 DEF RegArrive, RegClientGone, RegConsume, RegProbe, RegInsert
<1>5. CASE RegSign(r) \/ RegUpsertA(r) \/ RegUpsertAAAA(r) \/ RegRespond(r) \/ RegDropRow(r)
  BY <1>5 DEF RegSign, RegUpsertA, RegUpsertAAAA, RegRespond, RegDropRow
<1> QED
  BY <1>1, <1>2, <1>3, <1>4, <1>5 DEF RegStep

\* The pointer a registration, or a DNS sync, upserts.
PointerA(r) == [dev |-> reg[r].dev, type |-> "A", fqdn |-> Assigned(r),
                value |-> reg[r].v4, cf |-> The(reg[r].a)]
PointerAAAA(r) == [dev |-> reg[r].dev, type |-> "AAAA", fqdn |-> Assigned(r),
                   value |-> The(reg[r].v6), cf |-> The(reg[r].aaaa)]
PointerOf(b) == [dev |-> Cam(b), type |-> Current(b), fqdn |-> beat[b].claim.sub,
                 value |-> Reported(b), cf |-> The(beat[b].cf)]

\* What a registration does to dns_records: an upsert, or the cascade of the
\* row it drops.
LEMMA RegDns ==
  ASSUME NEW r \in Requests, RegArrive(r) \/ RegStep(r) \/ RegClientGone(r)
  PROVE  \/ RegUpsertA(r) /\ UpsertDns(PointerA(r))
         \/ RegUpsertAAAA(r) /\ UpsertDns(PointerAAAA(r))
         \/ RegDropRow(r) /\ DeleteDevice(reg[r].dev)
         \/ UNCHANGED dnsRows
<1> USE DEF storeVars
<1>1. CASE RegUpsertA(r) \/ RegUpsertAAAA(r) \/ RegDropRow(r)
  BY <1>1 DEF RegUpsertA, RegUpsertAAAA, RegDropRow, PointerA, PointerAAAA
<1>2. CASE RegArrive(r) \/ RegClientGone(r) \/ RegConsume(r) \/ RegProbe(r) \/ RegInsert(r)
  BY <1>2 DEF RegArrive, RegClientGone, RegConsume, RegProbe, RegInsert
<1>3. CASE RegPostA(r) \/ RegPostAAAA(r) \/ RegSign(r) \/ RegRespond(r)
           \/ RegUndoA(r) \/ RegUndoAAAA(r)
  BY <1>3 DEF RegPostA, RegPostAAAA, RegSign, RegRespond, RegUndoA, RegUndoAAAA
<1> QED
  BY <1>1, <1>2, <1>3 DEF RegStep

\* What a heartbeat does to the zone and to dns_records.
LEMMA BeatDns ==
  ASSUME NEW b \in Beats, BeatArrive(b) \/ BeatStep(b) \/ BeatClientGone(b)
  PROVE  /\ \/ UNCHANGED zoneVars
            \/ /\ SyncPost(b)
               /\ PostRecord(beat[b].claim.sub, Current(b), Reported(b), Cam(b))
            \/ /\ SyncPut(b)
               /\ \E id \in beat[b].cf :
                    PutRecord(id, beat[b].claim.sub, Current(b), Reported(b), Cam(b))
         /\ \/ UNCHANGED dnsRows
            \/ SyncMirror(b) /\ UpsertDns(PointerOf(b))
<1> USE DEF storeVars
<1>1. CASE SyncPost(b)
  BY <1>1 DEF SyncPost
<1>2. CASE SyncPut(b)
  BY <1>2 DEF SyncPut
<1>3. CASE SyncMirror(b)
  BY <1>3 DEF SyncMirror, PointerOf
<1>4. CASE BeatArrive(b) \/ BeatClientGone(b) \/ BeatLookup(b) \/ BeatUpdate(b) \/ SyncGet(b)
  BY <1>4 DEF BeatArrive, BeatClientGone, BeatLookup, BeatUpdate, SyncGet
<1> QED
  BY <1>1, <1>2, <1>3, <1>4 DEF BeatStep

\* A registration speaks anew only of the id of a record it just made.
LEMMA RegLabelsStep ==
  ASSUME TypeInv, NEW r \in Requests, RegArrive(r) \/ RegStep(r) \/ RegClientGone(r),
         NEW l \in RegLabels(r)'
  PROVE  \/ l \in RegLabels(r)
         \/ PostsA(r) /\ l = Label(nextId, reg[r].dev, Assigned(r), "A")
         \/ PostsAAAA(r) /\ l = Label(nextId, reg[r].dev, Assigned(r), "AAAA")
<1>1. reg'[r] # Idle
  BY DEF RegLabels
<1>2. ~RegArrive(r)
  <2> SUFFICES ASSUME RegArrive(r) PROVE FALSE
    OBVIOUS
  <2>1. reg'[r].a = {} /\ reg'[r].aaaa = {}
    BY DEF RegArrive, TypeInv, TypeOK, EnrollTypeOK
  <2> QED
    BY <2>1 DEF RegLabels
<1>3. /\ reg[r] # Idle
      /\ reg'[r].dev = reg[r].dev /\ reg'[r].base = reg[r].base
      /\ reg'[r].k = reg[r].k \/ RegProbe(r)
      /\ reg'[r].a = reg[r].a \/ (PostsA(r) /\ reg'[r].a = {nextId})
      /\ reg'[r].aaaa = reg[r].aaaa \/ (PostsAAAA(r) /\ reg'[r].aaaa = {nextId})
  BY <1>1, <1>2, RegMoves DEF PostsA, PostsAAAA
<1>4. reg'[r].k = reg[r].k
  <2> SUFFICES ASSUME RegProbe(r) PROVE FALSE
    BY <1>3
  <2>1. reg[r].pc = "probe" /\ reg[r].a = {} /\ reg[r].aaaa = {}
    BY DEF RegProbe, At, TypeInv, Shapes, RegShape
  <2>2. ~PostsA(r) /\ ~PostsAAAA(r)
    BY <2>1 DEF PostsA, PostsAAAA, RegPostA, RegPostAAAA, At
  <2> QED
    BY <1>3, <2>1, <2>2 DEF RegLabels
<1>5. Assigned(r)' = Assigned(r)
  BY <1>3, <1>4 DEF Assigned
<1>6. \/ \E id \in reg'[r].a : l = Label(id, reg[r].dev, Assigned(r), "A")
      \/ \E id \in reg'[r].aaaa : l = Label(id, reg[r].dev, Assigned(r), "AAAA")
  BY <1>1, <1>3, <1>5 DEF RegLabels
<1> QED
  BY <1>3, <1>6 DEF RegLabels

\* A DNS sync speaks anew only of the id the cam's pointer holds, or of the
\* id of a record it just made.
LEMMA BeatLabelsStep ==
  ASSUME TypeInv, GrantInv, PointerInv,
         NEW b \in Beats, BeatArrive(b) \/ BeatStep(b) \/ BeatClientGone(b),
         NEW l \in BeatLabels(b)'
  PROVE  \/ l \in BeatLabels(b) \cup RowLabels
         \/ /\ SyncPost(b)
            /\ PostRecord(beat[b].claim.sub, Current(b), Reported(b), Cam(b))
            /\ l = Label(nextId, Cam(b), beat[b].claim.sub, Current(b))
<1>1. BeatAt(b, "put")' \/ BeatAt(b, "mirror")'
  BY DEF BeatLabels
<1>2. ~BeatArrive(b)
  BY <1>1 DEF BeatArrive, BeatAt, TypeInv, TypeOK, BeatTypeOK
<1>3. \E id \in beat'[b].cf : l = Label(id, Cam(b), beat[b].claim.sub, Current(b))
  BY <1>1, <1>2, BeatMoves DEF BeatLabels
<1>4. CASE /\ BeatAt(b, "put") \/ BeatAt(b, "mirror")
           /\ beat'[b].cf = beat[b].cf
  BY <1>3, <1>4 DEF BeatLabels
<1>5. ASSUME NEW x \in DnsRowOf(Cam(b), Current(b)), beat'[b].cf = {x.cf}
      PROVE  l \in RowLabels
  <2>1. x \in dnsRows /\ x.dev = Cam(b) /\ x.type = Current(b)
    BY DEF DnsRowOf
  <2>2. beat[b].claim \in jwts /\ beat[b].claim.dev = Cam(b)
    BY <1>1, <1>2, BeatMoves DEF PointerInv, BeatsHoldJwts, Cam
  <2>3. PICK row \in devices : row.id = Cam(b) /\ row.sub = beat[b].claim.sub
    BY <2>2 DEF GrantInv, GrantedKeepsRow, RowOf
  <2>4. PICK old \in devices : old.id = x.dev /\ old.sub = x.fqdn
    BY <2>1 DEF PointerInv, DnsNamed
  <2>5. x.fqdn = beat[b].claim.sub
    BY <2>1, <2>3, <2>4 DEF PointerInv, RowKey
  <2> QED
    BY <1>3, <1>5, <2>1, <2>5 DEF RowLabels
<1> QED
  BY <1>1, <1>2, <1>3, <1>4, <1>5, BeatMoves

\* The fields of a label.
LEMMA LabelFields ==
  ASSUME NEW id, NEW d, NEW n, NEW t
  PROVE  /\ Label(id, d, n, t).id = id /\ Label(id, d, n, t).dev = d
         /\ Label(id, d, n, t).name = n /\ Label(id, d, n, t).type = t
BY DEF Label

\* A record just made has the label of the one who made it.
LEMMA PostLabels ==
  ASSUME NEW n, NEW t, NEW v, NEW d, PostRecord(n, t, v, d)
  PROVE  /\ nextId' = nextId + 1
         /\ ZoneLabels' \subseteq ZoneLabels \cup {Label(nextId, d, n, t)}
<1> DEFINE rec == [id |-> nextId, name |-> n, type |-> t, value |-> v, owner |-> d]
<1>1. zone' = zone \cup {rec} /\ nextId' = nextId + 1
  BY DEF PostRecord
<1>2. rec.id = nextId /\ rec.owner = d /\ rec.name = n /\ rec.type = t
  OBVIOUS
<1> HIDE DEF rec
<1> QED
  BY <1>1, <1>2 DEF ZoneLabels

\* Each label afterwards is that of a record, a row, a registration or a sync.
LEMMA LabelsSplit ==
  /\ \A l \in Labels' : \/ l \in ZoneLabels' \/ l \in RowLabels'
                        \/ \E r \in Requests : l \in RegLabels(r)'
                        \/ \E b \in Beats : l \in BeatLabels(b)'
  /\ ZoneLabels \subseteq Labels /\ RowLabels \subseteq Labels
  /\ \A r \in Requests : RegLabels(r) \subseteq Labels
  /\ \A b \in Beats : BeatLabels(b) \subseteq Labels
BY DEF Labels

\* A registration keeps the labels consistent.
LEMMA RegLabelInv ==
  ASSUME TypeInv, LabelInv, NEW r \in Requests,
         RegArrive(r) \/ RegStep(r) \/ RegClientGone(r), UNCHANGED beat
  PROVE  LabelInv'
<1>1. \A s \in Requests : s # r => RegLabels(s)' = RegLabels(s)
  BY RegFrame DEF RegLabels, Assigned
<1>2. \A b \in Beats : BeatLabels(b)' = BeatLabels(b)
  BY DEF BeatLabels, BeatAt, Cam, Current
<1>3. RowLabels' \subseteq RowLabels \cup RegLabels(r)
  <2>1. CASE RegUpsertA(r) /\ UpsertDns(PointerA(r))
    <3>1. reg[r] # Idle /\ The(reg[r].a) \in reg[r].a
      BY <2>1, OptElim DEF RegUpsertA, At, TypeInv, TypeOK, Shapes, RegShape,
                          EnrollTypeOK, RegRequest
    <3>2. \A x \in dnsRows' : x \in dnsRows \/ x = PointerA(r)
      BY <2>1 DEF UpsertDns
    <3>3. Label(PointerA(r).cf, PointerA(r).dev, PointerA(r).fqdn, PointerA(r).type)
             \in RegLabels(r)
      BY <3>1 DEF PointerA, RegLabels
    <3> QED
      BY <3>2, <3>3 DEF RowLabels
  <2>2. CASE RegUpsertAAAA(r) /\ UpsertDns(PointerAAAA(r))
    <3>1. reg[r] # Idle /\ The(reg[r].aaaa) \in reg[r].aaaa
      BY <2>2, OptElim DEF RegUpsertAAAA, At, TypeInv, TypeOK, Shapes, RegShape,
                          EnrollTypeOK, RegRequest
    <3>2. \A x \in dnsRows' : x \in dnsRows \/ x = PointerAAAA(r)
      BY <2>2 DEF UpsertDns
    <3>3. Label(PointerAAAA(r).cf, PointerAAAA(r).dev, PointerAAAA(r).fqdn,
                PointerAAAA(r).type) \in RegLabels(r)
      BY <3>1 DEF PointerAAAA, RegLabels
    <3> QED
      BY <3>2, <3>3 DEF RowLabels
  <2>3. CASE UNCHANGED dnsRows \/ DeleteDevice(reg[r].dev)
    BY <2>3 DEF DeleteDevice, RowLabels
  <2> QED
    BY <2>1, <2>2, <2>3, RegDns
\* One label may be new, that of a POST.
<1>4. CASE PostsA(r)
  <2>1. ~PostsAAAA(r)
    BY <1>4 DEF PostsA, PostsAAAA, RegPostA, RegPostAAAA, At
  <2>2. /\ nextId' = nextId + 1
        /\ ZoneLabels' \subseteq ZoneLabels \cup
             {Label(nextId, reg[r].dev, Assigned(r), "A")}
    BY <1>4, PostLabels DEF PostsA
  <2> DEFINE new == Label(nextId, reg[r].dev, Assigned(r), "A")
  <2>3. Labels' \subseteq Labels \cup {new}
    BY <1>1, <1>2, <1>3, <2>1, <2>2, RegLabelsStep, LabelsSplit
  <2>4. new.id = nextId
    BY LabelFields
  <2> HIDE DEF new
  <2> QED
    BY <2>2, <2>3, <2>4, LabelsGrow
<1>5. CASE PostsAAAA(r)
  <2>1. ~PostsA(r)
    BY <1>5 DEF PostsA, PostsAAAA, RegPostA, RegPostAAAA, At
  <2>2. /\ nextId' = nextId + 1
        /\ ZoneLabels' \subseteq ZoneLabels \cup
             {Label(nextId, reg[r].dev, Assigned(r), "AAAA")}
    BY <1>5, PostLabels DEF PostsAAAA
  <2> DEFINE new == Label(nextId, reg[r].dev, Assigned(r), "AAAA")
  <2>3. Labels' \subseteq Labels \cup {new}
    BY <1>1, <1>2, <1>3, <2>1, <2>2, RegLabelsStep, LabelsSplit
  <2>4. new.id = nextId
    BY LabelFields
  <2> HIDE DEF new
  <2> QED
    BY <2>2, <2>3, <2>4, LabelsGrow
<1>6. CASE ~PostsA(r) /\ ~PostsAAAA(r)
  <2>1. nextId' = nextId /\ zone' \subseteq zone
    BY <1>6, RegZone
  <2>2. ZoneLabels' \subseteq ZoneLabels
    BY <2>1 DEF ZoneLabels
  <2>3. Labels' \subseteq Labels
    BY <1>1, <1>2, <1>3, <1>6, <2>2, RegLabelsStep, LabelsSplit
  <2> QED
    BY <2>1, <2>3, LabelsGrow
<1> QED
  BY <1>4, <1>5, <1>6

\* A heartbeat keeps the labels consistent.
LEMMA BeatLabelInv ==
  ASSUME TypeInv, GrantInv, PointerInv,
         NEW b \in Beats, BeatArrive(b) \/ BeatStep(b) \/ BeatClientGone(b)
  PROVE  LabelInv'
<1> DEFINE new == Label(nextId, Cam(b), beat[b].claim.sub, Current(b))
<1>0. LabelInv /\ new.id = nextId
  BY LabelFields DEF PointerInv
<1>1. \A c \in Beats : c # b => BeatLabels(c)' = BeatLabels(c)
  BY BeatFrame DEF BeatLabels, BeatAt, Cam, Current
<1>2. \A r \in Requests : RegLabels(r)' = RegLabels(r)
  BY HeartbeatFrame DEF RegLabels, Assigned
<1>3. RowLabels' \subseteq RowLabels \cup BeatLabels(b)
  <2>1. CASE SyncMirror(b) /\ UpsertDns(PointerOf(b))
    <3>1. BeatAt(b, "mirror") /\ The(beat[b].cf) \in beat[b].cf
      BY <2>1, OptElim DEF SyncMirror, BeatAt, TypeInv, TypeOK, Shapes, BeatShape,
                           BeatTypeOK, BeatRequest
    <3>2. \A x \in dnsRows' : x \in dnsRows \/ x = PointerOf(b)
      BY <2>1 DEF UpsertDns
    <3>3. Label(PointerOf(b).cf, PointerOf(b).dev, PointerOf(b).fqdn, PointerOf(b).type)
             \in BeatLabels(b)
      BY <3>1 DEF PointerOf, BeatLabels
    <3> QED
      BY <3>2, <3>3 DEF RowLabels
  <2>2. CASE UNCHANGED dnsRows
    BY <2>2 DEF RowLabels
  <2> QED
    BY <2>1, <2>2, BeatDns
<1>4. CASE SyncPost(b) /\ PostRecord(beat[b].claim.sub, Current(b), Reported(b), Cam(b))
  <2>1. nextId' = nextId + 1 /\ ZoneLabels' \subseteq ZoneLabels \cup {new}
    BY <1>4, PostLabels
  <2> HIDE DEF new
  <2>2. BeatLabels(b)' \subseteq BeatLabels(b) \cup RowLabels \cup {new}
    BY BeatLabelsStep DEF new
  <2>3. Labels' \subseteq Labels \cup {new}
    BY <1>1, <1>2, <1>3, <2>1, <2>2, LabelsSplit
  <2> QED
    BY <1>0, <2>1, <2>3, LabelsGrow
<1>5. ASSUME ~(SyncPost(b) /\ PostRecord(beat[b].claim.sub, Current(b), Reported(b), Cam(b)))
      PROVE  LabelInv'
  <2>1. nextId' = nextId /\ ZoneLabels' \subseteq ZoneLabels \cup BeatLabels(b)
    <3>1. CASE UNCHANGED zoneVars
      BY <3>1 DEF zoneVars, ZoneLabels
    <3>2. ASSUME SyncPut(b), NEW id \in beat[b].cf,
                 PutRecord(id, beat[b].claim.sub, Current(b), Reported(b), Cam(b))
          PROVE  nextId' = nextId /\ ZoneLabels' \subseteq ZoneLabels \cup BeatLabels(b)
      <4> DEFINE rec == [id |-> id, name |-> beat[b].claim.sub, type |-> Current(b),
                         value |-> Reported(b), owner |-> Cam(b)]
      <4>1. nextId' = nextId /\ \A z \in zone' : z \in zone \/ z = rec
        BY <3>2 DEF PutRecord
      <4>2. Label(rec.id, rec.owner, rec.name, rec.type) \in BeatLabels(b)
        BY <3>2 DEF BeatLabels, SyncPut
      <4> HIDE DEF rec
      <4> QED
        BY <4>1, <4>2 DEF ZoneLabels
    <3> QED
      BY <1>5, <3>1, <3>2, BeatDns
  <2>2. BeatLabels(b)' \subseteq BeatLabels(b) \cup RowLabels
    BY <1>5, BeatLabelsStep
  <2>3. Labels' \subseteq Labels
    BY <1>1, <1>2, <1>3, <2>1, <2>2, LabelsSplit
  <2> QED
    BY <1>0, <2>1, <2>3, LabelsGrow
<1> QED
  BY <1>4, <1>5

\* What a heartbeat writes into the rows of devices.
LEMMA BeatRows ==
  ASSUME NEW b \in Beats, BeatArrive(b) \/ BeatStep(b) \/ BeatClientGone(b)
  PROVE  \/ UNCHANGED devices
         \/ BeatUpdate(b) /\ UpdateHeartbeat(Cam(b), beat[b].v4, beat[b].v6)
BY DEF BeatArrive, BeatStep, BeatClientGone, BeatLookup, BeatUpdate, SyncGet,
       SyncPost, SyncPut, SyncMirror, storeVars

\* An upsert keeps the key of dns_records and adds one row.
LEMMA UpsertKeys ==
  ASSUME DnsKey, NEW x, UpsertDns(x)
  PROVE  DnsKey' /\ \A y \in dnsRows' : y \in dnsRows \/ y = x
<1>1. \A y \in dnsRows' : \/ y \in dnsRows /\ ~(y.dev = x.dev /\ y.type = x.type)
                          \/ y = x
                          \/ dnsRows' = dnsRows
  BY DEF UpsertDns, DnsRowOf
<1>2. \A y \in dnsRows' : y \in dnsRows \/ y = x
  BY <1>1
<1> QED
  BY <1>1, <1>2 DEF DnsKey

\* PointerInv is inductive while no operator deletes rows.
LEMMA PointerStep ==
  ASSUME "admin_drop" \notin Faults
  PROVE  TypeInv /\ GrantInv /\ PointerInv /\ [Next]_vars => PointerInv'
<1> SUFFICES ASSUME TypeInv, GrantInv, PointerInv, [Next]_vars PROVE PointerInv'
  OBVIOUS
<1>0. LabelInv /\ RowKey /\ DnsKey /\ DnsNamed /\ BeatsHoldJwts
  BY DEF PointerInv
<1>p. LabelInv' /\ RowKey' /\ DnsKey' /\ DnsNamed' /\ BeatsHoldJwts' => PointerInv'
  BY DEF PointerInv
<1>1. CASE RegisterNext
  <2>0. PICK r \in Requests : RegArrive(r) \/ RegStep(r) \/ RegClientGone(r)
    BY <1>1 DEF RegisterNext
  <2>1. UNCHANGED beat
    BY <1>1 DEF RegisterNext
  <2>2. LabelInv'
    BY <1>0, <2>0, <2>1, RegLabelInv
  <2>3. RowKey'
    <3>1. CASE Insertable(NewRow(r)) /\ devices' = devices \cup {NewRow(r)}
      <4>1. \A old \in devices : old.id # NewRow(r).id
        BY <3>1 DEF Insertable, RowOf
      <4> QED
        BY <1>0, <3>1, <4>1 DEF RowKey
    <3>2. CASE devices' \subseteq devices
      BY <1>0, <3>2 DEF RowKey
    <3> QED
      BY <2>0, <3>1, <3>2, RegRows
  \* Whoever upserts a pointer names the row its device has.
  <2>4. HasRow(r) => \E row \in devices : row.id = reg[r].dev /\ row.sub = Assigned(r)
    BY DEF GrantInv, RowOf
  <2>5. ASSUME RegDropRow(r) /\ DeleteDevice(reg[r].dev)
        PROVE  DnsKey' /\ DnsNamed'
    <3>1. \A x \in dnsRows' : x \in dnsRows /\ x.dev # reg[r].dev
      BY <2>5 DEF DeleteDevice
    <3>2. \A row \in devices : row.id # reg[r].dev => row \in devices'
      BY <2>5 DEF DeleteDevice, RowOf
    <3>3. \A x \in dnsRows : \E row \in devices : row.id = x.dev /\ row.sub = x.fqdn
      BY <1>0 DEF DnsNamed
    <3>4. \A x \in dnsRows' : \E row \in devices' : row.id = x.dev /\ row.sub = x.fqdn
      BY <3>1, <3>2, <3>3
    <3> QED
      <4>1. DnsKey'
        BY <1>0, <3>1 DEF DnsKey
      <4>2. DnsNamed'
        BY <3>4 DEF DnsNamed
      <4> QED
        BY <4>1, <4>2
  <2>6. ~(RegDropRow(r) /\ DeleteDevice(reg[r].dev)) => devices \subseteq devices'
    <3>1. RegDropRow(r) => \/ DeleteDevice(reg[r].dev) \/ UNCHANGED devices
      BY DEF RegDropRow
    <3> QED
      BY <2>0, <3>1, RegRows
  <2>7. ASSUME ~(RegDropRow(r) /\ DeleteDevice(reg[r].dev))
        PROVE  DnsKey' /\ DnsNamed'
    <3>1. CASE RegUpsertA(r) /\ UpsertDns(PointerA(r))
      <4>1. HasRow(r)
        BY <3>1 DEF RegUpsertA, At, HasRow
      <4>2. PointerA(r).dev = reg[r].dev /\ PointerA(r).fqdn = Assigned(r)
        BY DEF PointerA
      <4> QED
        BY <1>0, <2>4, <2>6, <2>7, <3>1, <4>1, <4>2, UpsertKeys DEF DnsNamed
    <3>2. CASE RegUpsertAAAA(r) /\ UpsertDns(PointerAAAA(r))
      <4>1. HasRow(r)
        BY <3>2 DEF RegUpsertAAAA, At, HasRow
      <4>2. PointerAAAA(r).dev = reg[r].dev /\ PointerAAAA(r).fqdn = Assigned(r)
        BY DEF PointerAAAA
      <4> QED
        BY <1>0, <2>4, <2>6, <2>7, <3>2, <4>1, <4>2, UpsertKeys DEF DnsNamed
    <3>3. CASE UNCHANGED dnsRows
      BY <1>0, <2>6, <2>7, <3>3 DEF DnsKey, DnsNamed
    <3> QED
      BY <2>0, <2>7, <3>1, <3>2, <3>3, RegDns
  <2>8. BeatsHoldJwts'
    <3>1. jwts \subseteq jwts'
      BY <2>0, RegJwts
    <3> QED
      BY <1>0, <2>1, <3>1 DEF BeatsHoldJwts
  <2> QED
    BY <1>p, <2>2, <2>3, <2>5, <2>7, <2>8
<1>2. CASE HeartbeatNext
  <2>0. PICK b \in Beats : BeatArrive(b) \/ BeatStep(b) \/ BeatClientGone(b)
    BY <1>2 DEF HeartbeatNext
  <2>1. LabelInv'
    BY <2>0, BeatLabelInv
  <2>2. RowKey'
    <3>1. CASE BeatUpdate(b) /\ UpdateHeartbeat(Cam(b), beat[b].v4, beat[b].v6)
      <4> DEFINE new(row) == IF row.id = Cam(b)
                             THEN [row EXCEPT !.v4 = beat[b].v4,
                                     !.v6 = IF beat[b].v6 = {} THEN @ ELSE beat[b].v6]
                             ELSE row
      <4>1. \A row \in devices : new(row).id = row.id
        BY DEF TypeInv, TypeOK, StoreTypeOK, DeviceRow
      <4>2. devices' = {new(row) : row \in devices}
        BY <3>1 DEF UpdateHeartbeat
      <4> HIDE DEF new
      <4> QED
        BY <1>0, <4>1, <4>2 DEF RowKey
    <3>2. CASE UNCHANGED devices
      BY <1>0, <3>2 DEF RowKey
    <3> QED
      BY <2>0, <3>1, <3>2, BeatRows
  <2>3. \A old \in devices : \E row \in devices' : old.id = row.id /\ old.sub = row.sub
    BY <2>0, HeartbeatRows
  <2>n. ASSUME \A y \in dnsRows' : \E row \in devices : row.id = y.dev /\ row.sub = y.fqdn
        PROVE  DnsNamed'
    <3> SUFFICES ASSUME NEW y \in dnsRows'
                 PROVE  \E row \in devices' : row.id = y.dev /\ row.sub = y.fqdn
      BY DEF DnsNamed
    <3>1. PICK old \in devices : old.id = y.dev /\ old.sub = y.fqdn
      BY <2>n
    <3> QED
      BY <2>3, <3>1
  <2>4. ASSUME SyncMirror(b) /\ UpsertDns(PointerOf(b))
        PROVE  DnsKey' /\ DnsNamed'
    <3>1. beat[b].claim \in jwts /\ beat[b].claim.dev = Cam(b)
      BY <1>0, <2>4 DEF SyncMirror, BeatAt, BeatsHoldJwts, Cam
    <3>2. \E row \in devices : row.id = Cam(b) /\ row.sub = beat[b].claim.sub
      BY <3>1 DEF GrantInv, GrantedKeepsRow, RowOf
    <3>3. PointerOf(b).dev = Cam(b) /\ PointerOf(b).fqdn = beat[b].claim.sub
      BY DEF PointerOf
    <3>4. DnsKey' /\ \A y \in dnsRows' : y \in dnsRows \/ y = PointerOf(b)
      BY <1>0, <2>4, UpsertKeys
    <3>5. \A y \in dnsRows' : \E row \in devices : row.id = y.dev /\ row.sub = y.fqdn
      BY <1>0, <3>2, <3>3, <3>4 DEF DnsNamed
    <3> QED
      <4>1. DnsNamed'
        BY <3>5, <2>n
      <4> QED
        BY <3>4, <4>1
  <2>5. ASSUME UNCHANGED dnsRows
        PROVE  DnsKey' /\ DnsNamed'
    <3>1. \A y \in dnsRows' : \E row \in devices : row.id = y.dev /\ row.sub = y.fqdn
      BY <1>0, <2>5 DEF DnsNamed
    <3> QED
      <4>1. DnsNamed'
        BY <2>n, <3>1
      <4> QED
        BY <1>0, <2>5, <4>1 DEF DnsKey
  <2>6. BeatsHoldJwts'
    BY <1>0, <2>0, BeatFrame, BeatClaims, HeartbeatFrame DEF BeatsHoldJwts
  <2> QED
    BY <1>p, <2>0, <2>1, <2>2, <2>4, <2>5, <2>6, BeatDns
<1>3. CASE HubCrash
  <2>1. UNCHANGED <<devices, dnsRows, zone, nextId, jwts>>
    BY <1>3 DEF HubCrash, storeVars, zoneVars
  <2>2. /\ \A r \in Requests : RegLabels(r)' = {}
        /\ \A b \in Beats : BeatLabels(b)' = {}
    BY <1>3 DEF HubCrash, RegLabels, BeatLabels, BeatAt
  <2>3. ZoneLabels' = ZoneLabels /\ RowLabels' = RowLabels
    BY <2>1 DEF ZoneLabels, RowLabels
  <2>4. Labels' \subseteq Labels
    BY <2>2, <2>3, LabelsSplit
  <2>5. LabelInv'
    BY <1>0, <2>1, <2>4, LabelsGrow
  <2>6. BeatsHoldJwts'
    BY <1>3 DEF HubCrash, BeatsHoldJwts
  <2> QED
    BY <1>0, <1>p, <2>1, <2>5, <2>6 DEF RowKey, DnsKey, DnsNamed
<1>4. CASE TokenNext \/ UNCHANGED vars
  <2>1. UNCHANGED <<devices, dnsRows, zone, nextId, reg, jwts, beat>>
    BY <1>4 DEF TokenNext, MintToken, Revoke, TokenExpires, vars, storeVars,
       zoneVars, enrollVars
  <2>2. /\ \A r \in Requests : RegLabels(r)' = RegLabels(r)
        /\ \A b \in Beats : BeatLabels(b)' = BeatLabels(b)
        /\ ZoneLabels' = ZoneLabels /\ RowLabels' = RowLabels
    BY <2>1 DEF RegLabels, Assigned, BeatLabels, BeatAt, Cam, Current, ZoneLabels, RowLabels
  <2>3. Labels' \subseteq Labels
    BY <2>2, LabelsSplit
  <2>4. LabelInv'
    BY <1>0, <2>1, <2>3, LabelsGrow
  <2> QED
    BY <1>0, <1>p, <2>1, <2>4 DEF RowKey, DnsKey, DnsNamed, BeatsHoldJwts
<1>5. ~ \E d \in Devices : AdminDrop(d)
  BY DEF AdminDrop
<1> QED
  BY <1>1, <1>2, <1>3, <1>4, <1>5 DEF Next

\* POINTERS ARE SOUND, whatever fails at Cloudflare, in the database or on
\* the way: a cached id never leads a heartbeat to the record of another cam.
THEOREM PointersStaySound ==
  ASSUME "admin_drop" \notin Faults
  PROVE  Spec => []PointersSound
<1>1. Init => GrantInv /\ PointerInv
  <2> SUFFICES ASSUME Init PROVE GrantInv /\ PointerInv
    OBVIOUS
  <2> USE DEF Init, StoreInit, ZoneInit, EnrollInit, BeatInit
  <2>1. Labels = {}
    BY DEF Labels, ZoneLabels, RowLabels, RegLabels, BeatLabels, BeatAt
  <2>2. GrantInv
    BY DEF GrantInv, GrantedKeepsRow, HasRow
  <2> QED
    BY <2>1, <2>2 DEF PointerInv, LabelInv, RowKey, DnsKey, DnsNamed, BeatsHoldJwts
<1>2. PointerInv => PointersSound
  <2> SUFFICES ASSUME PointerInv PROVE PointersSound
    OBVIOUS
  <2>1. \A l, m \in Labels : l.id = m.id => l = m
    BY DEF PointerInv, LabelInv
  <2>2. \A x \in dnsRows : Label(x.cf, x.dev, x.fqdn, x.type) \in Labels
    BY DEF Labels, RowLabels
  <2>3. \A z \in zone : Label(z.id, z.owner, z.name, z.type) \in Labels
    BY DEF Labels, ZoneLabels
  <2>4. \A x \in dnsRows, z \in zone : z.id = x.cf =>
          Label(x.cf, x.dev, x.fqdn, x.type) = Label(z.id, z.owner, z.name, z.type)
    BY <2>1, <2>2, <2>3, LabelFields
  <2>5. \A x, y \in dnsRows : x.cf = y.cf => x.dev = y.dev /\ x.type = y.type
    <3>1. \A x, y \in dnsRows : x.cf = y.cf =>
            Label(x.cf, x.dev, x.fqdn, x.type) = Label(y.cf, y.dev, y.fqdn, y.type)
      BY <2>1, <2>2, LabelFields
    <3> QED
      BY <3>1, LabelFields
  <2>6. \A x \in dnsRows, z \in zone : z.id = x.cf =>
          z.owner = x.dev /\ z.name = x.fqdn /\ z.type = x.type
    BY <2>4, LabelFields
  <2> QED
    BY <2>5, <2>6 DEF PointersSound, PointerInv, DnsNamed, DnsKey, RowOf
<1> QED
  BY <1>1, <1>2, TypeInit, TypeStep, GrantStep, PointerStep, PTL DEF Spec

=============================================================================
