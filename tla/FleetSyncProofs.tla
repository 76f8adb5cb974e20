---------------------------- MODULE FleetSyncProofs ---------------------------
(***************************************************************************)
(* Proofs that the DNS sync of Fleet keeps up: the mirror is exact, a name *)
(* has one record per type, and a cam's name resolves to its address.      *)
(***************************************************************************)
EXTENDS FleetDnsProofs

-----------------------------------------------------------------------------
(* Where a step leads *)

\* The way of a registration, step by step, while it is not answered.
LEMMA RegPath ==
  ASSUME TypeInv, NEW r \in Requests, RegStep(r) \/ RegClientGone(r), reg'[r] # Idle
  PROVE  \/ RegConsume(r) /\ reg'[r].pc = "probe"
         \/ RegProbe(r) /\ reg'[r].pc \in {"probe", "postA"}
         \/ PostsA(r) /\ reg'[r].a = {nextId} /\ reg'[r].pc \in {"insert", "postAAAA"}
         \/ PostsAAAA(r) /\ reg'[r].aaaa = {nextId} /\ reg'[r].pc = "insert"
         \/ RegPostAAAA(r) /\ reg'[r].pc = "undoA"
         \/ RegInsert(r) /\ reg'[r].pc \in {"sign", "undoA"}
         \/ RegSign(r) /\ reg'[r].pc \in {"upsertA", "dropRow"}
         \/ RegUpsertA(r) /\ reg[r].v6 = {} /\ reg'[r].pc = "respond"
         \/ RegUpsertA(r) /\ reg[r].v6 # {} /\ reg'[r].pc = "upsertAAAA"
         \/ RegUpsertAAAA(r) /\ reg'[r].pc = "respond"
         \/ RegDropRow(r) /\ reg'[r].pc = "undoA"
         \/ RegUndoA(r) /\ reg[r].aaaa # {} /\ reg'[r].pc = "undoAAAA"
         \/ RegClientGone(r) /\ reg'[r].pc = reg[r].pc
<1>0. /\ reg \in [Requests -> {Idle} \cup RegRequest]
      /\ reg[r] # Idle /\ reg[r] \in RegRequest
  BY RegMoves DEF TypeInv, TypeOK, EnrollTypeOK
<1>a. ~Answer(r)
  BY <1>0 DEF Answer
<1>g. ASSUME NEW step, Goto(r, step) PROVE reg'[r].pc = step
  BY <1>0, <1>g DEF Goto, RegRequest
<1>1. CASE RegConsume(r)
  BY <1>a, <1>g, <1>1 DEF RegConsume
<1>2. CASE RegProbe(r)
  <2>1. Goto(r, "postA") \/ reg' = [reg EXCEPT ![r].k = @ + 1]
    BY <1>a, <1>2 DEF RegProbe
  <2>2. reg' = [reg EXCEPT ![r].k = @ + 1] => reg'[r].pc = "probe"
    BY <1>0, <1>2 DEF RegProbe, At, RegRequest
  <2> QED
    BY <1>2, <1>g, <2>1, <2>2
<1>3. CASE RegPostA(r)
  <2>1. /\ PostRecord(Assigned(r), "A", reg[r].v4, reg[r].dev)
        /\ reg' = [reg EXCEPT ![r].a = {nextId},
                     ![r].pc = IF reg[r].v6 = {} THEN "insert" ELSE "postAAAA"]
    BY <1>a, <1>3 DEF RegPostA, Done
  <2>2. reg'[r].a = {nextId} /\ reg'[r].pc \in {"insert", "postAAAA"}
    BY <1>0, <2>1 DEF RegRequest
  <2> QED
    BY <1>3, <2>1, <2>2 DEF PostsA
<1>4. CASE RegPostAAAA(r)
  <2>1. \/ Goto(r, "undoA")
        \/ /\ PostRecord(Assigned(r), "AAAA", The(reg[r].v6), reg[r].dev)
           /\ reg' = [reg EXCEPT ![r].aaaa = {nextId}, ![r].pc = "insert"]
    BY <1>4 DEF RegPostAAAA, Done
  <2>2. reg' = [reg EXCEPT ![r].aaaa = {nextId}, ![r].pc = "insert"] =>
          reg'[r].aaaa = {nextId} /\ reg'[r].pc = "insert"
    BY <1>0 DEF RegRequest
  <2> QED
    BY <1>4, <1>g, <2>1, <2>2 DEF PostsAAAA
<1>5. CASE RegInsert(r)
  <2>1. Goto(r, "sign") \/ Goto(r, "undoA")
    BY <1>5 DEF RegInsert
  <2> QED
    BY <1>5, <1>g, <2>1
<1>6. CASE RegSign(r)
  BY <1>6, <1>g DEF RegSign
<1>7. CASE RegUpsertA(r)
  <2>1. (reg[r].v6 = {} /\ Goto(r, "respond")) \/ (reg[r].v6 # {} /\ Goto(r, "upsertAAAA"))
    BY <1>7 DEF RegUpsertA
  <2> QED
    BY <1>7, <1>g, <2>1
<1>8. CASE RegUpsertAAAA(r)
  BY <1>8, <1>g DEF RegUpsertAAAA
<1>9. CASE RegDropRow(r)
  BY <1>9, <1>g DEF RegDropRow
<1>10. CASE RegUndoA(r)
  BY <1>a, <1>10, <1>g DEF RegUndoA
<1>11. CASE RegClientGone(r)
  BY <1>0, <1>11 DEF RegClientGone, RegRequest
<1>12. ~RegRespond(r) /\ ~RegUndoAAAA(r)
  BY <1>a DEF RegRespond, RegUndoAAAA
<1> QED
  BY <1>1, <1>2, <1>3, <1>4, <1>5, <1>6, <1>7, <1>8, <1>9, <1>10, <1>11, <1>12 DEF RegStep

\* Where each step of a registration starts from.
LEMMA RegFrom ==
  ASSUME NEW r \in Requests
  PROVE  /\ RegConsume(r) => reg[r] # Idle /\ reg[r].pc = "consume"
         /\ RegProbe(r) => reg[r] # Idle /\ reg[r].pc = "probe"
         /\ RegPostA(r) \/ PostsA(r) => reg[r] # Idle /\ reg[r].pc = "postA"
         /\ RegPostAAAA(r) \/ PostsAAAA(r) => reg[r] # Idle /\ reg[r].pc = "postAAAA"
         /\ RegInsert(r) => reg[r] # Idle /\ reg[r].pc = "insert"
         /\ RegSign(r) => reg[r] # Idle /\ reg[r].pc = "sign"
         /\ RegUpsertA(r) => reg[r] # Idle /\ reg[r].pc = "upsertA"
         /\ RegUpsertAAAA(r) => reg[r] # Idle /\ reg[r].pc = "upsertAAAA"
         /\ RegRespond(r) => reg[r] # Idle /\ reg[r].pc = "respond"
         /\ RegDropRow(r) => reg[r] # Idle /\ reg[r].pc = "dropRow"
         /\ RegUndoA(r) => reg[r] # Idle /\ reg[r].pc = "undoA"
         /\ RegUndoAAAA(r) => reg[r] # Idle /\ reg[r].pc = "undoAAAA"
BY DEF PostsA, PostsAAAA, At, RegConsume, RegProbe, RegPostA, RegPostAAAA, RegInsert,
       RegSign, RegUpsertA, RegUpsertAAAA, RegRespond, RegDropRow, RegUndoA, RegUndoAAAA

\* The way of a heartbeat: where syncDNS returns to, and where each call
\* leads while the heartbeat is not answered.
Returned(b) ==
  /\ beat'[b].pc = "get" /\ beat'[b].cf = {}
  /\ beat'[b].todo = beat[b].todo \ {Current(b)}

Unmoved(b) == beat'[b].todo = beat[b].todo /\ beat'[b].cf = beat[b].cf

\* Each step of a heartbeat that goes on, with where it leads.
LEMMA BeatPath ==
  ASSUME TypeInv, NEW b \in Beats, BeatStep(b) \/ BeatClientGone(b), beat'[b] # Idle
  PROVE  \/ /\ BeatLookup(b) /\ beat'[b].pc = "update" /\ Unmoved(b)
            /\ \E row \in RowOf(Cam(b)) :
                 beat'[b].oldV4 = {row.v4} /\ beat'[b].oldV6 = row.v6
         \/ /\ BeatUpdate(b) /\ UpdateHeartbeat(Cam(b), beat[b].v4, beat[b].v6)
            /\ beat'[b].pc = "get" /\ beat'[b].todo = Changed(b)
         \/ /\ SyncGet(b) /\ beat'[b].pc = "put" /\ beat'[b].todo = beat[b].todo
            /\ \E x \in DnsRowOf(Cam(b), Current(b)) : beat'[b].cf = {x.cf}
         \/ /\ SyncGet(b) /\ beat'[b].pc = "post" /\ Unmoved(b)
            /\ DnsRowOf(Cam(b), Current(b)) = {}
         \/ /\ SyncPost(b) /\ beat'[b].pc = "mirror" /\ beat'[b].todo = beat[b].todo
            /\ beat'[b].cf = {nextId}
            /\ PostRecord(beat[b].claim.sub, Current(b), Reported(b), Cam(b))
         \/ /\ SyncPut(b) /\ beat'[b].pc = "mirror" /\ Unmoved(b)
            /\ \E id \in beat[b].cf : Exists(id) /\
                 PutRecord(id, beat[b].claim.sub, Current(b), Reported(b), Cam(b))
         \/ /\ SyncGet(b) \/ SyncPost(b) \/ SyncPut(b) \/ SyncMirror(b)
            /\ Returned(b)
         \/ /\ BeatClientGone(b) /\ beat'[b].pc = beat[b].pc /\ Unmoved(b)
            /\ beat'[b].oldV4 = beat[b].oldV4 /\ beat'[b].oldV6 = beat[b].oldV6
<1>0. /\ beat \in [Beats -> {Idle} \cup BeatRequest]
      /\ beat[b] # Idle /\ beat[b] \in BeatRequest
  BY BeatKeeps DEF TypeInv, TypeOK, BeatTypeOK
<1>a. ~BeatAnswer(b)
  BY <1>0 DEF BeatAnswer
<1>g. ASSUME NEW step, BeatGoto(b, step) PROVE beat'[b].pc = step /\ Unmoved(b)
  BY <1>0, <1>g DEF BeatGoto, BeatRequest, Unmoved
<1>r. SyncReturn(b) => Returned(b)
  <2> SUFFICES ASSUME SyncReturn(b) PROVE Returned(b)
    OBVIOUS
  <2>1. beat' = [beat EXCEPT ![b].todo = @ \ {Current(b)}, ![b].pc = "get", ![b].cf = {}]
    BY <1>a DEF SyncReturn
  <2> QED
    BY <1>0, <2>1 DEF BeatRequest, Returned
<1>1. CASE BeatLookup(b)
  <2>1. PICK row \in RowOf(Cam(b)) :
          beat' = [beat EXCEPT ![b].pc = "update", ![b].oldV4 = {row.v4}, ![b].oldV6 = row.v6]
    BY <1>a, <1>1 DEF BeatLookup
  <2>2. beat'[b] = [beat[b] EXCEPT !.pc = "update", !.oldV4 = {row.v4}, !.oldV6 = row.v6]
    BY <1>0, <2>1
  <2>3. /\ beat'[b].pc = "update" /\ Unmoved(b)
        /\ beat'[b].oldV4 = {row.v4} /\ beat'[b].oldV6 = row.v6
    BY <1>0, <2>2 DEF BeatRequest, Unmoved
  <2> QED
    BY <1>1, <2>3
<1>2. CASE BeatUpdate(b)
  <2>1. /\ UpdateHeartbeat(Cam(b), beat[b].v4, beat[b].v6)
        /\ beat' = [beat EXCEPT ![b].pc = "get", ![b].todo = Changed(b)]
    BY <1>a, <1>2 DEF BeatUpdate, Done
  <2>2. beat'[b].pc = "get" /\ beat'[b].todo = Changed(b)
    BY <1>0, <2>1 DEF BeatRequest
  <2> QED
    BY <1>2, <2>1, <2>2
<1>3. CASE SyncGet(b)
  <2>1. \/ SyncReturn(b)
        \/ BeatGoto(b, "post") /\ DnsRowOf(Cam(b), Current(b)) = {}
        \/ \E x \in DnsRowOf(Cam(b), Current(b)) :
             beat' = [beat EXCEPT ![b].pc = "put", ![b].cf = {x.cf}]
    BY <1>3 DEF SyncGet
  <2>2. ASSUME NEW x, beat' = [beat EXCEPT ![b].pc = "put", ![b].cf = {x.cf}]
        PROVE  /\ beat'[b].pc = "put" /\ beat'[b].todo = beat[b].todo
               /\ beat'[b].cf = {x.cf}
    BY <1>0, <2>2 DEF BeatRequest
  <2> QED
    BY <1>3, <1>g, <1>r, <2>1, <2>2
<1>4. CASE SyncPost(b)
  <2>1. \/ SyncReturn(b)
        \/ /\ PostRecord(beat[b].claim.sub, Current(b), Reported(b), Cam(b))
           /\ beat' = [beat EXCEPT ![b].pc = "mirror", ![b].cf = {nextId}]
    BY <1>4 DEF SyncPost, Done
  <2>2. beat' = [beat EXCEPT ![b].pc = "mirror", ![b].cf = {nextId}] =>
          /\ beat'[b].pc = "mirror" /\ beat'[b].todo = beat[b].todo
          /\ beat'[b].cf = {nextId}
    BY <1>0 DEF BeatRequest
  <2> QED
    BY <1>4, <1>r, <2>1, <2>2
<1>5. CASE SyncPut(b)
  <2>1. \/ SyncReturn(b)
        \/ /\ BeatGoto(b, "mirror")
           /\ \E id \in beat[b].cf : Exists(id) /\
                PutRecord(id, beat[b].claim.sub, Current(b), Reported(b), Cam(b))
    BY <1>5 DEF SyncPut, Done
  <2> QED
    BY <1>5, <1>g, <1>r, <2>1
<1>6. CASE SyncMirror(b)
  BY <1>6, <1>r DEF SyncMirror
<1>7. CASE BeatClientGone(b)
  <2>1. beat'[b] = [beat[b] EXCEPT !.live = FALSE]
    BY <1>0, <1>7 DEF BeatClientGone
  <2>2. /\ beat'[b].pc = beat[b].pc /\ Unmoved(b)
        /\ beat'[b].oldV4 = beat[b].oldV4 /\ beat'[b].oldV6 = beat[b].oldV6
    BY <1>0, <2>1 DEF BeatRequest, Unmoved
  <2> QED
    BY <1>7, <2>2
<1> QED
  BY <1>1, <1>2, <1>3, <1>4, <1>5, <1>6, <1>7 DEF BeatStep

-----------------------------------------------------------------------------
(* Calls and the zone *)

\* Without the faults that hide an effect, a statement is carried out and a
\* call to Cloudflare that is not answered with success did nothing.
LEMMA SureReplies ==
  ASSUME Faults \cap MirrorFaults = {}
  PROVE  /\ \A reply \in DbReplies(TRUE) : Done(reply)
         /\ \A refusal : \A reply \in CfReplies(TRUE, refusal) : reply \in {"ok", "failed"}
         /\ "gone" \notin Faults /\ "crash" \notin Faults /\ "overlap" \notin Faults
         /\ "admin_drop" \notin Faults
<1>1. /\ "db_down" \notin Faults /\ "cf_lost" \notin Faults /\ "gone" \notin Faults
      /\ "crash" \notin Faults /\ "overlap" \notin Faults /\ "admin_drop" \notin Faults
  BY DEF MirrorFaults
<1> QED
  BY <1>1 DEF DbReplies, CfReplies, CallReplies, Replies, Done

\* A POST makes a record that serves its value and disturbs no other.
LEMMA PostServes ==
  ASSUME NEW n, NEW t, NEW v, NEW d, PostRecord(n, t, v, d)
  PROVE  /\ \A id, w : Serves(id, w) => Serves(id, w)'
         /\ \A id : Exists(id) => Exists(id)'
         /\ \A id, w : id = nextId /\ w = v => Serves(id, w)'
         /\ \A z \in zone' : z \in zone \/ z.id = nextId
         /\ ZoneKey /\ (\A z \in zone : z.id # nextId) => ZoneKey'
<1> DEFINE rec == [id |-> nextId, name |-> n, type |-> t, value |-> v, owner |-> d]
<1>1. zone' = zone \cup {rec} /\ rec.id = nextId /\ rec.value = v
  BY DEF PostRecord
<1> HIDE DEF rec
<1>2. \A id, w : Serves(id, w) => Serves(id, w)'
  BY <1>1 DEF Serves
<1>3. \A id : Exists(id) => Exists(id)'
  BY <1>1 DEF Exists
<1>4. \A id, w : id = nextId /\ w = v => Serves(id, w)'
  BY <1>1 DEF Serves
<1>5. ZoneKey /\ (\A z \in zone : z.id # nextId) => ZoneKey'
  BY <1>1 DEF ZoneKey
<1> QED
  BY <1>1, <1>2, <1>3, <1>4, <1>5

\* A PUT rewrites the record with its id, if there is one, and no other.
LEMMA PutServes ==
  ASSUME NEW i, NEW n, NEW t, NEW v, NEW d, PutRecord(i, n, t, v, d)
  PROVE  /\ \A id, w : id # i /\ Serves(id, w) => Serves(id, w)'
         /\ \A id : Exists(id) => Exists(id)'
         /\ \A id, w : id = i /\ w = v /\ Exists(id) => Serves(id, w)'
         /\ \A z \in zone' : \E old \in zone : z.id = old.id
         /\ ZoneKey => ZoneKey'
<1> DEFINE rec == [id |-> i, name |-> n, type |-> t, value |-> v, owner |-> d]
           new(z) == IF z.id = i THEN rec ELSE z
<1>1. /\ zone' = {new(z) : z \in zone} /\ rec.id = i /\ rec.value = v
      /\ \A z : z.id = i => new(z) = rec
      /\ \A z : z.id # i => new(z) = z
      /\ \A z : new(z).id = z.id
  BY DEF PutRecord
<1> HIDE DEF rec, new
<1>2. \A id, w : id # i /\ Serves(id, w) => Serves(id, w)'
  BY <1>1 DEF Serves
<1>3. \A id : Exists(id) => Exists(id)'
  BY <1>1 DEF Exists
<1>4. \A id, w : id = i /\ w = v /\ Exists(id) => Serves(id, w)'
  BY <1>1 DEF Serves, Exists
<1>5. \A z \in zone' : \E old \in zone : z.id = old.id
  BY <1>1
<1>6. ZoneKey => ZoneKey'
  BY <1>1 DEF ZoneKey
<1> QED
  BY <1>2, <1>3, <1>4, <1>5, <1>6

\* A registration posts a record, deletes one it made, or leaves the zone.
LEMMA RegZoneMoves ==
  ASSUME TypeInv, NEW r \in Requests, RegArrive(r) \/ RegStep(r) \/ RegClientGone(r)
  PROVE  \/ PostsA(r) \/ PostsAAAA(r)
         \/ UNCHANGED zone
         \/ /\ RegUndoA(r) /\ reg[r].a = {The(reg[r].a)}
            /\ zone' = {z \in zone : z.id # The(reg[r].a)}
         \/ /\ RegUndoAAAA(r) /\ reg[r].aaaa = {The(reg[r].aaaa)}
            /\ zone' = {z \in zone : z.id # The(reg[r].aaaa)}
<1> USE DEF zoneVars
<1>1. CASE RegPostA(r)
  BY <1>1 DEF RegPostA, PostsA
<1>2. CASE RegPostAAAA(r)
  BY <1>2 DEF RegPostAAAA, PostsAAAA
<1>3. CASE RegUndoA(r)
  <2>1. reg[r].a = {The(reg[r].a)}
    BY <1>3, OptElim DEF RegUndoA, At, TypeInv, TypeOK, Shapes, RegShape,
                         EnrollTypeOK, RegRequest
  <2> QED
    BY <1>3, <2>1 DEF RegUndoA, DeleteRecord
<1>4. CASE RegUndoAAAA(r)
  <2>1. reg[r].aaaa = {The(reg[r].aaaa)}
    BY <1>4, OptElim DEF RegUndoAAAA, At, TypeInv, TypeOK, Shapes, RegShape,
                         EnrollTypeOK, RegRequest
  <2> QED
    BY <1>4, <2>1 DEF RegUndoAAAA, DeleteRecord
<1>5. CASE RegArrive(r) \/ RegClientGone(r) \/ RegConsume(r) \/ RegProbe(r) \/ RegInsert(r)
  BY <1>5 DEF RegArrive, RegClientGone, RegConsume, RegProbe, RegInsert
<1>6. CASE RegSign(r) \/ RegUpsertA(r) \/ RegUpsertAAAA(r) \/ RegRespond(r) \/ RegDropRow(r)
  BY <1>6 DEF RegSign, RegUpsertA, RegUpsertAAAA, RegRespond, RegDropRow
<1> QED
  BY <1>1, <1>2, <1>3, <1>4, <1>5, <1>6 DEF RegStep

-----------------------------------------------------------------------------
(* Who holds which id *)

\* The next id is not spoken of yet.
LEMMA NextIdFresh ==
  ASSUME TypeInv, LabelInv
  PROVE  /\ \A z \in zone : z.id # nextId
         /\ \A x \in dnsRows : x.cf # nextId
         /\ \A r \in Requests : nextId \notin Private(r)
         /\ \A b \in Beats : nextId \notin HeldIds(b)
<1>1. \A l \in Labels : l.id # nextId
  BY LabelIds DEF LabelInv
<1>2. \A z \in zone : Label(z.id, z.owner, z.name, z.type) \in Labels
  BY DEF Labels, ZoneLabels
<1>3. \A x \in dnsRows : Label(x.cf, x.dev, x.fqdn, x.type) \in Labels
  BY DEF Labels, RowLabels
<1>4. \A r \in Requests : reg[r] # Idle =>
        /\ \A id \in reg[r].a : Label(id, reg[r].dev, Assigned(r), "A") \in Labels
        /\ \A id \in reg[r].aaaa : Label(id, reg[r].dev, Assigned(r), "AAAA") \in Labels
  BY LabelsSplit DEF RegLabels
<1>5. \A b \in Beats : \A id \in HeldIds(b) :
        Label(id, Cam(b), beat[b].claim.sub, Current(b)) \in Labels
  BY LabelsSplit DEF BeatLabels, HeldIds
<1>6. \A r \in Requests : reg[r] # Idle => nextId \notin reg[r].a \cup reg[r].aaaa
  BY <1>1, <1>4, LabelFields
<1>7. \A r \in Requests : nextId \notin Private(r)
  BY <1>6 DEF Private, PrivateA, PrivateAAAA
<1> QED
  BY <1>1, <1>2, <1>3, <1>5, <1>7, LabelFields

\* The two ids of a registration differ, and so do those of two DNS syncs.
LEMMA IdsApart ==
  ASSUME LabelInv
  PROVE  /\ \A r \in Requests : reg[r] # Idle => reg[r].a \cap reg[r].aaaa = {}
         /\ \A b, c \in Beats : \A id \in HeldIds(b) \cap HeldIds(c) : Cam(b) = Cam(c)
         /\ \A b \in Beats : \A x \in dnsRows :
              x.cf \in HeldIds(b) => x \in DnsRowOf(Cam(b), Current(b))
<1>0. \A l, m \in Labels : l.id = m.id => l = m
  BY DEF LabelInv
<1>1. \A r \in Requests : reg[r] # Idle => reg[r].a \cap reg[r].aaaa = {}
  <2> SUFFICES ASSUME NEW r \in Requests, reg[r] # Idle,
                      NEW id \in reg[r].a, id \in reg[r].aaaa
               PROVE  FALSE
    OBVIOUS
  <2>1. /\ Label(id, reg[r].dev, Assigned(r), "A") \in Labels
        /\ Label(id, reg[r].dev, Assigned(r), "AAAA") \in Labels
    BY LabelsSplit DEF RegLabels
  <2>2. Label(id, reg[r].dev, Assigned(r), "A") = Label(id, reg[r].dev, Assigned(r), "AAAA")
    BY <1>0, <2>1, LabelFields
  <2> QED
    BY <2>2 DEF Label
<1>2. \A b \in Beats : \A id \in HeldIds(b) :
        Label(id, Cam(b), beat[b].claim.sub, Current(b)) \in Labels
  BY LabelsSplit DEF BeatLabels, HeldIds
<1>3. \A b, c \in Beats : \A id \in HeldIds(b) \cap HeldIds(c) : Cam(b) = Cam(c)
  <2> SUFFICES ASSUME NEW b \in Beats, NEW c \in Beats, NEW id \in HeldIds(b) \cap HeldIds(c)
               PROVE  Cam(b) = Cam(c)
    OBVIOUS
  <2>1. Label(id, Cam(b), beat[b].claim.sub, Current(b))
          = Label(id, Cam(c), beat[c].claim.sub, Current(c))
    BY <1>0, <1>2, LabelFields
  <2> QED
    BY <2>1, LabelFields
<1>4. \A b \in Beats : \A x \in dnsRows :
        x.cf \in HeldIds(b) => x \in DnsRowOf(Cam(b), Current(b))
  <2> SUFFICES ASSUME NEW b \in Beats, NEW x \in dnsRows, x.cf \in HeldIds(b)
               PROVE  x.dev = Cam(b) /\ x.type = Current(b)
    BY DEF DnsRowOf
  <2>1. Label(x.cf, x.dev, x.fqdn, x.type) \in Labels
    BY DEF Labels, RowLabels
  <2>2. Label(x.cf, x.dev, x.fqdn, x.type)
          = Label(x.cf, Cam(b), beat[b].claim.sub, Current(b))
    BY <1>0, <1>2, <2>1, LabelFields
  <2> QED
    BY <2>2, LabelFields
<1> QED
  BY <1>1, <1>3, <1>4

\* A registration keeps to itself what it kept to itself, but for a record
\* it just made; the upserts hand their id over.
LEMMA PrivateMoves ==
  ASSUME TypeInv, LabelInv, NEW r \in Requests,
         RegArrive(r) \/ RegStep(r) \/ RegClientGone(r)
  PROVE  /\ \A id \in Private(r)' :
              id \in Private(r) \/ ((PostsA(r) \/ PostsAAAA(r)) /\ id = nextId)
         /\ RegUpsertA(r) => /\ The(reg[r].a) \in Private(r)
                             /\ The(reg[r].a) \notin Private(r)'
         /\ RegUpsertAAAA(r) => /\ The(reg[r].aaaa) \in Private(r)
                                /\ The(reg[r].aaaa) \notin Private(r)'
<1>1. CASE reg'[r] = Idle
  <2>1. Private(r)' = {}
    BY <1>1 DEF Private, PrivateA, PrivateAAAA
  <2>2. ~RegUpsertA(r) /\ ~RegUpsertAAAA(r)
    BY <1>1 DEF RegUpsertA, RegUpsertAAAA, Goto, At, Idle, TypeInv, TypeOK,
       EnrollTypeOK, RegRequest
  <2> QED
    BY <2>1, <2>2
<1>2. CASE reg'[r] # Idle /\ ~RegArrive(r)
  <2> DEFINE gone == {"upsertAAAA", "respond", "undoAAAA"}
  <2>1. /\ reg[r] # Idle
        /\ reg'[r].a = reg[r].a \/ (PostsA(r) /\ reg'[r].a = {nextId})
        /\ reg'[r].aaaa = reg[r].aaaa \/ (PostsAAAA(r) /\ reg'[r].aaaa = {nextId})
    BY <1>2, RegMoves DEF PostsA, PostsAAAA
  <2>2. /\ reg[r].pc \in gone => reg'[r].pc \in gone
        /\ reg[r].pc = "respond" => reg'[r].pc = "respond"
        /\ RegUpsertA(r) => reg'[r].pc \in {"respond", "upsertAAAA"}
        /\ RegUpsertAAAA(r) => reg'[r].pc = "respond"
    <3>1. RegStep(r) \/ RegClientGone(r)
      BY <1>2
    <3>2. /\ reg[r].pc \in gone => reg'[r].pc \in gone
          /\ reg[r].pc = "respond" => reg'[r].pc = "respond"
      BY <1>2, <3>1, RegPath, RegFrom
    <3>3. /\ RegUpsertA(r) => reg'[r].pc \in {"respond", "upsertAAAA"}
          /\ RegUpsertAAAA(r) => reg'[r].pc = "respond"
      BY <1>2, <3>1, RegFrom DEF RegUpsertA, RegUpsertAAAA, Goto, TypeInv, TypeOK,
         EnrollTypeOK, RegRequest
    <3> QED
      BY <3>2, <3>3
  <2>3. RegUpsertA(r) => /\ reg[r].pc = "upsertA" /\ The(reg[r].a) \in reg[r].a
                         /\ reg'[r].a = reg[r].a /\ reg'[r].aaaa = reg[r].aaaa
    BY <2>1, OptElim DEF RegUpsertA, PostsA, PostsAAAA, RegPostA, RegPostAAAA, At,
       TypeInv, TypeOK, Shapes, RegShape, EnrollTypeOK, RegRequest
  <2>4. RegUpsertAAAA(r) => /\ reg[r].pc = "upsertAAAA" /\ The(reg[r].aaaa) \in reg[r].aaaa
    BY <2>1, OptElim DEF RegUpsertAAAA, At, TypeInv, TypeOK, Shapes, RegShape,
       EnrollTypeOK, RegRequest
  <2>5. reg[r].a \cap reg[r].aaaa = {}
    BY <2>1, IdsApart
  <2>6. \A id \in Private(r)' :
           id \in Private(r) \/ ((PostsA(r) \/ PostsAAAA(r)) /\ id = nextId)
    BY <1>2, <2>1, <2>2 DEF Private, PrivateA, PrivateAAAA
  <2>7. RegUpsertA(r) => /\ The(reg[r].a) \in Private(r)
                         /\ The(reg[r].a) \notin Private(r)'
    BY <1>2, <2>1, <2>2, <2>3, <2>5 DEF Private, PrivateA, PrivateAAAA
  <2>8. RegUpsertAAAA(r) => /\ The(reg[r].aaaa) \in Private(r)
                            /\ The(reg[r].aaaa) \notin Private(r)'
    BY <1>2, <2>1, <2>2, <2>4 DEF Private, PrivateA, PrivateAAAA
  <2> QED
    BY <2>6, <2>7, <2>8
<1>3. CASE RegArrive(r)
  <2>1. reg'[r].a = {} /\ reg'[r].aaaa = {} /\ reg[r] = Idle
    BY <1>3 DEF RegArrive, TypeInv, TypeOK, EnrollTypeOK
  <2> QED
    BY <2>1 DEF Private, PrivateA, PrivateAAAA, RegUpsertA, RegUpsertAAAA, At
<1> QED
  BY <1>1, <1>2, <1>3

-----------------------------------------------------------------------------
(* The mirror *)

\* A POST that reached Cloudflare and was answered leaves its id behind.
LEMMA PostsMove ==
  ASSUME TypeInv, NEW r \in Requests, RegStep(r) \/ RegClientGone(r), reg'[r] # Idle
  PROVE  /\ PostsA(r) => /\ reg'[r].a = {nextId}
                         /\ reg'[r].pc \in {"insert", "postAAAA"}
         /\ PostsAAAA(r) => \/ reg'[r].aaaa = {nextId} /\ reg'[r].pc = "insert"
                            \/ reg'[r].pc = "undoA"
<1>1. nextId \in Nat
  BY DEF TypeInv, TypeOK, ZoneTypeOK
<1>2. PostsA(r) \/ PostsAAAA(r) => nextId' = nextId + 1
  BY PostLabels DEF PostsA, PostsAAAA
<1>3. PostsA(r) \/ PostsAAAA(r) => ~RegClientGone(r)
  BY <1>1, <1>2 DEF RegClientGone, zoneVars
<1>4. ASSUME PostsA(r)
      PROVE  reg'[r].a = {nextId} /\ reg'[r].pc \in {"insert", "postAAAA"}
  <2>1. reg[r].pc = "postA" /\ ~RegClientGone(r)
    BY <1>3, <1>4, RegFrom
  <2> QED
    BY <2>1, RegPath, RegFrom
<1>5. ASSUME PostsAAAA(r)
      PROVE  \/ reg'[r].aaaa = {nextId} /\ reg'[r].pc = "insert"
             \/ reg'[r].pc = "undoA"
  <2>1. reg[r].pc = "postAAAA" /\ ~RegClientGone(r)
    BY <1>3, <1>5, RegFrom
  <2> QED
    BY <2>1, RegPath, RegFrom
<1> QED
  BY <1>4, <1>5

\* A registration deletes only what it holds privately.
LEMMA RegZoneKeeps ==
  ASSUME TypeInv, NEW r \in Requests, RegArrive(r) \/ RegStep(r) \/ RegClientGone(r),
         ~PostsA(r), ~PostsAAAA(r)
  PROVE  /\ zone' \subseteq zone
         /\ \A z \in zone : z \in zone' \/ z.id \in Private(r)
         /\ ~RegUndoA(r) /\ ~RegUndoAAAA(r) => UNCHANGED zone
<1>1. RegUndoA(r) => reg[r].a \subseteq Private(r)
  BY RegFrom DEF Private, PrivateA
<1>2. RegUndoAAAA(r) => reg[r].aaaa \subseteq Private(r)
  BY RegFrom DEF Private, PrivateAAAA
<1>3. CASE UNCHANGED zone
  BY <1>3
<1>4. CASE RegUndoA(r) /\ reg[r].a = {The(reg[r].a)}
           /\ zone' = {z \in zone : z.id # The(reg[r].a)}
  BY <1>1, <1>4
<1>5. CASE RegUndoAAAA(r) /\ reg[r].aaaa = {The(reg[r].aaaa)}
           /\ zone' = {z \in zone : z.id # The(reg[r].aaaa)}
  BY <1>2, <1>5
<1> QED
  BY <1>3, <1>4, <1>5, RegZoneMoves

\* Whatever a registration does, a record that is not its own serves on.
LEMMA OthersServe ==
  ASSUME TypeInv, NEW r \in Requests, RegArrive(r) \/ RegStep(r) \/ RegClientGone(r)
  PROVE  /\ \A id, w : id \notin Private(r) /\ Serves(id, w) => Serves(id, w)'
         /\ \A id : id \notin Private(r) /\ Exists(id) => Exists(id)'
         /\ ~RegUndoA(r) /\ ~RegUndoAAAA(r) =>
              \A id, w : Serves(id, w) => Serves(id, w)'
<1>1. CASE PostsA(r) \/ PostsAAAA(r)
  BY <1>1, PostServes DEF PostsA, PostsAAAA
<1>2. CASE ~PostsA(r) /\ ~PostsAAAA(r)
  BY <1>2, RegZoneKeeps DEF Serves, Exists
<1> QED
  BY <1>1, <1>2

\* A registration keeps private ids private.
LEMMA RegPrivate ==
  ASSUME TypeInv, LabelInv, PrivateInv, NEW r \in Requests,
         RegArrive(r) \/ RegStep(r) \/ RegClientGone(r), UNCHANGED beat
  PROVE  PrivateInv'
<1>1. \A s \in Requests : s # r => Private(s)' = Private(s)
  BY RegFrame DEF Private, PrivateA, PrivateAAAA
<1>2. \A b \in Beats : HeldIds(b)' = HeldIds(b)
  BY DEF HeldIds, BeatAt
<1>3. \A id \in Private(r)' : id \in Private(r) \/ id = nextId
  BY PrivateMoves
<1>4. \A x \in dnsRows' :
        \/ x \in dnsRows
        \/ x.cf \in Private(r) /\ x.cf \notin Private(r)'
  <2>1. CASE RegUpsertA(r) /\ UpsertDns(PointerA(r))
    <3>1. \A x \in dnsRows' : x \in dnsRows \/ x = PointerA(r)
      BY <2>1 DEF UpsertDns
    <3>2. PointerA(r).cf = The(reg[r].a)
      BY DEF PointerA
    <3> QED
      BY <2>1, <3>1, <3>2, PrivateMoves
  <2>2. CASE RegUpsertAAAA(r) /\ UpsertDns(PointerAAAA(r))
    <3>1. \A x \in dnsRows' : x \in dnsRows \/ x = PointerAAAA(r)
      BY <2>2 DEF UpsertDns
    <3>2. PointerAAAA(r).cf = The(reg[r].aaaa)
      BY DEF PointerAAAA
    <3> QED
      BY <2>2, <3>1, <3>2, PrivateMoves
  <2>3. CASE UNCHANGED dnsRows \/ DeleteDevice(reg[r].dev)
    BY <2>3 DEF DeleteDevice
  <2> QED
    BY <2>1, <2>2, <2>3, RegDns
<1>5. ASSUME NEW s \in Requests, NEW id \in Private(s)'
      PROVE  /\ \A x \in dnsRows' : x.cf # id
             /\ \A b \in Beats : id \notin HeldIds(b)'
             /\ \A u \in Requests : u # s => id \notin Private(u)'
  <2>1. CASE s = r
    <3>1. CASE id = nextId
      BY <1>1, <1>2, <1>4, <1>5, <2>1, <3>1, NextIdFresh
    <3>2. CASE id \in Private(r)
      BY <1>1, <1>2, <1>4, <1>5, <2>1, <3>2 DEF PrivateInv
    <3> QED
      BY <1>3, <1>5, <2>1, <3>1, <3>2
  <2>2. CASE s # r
    <3>1. id \in Private(s) /\ id # nextId
      BY <1>1, <1>5, <2>2, NextIdFresh
    <3>2. /\ \A x \in dnsRows : x.cf # id
          /\ \A b \in Beats : id \notin HeldIds(b)
          /\ \A u \in Requests : u # s => id \notin Private(u)
      BY <3>1 DEF PrivateInv
    <3> QED
      BY <1>1, <1>2, <1>3, <1>4, <2>2, <3>1, <3>2
  <2> QED
    BY <2>1, <2>2
<1> QED
  BY <1>5 DEF PrivateInv

\* A registration keeps what the private records and the held ones serve.
LEMMA RegHold ==
  ASSUME TypeInv, LabelInv, PrivateInv, HoldInv, NEW r \in Requests,
         RegArrive(r) \/ RegStep(r) \/ RegClientGone(r), UNCHANGED beat
  PROVE  HoldInv'
<1> DEFINE OwnA(q) == q.pc \in {"postAAAA", "insert", "sign", "upsertA"} =>
                        \A id \in q.a : Serves(id, q.v4)
           OwnAAAA(q) == q.pc \in {"insert", "sign", "upsertA", "upsertAAAA"} =>
                           \A id \in q.aaaa : Serves(id, The(q.v6))
           Intact(b) == /\ BeatAt(b, "put") => \A id \in beat[b].cf : Exists(id)
                        /\ BeatAt(b, "mirror") =>
                             \A id \in beat[b].cf : Serves(id, Reported(b))
<1>0. /\ \A s \in Requests : reg[s] # Idle => OwnA(reg[s]) /\ OwnAAAA(reg[s])
      /\ \A b \in Beats : Intact(b)
  BY DEF HoldInv
<1>1. \A s \in Requests : s # r /\ reg'[s] # Idle => OwnA(reg[s])' /\ OwnAAAA(reg[s])'
  <2> SUFFICES ASSUME NEW s \in Requests, s # r, reg'[s] # Idle
               PROVE  OwnA(reg[s])' /\ OwnAAAA(reg[s])'
    OBVIOUS
  <2>1. reg'[s] = reg[s]
    BY RegFrame
  <2>2. \A id \in Private(s) : id \notin Private(r)
    BY DEF PrivateInv
  <2>3. /\ reg[s].pc \in {"postAAAA", "insert", "sign", "upsertA"} => reg[s].a \subseteq Private(s)
        /\ reg[s].pc \in {"insert", "sign", "upsertA", "upsertAAAA"} =>
             reg[s].aaaa \subseteq Private(s)
    BY <2>1 DEF Private, PrivateA, PrivateAAAA
  <2>4. OwnA(reg[s]) /\ OwnAAAA(reg[s])
    BY <1>0, <2>1
  <2>5. OwnA(reg[s])'
    BY <2>1, <2>2, <2>3, <2>4, OthersServe
  <2>6. OwnAAAA(reg[s])'
    BY <2>1, <2>2, <2>3, <2>4, OthersServe
  <2> QED
    BY <2>5, <2>6
<1>2. reg'[r] # Idle => OwnA(reg[r])' /\ OwnAAAA(reg[r])'
  <2>0. CASE RegArrive(r)
    <3>1. reg'[r].a = {} /\ reg'[r].aaaa = {}
      BY <2>0 DEF RegArrive, TypeInv, TypeOK, EnrollTypeOK
    <3> QED
      BY <3>1
  <2> SUFFICES ASSUME reg'[r] # Idle, RegStep(r) \/ RegClientGone(r)
               PROVE  OwnA(reg[r])' /\ OwnAAAA(reg[r])'
    BY <2>0
  <2>1. /\ reg[r] # Idle /\ reg'[r].v4 = reg[r].v4 /\ reg'[r].v6 = reg[r].v6
        /\ reg'[r].a = reg[r].a \/ PostsA(r)
        /\ reg'[r].aaaa = reg[r].aaaa \/ PostsAAAA(r)
    BY RegMoves DEF PostsA, PostsAAAA
  <2>2. OwnA(reg[r]) /\ OwnAAAA(reg[r]) /\ RegShape(reg[r])
    BY <1>0, <2>1 DEF TypeInv, Shapes
  <2>3. CASE PostsA(r)
    <3>1. \A w : w = reg[r].v4 => \A id \in reg'[r].a : Serves(id, w)'
      <4>1. reg'[r].a = {nextId}
        BY <2>3, PostsMove
      <4> QED
        BY <2>3, <4>1, PostServes DEF PostsA
    <3>2. reg'[r].aaaa = {}
      BY <2>1, <2>2, <2>3, RegFrom DEF RegShape
    <3> QED
      BY <2>1, <3>1, <3>2
  <2>4. CASE PostsAAAA(r)
    <3>1. reg[r].pc = "postAAAA" /\ reg'[r].a = reg[r].a /\ ~PostsA(r)
      BY <2>1, <2>4, RegFrom
    <3>0. SUFFICES ASSUME reg'[r].aaaa = {nextId} PROVE OwnA(reg[r])' /\ OwnAAAA(reg[r])'
      BY <2>4, PostsMove
    <3>2. \A w : w = The(reg[r].v6) => \A id \in reg'[r].aaaa : Serves(id, w)'
      BY <2>4, <3>0, PostServes DEF PostsAAAA
    <3>3. \A id \in reg'[r].a : \A w : w = reg[r].v4 => Serves(id, w)'
      BY <2>2, <2>4, <3>1, PostServes DEF PostsAAAA
    <3> QED
      BY <2>1, <3>2, <3>3
  <2>5. CASE ~PostsA(r) /\ ~PostsAAAA(r)
    <3>1. /\ reg'[r].pc \in {"postAAAA", "insert", "sign", "upsertA"} =>
               /\ reg[r].pc \in {"postAAAA", "insert", "sign", "upsertA"}
               /\ ~RegUndoA(r) /\ ~RegUndoAAAA(r)
          /\ reg'[r].pc \in {"insert", "sign", "upsertA", "upsertAAAA"} =>
               /\ reg[r].pc \in {"insert", "sign", "upsertA", "upsertAAAA"}
               /\ ~RegUndoA(r) /\ ~RegUndoAAAA(r)
      BY <2>5, RegPath, RegFrom
    <3>2. OwnA(reg[r])'
      BY <2>1, <2>2, <2>5, <3>1, OthersServe
    <3>3. OwnAAAA(reg[r])'
      BY <2>1, <2>2, <2>5, <3>1, OthersServe
    <3> QED
      BY <3>2, <3>3
  <2> QED
    BY <2>3, <2>4, <2>5
<1>3. \A b \in Beats : Intact(b)'
  <2> SUFFICES ASSUME NEW b \in Beats PROVE Intact(b)'
    OBVIOUS
  <2>1. Intact(b)
    BY <1>0
  <2>2. \A id \in HeldIds(b) : id \notin Private(r)
    BY DEF PrivateInv
  <2>3. BeatAt(b, "put")' => \A id \in beat[b].cf : Exists(id)'
    BY <2>1, <2>2, OthersServe DEF HeldIds, BeatAt
  <2>4. BeatAt(b, "mirror")' => \A id \in beat[b].cf : \A w : w = Reported(b) => Serves(id, w)'
    BY <2>1, <2>2, OthersServe DEF HeldIds, BeatAt
  <2>5. Reported(b)' = Reported(b)
    BY DEF Reported, Current
  <2> QED
    BY <2>3, <2>4, <2>5
<1> QED
  BY <1>1, <1>2, <1>3 DEF HoldInv

\* A registration keeps the mirror exact.
LEMMA RegMirror ==
  ASSUME Faults \cap MirrorFaults = {}, TypeInv, LabelInv, MirrorInv,
         NEW r \in Requests, RegArrive(r) \/ RegStep(r), UNCHANGED beat
  PROVE  MirrorInv'
<1>0. /\ AllLive /\ OneBeatPerCam /\ ZoneKey /\ PrivateInv /\ HoldInv
      /\ \A x \in dnsRows : Serves(x.cf, x.value) \/ BeingMirrored(x.cf)
  BY DEF MirrorInv
<1>1. AllLive'
  <2>1. \A s \in Requests : s # r => reg'[s] = reg[s]
    BY RegFrame
  <2>2. RegArrive(r) => reg'[r].live
    BY DEF RegArrive, TypeInv, TypeOK, EnrollTypeOK
  <2>3. RegStep(r) /\ reg'[r] # Idle => reg'[r].live
    BY <1>0, RegMoves, SureReplies DEF AllLive, RegClientGone
  <2> QED
    BY <1>0, <2>1, <2>2, <2>3 DEF AllLive
<1>2. OneBeatPerCam'
  BY <1>0 DEF OneBeatPerCam, Cam
<1>3. ZoneKey'
  <2>1. CASE PostsA(r) \/ PostsAAAA(r)
    BY <1>0, <2>1, PostServes, NextIdFresh DEF PostsA, PostsAAAA
  <2>2. CASE ~PostsA(r) /\ ~PostsAAAA(r)
    BY <1>0, <2>2, RegZoneKeeps DEF ZoneKey
  <2> QED
    BY <2>1, <2>2
<1>4. PrivateInv'
  BY <1>0, RegPrivate
<1>5. HoldInv'
  BY <1>0, RegHold
<1>6. \A id : BeingMirrored(id)' <=> BeingMirrored(id)
  BY DEF BeingMirrored, BeatAt
<1>7. \A x \in dnsRows : Serves(x.cf, x.value)' \/ BeingMirrored(x.cf)'
  <2> SUFFICES ASSUME NEW x \in dnsRows, Serves(x.cf, x.value)
               PROVE  Serves(x.cf, x.value)'
    BY <1>0, <1>6
  <2>1. \A s \in Requests : \A id \in Private(s) : \A y \in dnsRows : y.cf # id
    BY <1>0 DEF PrivateInv
  <2>2. x.cf \notin Private(r)
    BY <2>1
  <2> QED
    BY <2>2, OthersServe
\* A pointer a registration writes says what its record serves.
<1>8. ASSUME RegUpsertA(r)
      PROVE  \A x : x = PointerA(r) => Serves(x.cf, x.value)'
  <2>1. reg[r] # Idle /\ reg[r].pc = "upsertA" /\ The(reg[r].a) \in reg[r].a
    BY <1>8, RegFrom, OptElim DEF TypeInv, TypeOK, Shapes, RegShape, EnrollTypeOK, RegRequest
  <2>2. Serves(The(reg[r].a), reg[r].v4)
    BY <1>0, <2>1 DEF HoldInv
  <2>3. \A id, w : Serves(id, w) => Serves(id, w)'
    BY <1>8, RegFrom, OthersServe
  <2> QED
    BY <2>2, <2>3 DEF PointerA
<1>9. ASSUME RegUpsertAAAA(r)
      PROVE  \A x : x = PointerAAAA(r) => Serves(x.cf, x.value)'
  <2>1. reg[r] # Idle /\ reg[r].pc = "upsertAAAA" /\ The(reg[r].aaaa) \in reg[r].aaaa
    BY <1>9, RegFrom, OptElim DEF TypeInv, TypeOK, Shapes, RegShape, EnrollTypeOK, RegRequest
  <2>2. Serves(The(reg[r].aaaa), The(reg[r].v6))
    BY <1>0, <2>1 DEF HoldInv
  <2>3. \A id, w : Serves(id, w) => Serves(id, w)'
    BY <1>9, RegFrom, OthersServe
  <2> QED
    BY <2>2, <2>3 DEF PointerAAAA
<1>10. \A x \in dnsRows' : Serves(x.cf, x.value)' \/ BeingMirrored(x.cf)'
  <2>1. CASE RegUpsertA(r) /\ UpsertDns(PointerA(r))
    <3>1. \A x \in dnsRows' : x \in dnsRows \/ x = PointerA(r)
      BY <2>1 DEF UpsertDns
    <3>2. \A x : x = PointerA(r) => Serves(x.cf, x.value)'
      BY <1>8, <2>1
    <3> QED
      BY <1>7, <3>1, <3>2
  <2>2. CASE RegUpsertAAAA(r) /\ UpsertDns(PointerAAAA(r))
    <3>1. \A x \in dnsRows' : x \in dnsRows \/ x = PointerAAAA(r)
      BY <2>2 DEF UpsertDns
    <3>2. \A x : x = PointerAAAA(r) => Serves(x.cf, x.value)'
      BY <1>9, <2>2
    <3> QED
      BY <1>7, <3>1, <3>2
  <2>3. CASE UNCHANGED dnsRows \/ DeleteDevice(reg[r].dev)
    BY <1>7, <2>3 DEF DeleteDevice
  <2> QED
    BY <2>1, <2>2, <2>3, RegDns
<1> QED
  BY <1>1, <1>2, <1>3, <1>4, <1>5, <1>10 DEF MirrorInv

\* What a heartbeat holds on to afterwards: what it held, the id its cam's
\* pointer holds, or the id of the record it just made.
LEMMA HeldMoves ==
  ASSUME TypeInv, NEW b \in Beats, BeatArrive(b) \/ BeatStep(b) \/ BeatClientGone(b)
  PROVE  /\ \A id \in HeldIds(b)' :
              \/ id \in HeldIds(b)
              \/ \E x \in dnsRows : x.cf = id
              \/ /\ SyncPost(b) /\ id = nextId
                 /\ PostRecord(beat[b].claim.sub, Current(b), Reported(b), Cam(b))
         /\ \A c \in Beats : c # b => HeldIds(c)' = HeldIds(c)
<1>1. \A c \in Beats : c # b => HeldIds(c)' = HeldIds(c)
  BY BeatFrame DEF HeldIds, BeatAt
<1>2. ASSUME NEW id \in HeldIds(b)'
      PROVE  \/ id \in HeldIds(b)
             \/ \E x \in dnsRows : x.cf = id
             \/ /\ SyncPost(b) /\ id = nextId
                /\ PostRecord(beat[b].claim.sub, Current(b), Reported(b), Cam(b))
  <2>1. (BeatAt(b, "put")' \/ BeatAt(b, "mirror")') /\ id \in beat'[b].cf
    BY <1>2 DEF HeldIds
  <2>2. ~BeatArrive(b)
    BY <2>1 DEF BeatArrive, BeatAt, TypeInv, TypeOK, BeatTypeOK
  <2> QED
    BY <2>1, <2>2, BeatMoves DEF HeldIds, DnsRowOf
<1> QED
  BY <1>1, <1>2

\* Where each step of a heartbeat starts from.
LEMMA BeatFrom ==
  ASSUME NEW b \in Beats
  PROVE  /\ BeatLookup(b) => BeatAt(b, "lookup")
         /\ BeatUpdate(b) => BeatAt(b, "update")
         /\ SyncGet(b) => BeatAt(b, "get") /\ UNCHANGED <<dnsRows, zone, nextId>>
         /\ SyncPost(b) => BeatAt(b, "post") /\ UNCHANGED dnsRows
         /\ SyncPut(b) => BeatAt(b, "put") /\ UNCHANGED dnsRows
         /\ SyncMirror(b) => BeatAt(b, "mirror") /\ UNCHANGED <<zone, nextId>>
BY DEF BeatLookup, BeatUpdate, SyncGet, SyncPost, SyncPut, SyncMirror, storeVars, zoneVars

\* A heartbeat writes to a record of the zone only what it holds.
LEMMA BeatServes ==
  ASSUME TypeInv, NEW b \in Beats, BeatArrive(b) \/ BeatStep(b) \/ BeatClientGone(b)
  PROVE  /\ \A id, w : id \notin HeldIds(b) /\ Serves(id, w) => Serves(id, w)'
         /\ \A id : Exists(id) => Exists(id)'
         /\ ~SyncPut(b) => \A id, w : Serves(id, w) => Serves(id, w)'
<1>1. CASE UNCHANGED zoneVars
  BY <1>1 DEF zoneVars, Serves, Exists
<1>2. CASE PostRecord(beat[b].claim.sub, Current(b), Reported(b), Cam(b))
  BY <1>2, PostServes
<1>3. ASSUME SyncPut(b), NEW i \in beat[b].cf,
             PutRecord(i, beat[b].claim.sub, Current(b), Reported(b), Cam(b))
      PROVE  /\ \A id, w : id \notin HeldIds(b) /\ Serves(id, w) => Serves(id, w)'
             /\ \A id : Exists(id) => Exists(id)'
  <2>1. i \in HeldIds(b)
    BY <1>3, BeatFrom DEF HeldIds
  <2> QED
    BY <1>3, <2>1, PutServes
<1> QED
  BY <1>1, <1>2, <1>3, BeatDns

\* A heartbeat leaves private ids private.
LEMMA BeatPrivate ==
  ASSUME TypeInv, LabelInv, PrivateInv,
         NEW b \in Beats, BeatArrive(b) \/ BeatStep(b) \/ BeatClientGone(b)
  PROVE  PrivateInv'
<1>1. \A r \in Requests : Private(r)' = Private(r)
  BY HeartbeatFrame DEF Private, PrivateA, PrivateAAAA
<1>2. \A x \in dnsRows' : x \in dnsRows \/ x.cf \in HeldIds(b)
  <2>1. CASE SyncMirror(b) /\ UpsertDns(PointerOf(b))
    <3>1. \A x \in dnsRows' : x \in dnsRows \/ x = PointerOf(b)
      BY <2>1 DEF UpsertDns
    <3>2. BeatAt(b, "mirror") /\ The(beat[b].cf) \in beat[b].cf
      BY <2>1, BeatFrom, OptElim DEF BeatAt, TypeInv, TypeOK, Shapes, BeatShape,
         BeatTypeOK, BeatRequest
    <3>3. PointerOf(b).cf \in HeldIds(b)
      BY <3>2 DEF PointerOf, HeldIds
    <3> QED
      BY <3>1, <3>3
  <2> QED
    BY <2>1, BeatDns
<1>3. \A r \in Requests : \A id \in Private(r) :
        /\ id # nextId
        /\ \A x \in dnsRows : x.cf # id
        /\ \A c \in Beats : id \notin HeldIds(c)
        /\ \A s \in Requests : s # r => id \notin Private(s)
  BY NextIdFresh DEF PrivateInv
<1>4. ASSUME NEW r \in Requests, NEW id \in Private(r)
      PROVE  /\ \A x \in dnsRows' : x.cf # id
             /\ \A c \in Beats : id \notin HeldIds(c)'
             /\ \A s \in Requests : s # r => id \notin Private(s)'
  <2>1. \A x \in dnsRows' : x.cf # id
    BY <1>2, <1>3, <1>4
  <2>2. \A c \in Beats : id \notin HeldIds(c)'
    BY <1>3, <1>4, HeldMoves
  <2>3. \A s \in Requests : s # r => id \notin Private(s)'
    BY <1>1, <1>3, <1>4
  <2> QED
    BY <2>1, <2>2, <2>3
<1> QED
  BY <1>1, <1>4 DEF PrivateInv

\* A heartbeat keeps what the private records and the held ones serve.
LEMMA BeatHold ==
  ASSUME Faults \cap MirrorFaults = {}, TypeInv, LabelInv, MirrorInv,
         NEW b \in Beats, BeatArrive(b) \/ BeatStep(b)
  PROVE  HoldInv'
<1>0. /\ OneBeatPerCam /\ PrivateInv /\ HoldInv
      /\ \A x \in dnsRows : Serves(x.cf, x.value) \/ BeingMirrored(x.cf)
  BY DEF MirrorInv
<1>1. UNCHANGED reg
  BY HeartbeatFrame
<1>2. \A r \in Requests : \A id \in Private(r) : id \notin HeldIds(b)
  BY <1>0 DEF PrivateInv
<1>3. ASSUME NEW r \in Requests, reg[r] # Idle
      PROVE  /\ reg[r].pc \in {"postAAAA", "insert", "sign", "upsertA"} =>
                  \A id \in reg[r].a : Serves(id, reg[r].v4)'
             /\ reg[r].pc \in {"insert", "sign", "upsertA", "upsertAAAA"} =>
                  \A id \in reg[r].aaaa : Serves(id, The(reg[r].v6))'
  <2>1. /\ reg[r].pc \in {"postAAAA", "insert", "sign", "upsertA"} =>
             \A id \in reg[r].a : id \in Private(r) /\ Serves(id, reg[r].v4)
        /\ reg[r].pc \in {"insert", "sign", "upsertA", "upsertAAAA"} =>
             \A id \in reg[r].aaaa : id \in Private(r) /\ Serves(id, The(reg[r].v6))
    BY <1>0, <1>3 DEF HoldInv, Private, PrivateA, PrivateAAAA
  <2>2. \A id \in Private(r) : \A w : Serves(id, w) => Serves(id, w)'
    BY <1>2, BeatServes
  <2> QED
    BY <1>1, <2>1, <2>2
<1>4. ASSUME NEW c \in Beats, c # b
      PROVE  /\ BeatAt(c, "put")' => \A id \in beat'[c].cf : Exists(id)'
             /\ BeatAt(c, "mirror")' => \A id \in beat'[c].cf : Serves(id, Reported(c))'
  <2>1. beat'[c] = beat[c]
    BY <1>4, BeatFrame
  <2>2. Reported(c)' = Reported(c)
    BY <2>1 DEF Reported, Current
  <2>3. BeatAt(c, "put")' => \A id \in beat'[c].cf : Exists(id)'
    BY <1>0, <2>1, BeatServes DEF HoldInv, BeatAt
  <2>4. ASSUME BeatAt(c, "mirror"), NEW id \in beat[c].cf
        PROVE  \A w : w = Reported(c) => Serves(id, w)'
    <3>1. Serves(id, Reported(c)) /\ id \in HeldIds(c)
      BY <1>0, <2>4 DEF HoldInv, HeldIds
    <3>2. CASE SyncPut(b)
      <4>1. beat[b] # Idle /\ beat[c] # Idle /\ Cam(b) # Cam(c)
        BY <1>0, <1>4, <2>4, <3>2, BeatFrom DEF OneBeatPerCam, BeatAt
      <4>2. id \notin HeldIds(b)
        BY <3>1, <4>1, IdsApart
      <4> QED
        BY <3>1, <4>2, BeatServes
    <3> QED
      BY <3>1, <3>2, BeatServes
  <2> QED
    BY <2>1, <2>2, <2>3, <2>4 DEF BeatAt
<1>5. ASSUME BeatAt(b, "put")'
      PROVE  \A id \in beat'[b].cf : Exists(id)'
  <2>1. BeatStep(b) /\ beat'[b] # Idle /\ beat'[b].pc = "put"
    BY <1>5 DEF BeatArrive, BeatAt, TypeInv, TypeOK, BeatTypeOK
  <2>2. ~BeatClientGone(b)
    BY SureReplies DEF BeatClientGone
  <2>3. SyncGet(b) /\ \E x \in DnsRowOf(Cam(b), Current(b)) : beat'[b].cf = {x.cf}
    BY <2>1, <2>2, BeatPath DEF Returned
  <2>4. \A x \in dnsRows : Exists(x.cf)
    <3>1. \A id : BeingMirrored(id) => Exists(id)
      BY <1>0 DEF BeingMirrored, HoldInv, Serves, Exists
    <3> QED
      BY <1>0, <3>1 DEF Serves, Exists
  <2> QED
    BY <2>3, <2>4, BeatServes DEF DnsRowOf
<1>6. ASSUME BeatAt(b, "mirror")'
      PROVE  \A id \in beat'[b].cf : Serves(id, Reported(b))'
  <2>1. BeatStep(b) /\ beat'[b] # Idle /\ beat'[b].pc = "mirror"
    BY <1>6 DEF BeatArrive, BeatAt, TypeInv, TypeOK, BeatTypeOK
  <2>2. ~BeatClientGone(b)
    BY SureReplies DEF BeatClientGone
  <2>3. \/ /\ SyncPost(b) /\ beat'[b].todo = beat[b].todo /\ beat'[b].cf = {nextId}
           /\ PostRecord(beat[b].claim.sub, Current(b), Reported(b), Cam(b))
        \/ /\ SyncPut(b) /\ Unmoved(b)
           /\ \E id \in beat[b].cf : Exists(id) /\
                PutRecord(id, beat[b].claim.sub, Current(b), Reported(b), Cam(b))
    BY <2>1, <2>2, BeatPath DEF Returned
  <2>4. Reported(b)' = Reported(b)
    BY <2>1, <2>3, BeatKeeps DEF Reported, Current, Unmoved
  <2>5. \A id \in beat'[b].cf : \A w : w = Reported(b) => Serves(id, w)'
    <3>1. CASE /\ beat'[b].cf = {nextId}
               /\ PostRecord(beat[b].claim.sub, Current(b), Reported(b), Cam(b))
      BY <3>1, PostServes
    <3>2. ASSUME SyncPut(b), Unmoved(b), NEW i \in beat[b].cf, Exists(i),
                 PutRecord(i, beat[b].claim.sub, Current(b), Reported(b), Cam(b))
          PROVE  \A id \in beat'[b].cf : \A w : w = Reported(b) => Serves(id, w)'
      <4>1. beat'[b].cf = {i}
        BY <3>2, BeatFrom DEF Unmoved, BeatAt, TypeInv, TypeOK, BeatTypeOK,
           BeatRequest, Opt
      <4> QED
        BY <3>2, <4>1, PutServes
    <3> QED
      BY <2>3, <3>1, <3>2
  <2> QED
    BY <2>4, <2>5
<1> QED
  BY <1>1, <1>3, <1>4, <1>5, <1>6 DEF HoldInv

\* Without operators, the cam of a heartbeat in flight has its row, under
\* the name the heartbeat claims.
LEMMA BeatHasRow ==
  ASSUME GrantInv, BeatsHoldJwts, NEW b \in Beats, beat[b] # Idle
  PROVE  /\ \E row \in RowOf(Cam(b)) : row.sub = beat[b].claim.sub
         /\ \A r \in Requests : HasRow(r) => reg[r].dev # Cam(b)
BY DEF GrantInv, GrantedKeepsRow, BeatsHoldJwts, Cam

\* The mirror step of a DNS sync puts its pointer in the place of the others.
LEMMA MirrorWrites ==
  ASSUME Faults \cap MirrorFaults = {}, TypeInv, GrantInv, BeatsHoldJwts, AllLive,
         NEW b \in Beats, SyncMirror(b)
  PROVE  dnsRows' = (dnsRows \ DnsRowOf(Cam(b), Current(b))) \cup {PointerOf(b)}
<1>1. beat[b] # Idle /\ beat[b].live
  BY BeatFrom DEF BeatAt, AllLive
<1>2. UpsertDns(PointerOf(b))
  BY <1>1, SureReplies DEF SyncMirror, PointerOf
<1>3. PointerOf(b).dev = Cam(b) /\ PointerOf(b).type = Current(b)
  BY DEF PointerOf
<1>4. RowOf(Cam(b)) # {}
  BY <1>1, BeatHasRow
<1> QED
  BY <1>2, <1>3, <1>4 DEF UpsertDns

\* A heartbeat keeps the mirror exact.
LEMMA BeatMirror ==
  ASSUME Faults \cap MirrorFaults = {}, TypeInv, GrantInv, PointerInv, MirrorInv,
         NEW b \in Beats, BeatArrive(b) \/ BeatStep(b)
  PROVE  MirrorInv'
<1>0. /\ AllLive /\ OneBeatPerCam /\ ZoneKey /\ PrivateInv /\ HoldInv
      /\ \A x \in dnsRows : Serves(x.cf, x.value) \/ BeingMirrored(x.cf)
      /\ LabelInv /\ BeatsHoldJwts
  BY DEF MirrorInv, PointerInv
<1>1. AllLive'
  <2>1. BeatArrive(b) => beat'[b].live
    BY DEF BeatArrive, TypeInv, TypeOK, BeatTypeOK
  <2>2. BeatStep(b) /\ beat'[b] # Idle => beat'[b].live
    BY <1>0, BeatKeeps, SureReplies DEF AllLive, BeatClientGone
  <2> QED
    BY <1>0, <2>1, <2>2, BeatFrame, HeartbeatFrame DEF AllLive
<1>2. OneBeatPerCam'
  <2>1. CASE BeatArrive(b)
    <3>1. \A c \in Beats : beat[c] # Idle => Cam(c) # Cam(b)'
      <4>1. PICK claim \in jwts, v4 \in V4, v6 \in Opt(V6) :
              /\ \/ "overlap" \in Faults
                 \/ \A c \in Beats : beat[c] # Idle => Cam(c) # claim.dev
              /\ beat' = [beat EXCEPT ![b] =
                            [pc |-> "lookup", live |-> TRUE, claim |-> claim,
                             v4 |-> v4, v6 |-> v6, oldV4 |-> {}, oldV6 |-> {},
                             todo |-> {}, cf |-> {}]]
        BY <2>1 DEF BeatArrive
      <4>2. beat'[b].claim = claim
        BY <4>1 DEF TypeInv, TypeOK, BeatTypeOK
      <4> QED
        BY <4>1, <4>2, SureReplies DEF Cam
    <3>2. \A c \in Beats : c # b => Cam(c)' = Cam(c) /\ beat'[c] = beat[c]
      BY BeatFrame DEF Cam
    <3> QED
      BY <1>0, <3>1, <3>2 DEF OneBeatPerCam
  <2>2. CASE BeatStep(b)
    <3>1. \A c \in Beats : beat'[c] # Idle => beat[c] # Idle /\ Cam(c)' = Cam(c)
      BY <2>2, BeatFrame, BeatKeeps DEF Cam
    <3> QED
      BY <1>0, <3>1 DEF OneBeatPerCam
  <2> QED
    BY <2>1, <2>2
<1>3. ZoneKey'
  <2>1. CASE UNCHANGED zoneVars
    BY <1>0, <2>1 DEF ZoneKey, zoneVars
  <2> QED
    BY <1>0, <2>1, BeatDns, PostServes, PutServes, NextIdFresh
<1>4. PrivateInv'
  BY <1>0, BeatPrivate
<1>5. HoldInv'
  BY <1>0, BeatHold
<1>6. \A id : \A c \in Beats : c # b /\ BeatAt(c, "mirror") /\ id \in beat[c].cf
                => BeingMirrored(id)'
  BY BeatFrame DEF BeingMirrored, BeatAt
<1>7. ~BeatClientGone(b)
  BY SureReplies DEF BeatClientGone
<1>8. \A x \in dnsRows' : Serves(x.cf, x.value)' \/ BeingMirrored(x.cf)'
  <2>1. CASE SyncMirror(b)
    <3>1. dnsRows' = (dnsRows \ DnsRowOf(Cam(b), Current(b))) \cup {PointerOf(b)}
      BY <1>0, <2>1, MirrorWrites
    <3>2. \A id, w : Serves(id, w) => Serves(id, w)'
      BY <2>1, BeatFrom, BeatServes DEF BeatAt
    <3>3. \A x : x = PointerOf(b) => Serves(x.cf, x.value)'
      <4>1. BeatAt(b, "mirror") /\ The(beat[b].cf) \in beat[b].cf
        BY <2>1, BeatFrom, OptElim DEF BeatAt, TypeInv, TypeOK, Shapes, BeatShape,
           BeatTypeOK, BeatRequest
      <4>2. Serves(The(beat[b].cf), Reported(b))
        BY <1>0, <4>1 DEF HoldInv
      <4>3. PointerOf(b).cf = The(beat[b].cf) /\ PointerOf(b).value = Reported(b)
        BY DEF PointerOf
      <4> QED
        BY <3>2, <4>2, <4>3
    <3>4. ASSUME NEW x \in dnsRows, x \notin DnsRowOf(Cam(b), Current(b))
          PROVE  Serves(x.cf, x.value)' \/ BeingMirrored(x.cf)'
      <4>1. x.cf \notin HeldIds(b)
        BY <1>0, <3>4, IdsApart
      <4>2. CASE Serves(x.cf, x.value)
        BY <3>2, <4>2
      <4>3. CASE BeingMirrored(x.cf)
        BY <1>6, <4>1, <4>3 DEF BeingMirrored, HeldIds
      <4> QED
        BY <1>0, <4>2, <4>3
    <3> QED
      BY <3>1, <3>3, <3>4
  <2>2. CASE SyncPut(b)
    <3>1. beat[b] # Idle /\ beat[b].live /\ beat[b].pc = "put"
      BY <1>0, <2>2, BeatFrom DEF BeatAt, AllLive
    <3>2. PICK reply \in {"ok", "failed"}, i \in beat[b].cf :
            /\ IF Done(reply)
               THEN PutRecord(i, beat[b].claim.sub, Current(b), Reported(b), Cam(b))
               ELSE UNCHANGED zoneVars
            /\ IF reply = "ok" /\ Exists(i) THEN BeatGoto(b, "mirror")
                                            ELSE SyncReturn(b)
      BY <2>2, <3>1, SureReplies DEF SyncPut
    <3>3. Exists(i)
      BY <1>0, <2>2, BeatFrom DEF HoldInv
    <3>4. CASE reply = "ok"
      <4>1. BeatAt(b, "mirror")' /\ beat'[b].cf = {i}
        <5>1. beat'[b] # Idle /\ beat'[b].pc = "mirror" /\ beat'[b].cf = beat[b].cf
          BY <3>1, <3>2, <3>3, <3>4 DEF BeatGoto, TypeInv, TypeOK, BeatTypeOK,
             BeatRequest, Idle
        <5>2. beat[b].cf = {i}
          BY <3>1 DEF TypeInv, TypeOK, BeatTypeOK, BeatRequest, Opt
        <5> QED
          BY <5>1, <5>2 DEF BeatAt
      <4>2. BeingMirrored(i)'
        BY <4>1 DEF BeingMirrored
      <4>3. \A id, w : id # i /\ Serves(id, w) => Serves(id, w)'
        BY <3>2, <3>4, PutServes DEF Done
      <4>4. \A x \in dnsRows : x.cf = i \/ Serves(x.cf, x.value)' \/ BeingMirrored(x.cf)'
        BY <1>0, <1>6, <3>1, <4>3 DEF BeingMirrored, BeatAt
      <4> QED
        BY <2>2, <4>2, <4>4, BeatFrom
    <3>5. CASE reply = "failed"
      <4>1. \A id, w : Serves(id, w) => Serves(id, w)'
        BY <3>2, <3>5 DEF Done, zoneVars, Serves
      <4> QED
        BY <1>0, <1>6, <2>2, <3>1, <4>1, BeatFrom DEF BeingMirrored, BeatAt
    <3> QED
      BY <3>4, <3>5
  <2>3. CASE ~SyncMirror(b) /\ ~SyncPut(b)
    <3>1. UNCHANGED dnsRows
      BY <2>3, BeatDns
    <3>2. ~BeatAt(b, "mirror")
      BY <2>3, BeatFrom DEF BeatArrive, BeatStep, BeatAt
    <3> QED
      BY <1>0, <1>6, <2>3, <3>1, <3>2, BeatServes DEF BeingMirrored
  <2> QED
    BY <2>1, <2>2, <2>3
<1> QED
  BY <1>0, <1>1, <1>2, <1>3, <1>4, <1>5, <1>8 DEF MirrorInv

\* The steps that concern neither requests nor records.
LEMMA QuietStep ==
  ASSUME TokenNext \/ UNCHANGED vars
  PROVE  UNCHANGED <<devices, dnsRows, zone, nextId, reg, jwts, beat>>
BY DEF TokenNext, MintToken, Revoke, TokenExpires, vars, storeVars, zoneVars, enrollVars

\* What Next is without crashes, lost connections and operators.
LEMMA CalmNext ==
  ASSUME Faults \cap MirrorFaults = {}, [Next]_vars
  PROVE  \/ \E r \in Requests : (RegArrive(r) \/ RegStep(r)) /\ UNCHANGED beat
         \/ \E b \in Beats : BeatArrive(b) \/ BeatStep(b)
         \/ UNCHANGED <<devices, dnsRows, zone, nextId, reg, jwts, beat>>
<1>1. CASE RegisterNext
  BY <1>1, SureReplies DEF RegisterNext, RegClientGone
<1>2. CASE HeartbeatNext
  BY <1>2, SureReplies DEF HeartbeatNext, BeatClientGone
<1>3. CASE TokenNext \/ UNCHANGED vars
  BY <1>3, QuietStep
<1>4. ~HubCrash /\ ~ \E d \in Devices : AdminDrop(d)
  BY SureReplies DEF HubCrash, AdminDrop
<1> QED
  BY <1>1, <1>2, <1>3, <1>4 DEF Next

\* MirrorInv is inductive while a PUT that was made is always mirrored.
LEMMA MirrorStep ==
  ASSUME Faults \cap MirrorFaults = {}
  PROVE  TypeInv /\ GrantInv /\ PointerInv /\ MirrorInv /\ [Next]_vars => MirrorInv'
<1> SUFFICES ASSUME TypeInv, GrantInv, PointerInv, MirrorInv, [Next]_vars
             PROVE  MirrorInv'
  OBVIOUS
<1>1. CASE \E r \in Requests : (RegArrive(r) \/ RegStep(r)) /\ UNCHANGED beat
  BY <1>1, RegMirror DEF PointerInv
<1>2. CASE \E b \in Beats : BeatArrive(b) \/ BeatStep(b)
  BY <1>2, BeatMirror
<1>3. CASE UNCHANGED <<devices, dnsRows, zone, nextId, reg, jwts, beat>>
  <2>1. AllLive' /\ OneBeatPerCam' /\ ZoneKey'
    BY <1>3 DEF MirrorInv, AllLive, OneBeatPerCam, Cam, ZoneKey
  <2>2. PrivateInv'
    BY <1>3 DEF MirrorInv, PrivateInv, Private, PrivateA, PrivateAAAA, HeldIds, BeatAt
  <2>3. HoldInv'
    BY <1>3 DEF MirrorInv, HoldInv, Serves, Exists, BeatAt, Reported, Current
  <2>4. \A x \in dnsRows' : Serves(x.cf, x.value)' \/ BeingMirrored(x.cf)'
    BY <1>3 DEF MirrorInv, Serves, BeingMirrored, BeatAt
  <2> QED
    BY <2>1, <2>2, <2>3, <2>4 DEF MirrorInv
<1> QED
  BY <1>1, <1>2, <1>3, CalmNext

\* With empty tables and an empty zone nothing is held or pointed to.
LEMMA SyncInit == Init => GrantInv /\ PointerInv /\ MirrorInv
<1> SUFFICES ASSUME Init PROVE GrantInv /\ PointerInv /\ MirrorInv
  OBVIOUS
<1>0. /\ zone = {} /\ dnsRows = {} /\ devices = {} /\ jwts = {}
      /\ \A r \in Requests : reg[r] = Idle
      /\ \A b \in Beats : beat[b] = Idle
  BY DEF Init, StoreInit, ZoneInit, EnrollInit, BeatInit
<1>1. Labels = {}
  BY <1>0 DEF Labels, ZoneLabels, RowLabels, RegLabels, BeatLabels, BeatAt
<1>2. GrantInv
  BY <1>0 DEF GrantInv, GrantedKeepsRow, HasRow
<1>3. PointerInv
  BY <1>0, <1>1 DEF PointerInv, LabelInv, RowKey, DnsKey, DnsNamed, BeatsHoldJwts
<1>4. \A r \in Requests : Private(r) = {}
  BY <1>0 DEF Private, PrivateA, PrivateAAAA
<1>5. AllLive /\ OneBeatPerCam /\ ZoneKey /\ PrivateInv
  BY <1>0, <1>4 DEF AllLive, OneBeatPerCam, ZoneKey, PrivateInv
<1>6. HoldInv
  BY <1>0 DEF HoldInv, BeatAt
<1> QED
  BY <1>0, <1>2, <1>3, <1>5, <1>6 DEF MirrorInv

\* THE MIRROR IS EXACT, whatever Cloudflare refuses, whoever races for a
\* name, and even if the answers of statements get lost: with nothing in
\* flight a pointer holds the value its record serves.
THEOREM MirrorIsExact ==
  ASSUME Faults \cap MirrorFaults = {}
  PROVE  Spec => []MirrorMatchesZone
<1>1. MirrorInv => MirrorMatchesZone
  BY DEF MirrorInv, MirrorMatchesZone, Quiet, Serves, BeingMirrored, BeatAt
<1>2. "admin_drop" \notin Faults
  BY SureReplies
<1> QED
  BY <1>1, <1>2, SyncInit, TypeInit, TypeStep, GrantStep, PointerStep, MirrorStep, PTL
  DEF Spec

-----------------------------------------------------------------------------
(* No record is lost track of *)

\* The types a registration still has to write shrink on its way, but for
\* the one that just inserted its row.
LEMMA UnwrittenMoves ==
  ASSUME TypeInv, NEW r \in Requests, RegArrive(r) \/ RegStep(r) \/ RegClientGone(r)
  PROVE  /\ Unwritten(r)' \subseteq Unwritten(r) \/ (RegInsert(r) /\ reg'[r].pc = "sign")
         /\ RegInsert(r) => Unwritten(r) = {}
         /\ RegUpsertA(r) => "A" \in Unwritten(r) /\ "A" \notin Unwritten(r)'
         /\ RegUpsertAAAA(r) => "AAAA" \in Unwritten(r) /\ Unwritten(r)' = {}
         /\ Unwritten(r)' # {} => reg'[r].dev = reg[r].dev
<1> USE DEF Unwritten, HasRow, At, Types
<1>0. reg'[r] = Idle => Unwritten(r)' = {}
  OBVIOUS
<1>1. CASE RegArrive(r)
  <2>1. reg[r] = Idle /\ reg'[r].pc = "consume"
    BY <1>1 DEF RegArrive, TypeInv, TypeOK, EnrollTypeOK
  <2>2. ~RegInsert(r) /\ ~RegUpsertA(r) /\ ~RegUpsertAAAA(r)
    BY <2>1, RegFrom
  <2> QED
    BY <2>1, <2>2
<1>2. CASE reg'[r] = Idle
  <2>1. ~RegInsert(r) /\ ~RegUpsertA(r) /\ ~RegUpsertAAAA(r)
    BY <1>2 DEF RegInsert, RegUpsertA, RegUpsertAAAA, Goto, Idle, TypeInv, TypeOK,
       EnrollTypeOK, RegRequest
  <2> QED
    BY <1>0, <1>2, <2>1
<1>3. CASE (RegStep(r) \/ RegClientGone(r)) /\ reg'[r] # Idle
  <2>1. reg[r] # Idle /\ reg'[r].dev = reg[r].dev
    BY <1>3, RegMoves
  <2>2. /\ reg'[r].pc \in {"upsertA", "dropRow"} =>
             reg[r].pc \in {"sign", "upsertA", "dropRow"}
        /\ reg'[r].pc = "sign" => RegInsert(r) \/ reg[r].pc = "sign"
        /\ reg'[r].pc = "upsertAAAA" => reg[r].pc \in {"upsertA", "upsertAAAA"}
    BY <1>3, RegPath, RegFrom
  <2>3. /\ RegUpsertA(r) => reg[r].pc = "upsertA" /\ reg'[r].pc \in {"respond", "upsertAAAA"}
        /\ RegUpsertAAAA(r) => reg[r].pc = "upsertAAAA" /\ reg'[r].pc = "respond"
        /\ RegInsert(r) => reg[r].pc = "insert"
    BY <1>3, <2>1, RegFrom DEF RegUpsertA, RegUpsertAAAA, Goto, TypeInv, TypeOK,
       EnrollTypeOK, RegRequest
  <2> QED
    BY <1>3, <2>1, <2>2, <2>3
<1> QED
  BY <1>1, <1>2, <1>3

\* What a registration adds to dns_records is a pointer of its own cam, of a
\* type it had still to write, and it takes no pointer away.
LEMMA RegDnsMoves ==
  ASSUME TypeInv, TrackInv, NEW r \in Requests,
         RegArrive(r) \/ RegStep(r) \/ RegClientGone(r)
  PROVE  /\ dnsRows \subseteq dnsRows'
         /\ \A x \in dnsRows' :
              \/ x \in dnsRows
              \/ RegUpsertA(r) /\ x = PointerA(r)
              \/ RegUpsertAAAA(r) /\ x = PointerAAAA(r)
<1>1. \A type \in Unwritten(r) : DnsRowOf(reg[r].dev, type) = {}
  BY DEF TrackInv
<1>2. CASE RegUpsertA(r) /\ UpsertDns(PointerA(r))
  <2>1. PointerA(r).dev = reg[r].dev /\ PointerA(r).type = "A"
    BY DEF PointerA
  <2>2. DnsRowOf(PointerA(r).dev, PointerA(r).type) = {}
    BY <1>1, <1>2, <2>1, UnwrittenMoves
  <2> QED
    BY <1>2, <2>2 DEF UpsertDns
<1>3. CASE RegUpsertAAAA(r) /\ UpsertDns(PointerAAAA(r))
  <2>1. PointerAAAA(r).dev = reg[r].dev /\ PointerAAAA(r).type = "AAAA"
    BY DEF PointerAAAA
  <2>2. DnsRowOf(PointerAAAA(r).dev, PointerAAAA(r).type) = {}
    BY <1>1, <1>3, <2>1, UnwrittenMoves
  <2> QED
    BY <1>3, <2>2 DEF UpsertDns
<1>4. CASE RegDropRow(r) /\ DeleteDevice(reg[r].dev)
  <2>1. Unwritten(r) = Types
    BY <1>4, RegFrom DEF Unwritten, HasRow
  <2>2. \A x \in dnsRows : x.dev # reg[r].dev
    BY <1>1, <2>1 DEF DnsRowOf, TypeInv, TypeOK, StoreTypeOK, DnsRow
  <2> QED
    BY <1>4, <2>2 DEF DeleteDevice
<1>5. CASE UNCHANGED dnsRows
  BY <1>5
<1> QED
  BY <1>2, <1>3, <1>4, <1>5, RegDns

\* A registration finds its cam without pointers until it writes them.
LEMMA RegUnwritten ==
  ASSUME TypeInv, GrantInv, PointerInv, TrackInv, NEW r \in Requests,
         RegArrive(r) \/ RegStep(r) \/ RegClientGone(r)
  PROVE  \A s \in Requests : \A type \in Unwritten(s)' : DnsRowOf(reg[s].dev, type)' = {}
<1>0. \A s \in Requests : \A type \in Unwritten(s) : DnsRowOf(reg[s].dev, type) = {}
  BY DEF TrackInv
<1>1. \A s \in Requests : s # r => /\ Unwritten(s)' = Unwritten(s) /\ reg'[s] = reg[s]
                                   /\ (Unwritten(s) # {} => HasRow(s))
  BY RegFrame DEF Unwritten, HasRow, At
<1>2. \A x \in dnsRows' :
        \/ x \in dnsRows
        \/ /\ HasRow(r) /\ x.dev = reg[r].dev
           /\ \/ RegUpsertA(r) /\ x.type = "A"
              \/ RegUpsertAAAA(r) /\ x.type = "AAAA"
  BY RegDnsMoves, RegFrom DEF HasRow, PointerA, PointerAAAA
<1>3. ASSUME NEW s \in Requests, s # r, NEW type \in Unwritten(s)', NEW x \in dnsRows',
             x.dev = reg'[s].dev, x.type = type
      PROVE  FALSE
  <2>1. HasRow(s) /\ type \in Unwritten(s) /\ x.dev = reg[s].dev
    BY <1>1, <1>3
  <2>2. x \notin dnsRows
    BY <1>0, <1>3, <2>1 DEF DnsRowOf
  <2> QED
    BY <1>2, <1>3, <2>1, <2>2 DEF GrantInv
<1>4. ASSUME NEW type \in Unwritten(r)', NEW x \in dnsRows',
             x.dev = reg'[r].dev, x.type = type
      PROVE  FALSE
  <2>1. reg'[r].dev = reg[r].dev
    BY <1>4, UnwrittenMoves
  <2>2. CASE type \in Unwritten(r)
    <3>1. x \notin dnsRows
      BY <1>0, <1>4, <2>1, <2>2 DEF DnsRowOf
    <3> QED
      BY <1>2, <1>4, <3>1, UnwrittenMoves
  <2>3. CASE RegInsert(r) /\ reg'[r].pc = "sign"
    <3>1. x \in dnsRows
      BY <1>2, <2>3, RegFrom
    <3>2. Insertable(NewRow(r))
      <4>1. reg[r] # Idle /\ reg[r] \in RegRequest
        BY <2>3, RegFrom DEF TypeInv, TypeOK, EnrollTypeOK
      <4>2. Goto(r, "undoA") => reg'[r].pc = "undoA"
        BY <4>1 DEF Goto, TypeInv, TypeOK, EnrollTypeOK, RegRequest
      <4> QED
        BY <2>3, <4>2 DEF RegInsert
    <3>3. \A row \in devices : row.id # x.dev
      BY <1>4, <2>1, <3>2 DEF Insertable, RowOf, NewRow
    <3> QED
      BY <3>1, <3>3 DEF PointerInv, DnsNamed
  <2> QED
    BY <1>4, <2>2, <2>3, UnwrittenMoves
<1> QED
  BY <1>3, <1>4 DEF DnsRowOf

\* An id leaves the hands of its registration for a pointer or for a DELETE.
LEMMA PrivateLeaves ==
  ASSUME TypeInv, TrackInv, NEW r \in Requests, RegArrive(r) \/ RegStep(r),
         NEW id \in Private(r), id \notin Private(r)'
  PROVE  \/ RegUpsertA(r) /\ id = The(reg[r].a)
         \/ RegUpsertAAAA(r) /\ id = The(reg[r].aaaa)
         \/ RegUndoA(r) /\ id = The(reg[r].a)
         \/ RegUndoAAAA(r) /\ id = The(reg[r].aaaa)
<1>0. /\ reg[r] # Idle /\ reg[r] \in RegRequest /\ RegShape(reg[r])
      /\ reg[r].pc # "respond"
      /\ reg[r].a # {} => reg[r].a = {The(reg[r].a)}
      /\ reg[r].aaaa # {} => reg[r].aaaa = {The(reg[r].aaaa)}
  BY OptElim DEF Private, PrivateA, PrivateAAAA, TypeInv, TypeOK, Shapes,
     EnrollTypeOK, RegRequest
<1>1. RegStep(r)
  BY <1>0 DEF RegArrive
<1>2. reg[r].pc \notin {"consume", "probe", "postA"}
  BY <1>0 DEF RegShape, Private, PrivateA, PrivateAAAA
<1>3. CASE RegUpsertA(r)
  <2>1. reg[r].pc = "upsertA" /\ reg[r].a # {}
    BY <1>0, <1>3, RegFrom DEF RegShape
  <2>2. id = The(reg[r].a) \/ id \in reg[r].aaaa
    BY <1>0, <2>1 DEF Private, PrivateA, PrivateAAAA
  <2>3. id \in reg[r].aaaa => id \in Private(r)'
    <3>1. reg'[r] = [reg[r] EXCEPT !.pc = IF reg[r].v6 = {} THEN "respond" ELSE "upsertAAAA"]
      BY <1>0, <1>3 DEF RegUpsertA, Goto, TypeInv, TypeOK, EnrollTypeOK
    <3>2. id \in reg[r].aaaa => reg[r].v6 # {}
      BY <1>0 DEF TrackInv
    <3>3. id \in reg[r].aaaa => reg'[r].pc = "upsertAAAA" /\ id \in reg'[r].aaaa
      BY <1>0, <3>1, <3>2 DEF RegRequest
    <3> QED
      BY <3>3 DEF Private, PrivateAAAA, Idle
  <2> QED
    BY <1>3, <2>2, <2>3
<1>4. CASE RegUpsertAAAA(r)
  <2>1. reg[r].pc = "upsertAAAA" /\ reg[r].aaaa # {}
    BY <1>0, <1>4, RegFrom DEF RegShape
  <2> QED
    BY <1>0, <1>4, <2>1 DEF Private, PrivateA, PrivateAAAA
<1>5. CASE RegUndoAAAA(r)
  <2>1. reg[r].pc = "undoAAAA" /\ reg[r].aaaa # {}
    BY <1>0, <1>5, RegFrom DEF RegShape
  <2> QED
    BY <1>0, <1>5, <2>1 DEF Private, PrivateA, PrivateAAAA
<1>6. CASE RegUndoA(r)
  <2>1. reg[r].pc = "undoA" /\ reg[r].a # {}
    BY <1>0, <1>6, RegFrom DEF RegShape
  <2>2. id = The(reg[r].a) \/ id \in reg[r].aaaa
    BY <1>0, <2>1 DEF Private, PrivateA, PrivateAAAA
  <2>3. id \in reg[r].aaaa => id \in Private(r)'
    <3>1. id \in reg[r].aaaa => Goto(r, "undoAAAA")
      BY <1>6 DEF RegUndoA
    <3>2. Goto(r, "undoAAAA") => reg'[r].pc = "undoAAAA" /\ reg'[r].aaaa = reg[r].aaaa
      BY <1>0 DEF Goto, TypeInv, TypeOK, EnrollTypeOK, RegRequest
    <3> QED
      BY <3>1, <3>2 DEF Private, PrivateAAAA, Idle
  <2> QED
    BY <1>6, <2>2, <2>3
<1>7. CASE RegPostAAAA(r) \/ RegInsert(r) \/ RegSign(r) \/ RegDropRow(r)
  <2>1. reg'[r] # Idle
    BY <1>0, <1>7 DEF RegPostAAAA, RegInsert, RegSign, RegDropRow, Goto, TypeInv,
       TypeOK, EnrollTypeOK, RegRequest, Idle
  <2>2. reg'[r].a = reg[r].a /\ (reg'[r].aaaa = reg[r].aaaa \/ reg[r].aaaa = {})
    <3>1. ~RegPostA(r)
      BY <1>2, RegFrom
    <3> QED
      BY <1>1, <2>1, <3>1, RegMoves
  <2>3. reg'[r].pc \in {"postAAAA", "insert", "undoA", "sign", "upsertA", "dropRow"}
    <3>1. /\ reg[r].pc \in {"postAAAA", "insert", "sign", "dropRow"}
      BY <1>7, RegFrom
    <3> QED
      BY <1>1, <2>1, <3>1, RegPath, RegFrom
  <2> QED
    BY <1>0, <2>1, <2>2, <2>3 DEF Private, PrivateA, PrivateAAAA
<1> QED
  BY <1>0, <1>1, <1>2, <1>3, <1>4, <1>5, <1>6, <1>7, RegFrom DEF RegStep

\* With Cloudflare answering what it does, every record stays tracked while
\* a registration goes on.
LEMMA RegTracked ==
  ASSUME Faults \cap TrackFaults = {}, TypeInv, GrantInv, PointerInv, MirrorInv, TrackInv,
         NEW r \in Requests, RegArrive(r) \/ RegStep(r), UNCHANGED beat
  PROVE  \A z \in zone' : Tracked(z.id)'
<1>0. /\ \A z \in zone : Tracked(z.id)
      /\ reg[r] # Idle => reg[r].live
      /\ Faults \cap MirrorFaults = {} /\ "cf_delete" \notin Faults
  BY DEF TrackInv, MirrorInv, AllLive, TrackFaults
<1>1. \A z \in zone' : z \in zone \/ ((PostsA(r) \/ PostsAAAA(r)) /\ z.id = nextId)
  BY RegZone, PostServes DEF PostsA, PostsAAAA
<1>2. PostsA(r) \/ PostsAAAA(r) => nextId \in Private(r)'
  <2>1. ASSUME PostsA(r) PROVE nextId \in Private(r)'
    <3>1. reg[r] # Idle /\ reg[r].pc = "postA" /\ nextId' # nextId
      BY <2>1, RegFrom DEF PostsA, PostRecord, TypeInv, TypeOK, ZoneTypeOK
    <3>2. reg' = [reg EXCEPT ![r].a = {nextId},
                    ![r].pc = IF reg[r].v6 = {} THEN "insert" ELSE "postAAAA"]
      BY <1>0, <2>1, <3>1, SureReplies DEF PostsA, RegPostA, Done, zoneVars
    <3>3. reg'[r] # Idle /\ reg'[r].a = {nextId} /\ reg'[r].pc \in {"insert", "postAAAA"}
      BY <3>1, <3>2 DEF TypeInv, TypeOK, EnrollTypeOK, RegRequest, Idle
    <3> QED
      BY <3>3 DEF Private, PrivateA
  <2>2. ASSUME PostsAAAA(r) PROVE nextId \in Private(r)'
    <3>1. reg[r] # Idle /\ reg[r].pc = "postAAAA" /\ nextId' # nextId
      BY <2>2, RegFrom DEF PostsAAAA, PostRecord, TypeInv, TypeOK, ZoneTypeOK
    <3>2. reg' = [reg EXCEPT ![r].aaaa = {nextId}, ![r].pc = "insert"]
      BY <1>0, <2>2, <3>1, SureReplies DEF PostsAAAA, RegPostAAAA, Done, zoneVars
    <3>3. reg'[r] # Idle /\ reg'[r].aaaa = {nextId} /\ reg'[r].pc = "insert"
      BY <3>1, <3>2 DEF TypeInv, TypeOK, EnrollTypeOK, RegRequest, Idle
    <3> QED
      BY <3>3 DEF Private, PrivateAAAA
  <2> QED
    BY <2>1, <2>2
<1>3. ASSUME NEW id \in Private(r), id \notin Private(r)'
      PROVE  (\A z \in zone' : z.id # id) \/ \E x \in dnsRows' : x.cf = id
  <2>1. CASE RegUpsertA(r) /\ id = The(reg[r].a)
    <3>1. reg[r] # Idle /\ HasRow(r)
      BY <2>1, RegFrom DEF HasRow
    <3>2. UpsertDns(PointerA(r))
      BY <1>0, <2>1, <3>1, SureReplies DEF RegUpsertA, PointerA
    <3>3. RowOf(PointerA(r).dev) # {} /\ PointerA(r).cf = id
      BY <2>1, <3>1 DEF GrantInv, PointerA
    <3> QED
      BY <3>2, <3>3 DEF UpsertDns
  <2>2. CASE RegUpsertAAAA(r) /\ id = The(reg[r].aaaa)
    <3>1. reg[r] # Idle /\ HasRow(r)
      BY <2>2, RegFrom DEF HasRow
    <3>2. UpsertDns(PointerAAAA(r))
      BY <1>0, <2>2, <3>1, SureReplies DEF RegUpsertAAAA, PointerAAAA
    <3>3. RowOf(PointerAAAA(r).dev) # {} /\ PointerAAAA(r).cf = id
      BY <2>2, <3>1 DEF GrantInv, PointerAAAA
    <3> QED
      BY <3>2, <3>3 DEF UpsertDns
  <2>d. \A reply \in CfReplies(TRUE, "cf_delete") : Done(reply)
    BY <1>0 DEF CfReplies, CallReplies, Done, Replies
  <2>3. CASE RegUndoA(r) /\ id = The(reg[r].a)
    BY <1>0, <2>3, <2>d, RegFrom DEF RegUndoA, DeleteRecord
  <2>4. CASE RegUndoAAAA(r) /\ id = The(reg[r].aaaa)
    BY <1>0, <2>4, <2>d, RegFrom DEF RegUndoAAAA, DeleteRecord
  <2> QED
    BY <1>3, <2>1, <2>2, <2>3, <2>4, PrivateLeaves
<1>4. dnsRows \subseteq dnsRows'
  BY RegDnsMoves
<1>5. \A s \in Requests : s # r => Private(s)' = Private(s)
  BY RegFrame DEF Private, PrivateA, PrivateAAAA
<1>6. \A id : BeingMirrored(id)' <=> BeingMirrored(id)
  BY DEF BeingMirrored, BeatAt
<1>7. ASSUME NEW z \in zone', z \in zone PROVE Tracked(z.id)'
  <2>1. CASE \E x \in dnsRows : x.cf = z.id
    BY <1>4, <2>1 DEF Tracked
  <2>2. CASE BeingMirrored(z.id)
    BY <1>6, <2>2 DEF Tracked
  <2>3. CASE \E s \in Requests : z.id \in Private(s)
    BY <1>3, <1>5, <2>3 DEF Tracked
  <2> QED
    BY <1>0, <1>7, <2>1, <2>2, <2>3 DEF Tracked
<1>8. ASSUME NEW z \in zone', z.id = nextId, PostsA(r) \/ PostsAAAA(r) PROVE Tracked(z.id)'
  BY <1>2, <1>8 DEF Tracked
<1> QED
  BY <1>1, <1>7, <1>8

\* Subdomains stay unique: inserts check them and heartbeats keep them.
LEMMA SubKeyStep ==
  ASSUME TypeInv, SubKey,
         \/ \E r \in Requests : RegArrive(r) \/ RegStep(r)
         \/ \E b \in Beats : BeatArrive(b) \/ BeatStep(b)
  PROVE  SubKey'
<1>1. ASSUME NEW r \in Requests, RegArrive(r) \/ RegStep(r) PROVE SubKey'
  <2>1. CASE RegInsert(r) /\ Insertable(NewRow(r)) /\ devices' = devices \cup {NewRow(r)}
    BY <2>1 DEF SubKey, Insertable, RowsNamed
  <2>2. CASE devices' \subseteq devices
    BY <2>2 DEF SubKey
  <2> QED
    BY <1>1, <2>1, <2>2, RegRows
<1>2. ASSUME NEW b \in Beats, BeatArrive(b) \/ BeatStep(b) PROVE SubKey'
  <2>1. CASE UpdateHeartbeat(Cam(b), beat[b].v4, beat[b].v6)
    <3> DEFINE new(row) == IF row.id = Cam(b)
                           THEN [row EXCEPT !.v4 = beat[b].v4,
                                   !.v6 = IF beat[b].v6 = {} THEN @ ELSE beat[b].v6]
                           ELSE row
    <3>1. \A row \in devices : new(row).sub = row.sub
      BY DEF TypeInv, TypeOK, StoreTypeOK, DeviceRow
    <3>2. devices' = {new(row) : row \in devices}
      BY <2>1 DEF UpdateHeartbeat
    <3> HIDE DEF new
    <3> QED
      BY <3>1, <3>2 DEF SubKey
  <2>2. CASE UNCHANGED devices
    BY <2>2 DEF SubKey
  <2> QED
    BY <1>2, <2>1, <2>2, BeatRows
<1> QED
  BY <1>1, <1>2

\* A registration keeps track of the records and of its own pointers.
LEMMA RegTrack ==
  ASSUME Faults \cap TrackFaults = {}, TypeInv, GrantInv, PointerInv, MirrorInv, TrackInv,
         NEW r \in Requests, RegArrive(r) \/ RegStep(r), UNCHANGED beat
  PROVE  TrackInv'
<1>1. SubKey'
  BY SubKeyStep DEF TrackInv
<1>2. \A s \in Requests : reg'[s] # Idle => (reg'[s].aaaa # {} => reg'[s].v6 # {})
  <2>1. \A s \in Requests : s # r => reg'[s] = reg[s]
    BY RegFrame
  <2>2. CASE RegArrive(r)
    <3>1. reg'[r].aaaa = {}
      BY <2>2 DEF RegArrive, TypeInv, TypeOK, EnrollTypeOK
    <3> QED
      BY <2>1, <3>1 DEF TrackInv
  <2>3. CASE RegStep(r)
    <3>1. reg'[r] # Idle => /\ reg[r] # Idle /\ reg'[r].v6 = reg[r].v6
                            /\ reg'[r].aaaa = reg[r].aaaa \/ reg[r].v6 # {}
      <4>1. RegPostAAAA(r) => reg[r].v6 # {}
        BY RegFrom DEF TypeInv, Shapes, RegShape
      <4> QED
        BY <2>3, <4>1, RegMoves
    <3> QED
      BY <2>1, <3>1 DEF TrackInv
  <2> QED
    BY <2>2, <2>3
<1>3. \A s \in Requests : \A type \in Unwritten(s)' : DnsRowOf(reg[s].dev, type)' = {}
  BY RegUnwritten
<1>4. \A b \in Beats : \A t : beat[b] # Idle => DnsRowOf(Cam(b), t)' = DnsRowOf(Cam(b), t)
  <2>1. \A x \in dnsRows' : x \in dnsRows \/ (HasRow(r) /\ x.dev = reg[r].dev)
    BY RegDnsMoves, RegFrom DEF HasRow, PointerA, PointerAAAA
  <2>2. dnsRows \subseteq dnsRows'
    BY RegDnsMoves
  <2>3. \A b \in Beats : beat[b] # Idle => ~HasRow(r) \/ reg[r].dev # Cam(b)
    BY BeatHasRow DEF PointerInv
  <2>4. \A b : Cam(b)' = Cam(b)
    BY DEF Cam
  <2> QED
    BY <2>1, <2>2, <2>3, <2>4 DEF DnsRowOf
<1>5. \A b \in Beats :
        /\ BeatAt(b, "post")' => DnsRowOf(Cam(b), Current(b))' = {}
        /\ BeatAt(b, "put")' \/ BeatAt(b, "mirror")' =>
             \A x \in DnsRowOf(Cam(b), Current(b))' : beat'[b].cf = {x.cf}
  <2>1. \A b : Current(b)' = Current(b)
    BY DEF Current
  <2>2. \A b \in Beats : \A t : t = Current(b) /\ beat[b] # Idle =>
          DnsRowOf(Cam(b), Current(b))' = DnsRowOf(Cam(b), t)
    BY <1>4, <2>1
  <2> QED
    BY <2>2 DEF TrackInv, BeatAt
<1>6. \A z \in zone' : Tracked(z.id)'
  BY RegTracked
<1> QED
  BY <1>1, <1>2, <1>3, <1>5, <1>6 DEF TrackInv

\* A DNS sync keeps every record tracked: it writes down what it posted.
LEMMA BeatTracked ==
  ASSUME Faults \cap TrackFaults = {}, TypeInv, GrantInv, PointerInv, MirrorInv, TrackInv,
         NEW b \in Beats, BeatArrive(b) \/ BeatStep(b)
  PROVE  \A z \in zone' : Tracked(z.id)'
<1>0. /\ \A z \in zone : Tracked(z.id)
      /\ beat[b] # Idle => beat[b].live
      /\ Faults \cap MirrorFaults = {} /\ BeatsHoldJwts /\ AllLive
  BY DEF TrackInv, MirrorInv, AllLive, TrackFaults, PointerInv
<1>1. ASSUME NEW z \in zone' PROVE (\E old \in zone : z.id = old.id) \/ (z.id = nextId /\ nextId' # nextId)
  <2>1. CASE UNCHANGED zoneVars
    BY <1>1, <2>1 DEF zoneVars
  <2>2. CASE \E n, t, v, d : PostRecord(n, t, v, d)
    <3>1. nextId' # nextId
      BY <2>2 DEF PostRecord, TypeInv, TypeOK, ZoneTypeOK
    <3> QED
      BY <1>1, <2>2, <3>1, PostServes
  <2>3. CASE \E i, n, t, v, d : PutRecord(i, n, t, v, d)
    BY <1>1, <2>3, PutServes
  <2> QED
    BY <2>1, <2>2, <2>3, BeatDns
<1>2. ASSUME nextId' # nextId PROVE \A id : id = nextId => BeingMirrored(id)'
  <2>1. SyncPost(b)
    BY <1>2, BeatDns DEF zoneVars, PutRecord
  <2>2. beat[b] # Idle /\ beat[b].live
    BY <1>0, <2>1, BeatFrom DEF BeatAt
  <2>3. beat' = [beat EXCEPT ![b].pc = "mirror", ![b].cf = {nextId}]
    BY <1>0, <1>2, <2>1, <2>2, SureReplies DEF SyncPost, Done, zoneVars
  <2>4. beat'[b] # Idle /\ beat'[b].pc = "mirror" /\ beat'[b].cf = {nextId}
    BY <2>2, <2>3 DEF TypeInv, TypeOK, BeatTypeOK, BeatRequest, Idle
  <2> QED
    BY <2>4 DEF BeingMirrored, BeatAt
<1>3. \A id : BeingMirrored(id) =>
        BeingMirrored(id)' \/ (BeatAt(b, "mirror") /\ id \in beat[b].cf)
  BY BeatFrame DEF BeingMirrored, BeatAt
<1>4. CASE SyncMirror(b)
  <2>1. dnsRows' = (dnsRows \ DnsRowOf(Cam(b), Current(b))) \cup {PointerOf(b)}
    BY <1>0, <1>4, MirrorWrites
  <2>2. BeatAt(b, "mirror") /\ beat[b].cf = {PointerOf(b).cf}
    <3>1. BeatAt(b, "mirror") /\ beat[b] \in BeatRequest /\ beat[b].cf # {}
      BY <1>4, BeatFrom DEF BeatAt, TypeInv, TypeOK, Shapes, BeatShape, BeatTypeOK
    <3>2. beat[b].cf = {The(beat[b].cf)}
      BY <3>1, OptElim DEF BeatRequest
    <3> QED
      BY <3>1, <3>2 DEF PointerOf
  <2>3. \A x \in dnsRows : \E y \in dnsRows' : y.cf = x.cf
    <3>1. \A x \in DnsRowOf(Cam(b), Current(b)) : beat[b].cf = {x.cf}
      BY <2>2 DEF TrackInv
    <3>2. \A x \in DnsRowOf(Cam(b), Current(b)) : PointerOf(b).cf = x.cf
      BY <2>2, <3>1
    <3> QED
      BY <2>1, <3>2
  <2>4. \A id \in beat[b].cf : \E y \in dnsRows' : y.cf = id
    BY <2>1, <2>2
  <2>5. \A id : Tracked(id) => Tracked(id)'
    <3>1. \A r \in Requests : Private(r)' = Private(r)
      BY HeartbeatFrame DEF Private, PrivateA, PrivateAAAA
    <3>2. \A id : (\E x \in dnsRows : x.cf = id) => \E y \in dnsRows' : y.cf = id
      BY <2>3
    <3>3. \A id : BeingMirrored(id) => BeingMirrored(id)' \/ \E y \in dnsRows' : y.cf = id
      BY <1>3, <2>4
    <3> QED
      BY <3>1, <3>2, <3>3 DEF Tracked
  <2>6. zone' = zone
    BY <1>4, BeatFrom
  <2> QED
    BY <1>0, <2>5, <2>6
<1>5. CASE ~SyncMirror(b)
  <2>1. UNCHANGED dnsRows
    BY <1>5, BeatDns
  <2>2. \A r \in Requests : Private(r)' = Private(r)
    BY HeartbeatFrame DEF Private, PrivateA, PrivateAAAA
  <2>3. BeatAt(b, "mirror") => FALSE
    BY <1>5, BeatFrom DEF BeatArrive, BeatStep, BeatAt
  <2>4. \A id : Tracked(id) => Tracked(id)'
    BY <1>3, <2>1, <2>2, <2>3 DEF Tracked
  <2> QED
    BY <1>0, <1>1, <1>2, <2>4 DEF Tracked
<1> QED
  BY <1>4, <1>5

\* A heartbeat looks its pointer up and is alone with it.
LEMMA BeatTrack ==
  ASSUME Faults \cap TrackFaults = {}, TypeInv, GrantInv, PointerInv, MirrorInv, TrackInv,
         NEW b \in Beats, BeatArrive(b) \/ BeatStep(b)
  PROVE  TrackInv'
<1>0. /\ Faults \cap MirrorFaults = {} /\ BeatsHoldJwts /\ AllLive /\ OneBeatPerCam /\ DnsKey
  BY DEF MirrorInv, TrackFaults, PointerInv
<1>1. SubKey'
  BY SubKeyStep DEF TrackInv
<1>2. \A s \in Requests : reg'[s] # Idle => (reg'[s].aaaa # {} => reg'[s].v6 # {})
  BY HeartbeatFrame DEF TrackInv
<1>d. \A d : \A t : DnsRowOf(d, t)' = DnsRowOf(d, t) \/ (SyncMirror(b) /\ d = Cam(b))
  <2>1. CASE UNCHANGED dnsRows
    BY <2>1 DEF DnsRowOf
  <2>2. CASE SyncMirror(b)
    <3>1. dnsRows' = (dnsRows \ DnsRowOf(Cam(b), Current(b))) \cup {PointerOf(b)}
      BY <1>0, <2>2, MirrorWrites
    <3>2. PointerOf(b).dev = Cam(b)
      BY DEF PointerOf
    <3>3. \A x : x.dev # Cam(b) => (x \in dnsRows' <=> x \in dnsRows)
      BY <3>1, <3>2 DEF DnsRowOf
    <3>4. \A d : \A t : d # Cam(b) => DnsRowOf(d, t)' = DnsRowOf(d, t)
      BY <3>3 DEF DnsRowOf
    <3> QED
      BY <2>2, <3>4
  <2> QED
    BY <2>1, <2>2, BeatDns
<1>3. \A s \in Requests : \A type \in Unwritten(s)' : DnsRowOf(reg[s].dev, type)' = {}
  <2>1. ASSUME NEW s \in Requests, NEW type \in Unwritten(s)'
        PROVE  DnsRowOf(reg[s].dev, type)' = {}
    <3>1. reg'[s] = reg[s] /\ type \in Unwritten(s) /\ HasRow(s)
      BY <2>1, HeartbeatFrame DEF Unwritten, HasRow, At
    <3>2. DnsRowOf(reg[s].dev, type) = {}
      BY <3>1 DEF TrackInv
    <3>3. SyncMirror(b) => reg[s].dev # Cam(b)
      BY <1>0, <3>1, BeatHasRow, BeatFrom DEF BeatAt
    <3>4. \A d : d = reg'[s].dev => DnsRowOf(d, type)' = {}
      BY <1>d, <3>1, <3>2, <3>3
    <3> QED
      BY <3>4
  <2> QED
    BY <2>1
<1>4. ASSUME NEW c \in Beats
      PROVE  /\ BeatAt(c, "post")' => DnsRowOf(Cam(c), Current(c))' = {}
             /\ BeatAt(c, "put")' \/ BeatAt(c, "mirror")' =>
                  \A x \in DnsRowOf(Cam(c), Current(c))' : beat'[c].cf = {x.cf}
  <2>1. CASE c # b
    <3>1. beat'[c] = beat[c] /\ Cam(c)' = Cam(c) /\ Current(c)' = Current(c)
      BY <2>1, BeatFrame DEF Cam, Current
    <3>2. beat[c] # Idle => DnsRowOf(Cam(c), Current(c))' = DnsRowOf(Cam(c), Current(c))
      <4>1. SyncMirror(b) /\ beat[c] # Idle => Cam(c) # Cam(b)
        BY <1>0, <2>1, BeatFrom DEF OneBeatPerCam, BeatAt
      <4>2. \A d, t : d = Cam(c)' /\ t = Current(c)' =>
              DnsRowOf(Cam(c), Current(c))' = DnsRowOf(d, t)'
        OBVIOUS
      <4> QED
        BY <1>d, <3>1, <4>1, <4>2
    <3> QED
      BY <3>1, <3>2 DEF TrackInv, BeatAt
  <2>2. CASE c = b
    <3> SUFFICES ASSUME BeatAt(b, "post")' \/ BeatAt(b, "put")' \/ BeatAt(b, "mirror")'
        PROVE  /\ BeatAt(b, "post")' => DnsRowOf(Cam(b), Current(b))' = {}
               /\ BeatAt(b, "put")' \/ BeatAt(b, "mirror")' =>
                    \A x \in DnsRowOf(Cam(b), Current(b))' : beat'[b].cf = {x.cf}
      BY <2>2 DEF BeatAt
    <3>0. BeatStep(b) /\ ~BeatClientGone(b) /\ beat'[b] # Idle
      <4>1. BeatArrive(b) => beat'[b].pc = "lookup"
        BY DEF BeatArrive, TypeInv, TypeOK, BeatTypeOK
      <4> QED
        BY <1>0, <4>1, SureReplies DEF BeatAt, BeatClientGone
    <3>1. Cam(b)' = Cam(b)
      BY <3>0, BeatKeeps DEF Cam
    <3>2. \/ /\ SyncGet(b) /\ beat'[b].pc = "put" /\ beat'[b].todo = beat[b].todo
             /\ \E x \in DnsRowOf(Cam(b), Current(b)) : beat'[b].cf = {x.cf}
          \/ /\ SyncGet(b) /\ beat'[b].pc = "post" /\ beat'[b].todo = beat[b].todo
             /\ DnsRowOf(Cam(b), Current(b)) = {}
          \/ /\ SyncPost(b) /\ beat'[b].pc = "mirror" /\ beat'[b].todo = beat[b].todo
          \/ /\ SyncPut(b) /\ beat'[b].pc = "mirror" /\ beat'[b].todo = beat[b].todo
             /\ beat'[b].cf = beat[b].cf
      BY <3>0, BeatPath DEF BeatAt, Unmoved, Returned
    <3>3. Current(b)' = Current(b) /\ ~SyncMirror(b)
      BY <3>2, BeatFrom DEF Current, BeatAt
    <3>4. DnsRowOf(Cam(b), Current(b))' = DnsRowOf(Cam(b), Current(b))
      <4>1. \A d, t : d = Cam(b)' /\ t = Current(b)' =>
              DnsRowOf(Cam(b), Current(b))' = DnsRowOf(d, t)'
        OBVIOUS
      <4> QED
        BY <1>d, <3>1, <3>3, <4>1
    <3>5. \A x, y \in DnsRowOf(Cam(b), Current(b)) : x = y
      BY <1>0 DEF DnsKey, DnsRowOf
    <3>6. /\ SyncPost(b) => DnsRowOf(Cam(b), Current(b)) = {}
          /\ SyncPut(b) => \A x \in DnsRowOf(Cam(b), Current(b)) : beat[b].cf = {x.cf}
      BY BeatFrom DEF TrackInv
    <3> QED
      BY <3>2, <3>4, <3>5, <3>6 DEF BeatAt
  <2> QED
    BY <2>1, <2>2
<1>5. \A z \in zone' : Tracked(z.id)'
  BY BeatTracked
<1> QED
  BY <1>1, <1>2, <1>3, <1>4, <1>5 DEF TrackInv

\* TrackInv is inductive while, besides, Cloudflare refuses no DELETE.
LEMMA TrackStep ==
  ASSUME Faults \cap TrackFaults = {}
  PROVE  TypeInv /\ GrantInv /\ PointerInv /\ MirrorInv /\ TrackInv /\ [Next]_vars
           => TrackInv'
<1> SUFFICES ASSUME TypeInv, GrantInv, PointerInv, MirrorInv, TrackInv, [Next]_vars
             PROVE  TrackInv'
  OBVIOUS
<1>0. Faults \cap MirrorFaults = {}
  BY DEF TrackFaults
<1>1. CASE \E r \in Requests : (RegArrive(r) \/ RegStep(r)) /\ UNCHANGED beat
  BY <1>1, RegTrack
<1>2. CASE \E b \in Beats : BeatArrive(b) \/ BeatStep(b)
  BY <1>2, BeatTrack
<1>3. CASE UNCHANGED <<devices, dnsRows, zone, nextId, reg, jwts, beat>>
  <2>1. SubKey'
    BY <1>3 DEF TrackInv, SubKey
  <2>2. \A r \in Requests : reg'[r] # Idle => (reg'[r].aaaa # {} => reg'[r].v6 # {})
    BY <1>3 DEF TrackInv
  <2>3. \A r \in Requests : \A type \in Unwritten(r)' : DnsRowOf(reg[r].dev, type)' = {}
    BY <1>3 DEF TrackInv, Unwritten, HasRow, At, DnsRowOf
  <2>4. \A b \in Beats :
          /\ BeatAt(b, "post")' => DnsRowOf(Cam(b), Current(b))' = {}
          /\ BeatAt(b, "put")' \/ BeatAt(b, "mirror")' =>
               \A x \in DnsRowOf(Cam(b), Current(b))' : beat'[b].cf = {x.cf}
    BY <1>3 DEF TrackInv, BeatAt, DnsRowOf, Cam, Current
  <2>5. \A z \in zone' : Tracked(z.id)'
    BY <1>3 DEF TrackInv, Tracked, BeingMirrored, BeatAt, Private, PrivateA, PrivateAAAA
  <2> QED
    BY <2>1, <2>2, <2>3, <2>4, <2>5 DEF TrackInv
<1> QED
  BY <1>0, <1>1, <1>2, <1>3, CalmNext

\* Nothing to track at first.
LEMMA TrackInit == Init => TrackInv
BY DEF Init, StoreInit, ZoneInit, EnrollInit, BeatInit, TrackInv, SubKey, Unwritten,
   HasRow, At, BeatAt

\* The pointer that knows a record, once nothing is in flight.
LEMMA RestPointer ==
  ASSUME PointerInv, TrackInv, Quiet, NEW z \in zone
  PROVE  \E x \in dnsRows : /\ x.cf = z.id /\ x.dev = z.owner
                            /\ x.fqdn = z.name /\ x.type = z.type
<1>1. PICK x \in dnsRows : x.cf = z.id
  BY DEF TrackInv, Tracked, Quiet, Private, PrivateA, PrivateAAAA, BeingMirrored, BeatAt
<1>2. /\ Label(z.id, z.owner, z.name, z.type) \in Labels
      /\ Label(x.cf, x.dev, x.fqdn, x.type) \in Labels
  BY DEF Labels, ZoneLabels, RowLabels
<1>3. Label(z.id, z.owner, z.name, z.type) = Label(x.cf, x.dev, x.fqdn, x.type)
  BY <1>1, <1>2, LabelFields DEF PointerInv, LabelInv
<1> QED
  BY <1>1, <1>3, LabelFields

\* ONE RECORD PER TYPE, while besides Cloudflare carries out each DELETE:
\* with nothing in flight no name has two records of a type.
THEOREM NoSecondRecord ==
  ASSUME Faults \cap TrackFaults = {}
  PROVE  Spec => []OneRecordPerType
<1>0. Faults \cap MirrorFaults = {}
  BY DEF TrackFaults
<1>1. PointerInv /\ MirrorInv /\ TrackInv => OneRecordPerType
  <2> SUFFICES ASSUME PointerInv, MirrorInv, TrackInv, Quiet, NEW y \in zone, NEW z \in zone,
                      y.name = z.name, y.type = z.type
               PROVE  y = z
    BY DEF OneRecordPerType
  <2>1. PICK p \in dnsRows : p.cf = y.id /\ p.fqdn = y.name /\ p.type = y.type
    BY RestPointer
  <2>2. PICK q \in dnsRows : q.cf = z.id /\ q.fqdn = z.name /\ q.type = z.type
    BY RestPointer
  <2>3. p.dev = q.dev
    BY <2>1, <2>2 DEF PointerInv, DnsNamed, TrackInv, SubKey
  <2>4. p = q
    BY <2>1, <2>2, <2>3 DEF PointerInv, DnsKey
  <2> QED
    BY <2>1, <2>2, <2>4 DEF MirrorInv, ZoneKey
<1>2. "admin_drop" \notin Faults
  BY <1>0, SureReplies
<1> QED
  BY <1>0, <1>1, <1>2, SyncInit, TrackInit, TypeInit, TypeStep, GrantStep, PointerStep,
     MirrorStep, TrackStep, PTL
  DEF Spec

-----------------------------------------------------------------------------
(* The name follows the cam *)

\* When only a signature can fail, every call of a live request succeeds.
LEMMA CalmReplies ==
  ASSUME Faults \subseteq {"sign"}
  PROVE  /\ DbReplies(TRUE) = {"ok"}
         /\ CfReplies(TRUE, "cf_create") = {"ok"} /\ CfReplies(TRUE, "cf_update") = {"ok"}
         /\ Faults \cap TrackFaults = {} /\ Faults \cap MirrorFaults = {}
<1>1. /\ "db_down" \notin Faults /\ "db_lost" \notin Faults /\ "cf_create" \notin Faults
      /\ "cf_update" \notin Faults /\ "cf_lost" \notin Faults
  OBVIOUS
<1>2. "sign" \notin TrackFaults /\ "sign" \notin MirrorFaults
  BY DEF TrackFaults, MirrorFaults
<1> QED
  BY <1>1, <1>2 DEF DbReplies, CfReplies, CallReplies, Replies

\* A type stops being unwritten when its pointer is written, when there is
\* no IPv6 address to point to, or when the row goes.
LEMMA UnwrittenLeaves ==
  ASSUME TypeInv, NEW r \in Requests, RegArrive(r) \/ RegStep(r),
         NEW type \in Unwritten(r), type \notin Unwritten(r)'
  PROVE  \/ RegUpsertA(r) /\ type = "A"
         \/ RegUpsertA(r) /\ type = "AAAA" /\ reg[r].v6 = {}
         \/ RegUpsertAAAA(r) /\ type = "AAAA"
         \/ RegDropRow(r)
<1>0. /\ reg[r] # Idle /\ RegStep(r) /\ type \in Types
      /\ reg[r].pc \in {"sign", "upsertA", "dropRow", "upsertAAAA"}
      /\ reg[r].pc = "upsertAAAA" => type = "AAAA"
  BY DEF Unwritten, HasRow, At, Types, RegArrive
<1>1. RegSign(r) \/ RegUpsertA(r) \/ RegUpsertAAAA(r) \/ RegDropRow(r)
  BY <1>0, RegFrom DEF RegStep
<1>2. CASE RegSign(r)
  <2>1. reg'[r] # Idle /\ reg'[r].pc \in {"upsertA", "dropRow"}
    BY <1>0, <1>2 DEF RegSign, Goto, TypeInv, TypeOK, EnrollTypeOK, RegRequest, Idle
  <2> QED
    BY <1>0, <2>1 DEF Unwritten, HasRow
<1>3. CASE RegUpsertA(r)
  <2>1. reg[r].v6 # {} => reg'[r] # Idle /\ reg'[r].pc = "upsertAAAA"
    BY <1>0, <1>3 DEF RegUpsertA, Goto, TypeInv, TypeOK, EnrollTypeOK, RegRequest, Idle
  <2>2. reg[r].v6 # {} => "AAAA" \in Unwritten(r)'
    BY <2>1 DEF Unwritten, At, HasRow
  <2> QED
    BY <1>0, <1>3, <2>2 DEF Types
<1>4. CASE RegUpsertAAAA(r)
  BY <1>0, <1>4, RegFrom
<1> QED
  BY <1>1, <1>2, <1>3, <1>4

\* A registration leaves the pointers alone that it has not to write.
LEMMA RegPointersKept ==
  ASSUME TypeInv, TrackInv, NEW r \in Requests, RegArrive(r) \/ RegStep(r),
         NEW d, NEW type
  PROVE  \/ DnsRowOf(d, type)' = DnsRowOf(d, type)
         \/ HasRow(r) /\ d = reg[r].dev /\ type \in Unwritten(r)
<1>1. \A x \in dnsRows' :
        \/ x \in dnsRows
        \/ HasRow(r) /\ x.dev = reg[r].dev /\ x.type \in Unwritten(r)
  <2>1. RegUpsertA(r) => HasRow(r) /\ "A" \in Unwritten(r)
    BY RegFrom, UnwrittenMoves DEF HasRow
  <2>2. RegUpsertAAAA(r) => HasRow(r) /\ "AAAA" \in Unwritten(r)
    BY RegFrom, UnwrittenMoves DEF HasRow
  <2>3. /\ PointerA(r).dev = reg[r].dev /\ PointerA(r).type = "A"
        /\ PointerAAAA(r).dev = reg[r].dev /\ PointerAAAA(r).type = "AAAA"
    BY DEF PointerA, PointerAAAA
  <2> QED
    BY <2>1, <2>2, <2>3, RegDnsMoves
<1>2. dnsRows \subseteq dnsRows'
  BY RegDnsMoves
<1> QED
  BY <1>1, <1>2 DEF DnsRowOf

\* A registration inserts a row for a cam that has none.
LEMMA RegRowsOf ==
  ASSUME TypeInv, NEW r \in Requests, RegArrive(r) \/ RegStep(r), NEW row \in devices'
  PROVE  \/ row \in devices
         \/ RegInsert(r) /\ row = NewRow(r) /\ Insertable(NewRow(r))
BY RegRows

\* The row a registration inserted holds the addresses it came with.
LEMMA RegRowHolds ==
  ASSUME TypeInv, GrantInv, FollowInv, NEW r \in Requests, RegArrive(r) \/ RegStep(r)
  PROVE  \A s \in Requests : HasRow(s)' =>
           \A row \in RowOf(reg[s].dev)' : row.v4 = reg'[s].v4 /\ row.v6 = reg'[s].v6
<1>0. \A s \in Requests : HasRow(s) =>
        \A row \in devices : row.id = reg[s].dev => row.v4 = reg[s].v4 /\ row.v6 = reg[s].v6
  BY DEF FollowInv, RowOf
<1>n. NewRow(r).id = reg[r].dev /\ NewRow(r).v4 = reg[r].v4 /\ NewRow(r).v6 = reg[r].v6
  BY DEF NewRow
<1>i. Insertable(NewRow(r)) => \A row \in devices : row.id # reg[r].dev
  BY <1>n DEF Insertable, RowOf
<1>1. ASSUME NEW s \in Requests, s # r, HasRow(s)', NEW row \in devices', row.id = reg'[s].dev
      PROVE  row.v4 = reg'[s].v4 /\ row.v6 = reg'[s].v6
  <2>1. reg'[s] = reg[s] /\ HasRow(s)
    BY <1>1, RegFrame DEF HasRow
  <2>2. \E old \in devices : old.id = reg[s].dev
    BY <2>1 DEF GrantInv, RowOf
  <2>3. row \in devices
    BY <1>1, <1>n, <1>i, <2>1, <2>2, RegRowsOf
  <2> QED
    BY <1>0, <1>1, <2>1, <2>3
<1>2. ASSUME HasRow(r)', NEW row \in devices', row.id = reg'[r].dev
      PROVE  row.v4 = reg'[r].v4 /\ row.v6 = reg'[r].v6
  <2>1. RegStep(r) /\ reg'[r] # Idle
    BY <1>2 DEF RegArrive, HasRow, TypeInv, TypeOK, EnrollTypeOK
  <2>2. reg'[r].dev = reg[r].dev /\ reg'[r].v4 = reg[r].v4 /\ reg'[r].v6 = reg[r].v6
    BY <2>1, RegMoves
  <2>3. CASE row \in devices
    <3>1. HasRow(r) \/ RegInsert(r)
      BY <1>2, <2>1, HasRowBefore
    <3>2. RegInsert(r) => Insertable(NewRow(r))
      <4>1. RegInsert(r) => reg'[r].pc # "undoA"
        BY <1>2 DEF HasRow
      <4>2. Goto(r, "undoA") => reg'[r].pc = "undoA"
        BY <2>1, RegMoves DEF Goto, TypeInv, TypeOK, EnrollTypeOK, RegRequest
      <4> QED
        BY <4>1, <4>2 DEF RegInsert
    <3> QED
      BY <1>0, <1>2, <1>i, <2>2, <2>3, <3>1, <3>2
  <2>4. CASE row \notin devices
    BY <1>n, <2>2, <2>4, RegRowsOf
  <2> QED
    BY <2>3, <2>4
<1>3. \A s \in Requests : \A d : d = reg'[s].dev =>
        \A row \in RowOf(reg[s].dev)' : row \in devices' /\ row.id = d
  BY DEF RowOf
<1> QED
  BY <1>1, <1>2, <1>3

\* What the handler of a heartbeat knows of the row of its cam.
BeatKnows(b) ==
  /\ BeatAt(b, "lookup") \/ BeatAt(b, "update") => beat[b].todo = {}
  /\ BeatAt(b, "update") =>
       \A row \in RowOf(Cam(b)) : beat[b].oldV4 = {row.v4} /\ beat[b].oldV6 = row.v6
  /\ beat[b] # Idle /\ beat[b].todo # {} =>
       \A row \in RowOf(Cam(b)) :
         row.v4 = beat[b].v4 /\ (beat[b].v6 # {} => row.v6 = beat[b].v6)

\* A type that is not late is pointed to as the row asks for.
Follows(row, type) ==
  ~Late(row.id, type) => {x.value : x \in DnsRowOf(row.id, type)} = Wanted(row, type)

\* FollowInv, part by part.
LEMMA FollowParts ==
  FollowInv <=> /\ \A r \in Requests : HasRow(r) =>
                     \A row \in RowOf(reg[r].dev) : row.v4 = reg[r].v4 /\ row.v6 = reg[r].v6
                /\ \A b \in Beats : BeatKnows(b)
                /\ \A row \in devices : \A type \in Types : Follows(row, type)
BY DEF FollowInv, BeatKnows, Follows

\* A registration tells no heartbeat wrong: the cams of heartbeats have rows.
LEMMA RegBeatsKnow ==
  ASSUME TypeInv, GrantInv, PointerInv, FollowInv,
         NEW r \in Requests, RegArrive(r) \/ RegStep(r), UNCHANGED beat
  PROVE  \A b \in Beats : BeatKnows(b)'
<1>1. ASSUME NEW b \in Beats, beat[b] # Idle, NEW row \in RowOf(Cam(b))'
      PROVE  row \in RowOf(Cam(b))
  <2>1. row \in devices' /\ row.id = Cam(b)
    BY <1>1 DEF RowOf, Cam
  <2>2. \E old \in devices : old.id = Cam(b)
    BY <1>1, BeatHasRow DEF PointerInv, RowOf
  <2>3. NewRow(r).id = Cam(b) => ~Insertable(NewRow(r))
    BY <2>2 DEF Insertable, RowOf
  <2> QED
    BY <2>1, <2>3, RegRowsOf DEF RowOf
<1>2. ASSUME NEW b \in Beats PROVE BeatKnows(b)'
  <2>1. BeatKnows(b)
    BY FollowParts
  <2>2. beat[b] # Idle => RowOf(Cam(b))' \subseteq RowOf(Cam(b))
    BY <1>1
  <2> QED
    BY <2>1, <2>2 DEF BeatKnows, BeatAt
<1> QED
  BY <1>2

\* The pointers of a cam that a registration leaves behind are those its row
\* asks for.
LEMMA RegFollows ==
  ASSUME Faults \subseteq {"sign"}, TypeInv, GrantInv, PointerInv, MirrorInv, TrackInv,
         FollowInv, NEW r \in Requests, RegArrive(r) \/ RegStep(r), UNCHANGED beat,
         NEW row \in devices', NEW type \in Types
  PROVE  Follows(row, type)'
<1> SUFFICES ASSUME ~Late(row.id, type)'
             PROVE  {x.value : x \in DnsRowOf(row.id, type)'} = Wanted(row, type)
  BY DEF Follows, Wanted
<1>0. /\ reg[r] # Idle => reg[r].live
      /\ DbReplies(TRUE) = {"ok"}
      /\ Faults \cap TrackFaults = {} /\ Faults \cap MirrorFaults = {}
  BY CalmReplies DEF MirrorInv, AllLive
<1>1. CASE row \notin devices
  <2>1. RegInsert(r) /\ row = NewRow(r) /\ Insertable(NewRow(r))
    BY <1>1, RegRowsOf
  <2>2. reg[r] # Idle /\ reg[r].live
    BY <1>0, <2>1, RegFrom
  <2>3. Goto(r, "sign")
    BY <1>0, <2>1, <2>2 DEF RegInsert
  <2>4. reg'[r] # Idle /\ reg'[r].pc = "sign" /\ reg'[r].dev = reg[r].dev
    BY <2>2, <2>3 DEF Goto, TypeInv, TypeOK, EnrollTypeOK, RegRequest, Idle
  <2>5. type \in Unwritten(r)'
    BY <2>4 DEF Unwritten, HasRow
  <2>6. row.id = reg[r].dev
    BY <2>1 DEF NewRow
  <2> QED
    BY <2>4, <2>5, <2>6 DEF Late
<1>2. CASE row \in devices /\ HasRow(r) /\ row.id = reg[r].dev /\ type \in Unwritten(r)
  <2>1. type \notin Unwritten(r)' \/ reg'[r] = Idle \/ reg'[r].dev # row.id
    BY DEF Late
  <2>2. type \notin Unwritten(r)'
    BY <1>2, <2>1, UnwrittenMoves DEF Unwritten, HasRow, At
  <2>3. /\ row.v4 = reg[r].v4 /\ row.v6 = reg[r].v6
        /\ DnsRowOf(row.id, type) = {}
    BY <1>2 DEF FollowInv, TrackInv, RowOf
  <2>4. reg[r] # Idle /\ reg[r].live /\ RowOf(reg[r].dev) # {}
    BY <1>0, <1>2 DEF HasRow, RowOf
  <2>5. CASE RegUpsertA(r) /\ type = "A"
    <3>1. UpsertDns(PointerA(r))
      BY <1>0, <2>4, <2>5 DEF RegUpsertA, PointerA, Done
    <3>2. /\ PointerA(r).dev = row.id /\ PointerA(r).type = type
          /\ PointerA(r).value = row.v4 /\ RowOf(PointerA(r).dev) # {}
      BY <1>2, <2>3, <2>4, <2>5 DEF PointerA
    <3>3. DnsRowOf(row.id, type)' = {PointerA(r)}
      BY <2>3, <3>1, <3>2 DEF UpsertDns, DnsRowOf
    <3> QED
      BY <2>5, <3>2, <3>3 DEF Wanted
  <2>6. CASE RegUpsertA(r) /\ type = "AAAA" /\ reg[r].v6 = {}
    <3>1. UpsertDns(PointerA(r))
      BY <1>0, <2>4, <2>6 DEF RegUpsertA, PointerA, Done
    <3>2. PointerA(r).type # type
      BY <2>6 DEF PointerA
    <3>3. DnsRowOf(row.id, type)' = {}
      BY <2>3, <3>1, <3>2 DEF UpsertDns, DnsRowOf
    <3> QED
      BY <2>3, <2>6, <3>3 DEF Wanted
  <2>7. CASE RegUpsertAAAA(r) /\ type = "AAAA"
    <3>1. UpsertDns(PointerAAAA(r))
      BY <1>0, <2>4, <2>7 DEF RegUpsertAAAA, PointerAAAA, Done
    <3>v. row.v6 = {The(reg[r].v6)}
      BY <2>3, <2>4, <2>7, RegFrom, OptElim DEF TypeInv, TypeOK, Shapes, RegShape,
         EnrollTypeOK, RegRequest
    <3>2. /\ PointerAAAA(r).dev = row.id /\ PointerAAAA(r).type = type
          /\ PointerAAAA(r).value = The(reg[r].v6) /\ RowOf(PointerAAAA(r).dev) # {}
      BY <1>2, <2>4, <2>7 DEF PointerAAAA
    <3>3. DnsRowOf(row.id, type)' = {PointerAAAA(r)}
      BY <2>3, <3>1, <3>2 DEF UpsertDns, DnsRowOf
    <3> QED
      BY <2>7, <3>v, <3>2, <3>3 DEF Wanted
  <2>8. CASE RegDropRow(r)
    <3>1. DeleteDevice(reg[r].dev)
      BY <1>0, <2>4, <2>8 DEF RegDropRow, Done
    <3> QED
      BY <1>2, <3>1 DEF DeleteDevice, RowOf
  <2> QED
    BY <1>2, <2>2, <2>5, <2>6, <2>7, <2>8, UnwrittenLeaves
<1>3. CASE row \in devices /\ ~(HasRow(r) /\ row.id = reg[r].dev /\ type \in Unwritten(r))
  <2>1. DnsRowOf(row.id, type)' = DnsRowOf(row.id, type)
    BY <1>3, RegPointersKept
  <2>2. ~Late(row.id, type)
    <3>1. ASSUME NEW s \in Requests, reg[s] # Idle, reg[s].dev = row.id, type \in Unwritten(s)
          PROVE  FALSE
      <4>1. s # r
        BY <1>3, <3>1 DEF Unwritten, HasRow, At
      <4>2. reg'[s] = reg[s] /\ Unwritten(s)' = Unwritten(s)
        BY <4>1, RegFrame DEF Unwritten, HasRow, At
      <4> QED
        BY <3>1, <4>2 DEF Late
    <3>2. ~ \E b \in Beats : beat[b] # Idle /\ Cam(b) = row.id /\ type \in beat[b].todo
      BY DEF Late, Cam
    <3> QED
      BY <3>1, <3>2 DEF Late
  <2> QED
    BY <1>3, <2>1, <2>2 DEF FollowInv
<1> QED
  BY <1>1, <1>2, <1>3

\* A registration keeps FollowInv.
LEMMA RegFollow ==
  ASSUME Faults \subseteq {"sign"}, TypeInv, GrantInv, PointerInv, MirrorInv, TrackInv,
         FollowInv, NEW r \in Requests, RegArrive(r) \/ RegStep(r), UNCHANGED beat
  PROVE  FollowInv'
<1>1. \A s \in Requests : HasRow(s)' =>
        \A row \in RowOf(reg[s].dev)' : row.v4 = reg'[s].v4 /\ row.v6 = reg'[s].v6
  BY RegRowHolds
<1>2. \A b \in Beats : BeatKnows(b)'
  BY RegBeatsKnow
<1>3. \A row \in devices' : \A type \in Types : Follows(row, type)'
  BY RegFollows
<1> QED
  BY <1>1, <1>2, <1>3 DEF FollowInv, BeatKnows, Follows

\* What a heartbeat makes of a row: its own cam's gets the addresses reported.
Updated(b, row) ==
  IF row.id = Cam(b)
  THEN [row EXCEPT !.v4 = beat[b].v4, !.v6 = IF beat[b].v6 = {} THEN @ ELSE beat[b].v6]
  ELSE row

\* What Updated changes and what it keeps.
LEMMA UpdatedRow ==
  ASSUME TypeInv, NEW b \in Beats, NEW row \in devices
  PROVE  /\ Updated(b, row).id = row.id /\ Updated(b, row).sub = row.sub
         /\ row.id # Cam(b) => Updated(b, row) = row
         /\ row.id = Cam(b) =>
              /\ Updated(b, row).v4 = beat[b].v4
              /\ Updated(b, row).v6 = IF beat[b].v6 = {} THEN row.v6 ELSE beat[b].v6
BY DEF Updated, TypeInv, TypeOK, StoreTypeOK, DeviceRow

\* A heartbeat updates the rows or leaves them.
LEMMA BeatUpdates ==
  ASSUME NEW b \in Beats, BeatArrive(b) \/ BeatStep(b)
  PROVE  UNCHANGED devices \/ (BeatUpdate(b) /\ devices' = {Updated(b, row) : row \in devices})
<1>1. CASE BeatUpdate(b) /\ UpdateHeartbeat(Cam(b), beat[b].v4, beat[b].v6)
  BY <1>1 DEF UpdateHeartbeat, Updated
<1> QED
  BY <1>1, BeatRows

\* The rows of the other cams are left alone.
LEMMA OtherRows ==
  ASSUME TypeInv, NEW b \in Beats, BeatArrive(b) \/ BeatStep(b), NEW row
  PROVE  /\ row.id # Cam(b) \/ ~BeatUpdate(b) => (row \in devices' <=> row \in devices)
<1>1. CASE UNCHANGED devices
  BY <1>1
<1>2. CASE BeatUpdate(b) /\ devices' = {Updated(b, old) : old \in devices}
  BY <1>2, UpdatedRow
<1> QED
  BY <1>1, <1>2, BeatUpdates

\* No heartbeat touches the row of a cam that is still enrolling.
LEMMA BeatRowHolds ==
  ASSUME TypeInv, GrantInv, PointerInv, FollowInv, NEW b \in Beats, BeatArrive(b) \/ BeatStep(b)
  PROVE  \A s \in Requests : HasRow(s)' =>
           \A row \in RowOf(reg[s].dev)' : row.v4 = reg'[s].v4 /\ row.v6 = reg'[s].v6
<1>1. ASSUME NEW s \in Requests, HasRow(s)', NEW row \in devices', row.id = reg'[s].dev
      PROVE  row.v4 = reg'[s].v4 /\ row.v6 = reg'[s].v6
  <2>1. reg'[s] = reg[s] /\ HasRow(s)
    BY <1>1, HeartbeatFrame DEF HasRow
  <2>2. BeatUpdate(b) => reg[s].dev # Cam(b)
    BY <2>1, BeatHasRow, BeatFrom DEF PointerInv, BeatAt
  <2>3. row \in devices
    BY <1>1, <2>1, <2>2, OtherRows
  <2> QED
    BY <1>1, <2>1, <2>3 DEF FollowInv, RowOf
<1>2. \A s \in Requests : \A d : d = reg'[s].dev =>
        \A row \in RowOf(reg[s].dev)' : row \in devices' /\ row.id = d
  BY DEF RowOf
<1> QED
  BY <1>1, <1>2

\* The handler knows the row it looked up and updated: no other heartbeat
\* of the cam runs meanwhile.
LEMMA OwnBeatKnows ==
  ASSUME Faults \subseteq {"sign"}, TypeInv, PointerInv, MirrorInv, FollowInv,
         NEW b \in Beats, BeatArrive(b) \/ BeatStep(b)
  PROVE  BeatKnows(b)'
<1>0. /\ BeatKnows(b) /\ ~BeatClientGone(b)
      /\ beat[b] # Idle => beat[b] \in BeatRequest /\ BeatShape(beat[b])
      /\ RowKey
  BY FollowParts, CalmReplies, SureReplies DEF BeatClientGone, PointerInv, TypeInv, TypeOK,
     BeatTypeOK, Shapes
<1>1. CASE beat'[b] = Idle
  BY <1>1 DEF BeatKnows, BeatAt
<1>2. CASE BeatArrive(b)
  <2>1. beat'[b].pc = "lookup" /\ beat'[b].todo = {}
    BY <1>2 DEF BeatArrive, TypeInv, TypeOK, BeatTypeOK
  <2> QED
    BY <2>1 DEF BeatKnows, BeatAt
<1>3. CASE BeatStep(b) /\ beat'[b] # Idle
  <2>0. /\ beat[b] # Idle /\ beat'[b].v4 = beat[b].v4 /\ beat'[b].v6 = beat[b].v6
        /\ Cam(b)' = Cam(b)
    BY <1>3, BeatKeeps DEF Cam
  <2>1. CASE BeatLookup(b)
    <3>1. /\ beat'[b].pc = "update" /\ beat'[b].todo = {}
          /\ \E row \in RowOf(Cam(b)) : beat'[b].oldV4 = {row.v4} /\ beat'[b].oldV6 = row.v6
      <4>1. BeatAt(b, "lookup") /\ beat[b].todo = {}
        BY <1>0, <2>1, BeatFrom DEF BeatKnows
      <4> QED
        BY <1>0, <1>3, <2>1, <4>1, BeatPath, BeatFrom DEF BeatAt, Unmoved
    <3>2. \A row \in RowOf(Cam(b)) : beat'[b].oldV4 = {row.v4} /\ beat'[b].oldV6 = row.v6
      BY <1>0, <3>1 DEF RowKey, RowOf
    <3>3. RowOf(Cam(b))' = RowOf(Cam(b))
      BY <2>0, <2>1 DEF RowOf, BeatLookup, storeVars
    <3> QED
      BY <3>1, <3>2, <3>3 DEF BeatKnows, BeatAt
  <2>2. CASE BeatUpdate(b)
    <3>1. beat'[b].pc = "get" /\ UpdateHeartbeat(Cam(b), beat[b].v4, beat[b].v6)
      <4>1. BeatAt(b, "update")
        BY <2>2, BeatFrom
      <4> QED
        BY <1>0, <1>3, <2>2, <4>1, BeatPath, BeatFrom DEF BeatAt
    <3>2. devices' = {Updated(b, row) : row \in devices}
      BY <3>1 DEF UpdateHeartbeat, Updated
    <3>3. \A row \in devices' : row.id = Cam(b) =>
            row.v4 = beat[b].v4 /\ (beat[b].v6 # {} => row.v6 = beat[b].v6)
      BY <3>2, UpdatedRow
    <3>4. \A row \in RowOf(Cam(b))' :
            row.v4 = beat[b].v4 /\ (beat[b].v6 # {} => row.v6 = beat[b].v6)
      BY <2>0, <3>3 DEF RowOf
    <3> QED
      BY <2>0, <3>1, <3>4 DEF BeatKnows, BeatAt
  <2>3. CASE SyncGet(b) \/ SyncPost(b) \/ SyncPut(b) \/ SyncMirror(b)
    <3>1. beat[b].pc \in {"get", "post", "put", "mirror"} /\ beat[b].todo # {}
      BY <1>0, <2>0, <2>3, BeatFrom DEF BeatAt, BeatShape
    <3>2. beat'[b].pc \in {"get", "post", "put", "mirror"}
      BY <1>0, <1>3, <3>1, BeatPath, BeatFrom DEF BeatAt, Returned
    <3>3. UNCHANGED devices
      BY <2>3 DEF SyncGet, SyncPost, SyncPut, SyncMirror, storeVars
    <3>4. RowOf(Cam(b))' = RowOf(Cam(b))
      BY <2>0, <3>3 DEF RowOf
    <3> QED
      BY <1>0, <2>0, <3>1, <3>2, <3>4 DEF BeatKnows, BeatAt
  <2> QED
    BY <1>3, <2>1, <2>2, <2>3 DEF BeatStep
<1> QED
  BY <1>1, <1>2, <1>3

\* A heartbeat leaves what the others know true.
LEMMA BeatsKnow ==
  ASSUME Faults \subseteq {"sign"}, TypeInv, PointerInv, MirrorInv, FollowInv,
         NEW b \in Beats, BeatArrive(b) \/ BeatStep(b)
  PROVE  \A c \in Beats : BeatKnows(c)'
<1>1. ASSUME NEW c \in Beats, c # b PROVE BeatKnows(c)'
  <2>1. beat'[c] = beat[c] /\ Cam(c)' = Cam(c) /\ BeatKnows(c)
    BY <1>1, BeatFrame, FollowParts DEF Cam
  <2>2. beat[c] # Idle => RowOf(Cam(c))' = RowOf(Cam(c))
    <3>1. BeatUpdate(b) /\ beat[c] # Idle => Cam(c) # Cam(b)
      BY <1>1, BeatFrom DEF MirrorInv, OneBeatPerCam, BeatAt
    <3>2. beat[c] # Idle => \A row : row.id = Cam(c) => (row \in devices' <=> row \in devices)
      BY <3>1, OtherRows
    <3> QED
      BY <2>1, <3>2 DEF RowOf
  <2> QED
    BY <2>1, <2>2 DEF BeatKnows, BeatAt
<1> QED
  BY <1>1, OwnBeatKnows

\* Of a cam with a heartbeat in flight the late types are those it has still
\* to sync.
LEMMA LateInBeat ==
  ASSUME GrantInv, PointerInv, MirrorInv, NEW b \in Beats, beat[b] # Idle, NEW type
  PROVE  Late(Cam(b), type) <=> type \in beat[b].todo
<1>1. \A r \in Requests : type \in Unwritten(r) => HasRow(r)
  BY DEF Unwritten, HasRow, At
<1>2. \A r \in Requests : HasRow(r) => reg[r].dev # Cam(b)
  BY BeatHasRow DEF PointerInv
<1>3. \A c \in Beats : beat[c] # Idle /\ Cam(c) = Cam(b) => c = b
  BY DEF MirrorInv, OneBeatPerCam
<1> QED
  BY <1>1, <1>2, <1>3 DEF Late

\* Other cams are as late as before.
LEMMA LateElsewhere ==
  ASSUME TypeInv, NEW b \in Beats, BeatArrive(b) \/ BeatStep(b), NEW d, NEW type,
         beat[b] # Idle => d # Cam(b)
  PROVE  Late(d, type) => Late(d, type)'
<1>1. \A r \in Requests : reg'[r] = reg[r] /\ Unwritten(r)' = Unwritten(r)
  BY HeartbeatFrame DEF Unwritten, HasRow, At
<1>2. \A c \in Beats : c # b => beat'[c] = beat[c] /\ Cam(c)' = Cam(c)
  BY BeatFrame DEF Cam
<1> QED
  BY <1>1, <1>2 DEF Late

\* DNS syncs bring the pointers of their cam up to what its row asks for.
LEMMA BeatFollows ==
  ASSUME Faults \subseteq {"sign"}, TypeInv, GrantInv, PointerInv, MirrorInv, TrackInv,
         FollowInv, NEW b \in Beats, BeatArrive(b) \/ BeatStep(b),
         NEW row \in devices', NEW type \in Types
  PROVE  Follows(row, type)'
<1> SUFFICES ASSUME ~Late(row.id, type)'
             PROVE  {x.value : x \in DnsRowOf(row.id, type)'} = Wanted(row, type)
  BY DEF Follows, Wanted
<1>0. /\ beat[b] # Idle => beat[b].live /\ beat[b] \in BeatRequest /\ BeatShape(beat[b])
      /\ Faults \cap TrackFaults = {} /\ Faults \cap MirrorFaults = {}
      /\ BeatsHoldJwts /\ AllLive /\ BeatKnows(b) /\ HoldInv
  BY CalmReplies, FollowParts
  DEF MirrorInv, AllLive, PointerInv, TypeInv, TypeOK, Shapes, BeatTypeOK
<1>f. \A old \in devices : ~Late(old.id, type) =>
        {x.value : x \in DnsRowOf(old.id, type)} = Wanted(old, type)
  BY DEF FollowInv
<1>1. CASE beat[b] = Idle \/ row.id # Cam(b)
  <2>1. UNCHANGED dnsRows \/ SyncMirror(b)
    BY BeatDns
  <2>2. SyncMirror(b) =>
          dnsRows' = (dnsRows \ DnsRowOf(Cam(b), Current(b))) \cup {PointerOf(b)}
    BY <1>0, MirrorWrites
  <2>3. PointerOf(b).dev = Cam(b) /\ (SyncMirror(b) => beat[b] # Idle)
    BY BeatFrom DEF PointerOf, BeatAt
  <2>4. DnsRowOf(row.id, type)' = DnsRowOf(row.id, type)
    BY <1>1, <2>1, <2>2, <2>3 DEF DnsRowOf
  <2>5. row \in devices
    <3>1. BeatUpdate(b) => beat[b] # Idle
      BY BeatFrom DEF BeatAt
    <3> QED
      BY <1>1, <3>1, OtherRows
  <2>6. ~Late(row.id, type)
    BY <1>1, LateElsewhere
  <2> QED
    BY <1>f, <2>4, <2>5, <2>6
<1>2. CASE BeatStep(b) /\ beat[b] # Idle /\ row.id = Cam(b)
  <2>0. beat'[b] # Idle => Cam(b)' = Cam(b) /\ type \notin beat'[b].todo
    <3>1. beat'[b] # Idle => Cam(b)' = Cam(b)
      BY <1>2, BeatKeeps DEF Cam
    <3>2. beat'[b] # Idle /\ Cam(b)' = row.id /\ type \in beat'[b].todo => Late(row.id, type)'
      BY DEF Late
    <3> QED
      BY <1>2, <3>1, <3>2
  <2>1. CASE BeatUpdate(b)
    <3>1. beat[b].todo = {} /\ DnsRowOf(row.id, type)' = DnsRowOf(row.id, type)
      BY <1>0, <2>1, BeatFrom DEF BeatKnows, BeatUpdate, DnsRowOf
    <3>2. /\ UpdateHeartbeat(Cam(b), beat[b].v4, beat[b].v6)
          /\ IF RowOf(Cam(b)) # {} /\ Changed(b) # {}
             THEN beat' = [beat EXCEPT ![b].pc = "get", ![b].todo = Changed(b)]
             ELSE BeatAnswer(b)
      BY <1>0, <1>2, <2>1, CalmReplies DEF BeatUpdate, Done
    <3>3. PICK old \in devices : row = Updated(b, old)
      BY <3>2 DEF UpdateHeartbeat, Updated
    <3>4. old.id = Cam(b) /\ old \in RowOf(Cam(b))
      BY <1>2, <3>3, UpdatedRow DEF RowOf
    <3>5. type \notin Changed(b)
      <4>1. Changed(b) = {} \/ beat' = [beat EXCEPT ![b].pc = "get", ![b].todo = Changed(b)]
        BY <3>2, <3>4
      <4>2. ASSUME NEW todo, beat' = [beat EXCEPT ![b].pc = "get", ![b].todo = todo]
            PROVE  beat'[b] # Idle /\ beat'[b].todo = todo
        <5>1. beat'[b] = [beat[b] EXCEPT !.pc = "get", !.todo = todo]
          BY <4>2 DEF TypeInv, TypeOK, BeatTypeOK
        <5>2. beat[b] \in BeatRequest
          BY <1>0, <1>2
        <5> QED
          BY <5>1, <5>2 DEF BeatRequest, Idle
      <4> QED
        BY <2>0, <4>1, <4>2
    <3>6. beat[b].oldV4 = {old.v4} /\ beat[b].oldV6 = old.v6
      BY <1>0, <2>1, <3>4, BeatFrom DEF BeatKnows
    <3>7. Wanted(row, type) = Wanted(old, type)
      <4>1. CASE type = "A"
        <5>1. {old.v4} = {beat[b].v4}
          BY <3>5, <3>6, <4>1 DEF Changed, Types
        <5>2. row.v4 = beat[b].v4
          BY <3>3, <3>4, UpdatedRow
        <5> QED
          BY <4>1, <5>1, <5>2 DEF Wanted
      <4>2. CASE type = "AAAA"
        <5>1. beat[b].v6 = {} \/ old.v6 = beat[b].v6
          BY <3>5, <3>6, <4>2 DEF Changed, Types
        <5>2. row.v6 = IF beat[b].v6 = {} THEN old.v6 ELSE beat[b].v6
          BY <3>3, <3>4, UpdatedRow
        <5> QED
          BY <4>2, <5>1, <5>2 DEF Wanted
      <4> QED
        BY <4>1, <4>2 DEF Types
    <3>8. ~Late(old.id, type)
      BY <1>2, <3>1, <3>4, LateInBeat
    <3> QED
      BY <1>2, <1>f, <3>1, <3>4, <3>7, <3>8
  <2>2. CASE SyncMirror(b)
    <3>1. dnsRows' = (dnsRows \ DnsRowOf(Cam(b), Current(b))) \cup {PointerOf(b)}
      BY <1>0, <2>2, MirrorWrites
    <3>2. /\ PointerOf(b).dev = Cam(b) /\ PointerOf(b).type = Current(b)
          /\ PointerOf(b).value = Reported(b)
      BY DEF PointerOf
    <3>3. row \in devices /\ beat[b].todo # {}
      <4>1. ~BeatUpdate(b) /\ beat[b].todo # {}
        BY <1>0, <2>2, BeatFrom DEF BeatAt, BeatShape
      <4> QED
        BY <4>1, OtherRows
    <3>4. CASE type = Current(b)
      <4>1. {x.value : x \in DnsRowOf(row.id, type)'} = {Reported(b)}
        <5>1. DnsRowOf(row.id, type)' = {PointerOf(b)}
          BY <1>2, <3>1, <3>2, <3>4 DEF DnsRowOf
        <5> QED
          BY <3>2, <5>1
      <4>2. row.v4 = beat[b].v4 /\ (beat[b].v6 # {} => row.v6 = beat[b].v6)
        BY <1>0, <1>2, <3>3 DEF BeatKnows, RowOf
      <4>3. type = "A" => Reported(b) = row.v4
        BY <3>4, <4>2 DEF Reported
      <4>4. type = "AAAA" => row.v6 = {Reported(b)}
        <5>1. type = "AAAA" => "AAAA" \in beat[b].todo
          BY <1>0, <1>2, <3>3, <3>4 DEF Current, BeatRequest, Types
        <5>2. type = "AAAA" => beat[b].v6 # {}
          BY <1>0, <1>2, <5>1 DEF BeatShape
        <5>3. type = "AAAA" => beat[b].v6 = {The(beat[b].v6)}
          BY <1>0, <1>2, <5>2, OptElim DEF BeatRequest
        <5> QED
          BY <3>4, <4>2, <5>2, <5>3 DEF Reported
      <4> QED
        BY <4>1, <4>3, <4>4 DEF Wanted, Types
    <3>5. CASE type # Current(b)
      <4>1. DnsRowOf(row.id, type)' = DnsRowOf(row.id, type)
        BY <1>2, <3>1, <3>2, <3>5 DEF DnsRowOf
      <4>2. type \notin beat[b].todo
        <5>1. CASE beat'[b] # Idle
          <6>1. Returned(b)
            <7>1. BeatAt(b, "mirror") /\ ~BeatClientGone(b)
              BY <1>0, <2>2, BeatFrom, SureReplies DEF BeatClientGone
            <7> QED
              BY <1>2, <5>1, <7>1, BeatPath, BeatFrom DEF BeatAt
          <6> QED
            BY <2>0, <3>5, <5>1, <6>1 DEF Returned
        <5>2. CASE beat'[b] = Idle
          <6>1. beat[b].todo = {Current(b)}
            BY <1>0, <1>2, <2>2, <5>2 DEF SyncMirror, SyncReturn, TypeInv, TypeOK,
               BeatTypeOK, BeatRequest, Idle
          <6> QED
            BY <3>5, <6>1
        <5> QED
          BY <5>1, <5>2
      <4>3. ~Late(row.id, type)
        BY <1>2, <4>2, LateInBeat
      <4> QED
        BY <1>f, <3>3, <4>1, <4>3
    <3> QED
      BY <3>4, <3>5
  <2>3. CASE BeatLookup(b) \/ SyncGet(b) \/ SyncPost(b) \/ SyncPut(b)
    <3>1. DnsRowOf(row.id, type)' = DnsRowOf(row.id, type)
      <4>1. ~SyncMirror(b)
        BY <2>3, BeatFrom DEF BeatAt
      <4>2. UNCHANGED dnsRows
        BY <4>1, BeatDns
      <4> QED
        BY <4>2 DEF DnsRowOf
    <3>2. row \in devices
      <4>1. ~BeatUpdate(b)
        BY <2>3, BeatFrom DEF BeatAt
      <4> QED
        BY <4>1, OtherRows
    <3>3. type \notin beat[b].todo
      <4>1. CASE BeatLookup(b)
        BY <1>0, <4>1, BeatFrom DEF BeatKnows
      <4>2. CASE SyncGet(b)
        <5>1. \/ BeatGoto(b, "post")
              \/ \E x \in DnsRowOf(Cam(b), Current(b)) :
                   beat' = [beat EXCEPT ![b].pc = "put", ![b].cf = {x.cf}]
          BY <1>0, <1>2, <4>2, CalmReplies DEF SyncGet
        <5>2. beat'[b] # Idle /\ beat'[b].todo = beat[b].todo
          BY <1>0, <1>2, <5>1 DEF BeatGoto, TypeInv, TypeOK, BeatTypeOK, BeatRequest, Idle
        <5> QED
          BY <2>0, <5>2
      <4>3. CASE SyncPost(b)
        <5>1. beat' = [beat EXCEPT ![b].pc = "mirror", ![b].cf = {nextId}]
          BY <1>0, <1>2, <4>3, CalmReplies DEF SyncPost
        <5>2. beat'[b] # Idle /\ beat'[b].todo = beat[b].todo
          BY <1>0, <1>2, <5>1 DEF TypeInv, TypeOK, BeatTypeOK, BeatRequest, Idle
        <5> QED
          BY <2>0, <5>2
      <4>4. CASE SyncPut(b)
        <5>1. \A id \in beat[b].cf : Exists(id)
          BY <1>0, <4>4, BeatFrom DEF HoldInv
        <5>2. BeatGoto(b, "mirror")
          BY <1>0, <1>2, <4>4, <5>1, CalmReplies DEF SyncPut
        <5>3. beat'[b] # Idle /\ beat'[b].todo = beat[b].todo
          BY <1>0, <1>2, <5>2 DEF BeatGoto, TypeInv, TypeOK, BeatTypeOK, BeatRequest, Idle
        <5> QED
          BY <2>0, <5>3
      <4> QED
        BY <2>3, <4>1, <4>2, <4>3, <4>4
    <3>4. ~Late(row.id, type)
      BY <1>2, <3>3, LateInBeat
    <3> QED
      BY <1>f, <3>1, <3>2, <3>4
  <2> QED
    BY <1>2, <2>1, <2>2, <2>3 DEF BeatStep
<1>3. beat[b] # Idle => BeatStep(b)
  BY DEF BeatArrive
<1> QED
  BY <1>1, <1>2, <1>3

\* A heartbeat keeps FollowInv.
LEMMA BeatFollow ==
  ASSUME Faults \subseteq {"sign"}, TypeInv, GrantInv, PointerInv, MirrorInv, TrackInv,
         FollowInv, NEW b \in Beats, BeatArrive(b) \/ BeatStep(b)
  PROVE  FollowInv'
<1>1. \A s \in Requests : HasRow(s)' =>
        \A row \in RowOf(reg[s].dev)' : row.v4 = reg'[s].v4 /\ row.v6 = reg'[s].v6
  BY BeatRowHolds
<1>2. \A c \in Beats : BeatKnows(c)'
  BY BeatsKnow
<1>3. \A row \in devices' : \A type \in Types : Follows(row, type)'
  BY BeatFollows
<1> QED
  BY <1>1, <1>2, <1>3 DEF FollowInv, BeatKnows, Follows

\* FollowInv is inductive when only a signature can fail.
LEMMA FollowStep ==
  ASSUME Faults \subseteq {"sign"}
  PROVE  TypeInv /\ GrantInv /\ PointerInv /\ MirrorInv /\ TrackInv /\ FollowInv
           /\ [Next]_vars => FollowInv'
<1> SUFFICES ASSUME TypeInv, GrantInv, PointerInv, MirrorInv, TrackInv, FollowInv, [Next]_vars
             PROVE  FollowInv'
  OBVIOUS
<1>0. Faults \cap MirrorFaults = {}
  BY CalmReplies
<1>1. CASE \E r \in Requests : (RegArrive(r) \/ RegStep(r)) /\ UNCHANGED beat
  BY <1>1, RegFollow
<1>2. CASE \E b \in Beats : BeatArrive(b) \/ BeatStep(b)
  BY <1>2, BeatFollow
<1>3. CASE UNCHANGED <<devices, dnsRows, zone, nextId, reg, jwts, beat>>
  <2>1. \A r \in Requests : HasRow(r)' =>
          \A row \in RowOf(reg[r].dev)' : row.v4 = reg'[r].v4 /\ row.v6 = reg'[r].v6
    BY <1>3 DEF FollowInv, HasRow, RowOf
  <2>2. \A c \in Beats : BeatKnows(c)'
    BY <1>3, FollowParts DEF BeatKnows, BeatAt, RowOf, Cam
  <2>3. \A row \in devices' : \A type \in Types : Follows(row, type)'
    BY <1>3, FollowParts DEF Follows, Late, Unwritten, HasRow, At, Cam, DnsRowOf, Wanted
  <2> QED
    BY <2>1, <2>2, <2>3 DEF FollowInv, BeatKnows, Follows
<1> QED
  BY <1>0, <1>1, <1>2, <1>3, CalmNext

\* With nothing in flight the records under a cam's name are those its
\* pointers know, and serve their values.
LEMMA RestRecords ==
  ASSUME PointerInv, MirrorInv, TrackInv, FollowInv, Quiet,
         NEW row \in devices, NEW type \in Types
  PROVE  {z.value : z \in Records(row.sub, type)} = Wanted(row, type)
<1>1. {x.value : x \in DnsRowOf(row.id, type)} = Wanted(row, type)
  <2>1. ~Late(row.id, type)
    BY DEF Quiet, Late
  <2> QED
    BY <2>1 DEF FollowInv
<1>s. \A x \in dnsRows : Serves(x.cf, x.value)
  BY DEF MirrorInv, Quiet, BeingMirrored, BeatAt
<1>2. ASSUME NEW z \in Records(row.sub, type)
      PROVE  \E x \in DnsRowOf(row.id, type) : x.value = z.value
  <2>1. z \in zone /\ z.name = row.sub /\ z.type = type
    BY <1>2 DEF Records
  <2>2. PICK x \in dnsRows : x.cf = z.id /\ x.fqdn = z.name /\ x.type = z.type
    BY <2>1, RestPointer
  <2>3. PICK own \in devices : own.id = x.dev /\ own.sub = x.fqdn
    BY <2>2 DEF PointerInv, DnsNamed
  <2>4. own = row
    BY <2>1, <2>2, <2>3 DEF TrackInv, SubKey
  <2>5. x.value = z.value
    BY <1>s, <2>1, <2>2 DEF Serves, MirrorInv, ZoneKey
  <2> QED
    BY <2>1, <2>2, <2>3, <2>4, <2>5 DEF DnsRowOf
<1>3. ASSUME NEW x \in DnsRowOf(row.id, type)
      PROVE  \E z \in Records(row.sub, type) : z.value = x.value
  <2>1. x \in dnsRows /\ x.dev = row.id /\ x.type = type
    BY <1>3 DEF DnsRowOf
  <2>2. PICK z \in zone : z.id = x.cf /\ z.value = x.value
    BY <1>s, <2>1 DEF Serves
  <2>3. /\ Label(z.id, z.owner, z.name, z.type) \in Labels
        /\ Label(x.cf, x.dev, x.fqdn, x.type) \in Labels
    BY <2>1, <2>2 DEF Labels, ZoneLabels, RowLabels
  <2>4. Label(z.id, z.owner, z.name, z.type) = Label(x.cf, x.dev, x.fqdn, x.type)
    BY <2>2, <2>3, LabelFields DEF PointerInv, LabelInv
  <2>5. z.name = x.fqdn /\ z.type = type
    BY <2>1, <2>4, LabelFields
  <2>6. x.fqdn = row.sub
    BY <2>1 DEF PointerInv, DnsNamed, RowKey
  <2> QED
    BY <2>2, <2>5, <2>6 DEF Records
<1>4. \A v : (\E z \in Records(row.sub, type) : z.value = v)
               <=> (\E x \in DnsRowOf(row.id, type) : x.value = v)
  BY <1>2, <1>3
<1> QED
  BY <1>1, <1>4

\* DNS FOLLOWS THE CAM when only a signature can fail: however registrations
\* race for names and devices, and whatever addresses cams report, with
\* nothing in flight a name resolves to exactly the addresses of its row.
THEOREM NamesFollowCams ==
  ASSUME Faults \subseteq {"sign"}
  PROVE  Spec => []DnsFollowsCam
<1>0. Faults \cap TrackFaults = {} /\ Faults \cap MirrorFaults = {} /\ "admin_drop" \notin Faults
  BY CalmReplies
<1>1. PointerInv /\ MirrorInv /\ TrackInv /\ FollowInv => DnsFollowsCam
  <2> SUFFICES ASSUME PointerInv, MirrorInv, TrackInv, FollowInv, Quiet, NEW row \in devices
               PROVE  /\ {z.value : z \in Records(row.sub, "A")} = {row.v4}
                      /\ {z.value : z \in Records(row.sub, "AAAA")} = row.v6
    BY DEF DnsFollowsCam
  <2>1. \A type \in Types : {z.value : z \in Records(row.sub, type)} = Wanted(row, type)
    BY RestRecords
  <2> QED
    BY <2>1 DEF Wanted, Types
<1>2. Init => FollowInv
  BY DEF Init, StoreInit, ZoneInit, EnrollInit, BeatInit, FollowInv, HasRow, BeatAt
<1> QED
  BY <1>0, <1>1, <1>2, SyncInit, TrackInit, TypeInit, TypeStep, GrantStep, PointerStep,
     MirrorStep, TrackStep, FollowStep, PTL
  DEF Spec

=============================================================================
