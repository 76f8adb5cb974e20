---------------------------- MODULE FleetProofs -----------------------------
(***************************************************************************)
(* Proofs about Fleet, for all sets of cams, names, tokens, addresses and  *)
(* slots and every set of faults a theorem's hypotheses leave in.          *)
(***************************************************************************)
EXTENDS FleetInv, TLAPS

-----------------------------------------------------------------------------
(* Optional values *)

\* A singleton is an optional value, and so is the empty set.
LEMMA OptIntro ==
  ASSUME NEW S
  PROVE  {} \in Opt(S) /\ \A x \in S : {x} \in Opt(S)
BY DEF Opt

\* A set optional value holds exactly the element The names.
LEMMA OptElim ==
  ASSUME NEW S, NEW o \in Opt(S), o # {}
  PROVE  The(o) \in S /\ o = {The(o)}
<1>1. PICK x \in o : TRUE
  OBVIOUS
<1>2. o = {x} /\ x \in S
  BY <1>1 DEF Opt
<1>3. The(o) \in o
  BY <1>1 DEF The
<1> QED
  BY <1>2, <1>3

\* The name a request works on is one of the names.
LEMMA AssignedName ==
  ASSUME EnrollTypeOK, NEW r \in Requests, reg[r] # Idle
  PROVE  Assigned(r) \in Names
<1>1. reg[r] \in RegRequest
  BY DEF EnrollTypeOK
<1>2. reg[r].base \in Bases /\ reg[r].k \in DOMAIN Candidates[reg[r].base]
  BY <1>1 DEF EnrollTypeOK, RegRequest
<1>3. Candidates[reg[r].base] \in Seq(Names)
  BY <1>2, CandidatesAssumption
<1> QED
  BY <1>2, <1>3 DEF Assigned

-----------------------------------------------------------------------------
(* Type correctness *)

\* Consuming a token keeps the table of tokens well-typed.
LEMMA ConsumeTypes ==
  ASSUME tokens \in [Tokens -> TokenRow], NEW t \in Tokens, NEW d,
         {d} \in Opt(Devices), ConsumeToken(t, d)
  PROVE  tokens' \in [Tokens -> TokenRow]
<1> DEFINE spent == [tokens[t] EXCEPT !.consumed = TRUE, !.by = {d}]
<1>1. spent \in TokenRow
  BY DEF TokenRow
<1>2. tokens' = tokens \/ tokens' = [tokens EXCEPT ![t] = spent]
  BY DEF ConsumeToken, TokenRow
<1> HIDE DEF spent
<1> QED
  BY <1>1, <1>2

\* What a well-typed register request record is, over the constants only.
RegOK(q) ==
  q # Idle => q \in RegRequest /\ q.k \in DOMAIN Candidates[q.base] /\ RegShape(q)

\* The parts of TypeInv that speak of reg say RegOK of every slot.
LEMMA RegOKIff ==
  (EnrollTypeOK /\ \A r \in Requests : reg[r] # Idle => RegShape(reg[r]))
  <=> /\ reg \in [Requests -> {Idle} \cup RegRequest]
      /\ \A r \in Requests : RegOK(reg[r])
      /\ jwts \subseteq Claims
BY DEF EnrollTypeOK, RegOK

\* Writing one well-typed record keeps every slot well-typed.
LEMMA RegWrite ==
  ASSUME reg \in [Requests -> {Idle} \cup RegRequest],
         \A r \in Requests : RegOK(reg[r]),
         NEW r \in Requests, NEW q \in {Idle} \cup RegRequest, RegOK(q),
         reg' = [reg EXCEPT ![r] = q]
  PROVE  /\ reg' \in [Requests -> {Idle} \cup RegRequest]
         /\ \A s \in Requests : RegOK(reg'[s])
OBVIOUS

\* Every step of a registration keeps the tables, the zone and the requests
\* well-typed and well-shaped.
LEMMA RegisterTypes ==
  ASSUME TypeInv, NEW r \in Requests,
         RegArrive(r) \/ RegStep(r) \/ RegClientGone(r)
  PROVE  StoreTypeOK' /\ ZoneTypeOK' /\ EnrollTypeOK'
         /\ (\A s \in Requests : reg[s] # Idle => RegShape(reg[s]))'
<1> DEFINE q == reg[r]
<1> USE DEF TypeInv, TypeOK, Shapes, storeVars, zoneVars
<1>0. /\ reg \in [Requests -> {Idle} \cup RegRequest]
      /\ \A s \in Requests : RegOK(reg[s])
      /\ jwts \subseteq Claims
  BY RegOKIff
<1>1. q # Idle => q \in RegRequest /\ RegShape(q) /\ Assigned(r) \in Names
                  /\ q.k \in DOMAIN Candidates[q.base]
  BY <1>0, AssignedName DEF RegOK
<1>g. ASSUME q # Idle, NEW step \in RegSteps, RegShape([q EXCEPT !.pc = step]),
             Goto(r, step)
      PROVE  /\ reg' \in [Requests -> {Idle} \cup RegRequest]
             /\ \A s \in Requests : RegOK(reg'[s])
  <2>1. [q EXCEPT !.pc = step] \in RegRequest /\ RegOK([q EXCEPT !.pc = step])
    BY <1>1, <1>g DEF RegOK, RegRequest
  <2>2. reg' = [reg EXCEPT ![r] = [q EXCEPT !.pc = step]]
    BY <1>g DEF Goto
  <2> QED
    BY <1>0, <2>1, <2>2, RegWrite
<1>a. ASSUME Answer(r)
      PROVE  /\ reg' \in [Requests -> {Idle} \cup RegRequest]
             /\ \A s \in Requests : RegOK(reg'[s])
  BY <1>0, <1>a, RegWrite DEF Answer, RegOK
<1>p. ASSUME reg' \in [Requests -> {Idle} \cup RegRequest],
             \A s \in Requests : RegOK(reg'[s]), jwts' \subseteq Claims
      PROVE  /\ EnrollTypeOK'
             /\ (\A s \in Requests : reg[s] # Idle => RegShape(reg[s]))'
  BY <1>p DEF EnrollTypeOK, RegOK
<1>2. CASE RegArrive(r)
  <2>1. PICK t \in Tokens, d \in Devices, b \in Bases, v4 \in V4, v6 \in Opt(V6) :
          reg' = [reg EXCEPT ![r] =
                    [pc |-> "consume", live |-> TRUE, token |-> t, dev |-> d,
                     base |-> b, v4 |-> v4, v6 |-> v6,
                     k |-> 1, a |-> {}, aaaa |-> {}]]
    BY <1>2 DEF RegArrive
  <2> DEFINE n == [pc |-> "consume", live |-> TRUE, token |-> t, dev |-> d,
                   base |-> b, v4 |-> v4, v6 |-> v6, k |-> 1, a |-> {}, aaaa |-> {}]
  <2>2. n \in RegRequest
    BY OptIntro DEF RegRequest, RegSteps
  <2>3. 1 \in DOMAIN Candidates[b]
    BY CandidatesAssumption
  <2>4. RegOK(n)
    BY <2>2, <2>3 DEF RegOK, RegShape
  <2>5. reg' = [reg EXCEPT ![r] = n]
    BY <2>1
  <2> HIDE DEF n
  <2> QED
    BY <1>2, <1>0, <2>2, <2>4, <2>5, RegWrite, <1>p
    DEF RegArrive, StoreTypeOK, ZoneTypeOK, EnrollTypeOK, RegOK
<1>3. CASE RegConsume(r)
  <2>1. At(r, "consume") /\ UNCHANGED <<devices, dnsRows, zone, nextId, jwts>>
    BY <1>3 DEF RegConsume
  <2>2. q.token \in Tokens /\ {q.dev} \in Opt(Devices)
    BY <1>1, <2>1, OptIntro DEF At, RegRequest
  <2>3. tokens' \in [Tokens -> TokenRow]
    <3>1. ConsumeToken(q.token, q.dev) \/ UNCHANGED tokens
      BY <1>3 DEF RegConsume
    <3> QED
      BY <2>2, <3>1, ConsumeTypes DEF StoreTypeOK
  <2>4. Goto(r, "probe") \/ Answer(r)
    BY <1>3 DEF RegConsume
  <2>5. RegShape([q EXCEPT !.pc = "probe"])
    BY <1>1, <2>1 DEF At, RegShape, RegRequest
  <2>6. /\ reg' \in [Requests -> {Idle} \cup RegRequest]
        /\ \A s \in Requests : RegOK(reg'[s])
    BY <1>g, <1>a, <2>1, <2>4, <2>5 DEF At, RegSteps
  <2> QED
    BY <1>0, <2>1, <2>3, <2>6, <1>p DEF StoreTypeOK, ZoneTypeOK
<1>4. CASE RegProbe(r)
  <2>1. At(r, "probe") /\ UNCHANGED <<tokens, devices, dnsRows, zone, nextId, jwts>>
    BY <1>4 DEF RegProbe
  <2>2. RegShape([q EXCEPT !.pc = "postA"])
    BY <1>1, <2>1 DEF At, RegShape, RegRequest
  <2>3. CASE Goto(r, "postA") \/ Answer(r)
    BY <1>0, <1>g, <1>a, <2>1, <2>2, <2>3, <1>p
    DEF At, RegSteps, StoreTypeOK, ZoneTypeOK
  <2>4. CASE /\ q.k < Len(Candidates[q.base])
             /\ reg' = [reg EXCEPT ![r].k = @ + 1]
    <3> DEFINE n == [q EXCEPT !.k = @ + 1]
    <3>1. q \in RegRequest /\ q.k \in Nat /\ q.base \in Bases
      BY <1>1, <2>1 DEF At, RegRequest
    <3>2. Candidates[q.base] \in Seq(Names)
      BY <3>1, CandidatesAssumption
    <3>3. n \in RegRequest /\ n.k = q.k + 1 /\ n.base = q.base
      BY <3>1 DEF RegRequest
    <3>4. n.k \in DOMAIN Candidates[n.base]
      BY <1>1, <2>1, <2>4, <3>1, <3>2, <3>3 DEF At
    <3>5. RegShape(n)
      BY <1>1, <2>1, <3>1 DEF At, RegShape, RegRequest
    <3>6. reg' = [reg EXCEPT ![r] = n]
      BY <2>4
    <3> HIDE DEF n
    <3> QED
      BY <1>0, <2>1, <3>3, <3>4, <3>5, <3>6, RegWrite, <1>p
      DEF RegOK, StoreTypeOK, ZoneTypeOK
  <2> QED
    BY <1>4, <2>3, <2>4 DEF RegProbe
<1>5. CASE RegPostA(r)
  <2>1. At(r, "postA") /\ UNCHANGED <<tokens, devices, dnsRows, jwts>>
    BY <1>5 DEF RegPostA
  <2>2. q \in RegRequest /\ RegShape(q) /\ Assigned(r) \in Names
    BY <1>1, <2>1 DEF At
  <2>3. ZoneTypeOK'
    BY <1>5, <2>2
    DEF RegPostA, PostRecord, ZoneTypeOK, ZoneRecord, RegRequest, Types
  <2>4. CASE Answer(r)
    BY <1>0, <1>a, <2>1, <2>3, <2>4, <1>p DEF StoreTypeOK
  <2>5. CASE reg' = [reg EXCEPT ![r].a = {nextId},
                       ![r].pc = IF reg[r].v6 = {} THEN "insert" ELSE "postAAAA"]
    <3> DEFINE n == [q EXCEPT !.a = {nextId},
                              !.pc = IF q.v6 = {} THEN "insert" ELSE "postAAAA"]
    <3>1. {nextId} \in Opt(Nat)
      BY OptIntro DEF ZoneTypeOK
    <3>2. n \in RegRequest /\ n.k = q.k /\ n.base = q.base
      BY <2>2, <3>1 DEF RegRequest, RegSteps
    <3>3. RegShape(n)
      BY <2>1, <2>2 DEF At, RegShape, RegRequest
    <3>4. reg' = [reg EXCEPT ![r] = n]
      BY <2>5
    <3>5. RegOK(n)
      BY <1>1, <2>1, <3>2, <3>3 DEF At, RegOK
    <3> HIDE DEF n
    <3> QED
      BY <1>0, <2>1, <2>3, <3>2, <3>4, <3>5, RegWrite, <1>p DEF StoreTypeOK
  <2> QED
    BY <1>5, <2>4, <2>5 DEF RegPostA
<1>6. CASE RegPostAAAA(r)
  <2>1. At(r, "postAAAA") /\ UNCHANGED <<tokens, devices, dnsRows, jwts>>
    BY <1>6 DEF RegPostAAAA
  <2>2. /\ q \in RegRequest /\ RegShape(q) /\ Assigned(r) \in Names
        /\ The(q.v6) \in V6
    BY <1>1, <2>1, OptElim DEF At, RegShape, RegRequest
  <2>3. ZoneTypeOK'
    BY <1>6, <2>2
    DEF RegPostAAAA, PostRecord, ZoneTypeOK, ZoneRecord, RegRequest, Types
  <2>4. CASE Goto(r, "undoA")
    <3>1. RegShape([q EXCEPT !.pc = "undoA"])
      BY <2>1, <2>2 DEF At, RegShape, RegRequest
    <3> QED
      BY <1>0, <1>g, <2>1, <2>3, <2>4, <3>1, <1>p DEF At, RegSteps, StoreTypeOK
  <2>5. CASE reg' = [reg EXCEPT ![r].aaaa = {nextId}, ![r].pc = "insert"]
    <3> DEFINE n == [q EXCEPT !.aaaa = {nextId}, !.pc = "insert"]
    <3>1. {nextId} \in Opt(Nat)
      BY OptIntro DEF ZoneTypeOK
    <3>2. n \in RegRequest /\ n.k = q.k /\ n.base = q.base
      BY <2>2, <3>1 DEF RegRequest, RegSteps
    <3>3. RegShape(n)
      BY <2>1, <2>2 DEF At, RegShape, RegRequest
    <3>4. reg' = [reg EXCEPT ![r] = n]
      BY <2>5
    <3>5. RegOK(n)
      BY <1>1, <2>1, <3>2, <3>3 DEF At, RegOK
    <3> HIDE DEF n
    <3> QED
      BY <1>0, <2>1, <2>3, <3>2, <3>4, <3>5, RegWrite, <1>p DEF StoreTypeOK
  <2> QED
    BY <1>6, <2>4, <2>5 DEF RegPostAAAA
<1>7. CASE RegInsert(r)
  <2>1. At(r, "insert") /\ UNCHANGED <<tokens, dnsRows, zone, nextId, jwts>>
    BY <1>7 DEF RegInsert
  <2>2. q \in RegRequest /\ RegShape(q) /\ Assigned(r) \in Names
    BY <1>1, <2>1 DEF At
  <2>3. StoreTypeOK'
    <3>1. NewRow(r) \in DeviceRow
      BY <2>2 DEF NewRow, DeviceRow, RegRequest
    <3> QED
      BY <1>7, <2>1, <3>1 DEF RegInsert, CreateDevice, StoreTypeOK
  <2>4. /\ RegShape([q EXCEPT !.pc = "sign"])
        /\ RegShape([q EXCEPT !.pc = "undoA"])
    BY <2>1, <2>2 DEF At, RegShape, RegRequest
  <2>5. Goto(r, "sign") \/ Goto(r, "undoA")
    BY <1>7 DEF RegInsert
  <2> QED
    BY <1>0, <1>g, <1>p, <2>1, <2>3, <2>4, <2>5 DEF At, RegSteps, ZoneTypeOK
<1>8. CASE RegSign(r)
  <2>1. At(r, "sign") /\ UNCHANGED <<tokens, devices, dnsRows, zone, nextId, jwts>>
    BY <1>8 DEF RegSign
  <2>2. /\ RegShape([q EXCEPT !.pc = "upsertA"])
        /\ RegShape([q EXCEPT !.pc = "dropRow"])
    BY <1>1, <2>1 DEF At, RegShape, RegRequest
  <2>3. Goto(r, "upsertA") \/ Goto(r, "dropRow")
    BY <1>8 DEF RegSign
  <2> QED
    BY <1>0, <1>g, <1>p, <2>1, <2>2, <2>3
    DEF At, RegSteps, StoreTypeOK, ZoneTypeOK
<1>9. CASE RegUpsertA(r)
  <2>1. At(r, "upsertA") /\ UNCHANGED <<tokens, devices, zone, nextId, jwts>>
    BY <1>9 DEF RegUpsertA
  <2>2. /\ q \in RegRequest /\ RegShape(q) /\ Assigned(r) \in Names
        /\ The(q.a) \in Nat
    BY <1>1, <2>1, OptElim DEF At, RegShape, RegRequest
  <2>3. StoreTypeOK'
    <3>1. [dev |-> q.dev, type |-> "A", fqdn |-> Assigned(r),
           value |-> q.v4, cf |-> The(q.a)] \in DnsRow
      BY <2>2 DEF DnsRow, Types, RegRequest
    <3> QED
      BY <1>9, <2>1, <3>1 DEF RegUpsertA, UpsertDns, StoreTypeOK
  <2>4. /\ q.v6 = {} => RegShape([q EXCEPT !.pc = "respond"])
        /\ q.v6 # {} => RegShape([q EXCEPT !.pc = "upsertAAAA"])
    BY <2>1, <2>2 DEF At, RegShape, RegRequest
  <2>5. (q.v6 = {} /\ Goto(r, "respond")) \/ (q.v6 # {} /\ Goto(r, "upsertAAAA"))
    BY <1>9 DEF RegUpsertA
  <2> QED
    BY <1>0, <1>g, <1>p, <2>1, <2>3, <2>4, <2>5 DEF At, RegSteps, ZoneTypeOK
<1>10. CASE RegUpsertAAAA(r)
  <2>1. At(r, "upsertAAAA") /\ UNCHANGED <<tokens, devices, zone, nextId, jwts>>
    BY <1>10 DEF RegUpsertAAAA
  <2>2. /\ q \in RegRequest /\ RegShape(q) /\ Assigned(r) \in Names
        /\ The(q.aaaa) \in Nat /\ The(q.v6) \in V6
    BY <1>1, <2>1, OptElim DEF At, RegShape, RegRequest
  <2>3. StoreTypeOK'
    <3>1. [dev |-> q.dev, type |-> "AAAA", fqdn |-> Assigned(r),
           value |-> The(q.v6), cf |-> The(q.aaaa)] \in DnsRow
      BY <2>2 DEF DnsRow, Types, RegRequest
    <3> QED
      BY <1>10, <2>1, <3>1 DEF RegUpsertAAAA, UpsertDns, StoreTypeOK
  <2>4. RegShape([q EXCEPT !.pc = "respond"]) /\ Goto(r, "respond")
    BY <1>10, <2>1, <2>2 DEF RegUpsertAAAA, At, RegShape, RegRequest
  <2> QED
    BY <1>0, <1>g, <1>p, <2>1, <2>3, <2>4 DEF At, RegSteps, ZoneTypeOK
<1>11. CASE RegRespond(r)
  <2>1. /\ At(r, "respond") /\ Answer(r)
        /\ UNCHANGED <<tokens, devices, dnsRows, zone, nextId>>
    BY <1>11 DEF RegRespond
  <2>2. jwts' \subseteq Claims
    BY <1>0, <1>1, <1>11, <2>1 DEF RegRespond, At, Claims, RegRequest
  <2> QED
    BY <1>a, <1>p, <2>1, <2>2 DEF StoreTypeOK, ZoneTypeOK
<1>12. CASE RegDropRow(r)
  <2>1. /\ At(r, "dropRow") /\ Goto(r, "undoA")
        /\ UNCHANGED <<tokens, zone, nextId, jwts>>
    BY <1>12 DEF RegDropRow
  <2>2. StoreTypeOK'
    BY <1>12, <2>1 DEF RegDropRow, DeleteDevice, StoreTypeOK
  <2>3. RegShape([q EXCEPT !.pc = "undoA"])
    BY <1>1, <2>1 DEF At, RegShape, RegRequest
  <2> QED
    BY <1>0, <1>g, <1>p, <2>1, <2>2, <2>3 DEF At, RegSteps, ZoneTypeOK
<1>13. CASE RegUndoA(r)
  <2>1. At(r, "undoA") /\ UNCHANGED <<tokens, devices, dnsRows, jwts>>
    BY <1>13 DEF RegUndoA
  <2>2. ZoneTypeOK'
    BY <1>13 DEF RegUndoA, DeleteRecord, ZoneTypeOK
  <2>3. q.aaaa # {} => RegShape([q EXCEPT !.pc = "undoAAAA"])
    BY <1>1, <2>1 DEF At, RegShape, RegRequest
  <2>4. Answer(r) \/ (q.aaaa # {} /\ Goto(r, "undoAAAA"))
    BY <1>13 DEF RegUndoA
  <2> QED
    BY <1>0, <1>a, <1>g, <1>p, <2>1, <2>2, <2>3, <2>4 DEF At, RegSteps, StoreTypeOK
<1>14. CASE RegUndoAAAA(r)
  <2>1. Answer(r) /\ UNCHANGED <<tokens, devices, dnsRows, jwts>>
    BY <1>14 DEF RegUndoAAAA
  <2>2. ZoneTypeOK'
    BY <1>14 DEF RegUndoAAAA, DeleteRecord, ZoneTypeOK
  <2> QED
    BY <1>0, <1>a, <1>p, <2>1, <2>2 DEF StoreTypeOK
<1>15. CASE RegClientGone(r)
  <2> DEFINE n == [q EXCEPT !.live = FALSE]
  <2>1. /\ q # Idle /\ reg' = [reg EXCEPT ![r] = n]
        /\ UNCHANGED <<tokens, devices, dnsRows, zone, nextId, jwts>>
    BY <1>15 DEF RegClientGone
  <2>2. n \in RegRequest /\ RegOK(n)
    BY <1>1, <2>1 DEF RegRequest, RegOK, RegShape
  <2> HIDE DEF n
  <2> QED
    BY <1>0, <1>p, <2>1, <2>2, RegWrite DEF StoreTypeOK, ZoneTypeOK
<1> QED
  BY <1>2, <1>3, <1>4, <1>5, <1>6, <1>7, <1>8, <1>9, <1>10, <1>11, <1>12,
     <1>13, <1>14, <1>15 DEF RegStep

\* What a well-typed heartbeat record is, over the constants only.
BeatOK(q) == q # Idle => q \in BeatRequest /\ BeatShape(q)

\* Writing one well-typed record keeps every heartbeat slot well-typed.
LEMMA BeatWrite ==
  ASSUME beat \in [Beats -> {Idle} \cup BeatRequest],
         \A b \in Beats : BeatOK(beat[b]),
         NEW b \in Beats, NEW q \in {Idle} \cup BeatRequest, BeatOK(q),
         beat' = [beat EXCEPT ![b] = q]
  PROVE  /\ BeatTypeOK'
         /\ (\A c \in Beats : beat[c] # Idle => BeatShape(beat[c]))'
BY DEF BeatOK, BeatTypeOK

\* Every step of a heartbeat keeps the tables, the zone and the heartbeats
\* well-typed and well-shaped.
LEMMA HeartbeatTypes ==
  ASSUME TypeInv, NEW b \in Beats,
         BeatArrive(b) \/ BeatStep(b) \/ BeatClientGone(b)
  PROVE  StoreTypeOK' /\ ZoneTypeOK' /\ BeatTypeOK'
         /\ (\A c \in Beats : beat[c] # Idle => BeatShape(beat[c]))'
<1> DEFINE q == beat[b]
<1> USE DEF TypeInv, TypeOK, Shapes, storeVars, zoneVars, enrollVars
<1>0. /\ beat \in [Beats -> {Idle} \cup BeatRequest]
      /\ \A c \in Beats : BeatOK(beat[c])
  BY DEF BeatTypeOK, BeatOK
<1>1. q # Idle => /\ q \in BeatRequest /\ BeatShape(q)
                  /\ Cam(b) \in Devices /\ q.claim.sub \in Names
  BY <1>0 DEF BeatOK, BeatRequest, Claims, Cam
<1>2. q # Idle /\ q.todo # {} => /\ Current(b) \in q.todo /\ Current(b) \in Types
                                 /\ Reported(b) \in V4 \cup V6
  <2> SUFFICES ASSUME q # Idle, q.todo # {}
               PROVE  /\ Current(b) \in q.todo /\ Current(b) \in Types
                      /\ Reported(b) \in V4 \cup V6
    OBVIOUS
  <2>1. Current(b) \in q.todo /\ Current(b) \in Types
    BY <1>1 DEF BeatRequest, Current, Types
  <2>2. Current(b) # "A" => Current(b) = "AAAA" /\ q.v6 # {}
    BY <1>1, <2>1 DEF Types, BeatShape
  <2>3. Current(b) # "A" => The(q.v6) \in V6
    BY <1>1, <2>2, OptElim DEF BeatRequest
  <2> QED
    BY <1>1, <2>1, <2>3 DEF Reported, BeatRequest
<1>g. ASSUME q # Idle, NEW step \in BeatSteps, BeatShape([q EXCEPT !.pc = step]),
             BeatGoto(b, step)
      PROVE  /\ BeatTypeOK'
             /\ (\A c \in Beats : beat[c] # Idle => BeatShape(beat[c]))'
  <2>1. [q EXCEPT !.pc = step] \in BeatRequest /\ BeatOK([q EXCEPT !.pc = step])
    BY <1>1, <1>g DEF BeatOK, BeatRequest
  <2>2. beat' = [beat EXCEPT ![b] = [q EXCEPT !.pc = step]]
    BY <1>g DEF BeatGoto
  <2> QED
    BY <1>0, <2>1, <2>2, BeatWrite
<1>a. ASSUME BeatAnswer(b)
      PROVE  /\ BeatTypeOK'
             /\ (\A c \in Beats : beat[c] # Idle => BeatShape(beat[c]))'
  BY <1>0, <1>a, BeatWrite DEF BeatAnswer, BeatOK
<1>r. ASSUME q # Idle, q.todo # {}, SyncReturn(b)
      PROVE  /\ BeatTypeOK'
             /\ (\A c \in Beats : beat[c] # Idle => BeatShape(beat[c]))'
  <2>1. CASE BeatAnswer(b)
    BY <1>a, <2>1
  <2>2. CASE /\ q.todo # {Current(b)}
             /\ beat' = [beat EXCEPT ![b].todo = @ \ {Current(b)},
                                     ![b].pc = "get", ![b].cf = {}]
    <3> DEFINE n == [q EXCEPT !.todo = @ \ {Current(b)}, !.pc = "get", !.cf = {}]
    <3>1. n \in BeatRequest
      BY <1>1, <1>r, OptIntro DEF BeatRequest, BeatSteps
    <3>2. BeatShape(n)
      BY <1>1, <1>2, <1>r, <2>2 DEF BeatShape, BeatRequest
    <3>3. beat' = [beat EXCEPT ![b] = n]
      BY <2>2
    <3>4. BeatOK(n)
      BY <3>1, <3>2 DEF BeatOK
    <3> HIDE DEF n
    <3> QED
      BY <1>0, <3>1, <3>3, <3>4, BeatWrite
  <2> QED
    BY <1>r, <2>1, <2>2 DEF SyncReturn
<1>3. CASE BeatArrive(b)
  <2>1. PICK claim \in jwts, v4 \in V4, v6 \in Opt(V6) :
          beat' = [beat EXCEPT ![b] =
                     [pc |-> "lookup", live |-> TRUE, claim |-> claim,
                      v4 |-> v4, v6 |-> v6, oldV4 |-> {}, oldV6 |-> {},
                      todo |-> {}, cf |-> {}]]
    BY <1>3 DEF BeatArrive
  <2> DEFINE n == [pc |-> "lookup", live |-> TRUE, claim |-> claim,
                   v4 |-> v4, v6 |-> v6, oldV4 |-> {}, oldV6 |-> {},
                   todo |-> {}, cf |-> {}]
  <2>2. n \in BeatRequest
    BY OptIntro DEF BeatRequest, BeatSteps, EnrollTypeOK
  <2>3. BeatOK(n)
    BY <2>2 DEF BeatOK, BeatShape
  <2>4. beat' = [beat EXCEPT ![b] = n]
    BY <2>1
  <2> HIDE DEF n
  <2> QED
    BY <1>0, <1>3, <2>2, <2>3, <2>4, BeatWrite DEF BeatArrive, StoreTypeOK, ZoneTypeOK
<1>4. CASE BeatLookup(b)
  <2>1. /\ BeatAt(b, "lookup")
        /\ UNCHANGED <<tokens, devices, dnsRows, zone, nextId>>
    BY <1>4 DEF BeatLookup
  <2>2. CASE BeatAnswer(b)
    BY <1>a, <2>1, <2>2 DEF StoreTypeOK, ZoneTypeOK
  <2>3. CASE \E row \in RowOf(Cam(b)) :
               beat' = [beat EXCEPT ![b].pc = "update", ![b].oldV4 = {row.v4},
                                    ![b].oldV6 = row.v6]
    <3>1. PICK row \in DeviceRow :
            beat' = [beat EXCEPT ![b].pc = "update", ![b].oldV4 = {row.v4},
                                 ![b].oldV6 = row.v6]
      BY <2>3 DEF RowOf, StoreTypeOK
    <3> DEFINE n == [q EXCEPT !.pc = "update", !.oldV4 = {row.v4}, !.oldV6 = row.v6]
    <3>2. n \in BeatRequest
      BY <1>1, <2>1, OptIntro DEF BeatAt, BeatRequest, BeatSteps, DeviceRow
    <3>3. BeatOK(n)
      BY <1>1, <2>1, <3>2 DEF BeatAt, BeatOK, BeatShape, BeatRequest
    <3>4. beat' = [beat EXCEPT ![b] = n]
      BY <3>1
    <3> HIDE DEF n
    <3> QED
      BY <1>0, <2>1, <3>2, <3>3, <3>4, BeatWrite DEF StoreTypeOK, ZoneTypeOK
  <2> QED
    BY <1>4, <2>2, <2>3 DEF BeatLookup
<1>5. CASE BeatUpdate(b)
  <2>1. BeatAt(b, "update") /\ UNCHANGED <<tokens, dnsRows, zone, nextId>>
    BY <1>5 DEF BeatUpdate
  <2>2. StoreTypeOK'
    <3>1. UpdateHeartbeat(Cam(b), q.v4, q.v6) => devices' \subseteq DeviceRow
      <4>1. devices \subseteq DeviceRow /\ q.v4 \in V4 /\ q.v6 \in Opt(V6)
        BY <1>1, <2>1 DEF BeatAt, StoreTypeOK, BeatRequest
      <4>2. \A row \in DeviceRow :
              [row EXCEPT !.v4 = q.v4, !.v6 = IF q.v6 = {} THEN @ ELSE q.v6] \in DeviceRow
        BY <4>1 DEF DeviceRow
      <4> QED
        BY <4>1, <4>2 DEF UpdateHeartbeat
    <3> QED
      BY <1>5, <2>1, <3>1 DEF BeatUpdate, StoreTypeOK
  <2>3. CASE BeatAnswer(b)
    BY <1>a, <2>1, <2>2, <2>3 DEF ZoneTypeOK
  <2>4. CASE /\ Changed(b) # {}
             /\ beat' = [beat EXCEPT ![b].pc = "get", ![b].todo = Changed(b)]
    <3> DEFINE n == [q EXCEPT !.pc = "get", !.todo = Changed(b)]
    <3>1. n \in BeatRequest
      BY <1>1, <2>1 DEF BeatAt, BeatRequest, BeatSteps, Changed
    <3>2. BeatOK(n)
      BY <1>1, <2>1, <2>4, <3>1 DEF BeatAt, BeatOK, BeatShape, BeatRequest, Changed
    <3>3. beat' = [beat EXCEPT ![b] = n]
      BY <2>4
    <3> HIDE DEF n
    <3> QED
      BY <1>0, <2>1, <2>2, <3>1, <3>2, <3>3, BeatWrite DEF ZoneTypeOK
  <2> QED
    BY <1>5, <2>3, <2>4 DEF BeatUpdate
<1>6. CASE SyncGet(b)
  <2>1. /\ BeatAt(b, "get") /\ q.todo # {}
        /\ UNCHANGED <<tokens, devices, dnsRows, zone, nextId>>
    BY <1>1, <1>6 DEF SyncGet, BeatAt, BeatShape
  <2>2. CASE SyncReturn(b)
    BY <1>r, <2>1, <2>2 DEF BeatAt, StoreTypeOK, ZoneTypeOK
  <2>3. CASE BeatGoto(b, "post")
    <3>1. BeatShape([q EXCEPT !.pc = "post"])
      BY <1>1, <2>1 DEF BeatAt, BeatShape, BeatRequest
    <3> QED
      BY <1>g, <2>1, <2>3, <3>1 DEF BeatAt, BeatSteps, StoreTypeOK, ZoneTypeOK
  <2>4. CASE \E x \in DnsRowOf(Cam(b), Current(b)) :
               beat' = [beat EXCEPT ![b].pc = "put", ![b].cf = {x.cf}]
    <3>1. PICK x \in DnsRow :
            beat' = [beat EXCEPT ![b].pc = "put", ![b].cf = {x.cf}]
      BY <2>4 DEF DnsRowOf, StoreTypeOK
    <3> DEFINE n == [q EXCEPT !.pc = "put", !.cf = {x.cf}]
    <3>2. n \in BeatRequest
      BY <1>1, <2>1, OptIntro DEF BeatAt, BeatRequest, BeatSteps, DnsRow
    <3>3. BeatOK(n)
      BY <1>1, <2>1, <3>2 DEF BeatAt, BeatOK, BeatShape, BeatRequest
    <3>4. beat' = [beat EXCEPT ![b] = n]
      BY <3>1
    <3> HIDE DEF n
    <3> QED
      BY <1>0, <2>1, <3>2, <3>3, <3>4, BeatWrite DEF StoreTypeOK, ZoneTypeOK
  <2> QED
    BY <1>6, <2>2, <2>3, <2>4 DEF SyncGet
<1>7. CASE SyncPost(b)
  <2>1. /\ BeatAt(b, "post") /\ q.todo # {}
        /\ UNCHANGED <<tokens, devices, dnsRows>>
    BY <1>1, <1>7 DEF SyncPost, BeatAt, BeatShape
  <2>2. ZoneTypeOK'
    <3>1. ASSUME PostRecord(q.claim.sub, Current(b), Reported(b), Cam(b))
          PROVE  ZoneTypeOK'
      BY <1>1, <1>2, <2>1, <3>1 DEF BeatAt, PostRecord, ZoneTypeOK, ZoneRecord
    <3> QED
      BY <1>7, <3>1 DEF SyncPost, ZoneTypeOK
  <2>3. CASE SyncReturn(b)
    BY <1>r, <2>1, <2>2, <2>3 DEF BeatAt, StoreTypeOK
  <2>4. CASE beat' = [beat EXCEPT ![b].pc = "mirror", ![b].cf = {nextId}]
    <3> DEFINE n == [q EXCEPT !.pc = "mirror", !.cf = {nextId}]
    <3>1. n \in BeatRequest
      BY <1>1, <2>1, OptIntro DEF BeatAt, BeatRequest, BeatSteps, ZoneTypeOK
    <3>2. BeatOK(n)
      BY <1>1, <2>1, <3>1 DEF BeatAt, BeatOK, BeatShape, BeatRequest
    <3>3. beat' = [beat EXCEPT ![b] = n]
      BY <2>4
    <3> HIDE DEF n
    <3> QED
      BY <1>0, <2>1, <2>2, <3>1, <3>2, <3>3, BeatWrite DEF StoreTypeOK
  <2> QED
    BY <1>7, <2>3, <2>4 DEF SyncPost
<1>8. CASE SyncPut(b)
  <2>1. /\ BeatAt(b, "put") /\ q.todo # {} /\ q.cf # {}
        /\ UNCHANGED <<tokens, devices, dnsRows>>
    BY <1>1, <1>8 DEF SyncPut, BeatAt, BeatShape
  <2>2. ZoneTypeOK'
    <3>1. ASSUME NEW id \in q.cf,
                 PutRecord(id, q.claim.sub, Current(b), Reported(b), Cam(b))
          PROVE  ZoneTypeOK'
      <4>1. id \in Nat
        BY <1>1, <2>1 DEF BeatAt, BeatRequest, Opt
      <4> QED
        BY <1>1, <1>2, <2>1, <3>1, <4>1 DEF BeatAt, PutRecord, ZoneTypeOK, ZoneRecord
    <3> QED
      BY <1>8, <3>1 DEF SyncPut, ZoneTypeOK
  <2>3. CASE SyncReturn(b)
    BY <1>r, <2>1, <2>2, <2>3 DEF BeatAt, StoreTypeOK
  <2>4. CASE BeatGoto(b, "mirror")
    <3>1. BeatShape([q EXCEPT !.pc = "mirror"])
      BY <1>1, <2>1 DEF BeatAt, BeatShape, BeatRequest
    <3> QED
      BY <1>g, <2>1, <2>2, <2>4, <3>1 DEF BeatAt, BeatSteps, StoreTypeOK
  <2> QED
    BY <1>8, <2>3, <2>4 DEF SyncPut
<1>9. CASE SyncMirror(b)
  <2>1. /\ BeatAt(b, "mirror") /\ q.todo # {} /\ q.cf # {} /\ SyncReturn(b)
        /\ UNCHANGED <<tokens, devices, zone, nextId>>
    BY <1>1, <1>9 DEF SyncMirror, BeatAt, BeatShape
  <2>2. StoreTypeOK'
    <3>1. The(q.cf) \in Nat
      BY <1>1, <2>1, OptElim DEF BeatAt, BeatRequest
    <3>2. [dev |-> Cam(b), type |-> Current(b), fqdn |-> q.claim.sub,
           value |-> Reported(b), cf |-> The(q.cf)] \in DnsRow
      BY <1>1, <1>2, <2>1, <3>1 DEF BeatAt, DnsRow
    <3> QED
      BY <1>9, <2>1, <3>2 DEF SyncMirror, UpsertDns, StoreTypeOK
  <2> QED
    BY <1>r, <2>1, <2>2 DEF BeatAt, ZoneTypeOK
<1>10. CASE BeatClientGone(b)
  <2> DEFINE n == [q EXCEPT !.live = FALSE]
  <2>1. /\ q # Idle /\ beat' = [beat EXCEPT ![b] = n]
        /\ UNCHANGED <<tokens, devices, dnsRows, zone, nextId>>
    BY <1>10 DEF BeatClientGone
  <2>2. n \in BeatRequest /\ BeatOK(n)
    BY <1>1, <2>1 DEF BeatRequest, BeatOK, BeatShape
  <2> HIDE DEF n
  <2> QED
    BY <1>0, <2>1, <2>2, BeatWrite DEF StoreTypeOK, ZoneTypeOK
<1> QED
  BY <1>3, <1>4, <1>5, <1>6, <1>7, <1>8, <1>9, <1>10 DEF BeatStep

\* A heartbeat leaves the tokens, the registrations and the JWTs alone.
LEMMA HeartbeatFrame ==
  ASSUME NEW b \in Beats, BeatArrive(b) \/ BeatStep(b) \/ BeatClientGone(b)
  PROVE  UNCHANGED <<tokens, reg, jwts>>
BY DEF BeatArrive, BeatStep, BeatClientGone, BeatLookup, BeatUpdate, SyncGet,
       SyncPost, SyncPut, SyncMirror, storeVars, enrollVars

\* TypeInv holds initially.
LEMMA TypeInit == Init => TypeInv
BY OptIntro DEF Init, StoreInit, ZoneInit, EnrollInit, BeatInit, TypeInv,
   TypeOK, Shapes, StoreTypeOK, ZoneTypeOK, EnrollTypeOK, BeatTypeOK, TokenRow

\* TypeInv is inductive.
LEMMA TypeStep == TypeInv /\ [Next]_vars => TypeInv'
<1> SUFFICES ASSUME TypeInv, [Next]_vars PROVE TypeInv'
  OBVIOUS
<1> USE DEF TypeInv, TypeOK, Shapes
<1>1. CASE RegisterNext
  <2>1. PICK r \in Requests : RegArrive(r) \/ RegStep(r) \/ RegClientGone(r)
    BY <1>1 DEF RegisterNext
  <2>2. UNCHANGED beat
    BY <1>1 DEF RegisterNext
  <2> QED
    BY <2>1, <2>2, RegisterTypes DEF BeatTypeOK
<1>2. CASE HeartbeatNext
  <2>1. PICK b \in Beats : BeatArrive(b) \/ BeatStep(b) \/ BeatClientGone(b)
    BY <1>2 DEF HeartbeatNext
  <2> QED
    BY <2>1, HeartbeatTypes, HeartbeatFrame DEF EnrollTypeOK
<1>3. CASE TokenNext
  <2>1. PICK t \in Tokens : MintToken(t) \/ Revoke(t) \/ TokenExpires(t)
    BY <1>3 DEF TokenNext
  <2>2. UNCHANGED <<devices, dnsRows, zone, nextId, reg, jwts, beat>>
    BY <2>1 DEF MintToken, Revoke, TokenExpires, zoneVars, enrollVars
  <2>3. tokens' \in [Tokens -> TokenRow]
    BY <2>1 DEF MintToken, Revoke, TokenExpires, CreateToken, RevokeToken,
                ExpireToken, StoreTypeOK, TokenRow
  <2> QED
    BY <2>2, <2>3 DEF StoreTypeOK, ZoneTypeOK, EnrollTypeOK, BeatTypeOK
<1>4. ASSUME NEW d \in Devices, AdminDrop(d) PROVE TypeInv'
  BY <1>4 DEF AdminDrop, DeleteDevice, zoneVars, enrollVars, StoreTypeOK,
              ZoneTypeOK, EnrollTypeOK, BeatTypeOK
<1>5. CASE HubCrash
  BY <1>5 DEF HubCrash, storeVars, zoneVars, StoreTypeOK, ZoneTypeOK,
              EnrollTypeOK, BeatTypeOK
<1>6. CASE UNCHANGED vars
  BY <1>6 DEF vars, storeVars, zoneVars, enrollVars, StoreTypeOK, ZoneTypeOK,
              EnrollTypeOK, BeatTypeOK
<1> QED
  BY <1>1, <1>2, <1>3, <1>4, <1>5, <1>6 DEF Next

\* TYPE CORRECTNESS: tables, zone and requests stay within their types, and
\* no handler step unwraps an id or address that is not there.
THEOREM TypeCorrect == Spec => []TypeOK
<1>1. TypeInv => TypeOK
  BY DEF TypeInv
<1> QED
  BY <1>1, TypeInit, TypeStep, PTL DEF Spec

-----------------------------------------------------------------------------
(* Tokens *)

\* A registration that changes slot r leaves the other slots alone.
LEMMA RegFrame ==
  ASSUME TypeInv, NEW r \in Requests,
         RegArrive(r) \/ RegStep(r) \/ RegClientGone(r)
  PROVE  \A s \in Requests : s # r => reg'[s] = reg[s]
<1> USE DEF Goto, Answer
<1>1. CASE RegArrive(r)
  BY <1>1 DEF RegArrive, TypeInv, TypeOK, EnrollTypeOK
<1>2. CASE RegClientGone(r)
  BY <1>2 DEF RegClientGone, TypeInv, TypeOK, EnrollTypeOK
<1>3. CASE RegConsume(r) \/ RegProbe(r) \/ RegPostA(r) \/ RegPostAAAA(r)
  BY <1>3 DEF RegConsume, RegProbe, RegPostA, RegPostAAAA, TypeInv, TypeOK, EnrollTypeOK
<1>4. CASE RegInsert(r) \/ RegSign(r) \/ RegUpsertA(r) \/ RegUpsertAAAA(r) \/ RegRespond(r)
  BY <1>4 DEF RegInsert, RegSign, RegUpsertA, RegUpsertAAAA, RegRespond, TypeInv, TypeOK, EnrollTypeOK
<1>5. CASE RegDropRow(r) \/ RegUndoA(r) \/ RegUndoAAAA(r)
  BY <1>5 DEF RegDropRow, RegUndoA, RegUndoAAAA, TypeInv, TypeOK, EnrollTypeOK
<1> QED
  BY <1>1, <1>2, <1>3, <1>4, <1>5 DEF RegStep

\* A request keeps what the cam sent until it is answered.
LEMMA RegKeeps ==
  ASSUME TypeInv, NEW r \in Requests, RegStep(r) \/ RegClientGone(r),
         reg'[r] # Idle
  PROVE  /\ reg[r] # Idle
         /\ reg'[r].token = reg[r].token
         /\ reg'[r].dev = reg[r].dev
         /\ reg'[r].base = reg[r].base
<1> USE DEF TypeInv, TypeOK, EnrollTypeOK, At, Goto, Answer
<1>0. reg[r] # Idle /\ reg[r] \in RegRequest
  BY DEF RegStep, RegClientGone, RegConsume, RegProbe, RegPostA, RegPostAAAA,
         RegInsert, RegSign, RegUpsertA, RegUpsertAAAA, RegRespond, RegDropRow,
         RegUndoA, RegUndoAAAA
<1>1. CASE RegClientGone(r)
  BY <1>0, <1>1 DEF RegClientGone, RegRequest
<1>2. CASE RegConsume(r) \/ RegProbe(r) \/ RegPostA(r) \/ RegPostAAAA(r)
  BY <1>0, <1>2 DEF RegConsume, RegProbe, RegPostA, RegPostAAAA, RegRequest
<1>3. CASE RegInsert(r) \/ RegSign(r) \/ RegUpsertA(r) \/ RegUpsertAAAA(r) \/ RegRespond(r)
  BY <1>0, <1>3 DEF RegInsert, RegSign, RegUpsertA, RegUpsertAAAA, RegRespond, RegRequest
<1>4. CASE RegDropRow(r) \/ RegUndoA(r) \/ RegUndoAAAA(r)
  BY <1>0, <1>4 DEF RegDropRow, RegUndoA, RegUndoAAAA, RegRequest
<1> QED
  BY <1>1, <1>2, <1>3, <1>4 DEF RegStep

\* Apart from Consume no step of a registration writes the tokens, and a
\* request that is past Consume afterwards was so before.
LEMMA AfterConsume ==
  ASSUME TypeInv, NEW r \in Requests, RegStep(r) \/ RegClientGone(r),
         ~RegConsume(r)
  PROVE  UNCHANGED tokens /\ (Enrolls(r)' => Enrolls(r))
<1> USE DEF TypeInv, TypeOK, EnrollTypeOK, At, Goto, Answer, Enrolls, storeVars
<1>1. CASE RegClientGone(r)
  BY <1>1 DEF RegClientGone, RegRequest
<1>2. CASE RegProbe(r) \/ RegPostA(r) \/ RegPostAAAA(r)
  BY <1>2 DEF RegProbe, RegPostA, RegPostAAAA, RegRequest
<1>3. CASE RegInsert(r) \/ RegSign(r) \/ RegUpsertA(r) \/ RegUpsertAAAA(r) \/ RegRespond(r)
  BY <1>3 DEF RegInsert, RegSign, RegUpsertA, RegUpsertAAAA, RegRespond, RegRequest
<1>4. CASE RegDropRow(r) \/ RegUndoA(r) \/ RegUndoAAAA(r)
  BY <1>4 DEF RegDropRow, RegUndoA, RegUndoAAAA, RegRequest
<1> QED
  BY <1>1, <1>2, <1>3, <1>4 DEF RegStep

\* How a step of a registration changes the device rows: none but an insert
\* adds one, for the cam of the request, and none but the rollback of the
\* same request removes any.
LEMMA RegRows ==
  ASSUME TypeInv, NEW r \in Requests,
         RegArrive(r) \/ RegStep(r) \/ RegClientGone(r)
  PROVE  \/ UNCHANGED devices
         \/ RegInsert(r) /\ Insertable(NewRow(r)) /\ devices' = devices \cup {NewRow(r)}
         \/ RegDropRow(r) /\ devices' = devices \ RowOf(reg[r].dev)
<1> USE DEF storeVars
<1>1. CASE RegArrive(r) \/ RegClientGone(r)
  BY <1>1 DEF RegArrive, RegClientGone
<1>2. CASE RegInsert(r)
  BY <1>2 DEF RegInsert, CreateDevice
<1>3. CASE RegDropRow(r)
  BY <1>3 DEF RegDropRow, DeleteDevice
<1>4. CASE RegConsume(r) \/ RegProbe(r) \/ RegPostA(r) \/ RegPostAAAA(r) \/ RegSign(r)
  BY <1>4 DEF RegConsume, RegProbe, RegPostA, RegPostAAAA, RegSign
<1>5. CASE RegUpsertA(r) \/ RegUpsertAAAA(r) \/ RegRespond(r) \/ RegUndoA(r) \/ RegUndoAAAA(r)
  BY <1>5 DEF RegUpsertA, RegUpsertAAAA, RegRespond, RegUndoA, RegUndoAAAA
<1> QED
  BY <1>1, <1>2, <1>3, <1>4, <1>5 DEF RegStep

\* Heartbeats neither add nor remove device rows, nor rename them.
LEMMA HeartbeatRows ==
  ASSUME TypeInv, NEW b \in Beats, BeatArrive(b) \/ BeatStep(b) \/ BeatClientGone(b)
  PROVE  /\ \A row \in devices' : \E old \in devices :
              old.id = row.id /\ old.sub = row.sub
         /\ \A old \in devices : \E row \in devices' :
              old.id = row.id /\ old.sub = row.sub
<1> USE DEF storeVars
<1>1. CASE BeatUpdate(b)
  <2> DEFINE new(row) == IF row.id = Cam(b)
                         THEN [row EXCEPT !.v4 = beat[b].v4,
                                 !.v6 = IF beat[b].v6 = {} THEN @ ELSE beat[b].v6]
                         ELSE row
  <2>1. \A row \in devices : new(row).id = row.id /\ new(row).sub = row.sub
    BY DEF TypeInv, TypeOK, StoreTypeOK, DeviceRow
  <2>2. devices' = devices \/ devices' = {new(row) : row \in devices}
    BY <1>1 DEF BeatUpdate, UpdateHeartbeat
  <2> HIDE DEF new
  <2> QED
    BY <2>1, <2>2
<1>2. CASE ~BeatUpdate(b)
  BY <1>2 DEF BeatArrive, BeatStep, BeatClientGone, BeatLookup, SyncGet,
              SyncPost, SyncPut, SyncMirror
<1> QED
  BY <1>1, <1>2

\* A heartbeat moves its own slot only.
LEMMA BeatFrame ==
  ASSUME TypeInv, NEW b \in Beats, BeatArrive(b) \/ BeatStep(b) \/ BeatClientGone(b)
  PROVE  \A c \in Beats : c # b => beat'[c] = beat[c]
<1>1. ASSUME NEW q, beat' = [beat EXCEPT ![b] = q]
      PROVE  \A c \in Beats : c # b => beat'[c] = beat[c]
  BY <1>1 DEF TypeInv, TypeOK, BeatTypeOK
<1>2. \E q : beat' = [beat EXCEPT ![b] = q]
  BY DEF BeatArrive, BeatStep, BeatClientGone, BeatLookup, BeatUpdate,
         SyncGet, SyncPost, SyncPut, SyncMirror, BeatAnswer, BeatGoto, SyncReturn
<1> QED
  BY <1>1, <1>2

\* What a heartbeat carries does not change on its way.
LEMMA BeatKeeps ==
  ASSUME TypeInv, NEW b \in Beats, BeatStep(b) \/ BeatClientGone(b), beat'[b] # Idle
  PROVE  /\ beat[b] # Idle /\ beat[b] \in BeatRequest
         /\ beat'[b].claim = beat[b].claim
         /\ beat'[b].v4 = beat[b].v4 /\ beat'[b].v6 = beat[b].v6
         /\ beat'[b].live = beat[b].live \/ BeatClientGone(b)
<1> DEFINE Same == /\ beat'[b].claim = beat[b].claim
                   /\ beat'[b].v4 = beat[b].v4 /\ beat'[b].v6 = beat[b].v6
                   /\ beat'[b].live = beat[b].live \/ BeatClientGone(b)
<1>1. /\ beat[b] # Idle /\ beat[b] \in BeatRequest
      /\ beat \in [Beats -> {Idle} \cup BeatRequest]
  BY DEF BeatStep, BeatClientGone, BeatLookup, BeatUpdate, SyncGet, SyncPost,
         SyncPut, SyncMirror, BeatAt, TypeInv, TypeOK, BeatTypeOK
<1>2. ~BeatAnswer(b)
  BY <1>1 DEF BeatAnswer
<1>3. ASSUME NEW pc, BeatGoto(b, pc)
      PROVE  Same
  BY <1>1, <1>3 DEF BeatGoto, BeatRequest
<1>4. SyncReturn(b) => Same
  BY <1>1, <1>2 DEF SyncReturn, BeatRequest
<1>5. CASE BeatLookup(b)
  <2>1. PICK o4, o6 : beat' = [beat EXCEPT ![b].pc = "update", ![b].oldV4 = o4,
                                         ![b].oldV6 = o6]
    BY <1>2, <1>5 DEF BeatLookup
  <2>2. beat'[b] = [beat[b] EXCEPT !.pc = "update", !.oldV4 = o4, !.oldV6 = o6]
    BY <1>1, <2>1
  <2> QED
    BY <1>1, <2>2 DEF BeatRequest
<1>6. CASE BeatUpdate(b)
  BY <1>1, <1>2, <1>6 DEF BeatUpdate, BeatRequest
<1>7. CASE SyncGet(b)
  <2>1. \/ SyncReturn(b) \/ BeatGoto(b, "post")
        \/ \E cf : beat' = [beat EXCEPT ![b].pc = "put", ![b].cf = cf]
    BY <1>7 DEF SyncGet
  <2>2. ASSUME NEW cf, beat' = [beat EXCEPT ![b].pc = "put", ![b].cf = cf]
        PROVE  Same
    BY <1>1, <2>2 DEF BeatRequest
  <2> QED
    BY <1>1, <1>3, <1>4, <2>1, <2>2
<1>8. CASE SyncPost(b)
  <2>1. \/ SyncReturn(b)
        \/ beat' = [beat EXCEPT ![b].pc = "mirror", ![b].cf = {nextId}]
    BY <1>8 DEF SyncPost
  <2> QED
    BY <1>1, <1>4, <2>1 DEF BeatRequest
<1>9. CASE SyncPut(b)
  BY <1>1, <1>3, <1>4, <1>9 DEF SyncPut
<1>10. CASE SyncMirror(b)
  BY <1>1, <1>4, <1>10 DEF SyncMirror
<1>11. CASE BeatClientGone(b)
  BY <1>1, <1>11 DEF BeatClientGone, BeatRequest
<1> QED
  BY <1>1, <1>5, <1>6, <1>7, <1>8, <1>9, <1>10, <1>11 DEF BeatStep

\* The claim of a heartbeat in flight is the one it came with, of a JWT.
LEMMA BeatClaims ==
  ASSUME TypeInv, NEW b \in Beats, BeatArrive(b) \/ BeatStep(b) \/ BeatClientGone(b),
         beat'[b] # Idle
  PROVE  \/ beat[b] # Idle /\ beat'[b].claim = beat[b].claim
         \/ BeatArrive(b) /\ beat'[b].claim \in jwts
<1>1. CASE BeatArrive(b)
  <2>1. PICK claim \in jwts, v4 \in V4, v6 \in Opt(V6) :
          beat' = [beat EXCEPT ![b] =
                     [pc |-> "lookup", live |-> TRUE, claim |-> claim,
                      v4 |-> v4, v6 |-> v6, oldV4 |-> {}, oldV6 |-> {},
                      todo |-> {}, cf |-> {}]]
    BY <1>1 DEF BeatArrive
  <2>2. beat'[b].claim = claim
    BY <2>1 DEF TypeInv, TypeOK, BeatTypeOK
  <2> QED
    BY <1>1, <2>2
<1> QED
  BY <1>1, BeatKeeps

\* TokenInv is inductive on well-typed states.
LEMMA TokenStep == TypeInv /\ TokenInv /\ [Next]_vars => TokenInv'
<1> SUFFICES ASSUME TypeInv, TokenInv, [Next]_vars PROVE TokenInv'
  OBVIOUS
<1>t. TypeInv'
  BY TypeStep
<1> DEFINE Bound(s) == /\ tokens[reg[s].token].consumed
                       /\ tokens[reg[s].token].by = {reg[s].dev}
<1> USE DEF TokenInv, OneTokenOneEnrollment
<1>1. CASE RegisterNext
  <2>1. PICK r \in Requests : RegArrive(r) \/ RegStep(r) \/ RegClientGone(r)
    BY <1>1 DEF RegisterNext
  <2>2. \A s \in Requests : s # r => reg'[s] = reg[s]
    BY <2>1, RegFrame
  <2>3. CASE RegArrive(r)
    <3>1. ~Enrolls(r)' /\ UNCHANGED <<tokens, devices>>
      BY <2>3 DEF RegArrive, Enrolls, TypeInv, TypeOK, EnrollTypeOK, storeVars
    <3>2. \A s \in Requests : Enrolls(s)' => Enrolls(s) /\ reg'[s] = reg[s]
      BY <2>2, <3>1 DEF Enrolls
    <3> QED
      BY <3>1, <3>2
  <2>4. CASE RegConsume(r)
    <3> DEFINE t == reg[r].token
               d == reg[r].dev
    <3>1. /\ UNCHANGED devices /\ reg[r] # Idle /\ reg[r] \in RegRequest
          /\ t \in Tokens /\ d \in Devices
      BY <2>4 DEF RegConsume, At, TypeInv, TypeOK, EnrollTypeOK, RegRequest
    <3>2. \A s \in Requests : Enrolls(s) => reg[s].token \in Tokens
      BY DEF Enrolls, TypeInv, TypeOK, EnrollTypeOK, RegRequest
    <3>3. CASE UNCHANGED tokens /\ ~Enrolls(r)'
      BY <2>2, <3>1, <3>3 DEF Enrolls
    <3>4. CASE Usable(t) /\ tokens' = [tokens EXCEPT ![t].consumed = TRUE, ![t].by = {d}]
      <4>1. /\ tokens'[t].consumed /\ tokens'[t].by = {d} /\ ~tokens[t].consumed
            /\ \A u \in Tokens \ {t} : tokens'[u] = tokens[u]
        BY <3>1, <3>4 DEF Usable, TypeInv, TypeOK, StoreTypeOK, TokenRow
      <4>2. \A s \in Requests : Enrolls(s) => reg[s].token # t
        BY <4>1
      <4>3. Enrolls(r)' => reg'[r].token = t /\ reg'[r].dev = d
        BY <2>4, RegKeeps DEF RegStep, Enrolls
      <4>4. \A s \in Requests : s # r /\ Enrolls(s)' =>
              Enrolls(s) /\ reg'[s].token # t /\ Bound(s)'
        <5>1. \A s \in Requests : s # r /\ Enrolls(s)' =>
                Enrolls(s) /\ reg'[s] = reg[s]
          BY <2>2 DEF Enrolls
        <5>2. \A s \in Requests : Enrolls(s) =>
                reg[s].token \in Tokens \ {t} /\ Bound(s)
          BY <3>2, <4>2
        <5> HIDE DEF TokenInv, OneTokenOneEnrollment
        <5> QED
          BY <4>1, <5>1, <5>2
      <4>5. \A s \in Requests : Enrolls(s)' => Bound(s)'
        BY <4>1, <4>3, <4>4
      <4>6. \A s, u \in Requests : (Enrolls(s) /\ Enrolls(u))'
              /\ reg'[s].token = reg'[u].token => s = u
        BY <2>2, <4>3, <4>4
      <4>7. \A row \in devices' : \E u \in Tokens : tokens'[u].by = {row.id}
        <5> SUFFICES ASSUME NEW row \in devices
                     PROVE  \E u \in Tokens : tokens'[u].by = {row.id}
          BY <3>1
        <5>1. PICK u \in Tokens : tokens[u].by = {row.id}
          OBVIOUS
        <5>2. CASE u # t
          BY <4>1, <5>1, <5>2
        <5>3. CASE u = t
          BY <4>1, <5>1, <5>3
        <5> QED
          BY <5>2, <5>3
      <4>8. \A u \in Tokens : tokens'[u].by # {} => tokens'[u].consumed
        BY <4>1
      <4> QED
        BY <4>5, <4>6, <4>7, <4>8
    <3>5. Answer(r) => ~Enrolls(r)'
      BY DEF Answer, Enrolls, TypeInv, TypeOK, EnrollTypeOK
    <3>6. PICK reply \in DbReplies(reg[r].live) :
            /\ IF Done(reply) THEN ConsumeToken(t, d) ELSE UNCHANGED tokens
            /\ IF reply = "ok" /\ Usable(t) THEN Goto(r, "probe") ELSE Answer(r)
      BY <2>4 DEF RegConsume
    <3>7. CASE Done(reply) /\ Usable(t)
      BY <3>4, <3>6, <3>7 DEF ConsumeToken
    <3>8. CASE ~Done(reply) \/ ~Usable(t)
      <4>1. UNCHANGED tokens
        BY <3>6, <3>8 DEF ConsumeToken
      <4>2. Answer(r)
        BY <3>6, <3>8 DEF Done
      <4> QED
        BY <3>3, <3>5, <4>1, <4>2
    <3> QED
      BY <3>7, <3>8
  <2>5. CASE (RegStep(r) \/ RegClientGone(r)) /\ ~RegConsume(r)
    <3>1. UNCHANGED tokens /\ (Enrolls(r)' => Enrolls(r))
      BY <2>5, AfterConsume
    <3>2. Enrolls(r)' => reg'[r].token = reg[r].token /\ reg'[r].dev = reg[r].dev
      BY <2>5, RegKeeps DEF Enrolls
    <3>3. \A row \in devices' : row \in devices \/ (Enrolls(r) /\ row.id = reg[r].dev)
      <4>1. RegInsert(r) => Enrolls(r)
        BY DEF RegInsert, At, Enrolls
      <4>2. NewRow(r).id = reg[r].dev
        BY DEF NewRow
      <4> QED
        BY <2>1, <4>1, <4>2, RegRows
    <3>4. \A s \in Requests : Enrolls(s)' => /\ Enrolls(s)
                                            /\ reg'[s].token = reg[s].token
                                            /\ reg'[s].dev = reg[s].dev
      BY <2>2, <3>1, <3>2 DEF Enrolls
    <3>5. \A row \in devices' : \E u \in Tokens : tokens'[u].by = {row.id}
      <4>1. Enrolls(r) => reg[r].token \in Tokens
        BY DEF Enrolls, TypeInv, TypeOK, EnrollTypeOK, RegRequest
      <4> QED
        BY <3>1, <3>3, <4>1
    <3> QED
      BY <3>1, <3>4, <3>5
  <2> QED
    BY <2>1, <2>3, <2>4, <2>5
<1>2. CASE HeartbeatNext
  <2>1. PICK b \in Beats : BeatArrive(b) \/ BeatStep(b) \/ BeatClientGone(b)
    BY <1>2 DEF HeartbeatNext
  <2>2. UNCHANGED <<tokens, reg>>
    BY <2>1, HeartbeatFrame
  <2>3. \A row \in devices' : \E old \in devices : old.id = row.id
    BY <2>1, HeartbeatRows
  <2>4. \A s \in Requests : Enrolls(s)' <=> Enrolls(s)
    BY <2>2 DEF Enrolls
  <2>5. \A row \in devices' : \E t \in Tokens : tokens'[t].by = {row.id}
    BY <2>2, <2>3
  <2> QED
    BY <2>2, <2>4, <2>5
<1>3. CASE TokenNext
  <2>1. PICK t \in Tokens : MintToken(t) \/ Revoke(t) \/ TokenExpires(t)
    BY <1>3 DEF TokenNext
  <2>2. UNCHANGED <<devices, reg>>
    BY <2>1 DEF MintToken, Revoke, TokenExpires, enrollVars
  <2>3. \A u \in Tokens : (tokens'[u].by = tokens[u].by)
                         /\ (tokens[u].consumed => tokens'[u].consumed)
    BY <2>1 DEF MintToken, Revoke, TokenExpires, CreateToken, RevokeToken,
                ExpireToken, TypeInv, TypeOK, StoreTypeOK, TokenRow
  <2>4. \A s \in Requests : Enrolls(s) => reg[s].token \in Tokens
    BY DEF Enrolls, TypeInv, TypeOK, EnrollTypeOK, RegRequest
  <2>5. \A s \in Requests : Enrolls(s)' = Enrolls(s)
    BY <2>2 DEF Enrolls
  <2>6. \A s \in Requests : Enrolls(s)' => Bound(s)'
    BY <2>2, <2>3, <2>4, <2>5
  <2>7. \A row \in devices' : \E u \in Tokens : tokens'[u].by = {row.id}
    BY <2>2, <2>3
  <2>8. \A u \in Tokens : tokens'[u].by # {} => tokens'[u].consumed
    BY <2>3
  <2> QED
    BY <2>2, <2>5, <2>6, <2>7, <2>8
<1>4. ASSUME NEW d \in Devices, AdminDrop(d) PROVE TokenInv'
  BY <1>4 DEF AdminDrop, DeleteDevice, enrollVars, Enrolls
<1>5. CASE HubCrash
  BY <1>5 DEF HubCrash, storeVars, Enrolls
<1>6. CASE UNCHANGED vars
  BY <1>6 DEF vars, storeVars, enrollVars, Enrolls
<1> QED
  BY <1>1, <1>2, <1>3, <1>4, <1>5, <1>6 DEF Next

\* ONE TOKEN, ONE ENROLLMENT, under every fault: at most one request is past
\* Consume with a token, and each device row has a token its id spent.
THEOREM TokensOneShot == Spec => []OneTokenOneEnrollment
<1>1. Init => TokenInv
  BY DEF Init, StoreInit, EnrollInit, TokenInv, OneTokenOneEnrollment, Enrolls
<1>2. TokenInv => OneTokenOneEnrollment
  BY DEF TokenInv
<1> QED
  BY <1>1, <1>2, TypeInit, TypeStep, TokenStep, PTL DEF Spec

\* A SPENT TOKEN STAYS SPENT, and bound to the same device or to none.
THEOREM SpentForGood == Spec => TokenStaysSpent
<1> DEFINE Burnt == \A t \in Tokens : tokens[t].consumed =>
                      tokens'[t].consumed /\ tokens'[t].by = tokens[t].by
<1>1. TypeInv /\ [Next]_vars => Burnt
  <2> SUFFICES ASSUME TypeInv, [Next]_vars PROVE Burnt
    OBVIOUS
  <2>1. CASE UNCHANGED tokens
    BY <2>1
  <2>2. ASSUME NEW r \in Requests, RegConsume(r) PROVE Burnt
    <3>1. UNCHANGED tokens \/ ConsumeToken(reg[r].token, reg[r].dev)
      BY <2>2 DEF RegConsume
    <3> QED
      BY <3>1 DEF ConsumeToken, Usable, TypeInv, TypeOK, StoreTypeOK, TokenRow
  <2>3. ASSUME NEW r \in Requests, RegArrive(r) \/ RegStep(r) \/ RegClientGone(r)
        PROVE  RegConsume(r) \/ UNCHANGED tokens
    BY <2>3, AfterConsume DEF RegArrive, storeVars
  <2>4. CASE TokenNext
    BY <2>4 DEF TokenNext, MintToken, Revoke, TokenExpires, CreateToken,
                RevokeToken, ExpireToken, TypeInv, TypeOK, StoreTypeOK, TokenRow
  <2>5. CASE HeartbeatNext
    BY <2>1, <2>5, HeartbeatFrame DEF HeartbeatNext
  <2>6. CASE (\E d \in Devices : AdminDrop(d)) \/ HubCrash \/ UNCHANGED vars
    BY <2>1, <2>6 DEF AdminDrop, HubCrash, vars, storeVars
  <2>7. CASE RegisterNext
    BY <2>1, <2>2, <2>3, <2>7 DEF RegisterNext
  <2> QED
    BY <2>4, <2>5, <2>6, <2>7 DEF Next
<1>2. TypeInv /\ [Next]_vars => [Burnt]_vars
  BY <1>1
<1> QED
  BY <1>2, TypeInit, TypeStep, PTL DEF Spec, TokenStaysSpent

-----------------------------------------------------------------------------
(* Grants *)

\* A request that has a row after a step had it before or just inserted it,
\* and its assigned name did not change.
LEMMA HasRowBefore ==
  ASSUME TypeInv, NEW r \in Requests, RegStep(r) \/ RegClientGone(r), HasRow(r)'
  PROVE  /\ HasRow(r) \/ RegInsert(r)
         /\ ~RegDropRow(r) /\ ~RegRespond(r)
         /\ Assigned(r)' = Assigned(r) /\ reg'[r].dev = reg[r].dev
<1> USE DEF TypeInv, TypeOK, EnrollTypeOK, At, Goto, Answer, HasRow
<1>0. /\ reg'[r] # Idle /\ reg[r] # Idle /\ reg[r] \in RegRequest
      /\ reg'[r].dev = reg[r].dev /\ reg'[r].base = reg[r].base
  BY RegKeeps
<1> SUFFICES /\ HasRow(r) \/ RegInsert(r)
             /\ ~RegDropRow(r) /\ ~RegRespond(r) /\ reg'[r].k = reg[r].k
  BY <1>0 DEF Assigned
<1>1. CASE RegClientGone(r)
  <2>1. /\ reg \in [Requests -> RegRequest \cup {Idle}]
        /\ reg' = [reg EXCEPT ![r] = [@ EXCEPT !.live = FALSE]]
    BY <1>1 DEF RegClientGone
  <2>2. reg'[r].pc = reg[r].pc /\ reg'[r].k = reg[r].k
    BY <1>0, <2>1 DEF RegRequest
  <2>3. ~RegDropRow(r)
    BY <1>0, <2>1, <2>2 DEF RegDropRow, RegRequest
  <2>4. ~RegRespond(r)
    BY <1>0, <2>1 DEF RegRespond
  <2> QED
    BY <1>0, <2>2, <2>3, <2>4
<1>2. CASE RegConsume(r) \/ RegProbe(r) \/ RegPostA(r) \/ RegPostAAAA(r)
  BY <1>0, <1>2 DEF RegConsume, RegProbe, RegPostA, RegPostAAAA, RegRequest
<1>3. CASE RegInsert(r) \/ RegSign(r) \/ RegUpsertA(r) \/ RegUpsertAAAA(r)
  BY <1>0, <1>3 DEF RegInsert, RegSign, RegUpsertA, RegUpsertAAAA, RegRequest,
                    RegDropRow, RegRespond
<1>4. CASE RegRespond(r) \/ RegDropRow(r) \/ RegUndoA(r) \/ RegUndoAAAA(r)
  BY <1>0, <1>4 DEF RegRespond, RegDropRow, RegUndoA, RegUndoAAAA, RegRequest
<1> QED
  BY <1>1, <1>2, <1>3, <1>4 DEF RegStep

\* Only the answer of a registration hands out a JWT, for its own device and
\* name.
LEMMA RegJwts ==
  ASSUME NEW r \in Requests, RegArrive(r) \/ RegStep(r) \/ RegClientGone(r)
  PROVE  \/ UNCHANGED jwts
         \/ /\ RegRespond(r)
            /\ jwts' = jwts \cup {[dev |-> reg[r].dev, sub |-> Assigned(r)]}
BY DEF RegArrive, RegStep, RegClientGone, RegConsume, RegProbe, RegPostA,
       RegPostAAAA, RegInsert, RegSign, RegUpsertA, RegUpsertAAAA, RegRespond,
       RegDropRow, RegUndoA, RegUndoAAAA

\* GrantInv is inductive while no operator deletes rows.
LEMMA GrantStep ==
  ASSUME "admin_drop" \notin Faults
  PROVE  TypeInv /\ GrantInv /\ [Next]_vars => GrantInv'
<1> SUFFICES ASSUME TypeInv, GrantInv, [Next]_vars PROVE GrantInv'
  OBVIOUS
<1> DEFINE Named(d, n) == \E row \in devices : row.id = d /\ row.sub = n
<1>0. /\ \A j \in jwts : Named(j.dev, j.sub)
      /\ \A s \in Requests : HasRow(s) => /\ Named(reg[s].dev, Assigned(s))
                                          /\ \A j \in jwts : j.dev # reg[s].dev
      /\ \A s, u \in Requests :
           HasRow(s) /\ HasRow(u) /\ reg[s].dev = reg[u].dev => s = u
  BY DEF GrantInv, GrantedKeepsRow, RowOf
<1>p. ASSUME \A j \in jwts' : Named(j.dev, j.sub)',
             \A s \in Requests : HasRow(s)' =>
               /\ Named(reg[s].dev, Assigned(s))'
               /\ \A j \in jwts' : j.dev # reg'[s].dev,
             \A s, u \in Requests :
               HasRow(s)' /\ HasRow(u)' /\ reg'[s].dev = reg'[u].dev => s = u
      PROVE  GrantInv'
  BY <1>p DEF GrantInv, GrantedKeepsRow, RowOf
<1>1. CASE RegisterNext
  <2>1. PICK r \in Requests : RegArrive(r) \/ RegStep(r) \/ RegClientGone(r)
    BY <1>1 DEF RegisterNext
  <2>2. \A s \in Requests : s # r => /\ reg'[s] = reg[s]
                                     /\ HasRow(s)' = HasRow(s)
                                     /\ Assigned(s)' = Assigned(s)
    BY <2>1, RegFrame DEF HasRow, Assigned
  <2>3. HasRow(r)' => /\ HasRow(r) \/ RegInsert(r)
                      /\ ~RegDropRow(r) /\ ~RegRespond(r)
                      /\ Assigned(r)' = Assigned(r) /\ reg'[r].dev = reg[r].dev
    <3>1. RegArrive(r) => ~HasRow(r)'
      BY DEF RegArrive, HasRow, TypeInv, TypeOK, EnrollTypeOK
    <3> QED
      BY <2>1, <3>1, HasRowBefore
  <2>4. CASE RegInsert(r)
    <3>1. UNCHANGED jwts
      BY <2>4 DEF RegInsert
    <3>2. devices \subseteq devices'
      BY <2>4 DEF RegInsert, CreateDevice
    <3>3. HasRow(r)' => Insertable(NewRow(r)) /\ NewRow(r) \in devices'
      <4>1. Goto(r, "undoA") => ~HasRow(r)'
        BY DEF Goto, HasRow, TypeInv, TypeOK, EnrollTypeOK
      <4> QED
        BY <2>4, <4>1 DEF RegInsert, CreateDevice, Done
    <3>4. NewRow(r).id = reg[r].dev /\ NewRow(r).sub = Assigned(r)
      BY DEF NewRow
    <3>5. Insertable(NewRow(r)) => \A row \in devices : row.id # reg[r].dev
      BY <3>4 DEF Insertable, RowOf
    <3>6. \A j \in jwts' : Named(j.dev, j.sub)'
      BY <1>0, <3>1, <3>2
    <3>7. \A s \in Requests : HasRow(s)' =>
               /\ Named(reg[s].dev, Assigned(s))'
               /\ \A j \in jwts' : j.dev # reg'[s].dev
      <4>1. ASSUME HasRow(r)'
            PROVE  /\ Named(reg[r].dev, Assigned(r))'
                   /\ \A j \in jwts' : j.dev # reg'[r].dev
        BY <1>0, <2>3, <3>1, <3>3, <3>4, <3>5, <4>1
      <4>2. ASSUME NEW s \in Requests, s # r, HasRow(s)'
            PROVE  /\ Named(reg[s].dev, Assigned(s))'
                   /\ \A j \in jwts' : j.dev # reg'[s].dev
        BY <1>0, <2>2, <3>1, <3>2, <4>2
      <4> QED
        BY <4>1, <4>2
    <3>8. \A s, u \in Requests :
               HasRow(s)' /\ HasRow(u)' /\ reg'[s].dev = reg'[u].dev => s = u
      <4>1. \A s \in Requests : s # r /\ HasRow(s)' /\ HasRow(r)' =>
                                  reg'[s].dev # reg'[r].dev
        BY <1>0, <2>2, <2>3, <3>3, <3>5
      <4> QED
        BY <1>0, <2>2, <4>1
    <3> QED
      BY <1>p, <3>6, <3>7, <3>8
  <2>5. CASE RegDropRow(r)
    <3>1. HasRow(r) /\ UNCHANGED jwts /\ ~HasRow(r)'
      BY <2>3, <2>5 DEF RegDropRow, At, HasRow
    <3>2. \A row \in devices : row.id # reg[r].dev => row \in devices'
      BY <2>5 DEF RegDropRow, DeleteDevice, RowOf
    <3>3. \A s \in Requests : HasRow(s)' => s # r /\ reg[s].dev # reg[r].dev
      BY <1>0, <2>2, <3>1
    <3>4. \A d, n : d # reg[r].dev /\ Named(d, n) => Named(d, n)'
      BY <3>2
    <3>5. \A j \in jwts' : Named(j.dev, j.sub)'
      BY <1>0, <3>1, <3>4
    <3>6. \A s \in Requests : HasRow(s)' =>
               /\ Named(reg[s].dev, Assigned(s))'
               /\ \A j \in jwts' : j.dev # reg'[s].dev
      <4> SUFFICES ASSUME NEW s \in Requests, HasRow(s)'
                   PROVE  /\ Named(reg[s].dev, Assigned(s))'
                          /\ \A j \in jwts' : j.dev # reg'[s].dev
        OBVIOUS
      <4>1. HasRow(s) /\ reg'[s] = reg[s] /\ Assigned(s)' = Assigned(s)
        BY <2>2, <3>3
      <4>2. Named(reg[s].dev, Assigned(s)) /\ \A j \in jwts : j.dev # reg[s].dev
        BY <1>0, <4>1
      <4>3. \E row \in devices' : row.id = reg[s].dev /\ row.sub = Assigned(s)
        BY <3>3, <3>4, <4>1, <4>2
      <4> QED
        BY <3>1, <4>1, <4>2, <4>3
    <3>7. \A s, u \in Requests :
               HasRow(s)' /\ HasRow(u)' /\ reg'[s].dev = reg'[u].dev => s = u
      BY <1>0, <2>2, <3>3
    <3> QED
      BY <1>p, <3>5, <3>6, <3>7
  <2>6. CASE ~RegInsert(r) /\ ~RegDropRow(r)
    <3>1. UNCHANGED devices
      BY <2>1, <2>6, RegRows
    <3>2. \A s \in Requests : HasRow(s)' => /\ HasRow(s)
                                            /\ Assigned(s)' = Assigned(s)
                                            /\ reg'[s].dev = reg[s].dev
      BY <2>2, <2>3, <2>6
    <3>3. \A s, u \in Requests :
               HasRow(s)' /\ HasRow(u)' /\ reg'[s].dev = reg'[u].dev => s = u
      BY <1>0, <3>2
    <3>4. CASE UNCHANGED jwts
      BY <1>0, <1>p, <3>1, <3>2, <3>3, <3>4
    <3>5. CASE /\ RegRespond(r)
               /\ jwts' = jwts \cup {[dev |-> reg[r].dev, sub |-> Assigned(r)]}
      <4>1. HasRow(r) /\ ~HasRow(r)'
        BY <2>3, <3>5 DEF RegRespond, At, HasRow
      <4>2. \A s \in Requests : HasRow(s)' => reg[s].dev # reg[r].dev
        BY <1>0, <3>2, <4>1
      <4>3. \A j \in jwts' : Named(j.dev, j.sub)'
        BY <1>0, <3>1, <3>5, <4>1
      <4>4. \A s \in Requests : HasRow(s)' =>
               /\ Named(reg[s].dev, Assigned(s))'
               /\ \A j \in jwts' : j.dev # reg'[s].dev
        BY <1>0, <3>1, <3>2, <3>5, <4>2
      <4> QED
        BY <1>p, <3>3, <4>3, <4>4
    <3> QED
      BY <2>1, <3>4, <3>5, RegJwts
  <2> QED
    BY <2>4, <2>5, <2>6
<1>2. CASE HeartbeatNext
  <2>1. PICK b \in Beats : BeatArrive(b) \/ BeatStep(b) \/ BeatClientGone(b)
    BY <1>2 DEF HeartbeatNext
  <2>2. UNCHANGED <<reg, jwts>>
    BY <2>1, HeartbeatFrame
  <2>3. \A d, n : Named(d, n) => Named(d, n)'
    BY <2>1, HeartbeatRows
  <2>4. \A s \in Requests : HasRow(s)' = HasRow(s) /\ Assigned(s)' = Assigned(s)
    BY <2>2 DEF HasRow, Assigned
  <2> QED
    BY <1>0, <1>p, <2>2, <2>3, <2>4
<1>3. CASE TokenNext \/ UNCHANGED vars
  <2>1. UNCHANGED <<devices, reg, jwts>>
    BY <1>3 DEF TokenNext, MintToken, Revoke, TokenExpires, vars, storeVars, enrollVars
  <2> QED
    BY <2>1 DEF GrantInv, GrantedKeepsRow, RowOf, HasRow, Assigned
<1>4. CASE HubCrash
  <2>1. UNCHANGED <<devices, jwts>> /\ \A s \in Requests : ~HasRow(s)'
    BY <1>4 DEF HubCrash, storeVars, HasRow
  <2> QED
    BY <1>0, <1>p, <2>1
<1>5. ~ \E d \in Devices : AdminDrop(d)
  BY DEF AdminDrop
<1> QED
  BY <1>1, <1>2, <1>3, <1>4, <1>5 DEF Next

\* A GRANTED ENROLLMENT LASTS: while no operator deletes device rows, a cam
\* that was handed a JWT keeps its row under the name in the JWT, whatever
\* else fails, crashes or races.
THEOREM GrantsLast ==
  ASSUME "admin_drop" \notin Faults
  PROVE  Spec => []GrantedKeepsRow
<1>1. Init => GrantInv
  BY DEF Init, EnrollInit, GrantInv, GrantedKeepsRow, HasRow
<1>2. GrantInv => GrantedKeepsRow
  BY DEF GrantInv
<1> QED
  BY <1>1, <1>2, TypeInit, TypeStep, GrantStep, PTL DEF Spec

-----------------------------------------------------------------------------
(* The zone *)

\* ZoneInv is inductive while every rollback can run to its end.
LEMMA ZoneStep ==
  ASSUME Faults \cap CleanupFaults = {}
  PROVE  TypeInv /\ ZoneInv /\ [Next]_vars => ZoneInv'
<1> SUFFICES ASSUME TypeInv, ZoneInv, [Next]_vars PROVE ZoneInv'
  OBVIOUS
<1> DEFINE Fine(z) == Granted(z) \/ \E r \in Requests : Holds(r, z)
           Ids(s) == reg[s].a \cup reg[s].aaaa
<1>f. /\ \A c \in {"cf_delete", "cf_lost", "gone", "crash", "admin_drop"} : c \notin Faults
      /\ CfReplies(TRUE, "cf_delete") = {"ok"}
      /\ CfReplies(TRUE, "cf_create") \subseteq {"ok", "failed"}
  BY DEF CleanupFaults, CfReplies, CallReplies, Replies
<1>0. /\ \A s \in Requests : reg[s] # Idle => reg[s].live
      /\ \A b \in Beats : beat[b] # Idle => beat[b].claim \in jwts
      /\ \A z \in zone : z.id < nextId
      /\ \A s \in Requests : reg[s] # Idle => \A id \in Ids(s) : id < nextId
      /\ \A z \in zone : Fine(z)
      /\ \A s \in Requests : At(s, "undoAAAA") => \A z \in zone : z.id \notin reg[s].a
  BY DEF ZoneInv
<1>n. nextId \in Nat /\ zone \subseteq ZoneRecord
  BY DEF TypeInv, TypeOK, ZoneTypeOK
<1>1. ASSUME NEW r \in Requests, UNCHANGED beat,
             RegArrive(r) \/ RegStep(r) \/ RegClientGone(r)
      PROVE  ZoneInv'
  <2>1. \A s \in Requests : s # r => reg'[s] = reg[s]
    BY <1>1, RegFrame
  <2>2. jwts \subseteq jwts'
    BY <1>1, RegJwts
  <2>3. \A s \in Requests : \A z : s # r /\ Holds(s, z) => Holds(s, z)'
    BY <2>1 DEF Holds, HeldBy, Assigned
  <2>4. \A z : Granted(z) => Granted(z)'
    BY <2>2 DEF Granted
  <2>5. \A b \in Beats : beat'[b] # Idle => beat'[b].claim \in jwts'
    BY <1>0, <1>1, <2>2
  \* It is enough to look at slot r and at the records r held or makes.
  <2>q. ASSUME nextId' \in Nat, nextId <= nextId',
               \A z \in zone' : z.id < nextId',
               \A z \in zone' : z \in zone \/ Fine(z)',
               \A z \in zone' : z \in zone /\ Holds(r, z) => Fine(z)',
               reg'[r] # Idle => /\ reg'[r].live
                                 /\ \A id \in Ids(r)' : id < nextId',
               \A s \in Requests : At(s, "undoAAAA") /\ s # r =>
                 \A z \in zone' : z.id \notin reg[s].a,
               At(r, "undoAAAA")' => \A z \in zone' : z.id \notin reg'[r].a
        PROVE  ZoneInv'
    <3>1. \A z \in zone' : Fine(z)'
      BY <1>0, <2>3, <2>4, <2>q
    <3>2. \A s \in Requests : reg'[s] # Idle => \A id \in Ids(s)' : id < nextId'
      <4> SUFFICES ASSUME NEW s \in Requests, s # r, reg'[s] # Idle,
                          NEW id \in Ids(s)'
                   PROVE  id < nextId'
        BY <2>q
      <4>1. id \in Ids(s) /\ reg[s] # Idle
        BY <2>1
      <4>2. id < nextId /\ id \in Nat
        BY <1>0, <4>1 DEF TypeInv, TypeOK, EnrollTypeOK, RegRequest, Opt
      <4> QED
        BY <1>n, <2>q, <4>2
    <3>3. \A s \in Requests : reg'[s] # Idle => reg'[s].live
      BY <1>0, <2>1, <2>q
    <3>4. \A s \in Requests : At(s, "undoAAAA")' => \A z \in zone' : z.id \notin reg'[s].a
      BY <2>1, <2>q DEF At
    <3> QED
      BY <2>5, <2>q, <3>1, <3>2, <3>3, <3>4 DEF ZoneInv
  <2>6. CASE RegArrive(r)
    <3>1. /\ reg[r] = Idle /\ UNCHANGED <<zone, nextId>>
          /\ reg'[r].live /\ reg'[r].pc = "consume" /\ Ids(r)' = {}
      BY <2>6 DEF RegArrive, zoneVars, TypeInv, TypeOK, EnrollTypeOK
    <3> QED
      BY <1>0, <1>n, <2>q, <3>1 DEF Holds, HeldBy, At
  <2>7. CASE RegConsume(r) \/ RegProbe(r)
    <3>1. /\ reg[r] # Idle /\ reg[r] \in RegRequest /\ Ids(r) = {}
          /\ UNCHANGED <<zone, nextId>>
      BY <2>7 DEF RegConsume, RegProbe, At, zoneVars, TypeInv, TypeOK, Shapes,
                  RegShape, EnrollTypeOK
    <3>2. reg'[r] # Idle => /\ reg'[r].live = reg[r].live /\ Ids(r)' = {}
                            /\ ~At(r, "undoAAAA")'
      BY <2>7, <3>1 DEF RegConsume, RegProbe, Goto, Answer, At, RegRequest,
                        TypeInv, TypeOK, EnrollTypeOK
    <3> QED
      BY <1>0, <1>n, <2>q, <3>1, <3>2 DEF Holds, HeldBy, At
  <2>8. CASE RegInsert(r) \/ RegSign(r) \/ RegUpsertA(r) \/ RegUpsertAAAA(r) \/ RegDropRow(r)
    <3>1. /\ reg[r] # Idle /\ reg[r] \in RegRequest /\ UNCHANGED <<zone, nextId>>
      BY <2>8 DEF RegInsert, RegSign, RegUpsertA, RegUpsertAAAA, RegDropRow, At,
                  zoneVars, TypeInv, TypeOK, EnrollTypeOK
    <3>2. PICK step \in RegSteps \ {"undoAAAA"} : Goto(r, step)
      BY <2>8 DEF RegInsert, RegSign, RegUpsertA, RegUpsertAAAA, RegDropRow, RegSteps
    <3>3. /\ reg'[r] \in RegRequest /\ reg'[r].pc = step /\ reg'[r].live = reg[r].live
          /\ Ids(r)' = Ids(r) /\ reg'[r].dev = reg[r].dev /\ reg'[r] # Idle
          /\ Assigned(r)' = Assigned(r)
      <4>1. reg'[r] = [reg[r] EXCEPT !.pc = step]
        BY <3>2 DEF Goto, TypeInv, TypeOK, EnrollTypeOK
      <4> HIDE <3>2
      <4> QED
        BY <3>1, <4>1 DEF RegRequest, Assigned, Idle
    <3>4. \A z : Holds(r, z) => Holds(r, z)'
      BY <3>3 DEF Holds, HeldBy
    <3>5. ~At(r, "undoAAAA")'
      BY <3>3 DEF At
    <3> QED
      BY <1>0, <1>n, <2>q, <3>1, <3>3, <3>4, <3>5
  <2>9. CASE RegPostA(r)
    <3> DEFINE rec == [id |-> nextId, name |-> Assigned(r), type |-> "A",
                       value |-> reg[r].v4, owner |-> reg[r].dev]
    <3>1. /\ reg[r] # Idle /\ reg[r] \in RegRequest /\ reg[r].live /\ Ids(r) = {}
      BY <1>0, <2>9 DEF RegPostA, At, TypeInv, TypeOK, Shapes, RegShape, EnrollTypeOK
    <3>2. CASE reg'[r] = Idle /\ UNCHANGED <<zone, nextId>>
      BY <1>0, <1>n, <2>q, <3>1, <3>2 DEF Holds, HeldBy, At
    <3>3. CASE /\ PostRecord(Assigned(r), "A", reg[r].v4, reg[r].dev)
               /\ reg' = [reg EXCEPT ![r].a = {nextId},
                            ![r].pc = IF reg[r].v6 = {} THEN "insert" ELSE "postAAAA"]
      <4>1. zone' = zone \cup {rec} /\ nextId' = nextId + 1
        BY <3>3 DEF PostRecord
      <4>2. /\ reg'[r] # Idle /\ reg'[r].live /\ Ids(r)' = {nextId}
            /\ reg'[r].dev = reg[r].dev /\ Assigned(r)' = Assigned(r)
            /\ reg'[r].pc # "undoAAAA"
        <5> DEFINE n == [reg[r] EXCEPT !.a = {nextId},
                           !.pc = IF reg[r].v6 = {} THEN "insert" ELSE "postAAAA"]
        <5>1. reg'[r] = n
          BY <3>3 DEF TypeInv, TypeOK, EnrollTypeOK
        <5>2. /\ n # Idle /\ n.live /\ n.a = {nextId} /\ n.aaaa = reg[r].aaaa
              /\ n.dev = reg[r].dev /\ n.base = reg[r].base /\ n.k = reg[r].k
              /\ n.pc # "undoAAAA"
          BY <3>1 DEF RegRequest, Idle
        <5> HIDE DEF n
        <5> QED
          BY <3>1, <5>1, <5>2 DEF Assigned
      <4>3. \A z : z.id = nextId /\ z.owner = reg[r].dev /\ z.name = Assigned(r)
                   => Holds(r, z)'
        BY <4>2 DEF Holds, HeldBy
      <4>4. \A z \in zone' : z.id < nextId'
        BY <1>0, <1>n, <4>1 DEF ZoneRecord
      <4>5. \A z : ~Holds(r, z)
        BY <3>1 DEF Holds, HeldBy
      <4>6. \A s \in Requests : At(s, "undoAAAA") /\ s # r =>
              \A z \in zone' : z.id \notin reg[s].a
        <5>1. \A s \in Requests : At(s, "undoAAAA") => nextId \notin reg[s].a
          BY <1>0, <1>n DEF At
        <5> QED
          BY <1>0, <4>1, <5>1
      <4>7. \A z \in zone' : z \in zone \/ Fine(z)'
        BY <4>1, <4>3
      <4>8. \A id \in Ids(r)' : id < nextId'
        BY <1>n, <4>1, <4>2
      <4> QED
        BY <1>n, <2>q, <4>1, <4>2, <4>4, <4>5, <4>6, <4>7, <4>8 DEF At
    <3> QED
      <4>1. PICK reply \in {"ok", "failed"} :
               /\ IF Done(reply)
                  THEN PostRecord(Assigned(r), "A", reg[r].v4, reg[r].dev)
                  ELSE UNCHANGED zoneVars
               /\ IF reply = "ok"
                  THEN reg' = [reg EXCEPT ![r].a = {nextId},
                         ![r].pc = IF reg[r].v6 = {} THEN "insert" ELSE "postAAAA"]
                  ELSE Answer(r)
        BY <1>f, <2>9, <3>1 DEF RegPostA, RegRequest
      <4>2. CASE reply = "ok"
        BY <3>3, <4>1, <4>2 DEF Done
      <4>3. CASE reply = "failed"
        BY <3>2, <4>1, <4>3 DEF Done, Answer, zoneVars, TypeInv, TypeOK, EnrollTypeOK
      <4> QED
        BY <4>2, <4>3
  <2>10. CASE RegPostAAAA(r)
    <3> DEFINE rec == [id |-> nextId, name |-> Assigned(r), type |-> "AAAA",
                       value |-> The(reg[r].v6), owner |-> reg[r].dev]
    <3>1. /\ reg[r] # Idle /\ reg[r] \in RegRequest /\ reg[r].live
          /\ reg[r].aaaa = {} /\ Ids(r) = reg[r].a
      BY <1>0, <2>10 DEF RegPostAAAA, At, TypeInv, TypeOK, Shapes, RegShape, EnrollTypeOK
    <3>2. CASE Goto(r, "undoA") /\ UNCHANGED <<zone, nextId>>
      <4> DEFINE n == [reg[r] EXCEPT !.pc = "undoA"]
      <4>1. reg'[r] = n
        BY <3>2 DEF Goto, TypeInv, TypeOK, EnrollTypeOK
      <4>2. /\ n # Idle /\ n.live /\ n.a = reg[r].a /\ n.aaaa = reg[r].aaaa
            /\ n.dev = reg[r].dev /\ n.base = reg[r].base /\ n.k = reg[r].k
            /\ n.pc # "undoAAAA"
        BY <3>1 DEF RegRequest, Idle
      <4> HIDE DEF n
      <4>3. \A z : Holds(r, z) => Holds(r, z)'
        BY <4>1, <4>2 DEF Holds, HeldBy, Assigned
      <4> QED
        BY <1>0, <1>n, <2>q, <3>1, <3>2, <4>1, <4>2, <4>3 DEF At
    <3>3. CASE /\ PostRecord(Assigned(r), "AAAA", The(reg[r].v6), reg[r].dev)
               /\ reg' = [reg EXCEPT ![r].aaaa = {nextId}, ![r].pc = "insert"]
      <4>1. zone' = zone \cup {rec} /\ nextId' = nextId + 1
        BY <3>3 DEF PostRecord
      <4>2. /\ reg'[r] # Idle /\ reg'[r].live /\ reg'[r].a = reg[r].a
            /\ reg'[r].aaaa = {nextId}
            /\ reg'[r].dev = reg[r].dev /\ Assigned(r)' = Assigned(r)
            /\ reg'[r].pc # "undoAAAA"
        <5> DEFINE n == [reg[r] EXCEPT !.aaaa = {nextId}, !.pc = "insert"]
        <5>1. reg'[r] = n
          BY <3>3 DEF TypeInv, TypeOK, EnrollTypeOK
        <5>2. /\ n # Idle /\ n.live /\ n.a = reg[r].a /\ n.aaaa = {nextId}
              /\ n.dev = reg[r].dev /\ n.base = reg[r].base /\ n.k = reg[r].k
              /\ n.pc # "undoAAAA"
          BY <3>1 DEF RegRequest, Idle
        <5> HIDE DEF n
        <5> QED
          BY <3>1, <5>1, <5>2 DEF Assigned
      <4>3. \A z : z.id = nextId /\ z.owner = reg[r].dev /\ z.name = Assigned(r)
                   => Holds(r, z)'
        BY <4>2 DEF Holds, HeldBy
      <4>4. \A z \in zone' : z.id < nextId'
        BY <1>0, <1>n, <4>1 DEF ZoneRecord
      <4>5. \A z : Holds(r, z) => Holds(r, z)'
        BY <3>1, <4>2 DEF Holds, HeldBy
      <4>6. \A s \in Requests : At(s, "undoAAAA") /\ s # r =>
              \A z \in zone' : z.id \notin reg[s].a
        <5>1. \A s \in Requests : At(s, "undoAAAA") => nextId \notin reg[s].a
          BY <1>0, <1>n DEF At
        <5> QED
          BY <1>0, <4>1, <5>1
      <4>7. \A z \in zone' : z \in zone \/ Fine(z)'
        BY <4>1, <4>3
      <4>8. \A id \in Ids(r)' : id < nextId'
        <5>1. \A id \in reg[r].a : id \in Nat /\ id < nextId
          BY <1>0, <3>1 DEF RegRequest, Opt
        <5> QED
          BY <1>n, <4>1, <4>2, <5>1
      <4> QED
        BY <1>n, <2>q, <4>1, <4>2, <4>4, <4>5, <4>6, <4>7, <4>8 DEF At
    <3> QED
      <4>1. PICK reply \in {"ok", "failed"} :
               /\ IF Done(reply)
                  THEN PostRecord(Assigned(r), "AAAA", The(reg[r].v6), reg[r].dev)
                  ELSE UNCHANGED zoneVars
               /\ IF reply = "ok"
                  THEN reg' = [reg EXCEPT ![r].aaaa = {nextId}, ![r].pc = "insert"]
                  ELSE Goto(r, "undoA")
        BY <1>f, <2>10, <3>1 DEF RegPostAAAA, RegRequest
      <4>2. CASE reply = "ok"
        BY <3>3, <4>1, <4>2 DEF Done
      <4>3. CASE reply = "failed"
        BY <3>2, <4>1, <4>3 DEF Done, zoneVars
      <4> QED
        BY <4>2, <4>3
  <2>11. CASE RegRespond(r)
    <3>1. /\ reg[r] # Idle /\ reg[r].live /\ reg'[r] = Idle
          /\ UNCHANGED <<zone, nextId>>
          /\ jwts' = jwts \cup {[dev |-> reg[r].dev, sub |-> Assigned(r)]}
      BY <1>0, <2>11 DEF RegRespond, At, Answer, zoneVars, TypeInv, TypeOK, EnrollTypeOK
    <3>2. PICK j \in jwts' : j.dev = reg[r].dev /\ j.sub = Assigned(r)
      <4> DEFINE c == [dev |-> reg[r].dev, sub |-> Assigned(r)]
      <4>1. c \in jwts'
        BY <3>1
      <4>2. c.dev = reg[r].dev /\ c.sub = Assigned(r)
        OBVIOUS
      <4> HIDE DEF c
      <4> QED
        BY <4>1, <4>2
    <3>3. \A z : Holds(r, z) => Granted(z)'
      BY <3>2 DEF Holds, Granted
    <3> QED
      BY <1>0, <1>n, <2>q, <3>1, <3>3 DEF At
  <2>12. CASE RegUndoA(r)
    <3>1. /\ reg[r] # Idle /\ reg[r] \in RegRequest /\ reg[r].live
          /\ reg[r].a # {} /\ reg[r].pc = "undoA"
      BY <1>0, <2>12 DEF RegUndoA, At, TypeInv, TypeOK, Shapes, RegShape, EnrollTypeOK
    <3>2. /\ zone' = {z \in zone : z.id # The(reg[r].a)} /\ nextId' = nextId
          /\ IF reg[r].aaaa = {} THEN Answer(r) ELSE Goto(r, "undoAAAA")
      BY <1>f, <2>12, <3>1 DEF RegUndoA, DeleteRecord, Done, RegRequest
    <3>3. reg[r].a = {The(reg[r].a)}
      BY <3>1, OptElim DEF RegRequest
    <3>4. \A z \in zone' : z \in zone /\ z.id \notin reg[r].a
      BY <3>2, <3>3
    <3>5. CASE reg[r].aaaa = {}
      <4>1. reg'[r] = Idle
        BY <3>2, <3>5 DEF Answer, TypeInv, TypeOK, EnrollTypeOK
      <4>2. \A z \in zone' : ~Holds(r, z)
        BY <3>4, <3>5 DEF Holds, HeldBy
      <4> QED
        BY <1>0, <1>n, <2>q, <3>2, <3>4, <4>1, <4>2 DEF At
    <3>6. CASE reg[r].aaaa # {}
      <4> DEFINE n == [reg[r] EXCEPT !.pc = "undoAAAA"]
      <4>1. reg'[r] = n
        BY <3>2, <3>6 DEF Goto, TypeInv, TypeOK, EnrollTypeOK
      <4>2. /\ n # Idle /\ n.live /\ n.a = reg[r].a /\ n.aaaa = reg[r].aaaa
            /\ n.dev = reg[r].dev /\ n.base = reg[r].base /\ n.k = reg[r].k
        BY <3>1 DEF RegRequest, Idle
      <4> HIDE DEF n
      <4>3. \A z : Holds(r, z) => Holds(r, z)'
        BY <4>1, <4>2 DEF Holds, HeldBy, Assigned
      <4> QED
        BY <1>0, <1>n, <2>q, <3>1, <3>2, <3>4, <4>1, <4>2, <4>3
    <3> QED
      BY <3>5, <3>6
  <2>13. CASE RegUndoAAAA(r)
    <3>1. /\ At(r, "undoAAAA") /\ reg[r] # Idle /\ reg[r] \in RegRequest
          /\ reg[r].live /\ reg[r].aaaa # {}
      BY <1>0, <2>13 DEF RegUndoAAAA, At, TypeInv, TypeOK, Shapes, RegShape, EnrollTypeOK
    <3>2. /\ zone' = {z \in zone : z.id # The(reg[r].aaaa)} /\ nextId' = nextId
          /\ reg'[r] = Idle
      BY <1>f, <2>13, <3>1 DEF RegUndoAAAA, DeleteRecord, Done, Answer, TypeInv,
                              TypeOK, EnrollTypeOK
    <3>3. reg[r].aaaa = {The(reg[r].aaaa)}
      BY <3>1, OptElim DEF RegRequest
    <3>4. \A z \in zone' : z \in zone /\ ~Holds(r, z)
      BY <1>0, <3>1, <3>2, <3>3 DEF Holds, HeldBy
    <3> QED
      BY <1>0, <1>n, <2>q, <3>2, <3>4 DEF At
  <2>14. ~RegClientGone(r)
    BY <1>f DEF RegClientGone
  <2> QED
    BY <1>1, <2>6, <2>7, <2>8, <2>9, <2>10, <2>11, <2>12, <2>13, <2>14 DEF RegStep
<1>2. ASSUME NEW b \in Beats, BeatArrive(b) \/ BeatStep(b) \/ BeatClientGone(b)
      PROVE  ZoneInv'
  <2>1. UNCHANGED <<reg, jwts>>
    BY <1>2, HeartbeatFrame
  <2>2. \A s \in Requests : \A z : (Holds(s, z) => Holds(s, z)') /\ (Granted(z) => Granted(z)')
    BY <2>1 DEF Holds, HeldBy, Assigned, Granted
  <2>3. beat[b] # Idle => beat[b].claim \in jwts
    BY <1>0
  <2>4. \A c \in Beats : beat'[c] # Idle => beat'[c].claim \in jwts'
    BY <1>0, <1>2, <2>1, BeatFrame, BeatClaims
  \* It is enough to look at the records of the zone and at their ids.
  <2>q. ASSUME nextId' \in Nat, nextId <= nextId',
               \A z \in zone' : Granted(z) \/ \E old \in zone : z = old,
               \A z \in zone' : (z.id = nextId /\ nextId < nextId')
                               \/ \E old \in zone : z.id = old.id
        PROVE  ZoneInv'
    <3>1. \A s \in Requests : reg[s] # Idle => \A id \in Ids(s) : id \in Nat
      BY DEF TypeInv, TypeOK, EnrollTypeOK, RegRequest, Opt
    <3>2. \A z \in zone : z.id \in Nat
      BY <1>n DEF ZoneRecord
    <3>3. \A z \in zone' : z.id < nextId'
      BY <1>0, <1>n, <2>q, <3>2
    <3>4. \A z \in zone' : Fine(z)'
      <4> SUFFICES ASSUME NEW z \in zone' PROVE Fine(z)'
        OBVIOUS
      <4>1. CASE Granted(z)
        <5>1. Granted(z)'
          BY <2>1, <4>1 DEF Granted
        <5> QED
          BY <5>1
      <4>2. CASE z \in zone
        <5>1. Granted(z) \/ \E s \in Requests : Holds(s, z)
          BY <1>0, <4>2
        <5>2. ASSUME NEW s \in Requests, Holds(s, z) PROVE Holds(s, z)'
          BY <2>1, <5>2 DEF Holds, HeldBy, Assigned
        <5> QED
          BY <4>1, <5>1, <5>2
      <4> QED
        BY <2>q, <4>1, <4>2
    <3>5. \A s \in Requests : reg'[s] # Idle => reg'[s].live /\ \A id \in Ids(s)' : id < nextId'
      BY <1>0, <1>n, <2>1, <2>q, <3>1
    <3>6. \A s \in Requests : At(s, "undoAAAA")' => \A z \in zone' : z.id \notin reg'[s].a
      <4> SUFFICES ASSUME NEW s \in Requests, At(s, "undoAAAA"), NEW z \in zone'
                   PROVE  z.id \notin reg[s].a
        BY <2>1 DEF At
      <4>1. nextId \notin reg[s].a
        BY <1>0, <1>n DEF At
      <4> QED
        BY <1>0, <2>q, <4>1
    <3> QED
      BY <2>4, <3>3, <3>4, <3>5, <3>6 DEF ZoneInv
  <2>5. CASE UNCHANGED <<zone, nextId>>
    BY <1>0, <1>n, <2>2, <2>4, <2>q, <2>5
  <2>6. CASE PostRecord(beat[b].claim.sub, Current(b), Reported(b), Cam(b)) /\ beat[b] # Idle
    <3>1. PICK rec : /\ rec.id = nextId /\ rec.name = beat[b].claim.sub /\ rec.owner = Cam(b)
                     /\ zone' = zone \cup {rec} /\ nextId' = nextId + 1
      BY <2>6 DEF PostRecord
    <3>2. Granted(rec)
      BY <2>3, <2>6, <3>1 DEF Granted, Cam
    <3> QED
      BY <1>n, <2>q, <3>1, <3>2
  <2>7. CASE \E id : PutRecord(id, beat[b].claim.sub, Current(b), Reported(b), Cam(b))
             /\ beat[b] # Idle
    <3>1. PICK id : PutRecord(id, beat[b].claim.sub, Current(b), Reported(b), Cam(b))
      BY <2>7
    <3> DEFINE rec == [id |-> id, name |-> beat[b].claim.sub, type |-> Current(b),
                       value |-> Reported(b), owner |-> Cam(b)]
    <3>2. /\ zone' = {IF z.id = id THEN rec ELSE z : z \in zone} /\ nextId' = nextId
      BY <3>1 DEF PutRecord
    <3>3. Granted(rec)
      BY <2>3, <2>7 DEF Granted, Cam
    <3>4. rec.id = id
      OBVIOUS
    <3> HIDE DEF rec
    <3> QED
      BY <1>n, <2>q, <3>2, <3>3, <3>4
  <2>8. CASE SyncPost(b)
    BY <2>5, <2>6, <2>8 DEF SyncPost, BeatAt, zoneVars
  <2>9. CASE SyncPut(b)
    BY <2>5, <2>7, <2>9 DEF SyncPut, BeatAt, zoneVars
  <2>10. CASE BeatArrive(b) \/ BeatLookup(b) \/ BeatUpdate(b) \/ SyncGet(b)
             \/ SyncMirror(b) \/ BeatClientGone(b)
    BY <2>5, <2>10 DEF BeatArrive, BeatLookup, BeatUpdate, SyncGet, SyncMirror,
                       BeatClientGone, zoneVars
  <2> QED
    BY <1>2, <2>8, <2>9, <2>10 DEF BeatStep
<1>3. CASE TokenNext \/ UNCHANGED vars
  <2>1. UNCHANGED <<reg, jwts, beat, zone, nextId>>
    BY <1>3 DEF TokenNext, MintToken, Revoke, TokenExpires, vars, zoneVars, enrollVars
  <2> QED
    BY <2>1 DEF ZoneInv, Granted, Holds, HeldBy, Assigned, At
<1>4. ~HubCrash /\ ~ \E d \in Devices : AdminDrop(d)
  BY <1>f DEF HubCrash, AdminDrop
<1> QED
  BY <1>1, <1>2, <1>3, <1>4 DEF Next, RegisterNext, HeartbeatNext

\* NO FOREIGN RECORD: while every rollback can run to its end, each record
\* in the zone carries the name of the cam that made it, or is still held by
\* a registration in flight, whatever races for a name and whatever else
\* fails.
THEOREM ZoneStaysClean ==
  ASSUME Faults \cap CleanupFaults = {}
  PROVE  Spec => []NoForeignRecord
<1>1. Init => ZoneInv /\ GrantInv
  BY DEF Init, StoreInit, ZoneInit, EnrollInit, BeatInit, ZoneInv, GrantInv,
         GrantedKeepsRow, HasRow, At
<1>2. ZoneInv /\ GrantInv => NoForeignRecord
  BY DEF ZoneInv, GrantInv, GrantedKeepsRow, NoForeignRecord, Granted, Holds, RowOf
<1>3. "admin_drop" \notin Faults
  BY DEF CleanupFaults
<1> QED
  BY <1>1, <1>2, <1>3, TypeInit, TypeStep, GrantStep, ZoneStep, PTL DEF Spec

=============================================================================
