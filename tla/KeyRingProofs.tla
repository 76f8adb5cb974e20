---------------------------- MODULE KeyRingProofs ----------------------------
(***************************************************************************)
(* Proofs about KeyRing, for any set of key ids, any retirement window and *)
(* any number of commands, rotations and restarts.                         *)
(***************************************************************************)
EXTENDS KeyRing, TLAPS

-----------------------------------------------------------------------------
(* The inductive invariant *)

\* What a command is about to rename into place is its own new ring, and its
\* key pair is known to nobody yet.  Only --force runs over a ring.
InitInv ==
  /\ init.pc = "rename" => \E k \in init.kid : tmp = NewRing(k)
  /\ init.pc # "idle" =>
       /\ \E k \in drawn : init.kid = {k} /\ k \notin signed \cup dropped
       /\ IsRing(file) => init.force /\ init.kid \cap DOMAIN file.keys = {}
       /\ \A h \in hub : init.kid \cap DOMAIN h.ring.keys = {}

\* The path holds a ring as soon as anybody has read one; it knows every key
\* that matters, and its current key is in service.
FileInv ==
  /\ file # Half
  /\ hub # {} \/ signed # {} => IsRing(file)
  /\ IsRing(file) =>
       /\ DOMAIN file.keys \subseteq drawn \ dropped
       /\ file.keys[file.current] = {}
       /\ signed \ dropped \subseteq DOMAIN file.keys

\* The hub's copy may be behind the file: what it lacks was retired since.
CopyInv ==
  /\ \A g, h \in hub : g = h
  /\ \A h \in hub :
       /\ DOMAIN h.ring.keys \subseteq drawn
       /\ DOMAIN h.ring.keys \ dropped \subseteq DOMAIN file.keys
       /\ signed \ dropped \subseteq DOMAIN h.ring.keys
       /\ \A k \in DOMAIN h.ring.keys \ dropped :
            /\ h.ring.keys[k] \subseteq file.keys[k]
            /\ \A t \in file.keys[k] \ h.ring.keys[k] : h.read <= t

RingInv == RingTypeOK /\ InitInv /\ FileInv /\ CopyInv

-----------------------------------------------------------------------------
(* Rings *)

\* A ring of one is a ring, and no mark for a missing or torn file.
LEMMA NewRingOK ==
  ASSUME NEW k \in Kids
  PROVE  /\ RingOK(NewRing(k)) /\ IsRing(NewRing(k))
         /\ DOMAIN NewRing(k).keys = {k} /\ NewRing(k).keys[k] = {}
         /\ NewRing(k).current = k
BY DEF RingOK, NewRing, IsRing, Absent, Half

\* Time does no harm to a ring: RetiredAt only moves into the past.
LEMMA RingAges ==
  ASSUME NEW ring, RingOK(ring), now \in Nat, now' = now + 1
  PROVE  RingOK(ring)'
<1>1. 0 .. now \subseteq 0 .. now'
  OBVIOUS
<1> QED
  BY <1>1 DEF RingOK

\* The invariant holds before the first ring is made.
LEMMA RingInitInv == RingInit => RingInv
BY RingAssumption DEF RingInit, RingInv, RingTypeOK, InitInv, FileInv, CopyInv,
   NoInit, IsRing, Absent, Half

\* Every step keeps the invariant.
LEMMA RingStep == RingInv /\ [RingNext]_ringVars => RingInv'
<1> SUFFICES ASSUME RingInv, [RingNext]_ringVars PROVE RingInv'
  OBVIOUS
<1> USE DEF RingInv
<1>1. CASE \E force \in BOOLEAN : InitStat(force)
  <2>1. PICK force \in BOOLEAN, k \in Kids \ drawn :
          /\ init = NoInit /\ (force \/ file = Absent)
          /\ init' = [pc |-> "open", kid |-> {k}, force |-> force]
          /\ drawn' = drawn \cup {k}
          /\ UNCHANGED <<now, file, tmp, hub, signed, dropped>>
    BY <1>1 DEF InitStat, Draw
  <2>2. RingTypeOK'
    BY <2>1 DEF RingTypeOK, RingOK
  <2>3. InitInv'
    BY <2>1 DEF InitInv, FileInv, CopyInv, RingTypeOK, IsRing
  <2>4. FileInv' /\ CopyInv'
    BY <2>1 DEF FileInv, CopyInv
  <2> QED
    BY <2>2, <2>3, <2>4
<1>2. CASE InitOpen
  BY <1>2 DEF InitOpen, RingTypeOK, InitInv, FileInv, CopyInv, RingOK, IsRing
<1>3. CASE InitWrite
  <2>1. PICK k \in init.kid : /\ init.pc = "write" /\ tmp' = NewRing(k)
                              /\ init' = [init EXCEPT !.pc = "rename"]
                              /\ UNCHANGED <<now, file, hub, signed, drawn, dropped>>
    BY <1>3 DEF InitWrite
  <2>2. k \in Kids /\ init'.kid = init.kid /\ init'.force = init.force
        /\ init'.pc = "rename"
    BY <2>1 DEF RingTypeOK
  <2>3. RingOK(NewRing(k))'
    BY <2>1, <2>2, NewRingOK DEF RingOK
  <2>4. RingTypeOK'
    BY <2>1, <2>3 DEF RingTypeOK, RingOK
  <2>5. InitInv'
    BY <2>1, <2>2 DEF InitInv
  <2>6. FileInv' /\ CopyInv'
    BY <2>1 DEF FileInv, CopyInv
  <2> QED
    BY <2>4, <2>5, <2>6
<1>4. CASE InitRename
  <2>1. PICK k \in drawn : /\ init.kid = {k} /\ tmp = NewRing(k)
                           /\ k \notin signed \cup dropped
    BY <1>4 DEF InitRename, InitInv
  <2>2. k \in Kids
    BY DEF RingTypeOK
  <2>3. /\ file' = NewRing(k) /\ tmp' = Absent /\ init' = NoInit
        /\ UNCHANGED <<now, hub, signed, drawn>>
        /\ dropped' = IF IsRing(file) THEN dropped \cup DOMAIN file.keys ELSE dropped
        /\ IsRing(file) => k \notin DOMAIN file.keys
        /\ \A h \in hub : k \notin DOMAIN h.ring.keys
    BY <1>4, <2>1 DEF InitRename, InitInv
  <2>4. k \notin signed \cup dropped' /\ dropped' \subseteq drawn
    BY <2>1, <2>3 DEF FileInv, RingTypeOK
  <2>5. /\ signed \subseteq dropped'
        /\ \A h \in hub : DOMAIN h.ring.keys \subseteq dropped'
    BY <2>3 DEF FileInv, CopyInv
  <2>6. RingTypeOK'
    <3>1. RingOK(NewRing(k))'
      BY <2>2, <2>3, NewRingOK DEF RingOK
    <3>2. init' \in [pc : {"idle", "open", "write", "rename"}, kid : SUBSET Kids,
                     force : BOOLEAN]
      BY <2>3 DEF NoInit
    <3> QED
      BY <2>3, <2>4, <3>1, <3>2 DEF RingTypeOK, RingOK, IsRing
  <2>7. InitInv'
    BY <2>3 DEF InitInv, NoInit
  <2>8. FileInv' /\ CopyInv'
    BY <2>1, <2>2, <2>3, <2>4, <2>5, NewRingOK DEF FileInv, CopyInv, IsRing
  <2> QED
    BY <2>6, <2>7, <2>8
<1>5. CASE InitFails \/ InitDies
  <2>1. /\ init' = NoInit /\ tmp' \in {tmp, Absent}
        /\ UNCHANGED <<now, file, hub, signed, drawn, dropped>>
    BY <1>5 DEF InitFails, InitDies
  <2>2. InitInv' /\ FileInv' /\ CopyInv'
    BY <2>1 DEF InitInv, FileInv, CopyInv, NoInit
  <2>3. RingTypeOK'
    BY <2>1 DEF RingTypeOK, RingOK, IsRing, NoInit
  <2> QED
    BY <2>2, <2>3
<1>6. CASE Rotate
  <2>1. PICK k \in Kids \ drawn :
          /\ IsRing(file)
          /\ file' = [keys |-> [x \in DOMAIN file.keys \cup {k} |->
                                 IF x = k THEN {}
                                 ELSE IF x = file.current THEN {now}
                                 ELSE file.keys[x]],
                      current |-> k]
          /\ drawn' = drawn \cup {k}
          /\ UNCHANGED <<now, tmp, init, hub, signed, dropped>>
    BY <1>6 DEF Rotate
  <2>2. /\ DOMAIN file'.keys = DOMAIN file.keys \cup {k}
        /\ file'.current = k /\ file'.keys[k] = {}
        /\ \A x \in DOMAIN file.keys :
             file'.keys[x] = IF x = file.current THEN {now} ELSE file.keys[x]
        /\ IsRing(file)'
    BY <2>1 DEF FileInv, IsRing, Absent, Half
  <2>3. /\ DOMAIN file.keys \subseteq Kids /\ file.current \in DOMAIN file.keys
        /\ \A x \in DOMAIN file.keys : file.keys[x] \subseteq 0 .. now
        /\ now \in Nat /\ now \in 0 .. now
    BY <2>1 DEF RingTypeOK, RingOK
  <2>4. RingOK(file)'
    BY <2>1, <2>2, <2>3 DEF RingOK
  <2>5. RingTypeOK'
    BY <2>1, <2>4 DEF RingTypeOK, RingOK
  <2>6. InitInv'
    BY <2>1, <2>2 DEF InitInv
  <2>7. FileInv'
    BY <2>1, <2>2 DEF FileInv, RingTypeOK, IsRing
  <2>8. CopyInv'
    <3> SUFFICES ASSUME NEW h \in hub
                 PROVE  /\ DOMAIN h.ring.keys \ dropped \subseteq DOMAIN file'.keys
                        /\ \A x \in DOMAIN h.ring.keys \ dropped :
                             /\ h.ring.keys[x] \subseteq file'.keys[x]
                             /\ \A t \in file'.keys[x] \ h.ring.keys[x] : h.read <= t
      BY <2>1 DEF CopyInv
    <3>1. DOMAIN h.ring.keys \ dropped \subseteq DOMAIN file.keys
      BY DEF CopyInv
    <3>2. ASSUME NEW x \in DOMAIN h.ring.keys \ dropped
          PROVE  /\ h.ring.keys[x] \subseteq file'.keys[x]
                 /\ \A t \in file'.keys[x] \ h.ring.keys[x] : h.read <= t
      <4>1. x \in DOMAIN file.keys /\ h.ring.keys[x] \subseteq file.keys[x]
        BY <3>1 DEF CopyInv
      <4>2. CASE x = file.current
        <5>1. file'.keys[x] = {now} /\ h.ring.keys[x] = {}
          BY <2>1, <2>2, <4>1, <4>2 DEF FileInv
        <5> QED
          BY <5>1 DEF RingTypeOK
      <4>3. CASE x # file.current
        BY <2>2, <4>1, <4>3 DEF CopyInv
      <4> QED
        BY <4>2, <4>3
    <3> QED
      BY <2>2, <3>1, <3>2
  <2> QED
    BY <2>5, <2>6, <2>7, <2>8
<1>7. CASE HubStart
  <2>1. /\ hub = {} /\ IsRing(file) /\ hub' = {[ring |-> file, read |-> now]}
        /\ UNCHANGED <<now, file, tmp, init, signed, drawn, dropped>>
    BY <1>7 DEF HubStart
  <2>2. RingTypeOK'
    BY <2>1 DEF RingTypeOK, RingOK
  <2>3. InitInv' /\ FileInv' /\ CopyInv'
    BY <2>1 DEF InitInv, FileInv, CopyInv, IsRing
  <2> QED
    BY <2>2, <2>3
<1>8. CASE HubStop
  BY <1>8 DEF HubStop, RingTypeOK, RingOK, InitInv, FileInv, CopyInv
<1>9. CASE Sign
  <2>1. PICK h \in hub : /\ signed' = signed \cup {h.ring.current}
                         /\ UNCHANGED <<now, file, tmp, init, hub, drawn, dropped>>
    BY <1>9 DEF Sign
  <2>2. h.ring.current \in DOMAIN h.ring.keys
    BY DEF RingTypeOK, RingOK
  <2>3. \A g \in hub : g = h
    BY DEF CopyInv
  <2>4. IsRing(file) /\ DOMAIN h.ring.keys \ dropped \subseteq DOMAIN file.keys
        /\ DOMAIN h.ring.keys \subseteq drawn
    BY DEF FileInv, CopyInv
  <2>5. RingTypeOK'
    BY <2>1, <2>2, <2>4 DEF RingTypeOK, RingOK
  <2>6. InitInv'
    BY <2>1, <2>2 DEF InitInv
  <2>7. FileInv'
    BY <2>1, <2>2, <2>4 DEF FileInv, IsRing
  <2>8. CopyInv'
    BY <2>1, <2>2, <2>3 DEF CopyInv
  <2> QED
    BY <2>5, <2>6, <2>7, <2>8
<1>10. CASE Tick
  <2>1. /\ now < MaxTime /\ now' = now + 1 /\ now \in Nat
        /\ UNCHANGED <<file, tmp, init, hub, signed, drawn, dropped>>
    BY <1>10, RingAssumption DEF Tick, RingTypeOK
  <2>2. \A ring : RingOK(ring) => RingOK(ring)'
    BY <2>1, RingAges
  <2>3. RingTypeOK'
    <3>1. now' \in 0 .. MaxTime /\ \A h \in hub : h.read <= now'
      BY <2>1, RingAssumption DEF RingTypeOK, RingOK
    <3>2. /\ \A f \in {file, tmp} : IsRing(f) => RingOK(f)'
          /\ \A h \in hub : RingOK(h.ring)'
      BY <2>1, <2>2 DEF RingTypeOK
    <3> QED
      BY <2>1, <3>1, <3>2 DEF RingTypeOK, IsRing, RingOK
  <2>4. InitInv' /\ FileInv' /\ CopyInv'
    BY <2>1 DEF InitInv, FileInv, CopyInv, IsRing
  <2> QED
    BY <2>3, <2>4
<1>11. CASE UNCHANGED ringVars
  BY <1>11 DEF ringVars, RingTypeOK, RingOK, InitInv, FileInv, CopyInv
<1> QED
  BY <1>1, <1>2, <1>3, <1>4, <1>5, <1>6, <1>7, <1>8, <1>9, <1>10, <1>11 DEF RingNext

-----------------------------------------------------------------------------
(* Theorems *)

\* Every behaviour of the init command, the operator and the hub is
\* well-typed: what is loaded, written or renamed is a ring or the two marks.
THEOREM RingTypeCorrect == RingSpec => []RingTypeOK
<1>1. RingInv => RingTypeOK
  BY DEF RingInv
<1> QED
  BY <1>1, RingInitInv, RingStep, PTL DEF RingSpec

\* SaveRingFile writes beside the path and renames: wherever a command
\* stops, the path never holds a torn file.
THEOREM FileNeverTorn == RingSpec => []RingIsWhole
<1>1. RingInv => RingIsWhole
  BY DEF RingInv, FileInv, RingIsWhole
<1> QED
  BY <1>1, RingInitInv, RingStep, PTL DEF RingSpec

\* A hub that is up accepts every JWT handed out whose key is not retired for
\* the window: nothing but --force loses a key.
THEOREM CamsStayEnrolled == RingSpec => []JwtsHonoured
<1>1. RingInv => JwtsHonoured
  <2> SUFFICES ASSUME RingInv, NEW h \in hub, NEW k \in signed \ dropped,
                      \A t \in RetiredOn(k) : now - t <= RetirementWindow
               PROVE  Verifies(h.ring, k)
    BY DEF JwtsHonoured
  <2>1. k \in DOMAIN h.ring.keys /\ h.ring.keys[k] \subseteq file.keys[k]
    BY DEF RingInv, CopyInv
  <2>2. RetiredOn(k) = file.keys[k]
    BY DEF RingInv, FileInv, RetiredOn
  <2> QED
    BY <2>1, <2>2 DEF Verifies
<1> QED
  BY <1>1, RingInitInv, RingStep, PTL DEF RingSpec

\* Only a hub that was started before a key's retirement accepts its JWTs
\* once the window is over.
THEOREM RetirementEnds == RingSpec => []RetiredKeysExpire
<1>1. RingInv => RetiredKeysExpire
  <2> SUFFICES ASSUME RingInv, NEW h \in hub, NEW k \in signed,
                      NEW t \in RetiredOn(k), now - t > RetirementWindow,
                      Verifies(h.ring, k)
               PROVE  h.read <= t
    BY DEF RetiredKeysExpire
  <2>1. IsRing(file) /\ k \in DOMAIN file.keys /\ t \in file.keys[k]
    BY DEF RetiredOn
  <2>2. k \in DOMAIN h.ring.keys \ dropped
    BY <2>1 DEF RingInv, FileInv, Verifies
  <2>3. now - t \in Int /\ RetirementWindow \in Int
    BY <2>1, RingAssumption DEF RingInv, RingTypeOK, RingOK
  <2>4. t \notin h.ring.keys[k]
    BY <2>3 DEF Verifies
  <2> QED
    BY <2>1, <2>2, <2>4 DEF RingInv, CopyInv
<1> QED
  BY <1>1, RingInitInv, RingStep, PTL DEF RingSpec

=============================================================================
