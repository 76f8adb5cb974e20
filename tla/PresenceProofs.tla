--------------------------- MODULE PresenceProofs ----------------------------
(***************************************************************************)
(* Proofs about Presence, for any set of cams, any thresholds and clock    *)
(* difference that satisfy TimesAssumption, and all faults.                *)
(***************************************************************************)
EXTENDS Presence, TLAPS

-----------------------------------------------------------------------------
(* The inductive invariant *)

PresenceTypeInv ==
  /\ PresenceTypeOK
  /\ \A c \in Cams : row[c].seen \subseteq 0 .. now /\ asked[c] \subseteq 0 .. now
  /\ sweep.pc # "idle" => sweep.start \in 0 .. now
                          /\ sweep.at \in sweep.start - Skew .. sweep.start + Skew
  /\ swept \in 0 .. now

\* The ticker fires SweepEvery after the sweep that runs, and never past the
\* bound of the model.
TickerInv ==
  sweep.pc # "idle" =>
    /\ nextSweep = IF sweep.start + SweepEvery < MaxTime
                   THEN sweep.start + SweepEvery ELSE MaxTime
    /\ now <= sweep.start + SweepTakes

\* A heartbeat waits for one sweep at most, so its time is never older than
\* a transaction can be open.
WaitInv ==
  \A c \in Cams : \A t \in asked[c] :
    /\ t >= now - SweepTakes
    /\ t < now /\ now < MaxTime =>
         now < nextSweep /\ (sweep.pc # "idle" => t >= sweep.start)

\* What the two statements of the open transaction have marked: rows that
\* were silent, and still are, since nobody else writes a locked row.
MarkInv ==
  /\ sweep.pc = "idle" => sweep.off = {} /\ sweep.stale = {}
  /\ sweep.pc = "offline" => sweep.off = {} /\ sweep.stale = {}
  /\ sweep.pc = "stale" => sweep.stale = {}
  /\ \A c \in sweep.off : /\ row[c].status \in {"online", "stale"}
                          /\ \A t \in row[c].seen : t < sweep.at - OfflineAfter
  /\ \A c \in sweep.stale : /\ c \notin sweep.off /\ row[c].status = "online"
                            /\ \A t \in row[c].seen : t < sweep.at - StaleAfter

\* What they have passed over had been heard from.
HeardSince(c, since) == \A t \in row[c].seen : t >= since

PassInv ==
  /\ sweep.pc \in {"stale", "commit"} =>
       \A c \in Cams \ sweep.off :
         row[c].status \in {"online", "stale"} =>
           HeardSince(c, sweep.start - Skew - OfflineAfter)
  /\ sweep.pc = "commit" =>
       \A c \in Cams \ (sweep.off \cup sweep.stale) :
         row[c].status = "online" => HeardSince(c, sweep.start - Skew - StaleAfter)

\* At most one time in a column, and one heartbeat that waits.
OneTime == \A c \in Cams : /\ \A t, u \in row[c].seen : t = u
                           /\ \A t, u \in asked[c] : t = u

PresenceInv ==
  /\ PresenceTypeInv /\ TickerInv /\ WaitInv /\ OneTime
  /\ MarkInv /\ PassInv /\ NobodyLeftBehind

-----------------------------------------------------------------------------

\* The invariant holds when the hub starts.
LEMMA PresenceInitInv == PresenceInit => PresenceInv
BY TimesAssumption
DEF PresenceInit, PresenceInv, PresenceTypeInv, PresenceTypeOK, TickerInv, WaitInv,
    OneTime, MarkInv, PassInv, NobodyLeftBehind, NoRow, NoSweep, SilentSince

\* The numbers the proof computes with.
LEMMA Numbers ==
  ASSUME PresenceInv
  PROVE  /\ now \in Nat /\ nextSweep \in Nat /\ swept \in Nat /\ swept <= now
         /\ StaleAfter \in Nat /\ OfflineAfter \in Nat /\ SweepEvery \in Nat
         /\ SweepTakes \in Nat /\ Skew \in Nat /\ MaxTime \in Nat
         /\ StaleAfter < OfflineAfter /\ SweepTakes < SweepEvery
         /\ SweepEvery <= StaleAfter /\ now <= MaxTime
         /\ sweep.start \in Nat /\ sweep.at \in Int
         /\ sweep.pc # "idle" => /\ sweep.start <= now
                                 /\ sweep.at >= sweep.start - Skew
                                 /\ sweep.at <= sweep.start + Skew
         /\ \A c \in Cams : row[c].seen \subseteq Nat /\ asked[c] \subseteq Nat
BY TimesAssumption DEF PresenceInv, PresenceTypeInv, PresenceTypeOK

\* A row that is written while no transaction holds it.
LEMMA RowWritten ==
  ASSUME PresenceInv, NEW c \in Cams, ~Locked(c),
         NEW new \in [status : Statuses \cup {"none"}, seen : SUBSET (0 .. now)],
         row' = [row EXCEPT ![c] = new],
         \A t, u \in new.seen : t = u,
         new.status \in {"online", "stale"} =>
           new.status = "online" /\ \A t \in new.seen : t >= now - SweepTakes,
         UNCHANGED <<now, sweep, nextSweep, swept>>,
         asked' = asked \/ asked' = [asked EXCEPT ![c] = {}]
  PROVE  PresenceInv'
<1> USE DEF PresenceInv
<1>1. /\ row'[c] = new /\ \A d \in Cams : d # c => row'[d] = row[d]
      /\ \A d \in Cams : asked'[d] \subseteq asked[d]
  BY DEF PresenceTypeInv, PresenceTypeOK
<1>2. PresenceTypeInv'
  <2>1. 0 .. now \subseteq 0 .. MaxTime
    BY Numbers
  <2>2. new \in [status : Statuses \cup {"none"}, seen : SUBSET (0 .. MaxTime)]
    BY <2>1
  <2>3. row' \in [Cams -> [status : Statuses \cup {"none"}, seen : SUBSET (0 .. MaxTime)]]
        /\ asked' \in [Cams -> SUBSET (0 .. MaxTime)]
    BY <2>2 DEF PresenceTypeInv, PresenceTypeOK
  <2> QED
    BY <1>1, <2>3 DEF PresenceTypeInv, PresenceTypeOK
<1>3. TickerInv'
  BY DEF TickerInv
<1>4. WaitInv'
  BY <1>1 DEF WaitInv
<1>5. OneTime'
  BY <1>1 DEF OneTime
<1>6. MarkInv'
  <2>1. c \notin sweep.off /\ c \notin sweep.stale
    BY DEF Locked
  <2>2. sweep.off \subseteq Cams /\ sweep.stale \subseteq Cams
    BY DEF PresenceTypeInv, PresenceTypeOK
  <2> QED
    BY <1>1, <2>1, <2>2 DEF MarkInv
<1>7. new.status = "online" =>
        \A t \in new.seen :
          /\ t \in Nat
          /\ t >= swept - Skew - StaleAfter
          /\ sweep.pc # "idle" => /\ t >= sweep.start - Skew - OfflineAfter
                                  /\ t >= sweep.start - Skew - StaleAfter
  <2>1. \A t \in new.seen : t \in Nat
    BY Numbers
  <2> QED
    BY <2>1, Numbers
<1>8. PassInv'
  BY <1>1, <1>7 DEF PassInv, HeardSince
<1>9. NobodyLeftBehind'
  BY <1>1, <1>7, Numbers DEF NobodyLeftBehind, SilentSince
<1> QED
  BY <1>2, <1>3, <1>4, <1>5, <1>6, <1>8, <1>9

\* Every step keeps the invariant.
LEMMA PresenceStep == PresenceInv /\ [PresenceNext]_presenceVars => PresenceInv'
<1> SUFFICES ASSUME PresenceInv, [PresenceNext]_presenceVars PROVE PresenceInv'
  OBVIOUS
<1> USE DEF PresenceInv
<1>1. ASSUME NEW c \in Cams, Enroll(c) \/ Unenroll(c) PROVE PresenceInv'
  <2> DEFINE new == IF Enroll(c) THEN [status |-> "enrolled", seen |-> {}] ELSE NoRow
  <2>1. /\ row' = [row EXCEPT ![c] = new]
        /\ UNCHANGED <<now, asked, sweep, nextSweep, swept>>
        /\ row[c].status \notin {"online", "stale"}
    BY <1>1 DEF Enroll, Unenroll, NoRow
  <2>2. ~Locked(c)
    BY <2>1 DEF Locked, MarkInv
  <2>3. /\ new \in [status : Statuses \cup {"none"}, seen : SUBSET (0 .. now)]
        /\ new.seen = {} /\ new.status \notin {"online", "stale"}
    BY DEF NoRow, Statuses
  <2> HIDE DEF new
  <2> QED
    BY <2>1, <2>2, <2>3, RowWritten
<1>2. ASSUME NEW c \in Cams, BeatSent(c) PROVE PresenceInv'
  <2>1. /\ asked' = [asked EXCEPT ![c] = {now}]
        /\ UNCHANGED <<now, row, sweep, nextSweep, swept>>
        /\ asked'[c] = {now} /\ \A d \in Cams : d # c => asked'[d] = asked[d]
    BY <1>2 DEF BeatSent, PresenceTypeInv, PresenceTypeOK
  <2>2. PresenceTypeInv'
    BY <2>1, Numbers DEF PresenceTypeInv, PresenceTypeOK
  <2>3. TickerInv' /\ MarkInv' /\ PassInv' /\ NobodyLeftBehind'
    BY <2>1 DEF TickerInv, MarkInv, PassInv, HeardSince, NobodyLeftBehind, SilentSince
  <2>4. OneTime'
    BY <2>1 DEF OneTime
  <2>5. WaitInv'
    BY <2>1, Numbers DEF WaitInv
  <2> QED
    BY <2>2, <2>3, <2>4, <2>5
<1>3. ASSUME NEW c \in Cams, BeatApplied(c) PROVE PresenceInv'
  <2> DEFINE new == [status |-> "online", seen |-> asked[c]]
  <2>1. /\ ~Locked(c) /\ asked' = [asked EXCEPT ![c] = {}]
        /\ UNCHANGED <<now, sweep, nextSweep, swept>>
        /\ row' = row \/ row' = [row EXCEPT ![c] = new]
    BY <1>3 DEF BeatApplied
  <2>2. CASE row' = [row EXCEPT ![c] = new]
    <3>1. new \in [status : Statuses \cup {"none"}, seen : SUBSET (0 .. now)]
      BY DEF Statuses, PresenceTypeInv
    <3>2. /\ \A t, u \in new.seen : t = u
          /\ \A t \in new.seen : t >= now - SweepTakes
      BY DEF OneTime, WaitInv
    <3>3. new.status = "online"
      OBVIOUS
    <3> HIDE DEF new
    <3> QED
      BY <2>1, <2>2, <3>1, <3>2, <3>3, RowWritten
  <2>3. CASE row' = row
    <3>1. \A d \in Cams : asked'[d] \subseteq asked[d]
      BY <2>1 DEF PresenceTypeInv, PresenceTypeOK
    <3>2. PresenceTypeInv' /\ OneTime' /\ WaitInv'
      BY <2>1, <2>3, <3>1 DEF PresenceTypeInv, PresenceTypeOK, OneTime, WaitInv
    <3>3. TickerInv' /\ MarkInv' /\ PassInv' /\ NobodyLeftBehind'
      BY <2>1, <2>3 DEF TickerInv, MarkInv, PassInv, HeardSince, NobodyLeftBehind, SilentSince
    <3> QED
      BY <3>2, <3>3
  <2> QED
    BY <2>1, <2>2, <2>3
<1>4. CASE SweepStart
  <2>1. PICK ahead \in -Skew .. Skew :
          /\ sweep.pc = "idle" /\ now >= nextSweep
          /\ sweep' = [NoSweep EXCEPT !.pc = "offline", !.start = now, !.at = now + ahead]
          /\ nextSweep' = IF now + SweepEvery < MaxTime THEN now + SweepEvery ELSE MaxTime
          /\ UNCHANGED <<now, row, asked, swept>>
    BY <1>4 DEF SweepStart
  <2>2. /\ sweep'.pc = "offline" /\ sweep'.start = now /\ sweep'.at = now + ahead
        /\ sweep'.off = {} /\ sweep'.stale = {}
    BY <2>1 DEF NoSweep
  <2>3. PresenceTypeInv'
    <3>1. sweep' \in [pc : {"idle", "offline", "stale", "commit"}, start : 0..MaxTime,
                      at : Int, off : SUBSET Cams, stale : SUBSET Cams]
      <4>1. sweep' = [pc |-> "offline", start |-> now, at |-> now + ahead,
                      off |-> {}, stale |-> {}]
        BY <2>1 DEF NoSweep
      <4>2. now \in 0 .. MaxTime /\ now + ahead \in Int
        BY Numbers
      <4> QED
        BY <4>1, <4>2
    <3>2. nextSweep' \in Nat /\ now + ahead \in now - Skew .. now + Skew
      BY <2>1, Numbers
    <3> QED
      BY <2>1, <2>2, <3>1, <3>2, Numbers DEF PresenceTypeInv, PresenceTypeOK
  <2>4. TickerInv' /\ WaitInv'
    BY <2>1, <2>2, Numbers DEF TickerInv, WaitInv
  <2>5. OneTime' /\ MarkInv' /\ PassInv' /\ NobodyLeftBehind'
    BY <2>1, <2>2 DEF OneTime, MarkInv, PassInv, NobodyLeftBehind, SilentSince
  <2> QED
    BY <2>3, <2>4, <2>5
<1>5. CASE SweepOffline
  <2> DEFINE off == {c \in Cams : /\ row[c].status \in {"online", "stale"}
                                  /\ SilentSince(c, sweep.at - OfflineAfter)}
  <2>1. /\ sweep.pc = "offline" /\ sweep' = [sweep EXCEPT !.pc = "stale", !.off = off]
        /\ UNCHANGED <<now, row, asked, nextSweep, swept>>
    BY <1>5 DEF SweepOffline
  <2>2. /\ sweep'.pc = "stale" /\ sweep'.start = sweep.start /\ sweep'.at = sweep.at
        /\ sweep'.off = off /\ sweep'.stale = {}
    BY <2>1 DEF PresenceTypeInv, PresenceTypeOK, MarkInv
  <2>3. PresenceTypeInv' /\ TickerInv' /\ WaitInv' /\ OneTime'
    <3>1. off \subseteq Cams
      OBVIOUS
    <3> HIDE DEF off
    <3>2. sweep' \in [pc : {"idle", "offline", "stale", "commit"}, start : 0..MaxTime,
                      at : Int, off : SUBSET Cams, stale : SUBSET Cams]
      BY <2>1, <3>1 DEF PresenceTypeInv, PresenceTypeOK
    <3>3. PresenceTypeInv'
      BY <2>1, <2>2, <3>2 DEF PresenceTypeInv, PresenceTypeOK
    <3>4. TickerInv'
      BY <2>1, <2>2 DEF TickerInv
    <3>5. WaitInv' /\ OneTime'
      BY <2>1, <2>2 DEF WaitInv, OneTime
    <3> QED
      BY <3>3, <3>4, <3>5
  <2>4. MarkInv'
    BY <2>1, <2>2 DEF MarkInv, OneTime, SilentSince
  <2>5. PassInv'
    <3> SUFFICES ASSUME NEW c \in Cams \ off, row[c].status \in {"online", "stale"},
                        NEW t \in row[c].seen
                 PROVE  t >= sweep.start - Skew - OfflineAfter
      BY <2>1, <2>2 DEF PassInv, HeardSince
    <3>1. ~(t < sweep.at - OfflineAfter)
      BY DEF SilentSince
    <3> QED
      BY <2>1, <3>1, Numbers
  <2>6. NobodyLeftBehind'
    BY <2>1 DEF NobodyLeftBehind, SilentSince
  <2> QED
    BY <2>3, <2>4, <2>5, <2>6
<1>6. CASE SweepStale
  <2> DEFINE stale == {c \in Cams \ sweep.off :
                         /\ row[c].status = "online"
                         /\ SilentSince(c, sweep.at - StaleAfter)}
  <2>1. /\ sweep.pc = "stale" /\ sweep' = [sweep EXCEPT !.pc = "commit", !.stale = stale]
        /\ UNCHANGED <<now, row, asked, nextSweep, swept>>
    BY <1>6 DEF SweepStale
  <2>2. /\ sweep'.pc = "commit" /\ sweep'.start = sweep.start /\ sweep'.at = sweep.at
        /\ sweep'.off = sweep.off /\ sweep'.stale = stale
    BY <2>1 DEF PresenceTypeInv, PresenceTypeOK
  <2>3. PresenceTypeInv' /\ TickerInv' /\ WaitInv' /\ OneTime'
    <3>1. stale \subseteq Cams
      OBVIOUS
    <3> HIDE DEF stale
    <3>2. sweep' \in [pc : {"idle", "offline", "stale", "commit"}, start : 0..MaxTime,
                      at : Int, off : SUBSET Cams, stale : SUBSET Cams]
      BY <2>1, <3>1 DEF PresenceTypeInv, PresenceTypeOK
    <3>3. PresenceTypeInv'
      BY <2>1, <2>2, <3>2 DEF PresenceTypeInv, PresenceTypeOK
    <3>4. TickerInv'
      BY <2>1, <2>2 DEF TickerInv
    <3>5. WaitInv' /\ OneTime'
      BY <2>1, <2>2 DEF WaitInv, OneTime
    <3> QED
      BY <3>3, <3>4, <3>5
  <2>4. MarkInv'
    BY <2>1, <2>2 DEF MarkInv, OneTime, SilentSince
  <2>5. PassInv'
    <3>1. ASSUME NEW c \in Cams \ (sweep.off \cup stale), row[c].status = "online",
                 NEW t \in row[c].seen
          PROVE  t >= sweep.start - Skew - StaleAfter
      <4>1. ~(t < sweep.at - StaleAfter)
        BY <3>1 DEF SilentSince
      <4> QED
        BY <2>1, <4>1, Numbers
    <3> QED
      BY <2>1, <2>2, <3>1 DEF PassInv, HeardSince
  <2>6. NobodyLeftBehind'
    BY <2>1 DEF NobodyLeftBehind, SilentSince
  <2> QED
    BY <2>3, <2>4, <2>5, <2>6
<1>7. CASE SweepCommit
  <2>1. /\ sweep.pc = "commit" /\ sweep' = NoSweep /\ swept' = sweep.start
        /\ row' = [c \in Cams |->
                     IF c \in sweep.off THEN [row[c] EXCEPT !.status = "offline"]
                     ELSE IF c \in sweep.stale THEN [row[c] EXCEPT !.status = "stale"]
                     ELSE row[c]]
        /\ UNCHANGED <<now, asked, nextSweep>>
    BY <1>7 DEF SweepCommit
  <2>2. \A c \in Cams :
          /\ row'[c] \in [status : Statuses \cup {"none"}, seen : SUBSET (0..MaxTime)]
          /\ row'[c].seen = row[c].seen
          /\ row'[c].status = IF c \in sweep.off THEN "offline"
                              ELSE IF c \in sweep.stale THEN "stale" ELSE row[c].status
    BY <2>1 DEF PresenceTypeInv, PresenceTypeOK, Statuses
  <2>3. PresenceTypeInv'
    <3>1. row' \in [Cams -> [status : Statuses \cup {"none"}, seen : SUBSET (0..MaxTime)]]
      BY <2>1, <2>2
    <3>2. NoSweep \in [pc : {"idle", "offline", "stale", "commit"}, start : 0..MaxTime,
                       at : Int, off : SUBSET Cams, stale : SUBSET Cams]
      BY Numbers DEF NoSweep
    <3>3. sweep.start \in 0 .. now /\ sweep.start \in 0 .. MaxTime
      BY <2>1, Numbers
    <3>4. sweep'.pc = "idle"
      BY <2>1 DEF NoSweep
    <3> QED
      BY <2>1, <2>2, <3>1, <3>2, <3>3, <3>4 DEF PresenceTypeInv, PresenceTypeOK
  <2>4. TickerInv' /\ WaitInv' /\ OneTime' /\ MarkInv' /\ PassInv'
    BY <2>1, <2>2 DEF TickerInv, WaitInv, OneTime, MarkInv, PassInv, NoSweep
  <2>5. NobodyLeftBehind'
    <3> SUFFICES ASSUME NEW c \in Cams, NEW t \in row[c].seen
                 PROVE  /\ row'[c].status = "online" =>
                             ~(t < sweep.start - Skew - StaleAfter)
                        /\ row'[c].status = "stale" =>
                             ~(t < sweep.start - Skew - OfflineAfter)
      BY <2>1, <2>2 DEF NobodyLeftBehind, SilentSince
    <3>1. row'[c].status = "online" => t >= sweep.start - Skew - StaleAfter
      BY <2>1, <2>2 DEF PassInv, HeardSince
    <3>2. row'[c].status = "stale" => t >= sweep.start - Skew - OfflineAfter
      BY <2>1, <2>2 DEF PassInv, HeardSince, MarkInv
    <3> QED
      BY <3>1, <3>2, Numbers
  <2> QED
    BY <2>3, <2>4, <2>5
<1>8. CASE SweepFails
  <2>1. sweep' = NoSweep /\ UNCHANGED <<now, row, asked, nextSweep, swept>>
    BY <1>8 DEF SweepFails
  <2>2. PresenceTypeInv'
    BY <2>1, Numbers DEF PresenceTypeInv, PresenceTypeOK, NoSweep
  <2>3. TickerInv' /\ WaitInv' /\ OneTime' /\ MarkInv' /\ PassInv'
    BY <2>1 DEF TickerInv, WaitInv, OneTime, MarkInv, PassInv, NoSweep
  <2>4. NobodyLeftBehind'
    BY <2>1 DEF NobodyLeftBehind, SilentSince
  <2> QED
    BY <2>2, <2>3, <2>4
<1>9. CASE HubRestart
  <2>1. /\ sweep' = NoSweep /\ asked' = [c \in Cams |-> {}]
        /\ now' = IF now < MaxTime THEN now + 1 ELSE now
        /\ nextSweep' = now' /\ UNCHANGED <<row, swept>>
    BY <1>9 DEF HubRestart
  <2>2. now' \in Nat /\ now <= now' /\ now' <= MaxTime
    BY <2>1, Numbers
  <2>3. PresenceTypeInv'
    <3>1. 0 .. now \subseteq 0 .. now' /\ 0 \in 0 .. MaxTime
      BY <2>2, Numbers
    <3> QED
      BY <2>1, <2>2, <3>1 DEF PresenceTypeInv, PresenceTypeOK, NoSweep
  <2>4. TickerInv' /\ WaitInv' /\ OneTime' /\ MarkInv' /\ PassInv'
    BY <2>1 DEF TickerInv, WaitInv, OneTime, MarkInv, PassInv, NoSweep
  <2>5. NobodyLeftBehind'
    BY <2>1 DEF NobodyLeftBehind, SilentSince
  <2> QED
    BY <2>3, <2>4, <2>5
<1>10. CASE Tick
  <2>1. /\ now < MaxTime /\ now' = now + 1
        /\ \A c \in Cams : asked[c] # {} => Locked(c)
        /\ IF sweep.pc = "idle" THEN now < nextSweep ELSE now < sweep.start + SweepTakes
        /\ UNCHANGED <<row, asked, sweep, nextSweep, swept>>
    BY <1>10 DEF Tick
  <2>2. PresenceTypeInv'
    <3>1. 0 .. now \subseteq 0 .. now' /\ now' \in 0 .. MaxTime
      BY <2>1, Numbers
    <3> QED
      BY <2>1, <3>1 DEF PresenceTypeInv, PresenceTypeOK
  <2>3. TickerInv'
    BY <2>1, Numbers DEF TickerInv
  <2>4. WaitInv'
    <3> SUFFICES ASSUME NEW c \in Cams, NEW t \in asked[c]
                 PROVE  /\ t >= now' - SweepTakes
                        /\ now' < MaxTime => now' < nextSweep /\ t >= sweep.start
      BY <2>1 DEF WaitInv
    <3>1. sweep.pc # "idle"
      BY <2>1 DEF Locked, MarkInv
    <3>2. t >= sweep.start
      BY <2>1, <3>1, Numbers DEF WaitInv, PresenceTypeInv
    <3> QED
      BY <2>1, <3>1, <3>2, Numbers DEF TickerInv
  <2>5. OneTime' /\ MarkInv' /\ PassInv' /\ NobodyLeftBehind'
    BY <2>1 DEF OneTime, MarkInv, PassInv, HeardSince, NobodyLeftBehind, SilentSince
  <2> QED
    BY <2>2, <2>3, <2>4, <2>5
<1>11. CASE UNCHANGED presenceVars
  BY <1>11 DEF presenceVars, PresenceTypeInv, PresenceTypeOK, TickerInv, WaitInv,
     OneTime, MarkInv, PassInv, HeardSince, NobodyLeftBehind, SilentSince
<1> QED
  BY <1>1, <1>2, <1>3, <1>4, <1>5, <1>6, <1>7, <1>8, <1>9, <1>10, <1>11
  DEF PresenceNext, SweepStep

-----------------------------------------------------------------------------
(* Theorems *)

\* The columns, the transaction and the clocks have their types.
THEOREM PresenceTypeCorrect == PresenceSpec => []PresenceTypeOK
<1>1. PresenceInv => PresenceTypeOK
  BY DEF PresenceInv, PresenceTypeInv
<1> QED
  BY <1>1, PresenceInitInv, PresenceStep, PTL DEF PresenceSpec

\* MarkStale misses no silent cam, whatever ran between its statements.
THEOREM SweepIsThorough == PresenceSpec => []NobodyLeftBehind
<1>1. PresenceInv => NobodyLeftBehind
  BY DEF PresenceInv
<1> QED
  BY <1>1, PresenceInitInv, PresenceStep, PTL DEF PresenceSpec

\* MarkStale lowers nobody who was heard from within the threshold.
THEOREM SweepIsFair == PresenceSpec => NotWrittenOffEarly
<1> DEFINE Early(c) ==
      row'[c].status # row[c].status =>
        /\ row'[c].status = "stale" => \A t \in row[c].seen : now - t > StaleAfter - Skew
        /\ row'[c].status = "offline" => \A t \in row[c].seen : now - t > OfflineAfter - Skew
<1>1. PresenceInv /\ [PresenceNext]_presenceVars => [\A c \in Cams : Early(c)]_presenceVars
  <2> SUFFICES ASSUME PresenceInv, PresenceNext, NEW c \in Cams PROVE Early(c)
    OBVIOUS
  <2>1. CASE SweepCommit
    <3>1. row'[c].status # row[c].status =>
            \/ c \in sweep.off /\ row'[c].status = "offline"
            \/ c \in sweep.stale /\ row'[c].status = "stale"
      BY <2>1 DEF SweepCommit, PresenceInv, PresenceTypeInv, PresenceTypeOK
    <3>2. sweep.at <= now + Skew
      BY <2>1, Numbers DEF SweepCommit
    <3>3. c \in sweep.off => \A t \in row[c].seen : now - t > OfflineAfter - Skew
      BY <3>2, Numbers DEF PresenceInv, MarkInv
    <3>4. c \in sweep.stale => \A t \in row[c].seen : now - t > StaleAfter - Skew
      BY <3>2, Numbers DEF PresenceInv, MarkInv
    <3> QED
      BY <3>1, <3>3, <3>4
  <2>2. ASSUME NEW d \in Cams, Enroll(d) \/ Unenroll(d) \/ BeatSent(d) \/ BeatApplied(d)
        PROVE  row'[c] = row[c] \/ row'[c].status \in {"enrolled", "none", "online"}
    <3>1. row \in [Cams -> [status : Statuses \cup {"none"}, seen : SUBSET (0..MaxTime)]]
      BY DEF PresenceInv, PresenceTypeInv, PresenceTypeOK
    <3>2. \/ row' = row
          \/ row' = [row EXCEPT ![d] = [status |-> "enrolled", seen |-> {}]]
          \/ row' = [row EXCEPT ![d] = [status |-> "none", seen |-> {}]]
          \/ row' = [row EXCEPT ![d] = [status |-> "online", seen |-> asked[d]]]
      BY <2>2 DEF Enroll, Unenroll, BeatSent, BeatApplied, NoRow
    <3> QED
      BY <3>1, <3>2
  <2>3. CASE SweepStart \/ SweepOffline \/ SweepStale \/ SweepFails \/ HubRestart \/ Tick
    BY <2>3 DEF SweepStart, SweepOffline, SweepStale, SweepFails, HubRestart, Tick
  <2> QED
    BY <2>1, <2>2, <2>3 DEF PresenceNext, SweepStep
<1> QED
  BY <1>1, PresenceInitInv, PresenceStep, PTL DEF PresenceSpec, NotWrittenOffEarly

=============================================================================
