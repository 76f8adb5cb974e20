------------------------------ MODULE Presence ------------------------------
(***************************************************************************)
(* When a cam counts as online: the columns status and last_seen_at of     *)
(* devices.  UpdateHeartbeat writes them for one cam; MarkStale, run by    *)
(* the sweep goroutine of cmd/camhub/main.go, walks all of them in one     *)
(* transaction of two UPDATEs.  Postgres runs both under READ COMMITTED:   *)
(* a statement sees what is committed when it starts, the rows it changed  *)
(* stay locked until the commit, and a heartbeat that meets such a row     *)
(* waits, with the now() of its own start.                                 *)
(*                                                                         *)
(* Time is counted in steps of the clock of Postgres, whose now() is in    *)
(* last_seen_at.  The cutoffs of a sweep come from the clock of the hub,   *)
(* which may be ahead of it or behind by Skew.  A heartbeat that need not  *)
(* wait is over before the clock moves or another one comes; a sweep takes *)
(* at most SweepTakes.                                                     *)
(***************************************************************************)
EXTENDS HubCalls, Integers

CONSTANTS
  Cams,         \* device ids
  StaleAfter,   \* 5 minutes
  OfflineAfter, \* 15 minutes
  SweepEvery,   \* 60 seconds
  SweepTakes,   \* how long the transaction may stay open
  Skew,         \* by how much the clocks of hub and Postgres differ
  LastBeat,     \* bound of the model: no heartbeat is sent after it
  MaxTime       \* bound of the model: where the clock stops

ASSUME TimesAssumption ==
  /\ {StaleAfter, OfflineAfter, SweepEvery, SweepTakes, Skew, LastBeat,
      MaxTime} \subseteq Nat
  /\ StaleAfter < OfflineAfter
  /\ SweepTakes < SweepEvery /\ SweepEvery <= StaleAfter

VARIABLES
  now,          \* the clock of Postgres
  row,          \* status and last_seen_at of each device row
  asked,        \* asked[c]: {t} while a heartbeat started at t waits
  sweep,        \* the open MarkStale transaction
  nextSweep,    \* when the ticker fires next
  swept         \* history: start of the last sweep that committed

presenceVars == <<now, row, asked, sweep, nextSweep, swept>>

Statuses == {"enrolled", "online", "stale", "offline"}
NoRow == [status |-> "none", seen |-> {}]    \* seen: NULL is the empty set

\* start: when it began; at: the time the hub read.
NoSweep == [pc |-> "idle", start |-> 0, at |-> 0, off |-> {}, stale |-> {}]

PresenceTypeOK ==
  /\ now \in 0..MaxTime
  /\ row \in [Cams -> [status : Statuses \cup {"none"}, seen : SUBSET (0..MaxTime)]]
  /\ asked \in [Cams -> SUBSET (0..MaxTime)]
  /\ sweep \in [pc : {"idle", "offline", "stale", "commit"}, start : 0..MaxTime,
                at : Int, off : SUBSET Cams, stale : SUBSET Cams]
  /\ nextSweep \in Nat
  /\ swept \in 0..MaxTime

PresenceInit ==
  /\ now = 0
  /\ row = [c \in Cams |-> NoRow]
  /\ asked = [c \in Cams |-> {}]
  /\ sweep = NoSweep
  /\ nextSweep = 0
  /\ swept = 0

\* Rows the open transaction changed and holds until it ends.
Locked(c) == c \in sweep.off \cup sweep.stale

-----------------------------------------------------------------------------
(* Rows come and go (DeviceStore.Create, the rollback of a registration). *)

Enroll(c) ==
  /\ row[c] = NoRow
  /\ row' = [row EXCEPT ![c] = [status |-> "enrolled", seen |-> {}]]
  /\ UNCHANGED <<now, asked, sweep, nextSweep, swept>>

Unenroll(c) ==
  /\ row[c].status = "enrolled" /\ asked[c] = {}
  /\ row' = [row EXCEPT ![c] = NoRow]
  /\ UNCHANGED <<now, asked, sweep, nextSweep, swept>>

-----------------------------------------------------------------------------
(* UpdateHeartbeat *)

BeatSent(c) ==
  /\ row[c] # NoRow /\ asked[c] = {} /\ now <= LastBeat
  /\ \A d \in Cams : asked[d] # {} => Locked(d)
  /\ asked' = [asked EXCEPT ![c] = {now}]
  /\ UNCHANGED <<now, row, sweep, nextSweep, swept>>

\* (mutant) The heartbeat does not wait for the sweep.
BeatNotBlocked(c) ==
  /\ asked[c] # {}
  /\ row' = [row EXCEPT ![c] = [status |-> "online", seen |-> asked[c]]]
  /\ asked' = [asked EXCEPT ![c] = {}]
  /\ UNCHANGED <<now, sweep, nextSweep, swept>>

BeatApplied(c) ==
  /\ asked[c] # {} /\ ~Locked(c)
  /\ \E reply \in DbReplies(TRUE) :
       row' = IF Done(reply)
              THEN [row EXCEPT ![c] = [status |-> "online", seen |-> asked[c]]]
              ELSE row
  /\ asked' = [asked EXCEPT ![c] = {}]
  /\ UNCHANGED <<now, sweep, nextSweep, swept>>

-----------------------------------------------------------------------------
(* MarkStale *)

\* (mutant) The threshold is taken off twice.
SweepStartCutoff ==
  /\ sweep.pc = "idle" /\ now >= nextSweep
  /\ sweep' = [NoSweep EXCEPT !.pc = "offline", !.start = now - StaleAfter]
  /\ nextSweep' = IF now + SweepEvery < MaxTime THEN now + SweepEvery ELSE MaxTime
  /\ UNCHANGED <<now, row, asked, swept>>

\* The cutoffs are taken from the hub's clock before the transaction begins.
SweepStart ==
  /\ sweep.pc = "idle" /\ now >= nextSweep
  /\ \E ahead \in -Skew .. Skew :
       sweep' = [NoSweep EXCEPT !.pc = "offline", !.start = now, !.at = now + ahead]
  /\ nextSweep' = IF now + SweepEvery < MaxTime THEN now + SweepEvery ELSE MaxTime
  /\ UNCHANGED <<now, row, asked, swept>>

SilentSince(c, cutoff) == \E t \in row[c].seen : t < cutoff

\* (mutant) A stale cam is left alone: WHERE status = 'online'.
SweepOfflineOnlineOnly ==
  /\ sweep.pc = "offline"
  /\ sweep' = [sweep EXCEPT !.pc = "stale",
       !.off = {c \in Cams : /\ row[c].status = "online"
                             /\ SilentSince(c, sweep.at - OfflineAfter)}]
  /\ UNCHANGED <<now, row, asked, nextSweep, swept>>

SweepOffline ==
  /\ sweep.pc = "offline"
  /\ sweep' = [sweep EXCEPT !.pc = "stale",
       !.off = {c \in Cams : /\ row[c].status \in {"online", "stale"}
                             /\ SilentSince(c, sweep.at - OfflineAfter)}]
  /\ UNCHANGED <<now, row, asked, nextSweep, swept>>

\* Within the transaction the rows just marked offline are no longer online.
SweepStale ==
  /\ sweep.pc = "stale"
  /\ sweep' = [sweep EXCEPT !.pc = "commit",
       !.stale = {c \in Cams \ sweep.off :
                    /\ row[c].status = "online"
                    /\ SilentSince(c, sweep.at - StaleAfter)}]
  /\ UNCHANGED <<now, row, asked, nextSweep, swept>>

SweepCommit ==
  /\ sweep.pc = "commit"
  /\ row' = [c \in Cams |->
               IF c \in sweep.off THEN [row[c] EXCEPT !.status = "offline"]
               ELSE IF c \in sweep.stale THEN [row[c] EXCEPT !.status = "stale"]
               ELSE row[c]]
  /\ sweep' = NoSweep
  /\ swept' = sweep.start
  /\ UNCHANGED <<now, asked, nextSweep>>

\* (mutant) The goroutine returns on the first error.
SweepFailsForGood ==
  /\ "db_down" \in Faults
  /\ sweep.pc # "idle"
  /\ sweep' = NoSweep
  /\ nextSweep' = MaxTime + 1
  /\ UNCHANGED <<now, row, asked, swept>>

\* Begin, a statement or the commit fails: rolled back, logged, next tick.
SweepFails ==
  /\ "db_down" \in Faults
  /\ sweep.pc # "idle"
  /\ sweep' = NoSweep
  /\ UNCHANGED <<now, row, asked, nextSweep, swept>>

\* Postgres rolls the transaction back; the next process, a clock step
\* later, sweeps at once.
HubRestart ==
  /\ "crash" \in Faults
  /\ sweep' = NoSweep
  /\ asked' = [c \in Cams |-> {}]
  /\ now' = IF now < MaxTime THEN now + 1 ELSE now
  /\ nextSweep' = now'
  /\ UNCHANGED <<row, swept>>

-----------------------------------------------------------------------------

\* A heartbeat that does not wait is done before the clock moves, the ticker
\* is punctual and a sweep ends in time.
Tick ==
  /\ now < MaxTime
  /\ \A c \in Cams : asked[c] # {} => Locked(c)
  /\ IF sweep.pc = "idle" THEN now < nextSweep ELSE now < sweep.start + SweepTakes
  /\ now' = now + 1
  /\ UNCHANGED <<row, asked, sweep, nextSweep, swept>>

SweepStep == SweepStart \/ SweepOffline \/ SweepStale \/ SweepCommit

PresenceNext ==
  \/ \E c \in Cams : Enroll(c) \/ Unenroll(c) \/ BeatSent(c) \/ BeatApplied(c)
  \/ SweepStep
  \/ SweepFails
  \/ HubRestart
  \/ Tick

PresenceSpec == PresenceInit /\ [][PresenceNext]_presenceVars

\* Time passes, statements return, the ticker fires; however often sweeps
\* fail or the hub restarts, each statement of a sweep succeeds again.
PresenceFairness ==
  /\ SF_presenceVars(Tick)
  /\ WF_presenceVars(SweepStart)
  /\ SF_presenceVars(SweepOffline)
  /\ SF_presenceVars(SweepStale)
  /\ SF_presenceVars(SweepCommit)
  /\ \A c \in Cams : WF_presenceVars(BeatApplied(c))

FairPresenceSpec == PresenceSpec /\ PresenceFairness

-----------------------------------------------------------------------------
(* Properties *)

\* A SWEEP LEAVES NOBODY BEHIND.  Once a sweep has committed, no cam that was
\* silent for longer than a threshold and the clocks' difference when it
\* started still shows the better status, whatever heartbeats ran between its
\* statements or waited for its locks, and however many sweeps were missed
\* before.  "Anything past the offline threshold doesn't get marked 'stale'
\* on the way through."
NobodyLeftBehind ==
  \A c \in Cams :
    /\ row[c].status = "online" => ~SilentSince(c, swept - Skew - StaleAfter)
    /\ row[c].status = "stale" => ~SilentSince(c, swept - Skew - OfflineAfter)

\* NO CAM IS WRITTEN OFF EARLY.  A commit of the sweep lowers the status of
\* a cam only if the heartbeat the row holds then is past the threshold, by
\* the hub's clock: a heartbeat that arrives during the sweep is not
\* overtaken by it, and only the clocks' difference may cut a silence short.
NotWrittenOffEarly ==
  [][\A c \in Cams : row'[c].status # row[c].status =>
       /\ row'[c].status = "stale" =>
            \A t \in row[c].seen : now - t > StaleAfter - Skew
       /\ row'[c].status = "offline" =>
            \A t \in row[c].seen : now - t > OfflineAfter - Skew]_presenceVars

\* SILENCE IS NOTICED.  "A long pause just produces a bigger batch on the
\* next tick rather than losing transitions": a cam that was heard from and
\* falls silent ends up offline, across failed sweeps and restarts.
SilenceIsNoticed ==
  \A c \in Cams, t \in 0..LastBeat :
    row[c].seen = {t} ~> (row[c].status = "offline" \/ row[c].seen # {t})

=============================================================================
