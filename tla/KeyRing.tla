------------------------------ MODULE KeyRing -------------------------------
(***************************************************************************)
(* The ring of device-JWT keys: its file (internal/devicejwt/file.go), the *)
(* command that makes it (cmd/camhub/devicejwt.go), the copy the hub reads *)
(* once when it starts (cmd/camhub/main.go), and what Sign and Verify of   *)
(* internal/devicejwt/devicejwt.go do with that copy.                      *)
(*                                                                         *)
(* `camhub devicejwt init` is a process of its own, which may die between  *)
(* any two system calls; an operator runs one at a time.  No command       *)
(* rotates keys yet: the operator edits the file as its format foresees.   *)
(* A device JWT is known here by the kid it was signed under.              *)
(***************************************************************************)
EXTENDS Integers

CONSTANTS
  Kids,               \* key ids: a fresh one for each key pair generated
  RetirementWindow,   \* 30 days
  MaxTime             \* bound of the model: where the clock stops

ASSUME RingAssumption == RetirementWindow \in Nat /\ MaxTime \in Nat

VARIABLES
  now,          \* the clock
  file,         \* what stands at the path of the ring
  tmp,          \* what stands at path + ".tmp"
  init,         \* the init command that runs, and the key pair it drew
  hub,          \* {} or the ring in memory, with the time it was read
  signed,       \* kids of the JWTs cams hold
  drawn,        \* history: kids of all key pairs generated
  dropped       \* history: kids an init with --force did away with

ringVars == <<now, file, tmp, init, hub, signed, drawn, dropped>>

\* No file, and a file that is written in part.
Absent == [state |-> "absent"]
Half == [state |-> "half"]

IsRing(f) == f \notin {Absent, Half}

\* keys[k] holds RetiredAt, and nothing while it is nil.
RingOK(ring) ==
  /\ DOMAIN ring.keys \subseteq Kids /\ ring.current \in DOMAIN ring.keys
  /\ \A k \in DOMAIN ring.keys : ring.keys[k] \subseteq 0 .. now

NoInit == [pc |-> "idle", kid |-> {}, force |-> FALSE]

RingTypeOK ==
  /\ now \in 0 .. MaxTime
  /\ \A f \in {file, tmp} : IsRing(f) => RingOK(f)
  /\ init \in [pc : {"idle", "open", "write", "rename"}, kid : SUBSET Kids,
              force : BOOLEAN]
  /\ \A h \in hub : RingOK(h.ring) /\ h.read \in 0 .. now
  /\ signed \subseteq drawn /\ dropped \subseteq drawn /\ drawn \subseteq Kids

RingInit ==
  /\ now = 0
  /\ file = Absent /\ tmp = Absent
  /\ init = NoInit
  /\ hub = {}
  /\ signed = {} /\ drawn = {} /\ dropped = {}

-----------------------------------------------------------------------------
(* camhub devicejwt init --out path [--force] *)

\* (mutant) The ring-of-one names no key of its own as current.
NewRingNameless(k) == [keys |-> [x \in {k} |-> {}], current |-> {}]

NewRing(k) == [keys |-> [x \in {k} |-> {}], current |-> k]

Draw(k, force) ==
  /\ k \in Kids \ drawn
  /\ init' = [pc |-> "open", kid |-> {k}, force |-> force]
  /\ drawn' = drawn \cup {k}

\* (mutant) The command does not look whether there is a file.
InitStatSkipped(force) ==
  /\ init = NoInit
  /\ \E k \in Kids : Draw(k, force)
  /\ UNCHANGED <<now, file, tmp, hub, signed, dropped>>

\* An existing file is overwritten with --force only.
InitStat(force) ==
  /\ init = NoInit
  /\ force \/ file = Absent
  /\ \E k \in Kids : Draw(k, force)
  /\ UNCHANGED <<now, file, tmp, hub, signed, dropped>>

\* (mutant) The file is opened in place.
InitOpenInPlace ==
  /\ init.pc = "open"
  /\ file' = Half
  /\ init' = [init EXCEPT !.pc = "write"]
  /\ UNCHANGED <<now, tmp, hub, signed, drawn, dropped>>

\* os.WriteFile creates or truncates, then writes.
InitOpen ==
  /\ init.pc = "open"
  /\ tmp' = Half
  /\ init' = [init EXCEPT !.pc = "write"]
  /\ UNCHANGED <<now, file, hub, signed, drawn, dropped>>

InitWrite ==
  /\ init.pc = "write"
  /\ \E k \in init.kid : tmp' = NewRing(k)
  /\ init' = [init EXCEPT !.pc = "rename"]
  /\ UNCHANGED <<now, file, hub, signed, drawn, dropped>>

InitRename ==
  /\ init.pc = "rename"
  /\ file' = tmp /\ tmp' = Absent
  /\ dropped' = IF init.force /\ IsRing(file) THEN dropped \cup DOMAIN file.keys ELSE dropped
  /\ init' = NoInit
  /\ UNCHANGED <<now, hub, signed, drawn>>

\* Only a failed rename takes the temporary file away.
InitFails ==
  /\ init.pc \in {"open", "write", "rename"}
  /\ tmp' = IF init.pc = "rename" THEN Absent ELSE tmp
  /\ init' = NoInit
  /\ UNCHANGED <<now, file, hub, signed, drawn, dropped>>

InitDies ==
  /\ init # NoInit
  /\ init' = NoInit
  /\ UNCHANGED <<now, file, tmp, hub, signed, drawn, dropped>>

-----------------------------------------------------------------------------
(* The operator rotates: a new key becomes current, the old one retires. *)

Rotate ==
  /\ IsRing(file)
  /\ \E k \in Kids \ drawn :
       /\ file' = [keys |-> [x \in DOMAIN file.keys \cup {k} |->
                              IF x = k THEN {}
                              ELSE IF x = file.current THEN {now}
                              ELSE file.keys[x]],
                   current |-> k]
       /\ drawn' = drawn \cup {k}
  /\ UNCHANGED <<now, tmp, init, hub, signed, dropped>>

-----------------------------------------------------------------------------
(* camhub serve *)

\* LoadRingFile; without a whole ring the hub does not come up.
HubStart ==
  /\ hub = {}
  /\ IsRing(file)
  /\ hub' = {[ring |-> file, read |-> now]}
  /\ UNCHANGED <<now, file, tmp, init, signed, drawn, dropped>>

HubStop ==
  /\ hub # {}
  /\ hub' = {}
  /\ UNCHANGED <<now, file, tmp, init, signed, drawn, dropped>>

\* A registration ends with a JWT under the current key.
Sign ==
  /\ \E h \in hub : signed' = signed \cup {h.ring.current}
  /\ UNCHANGED <<now, file, tmp, init, hub, drawn, dropped>>

Tick ==
  /\ now < MaxTime
  /\ now' = now + 1
  /\ UNCHANGED <<file, tmp, init, hub, signed, drawn, dropped>>

\* (mutant) The window is not enforced.
VerifiesForEver(ring, k) == k \in DOMAIN ring.keys

\* What Verify answers a cam whose JWT was signed under k.
Verifies(ring, k) ==
  /\ k \in DOMAIN ring.keys
  /\ \A t \in ring.keys[k] : now - t <= RetirementWindow

RingNext ==
  \/ \E force \in BOOLEAN : InitStat(force)
  \/ InitOpen \/ InitWrite \/ InitRename \/ InitFails \/ InitDies
  \/ Rotate
  \/ HubStart \/ HubStop \/ Sign
  \/ Tick

RingSpec == RingInit /\ [][RingNext]_ringVars

-----------------------------------------------------------------------------
(* Properties *)

\* THE RING IS WHOLE.  "This avoids a half-written file becoming readable on
\* a crash mid-write": wherever an init fails or dies, with or without a ring
\* in its way, the path holds the old ring or the new one.
RingIsWhole == file # Half

\* When a key was retired according to the file.
RetiredOn(k) == IF IsRing(file) /\ k \in DOMAIN file.keys THEN file.keys[k] ELSE {}

\* JWTS ARE HONOURED.  A cam's JWT verifies on every hub that comes up, after
\* any number of restarts, rotations and init commands that were broken off,
\* until its key has been retired for the window.  Only --force ends it.
JwtsHonoured ==
  \A h \in hub, k \in signed \ dropped :
    (\A t \in RetiredOn(k) : now - t <= RetirementWindow) => Verifies(h.ring, k)

\* RETIRED KEYS EXPIRE.  Once a key has been retired for the window no hub
\* that was started since the retirement accepts its JWTs: only one that has
\* run on from before does.
RetiredKeysExpire ==
  \A h \in hub, k \in signed :
    \A t \in RetiredOn(k) :
      now - t > RetirementWindow /\ Verifies(h.ring, k) => h.read <= t

=============================================================================
