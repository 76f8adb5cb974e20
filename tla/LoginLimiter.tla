---------------------------- MODULE LoginLimiter ----------------------------
(***************************************************************************)
(* The token buckets of internal/httpapi/rate_limit.go: PerIP logins per   *)
(* address in a window of WindowSecs.  A bucket is refilled when it is     *)
(* used, by the time since its last use, and forgotten by a sweep once it  *)
(* has not been used for a window.                                         *)
(*                                                                         *)
(* Tokens are counted in parts of 1/WindowSecs, the refill of a second by  *)
(* one PerIP-th of a window; the rounding of the code's float64 is left    *)
(* out.  allow gets its time from its caller, who read the clock before    *)
(* taking the lock, so t may be earlier than what a bucket has seen.       *)
(***************************************************************************)
EXTENDS Integers

CONSTANTS
  IPs,          \* keys of the buckets
  PerIP,        \* CAMHUB_LOGIN_RATE_PER_IP
  WindowSecs    \* CAMHUB_LOGIN_RATE_WINDOW_SECS

\* With 0 for one of them LoginRateLimiter returns nil and nothing limits.
ASSUME RateAssumption == PerIP \in Nat \ {0} /\ WindowSecs \in Nat \ {0}

VARIABLES
  buckets,      \* buckets[ip]: {} or the one bucket of the address
  lastGC        \* when the idle sweep last ran

limiterVars == <<buckets, lastGC>>

Cost == WindowSecs
Full == PerIP * WindowSecs

Bucket == [tokens : Int, last : Nat]

LimiterTypeOK ==
  /\ buckets \in [IPs -> SUBSET Bucket]
  /\ \A ip \in IPs : \A b, c \in buckets[ip] : b = c /\ b.tokens <= Full
  /\ lastGC \in Nat

LimiterInit ==
  /\ buckets = [ip \in IPs |-> {}]
  /\ lastGC = 0

SweepDue(t) == t - lastGC >= WindowSecs

\* The buckets after the sweep that a call at t may have to make.
Swept(t) ==
  [ip \in IPs |->
     {b \in buckets[ip] : SweepDue(t) => t - b.last < WindowSecs}]

\* (mutant) A bucket fills above its brim.
RefilledUncapped(b, t) == b.tokens + (t - b.last) * PerIP

\* (mutant) Only whole tokens are refilled.
RefilledWhole(b, t) ==
  LET level == b.tokens + (((t - b.last) * PerIP) \div WindowSecs) * WindowSecs
  IN IF level < Full THEN level ELSE Full

Refilled(b, t) ==
  LET level == b.tokens + (t - b.last) * PerIP
  IN IF level < Full THEN level ELSE Full

\* A new bucket is full.
Level(ip, t) ==
  IF Swept(t)[ip] = {} THEN Full
  ELSE Refilled(CHOOSE b \in Swept(t)[ip] : TRUE, t)

Admits(ip, t) == Level(ip, t) >= Cost

\* (mutant) The time of the last refill is not stored.
AllowKeepsLast(ip, t) ==
  /\ buckets' = [Swept(t) EXCEPT ![ip] =
       {[tokens |-> IF Admits(ip, t) THEN Level(ip, t) - Cost ELSE Level(ip, t),
         last |-> IF @ = {} THEN t ELSE (CHOOSE b \in @ : TRUE).last]}]
  /\ lastGC' = IF SweepDue(t) THEN t ELSE lastGC

\* allow(ip, t), whose result is Admits(ip, t).  A refusal too stores what
\* was refilled, with its time.
Allow(ip, t) ==
  /\ buckets' = [Swept(t) EXCEPT ![ip] =
       {[tokens |-> IF Admits(ip, t) THEN Level(ip, t) - Cost ELSE Level(ip, t),
         last |-> t]}]
  /\ lastGC' = IF SweepDue(t) THEN t ELSE lastGC

=============================================================================
