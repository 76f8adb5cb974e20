------------------------------ MODULE LoginGate -----------------------------
(***************************************************************************)
(* POST /v1/auth/login up to the handler: TrustedProxyIP finds the client, *)
(* LoginRateLimiter reads the clock, waits for the lock of the limiter and *)
(* asks it.  Several requests are under way at once, so they may be        *)
(* decided in another order than they read the clock in.                   *)
(*                                                                         *)
(* One address is observed from some moment on, to count what it is given. *)
(***************************************************************************)
EXTENDS ClientAddress, LoginLimiter

CONSTANTS
  Clients,      \* the addresses logins come from
  Slots,        \* login requests that may be under way at once
  SentHops,     \* X-Forwarded-For as clients themselves send it
  SentRealIPs,  \* X-Real-IP as it reaches the hub
  Observed,     \* addresses whose logins may be counted
  Lag,          \* how long a request waits for the lock at most
  MaxTime       \* bound of the model: where the clock stops

ASSUME GateAssumption ==
  /\ Clients \subseteq Addrs /\ IPs = Addrs /\ Observed \subseteq IPs
  /\ SentHops \subseteq Seq(Addrs \cup {NoAddr})
  /\ SentRealIPs \subseteq Addrs \cup {NoAddr}
  /\ Lag \in Nat /\ 3 * Lag <= WindowSecs /\ MaxTime \in Nat

VARIABLES
  now,          \* the clock
  req,          \* the login in each slot: who sent it, whom it is charged to,
                \* its reading of the clock, and whether it came by a route
                \* that names its sender
  watch         \* history: what the observed address was given

gateVars == <<limiterVars, now, req, watch>>

NoLogin == [client |-> NoAddr, ip |-> NoAddr, named |-> TRUE, at |-> 0]

Waiting(s) == req[s] # NoLogin

GateTypeOK ==
  /\ LimiterTypeOK
  /\ now \in 0 .. MaxTime
  /\ req \in [Slots -> [client : Addrs \cup {NoAddr}, ip : Addrs \cup {NoAddr},
                        named : BOOLEAN, at : 0 .. MaxTime]]
  /\ \A w \in watch : w.ip \in Observed /\ w.since <= now /\ w.n \in Nat

GateInit ==
  /\ LimiterInit
  /\ now = 0
  /\ req = [s \in Slots |-> NoLogin]
  /\ watch = {}

\* What TrustedProxyIP can make of a client's login, for all the ways it can
\* come and the headers it can carry.
Resolved == [c \in Clients |->
  {[ip |-> ClientIP(Peer(c, route), ForwardedFor(c, route, sent), realIP),
    named |-> Named(route)] :
     route \in Routes, sent \in SentHops, realIP \in SentRealIPs}]

Arrive(s, c) ==
  /\ ~Waiting(s)
  /\ \E r \in Resolved[c] :
       req' = [req EXCEPT ![s] = [client |-> c, ip |-> r.ip, named |-> r.named, at |-> now]]
  /\ UNCHANGED <<limiterVars, now, watch>>

\* What the observer of an address notes: the logins charged to it that got
\* through in the window, and since its last one the first and latest refusal.
Noted(w, s, admitted) ==
  [w EXCEPT
     !.n = IF admitted /\ req[s].ip = w.ip /\ now < w.since + WindowSecs
           THEN @ + 1 ELSE @,
     !.refused =
       IF req[s].ip # w.ip THEN @
       ELSE IF admitted THEN {}
       ELSE IF @ = {} THEN {[first |-> req[s].at, latest |-> req[s].at]}
       ELSE {[f EXCEPT !.latest = req[s].at] : f \in @}]

\* The lock is taken: on to the handler, or 429.
Decide(s) ==
  /\ Waiting(s)
  /\ Allow(req[s].ip, req[s].at)
  /\ watch' = {Noted(w, s, Admits(req[s].ip, req[s].at)) : w \in watch}
  /\ req' = [req EXCEPT ![s] = NoLogin]
  /\ UNCHANGED now

Tick ==
  /\ now < MaxTime
  /\ \A s \in Slots : Waiting(s) => now < req[s].at + Lag
  /\ now' = now + 1
  /\ UNCHANGED <<limiterVars, req, watch>>

Observe(ip) ==
  /\ watch = {}
  /\ watch' = {[ip |-> ip, since |-> now, n |-> 0, refused |-> {}]}
  /\ UNCHANGED <<limiterVars, now, req>>

GateNext ==
  \/ \E s \in Slots, c \in Clients : Arrive(s, c)
  \/ \E s \in Slots : Decide(s)
  \/ Tick
  \/ \E ip \in Observed : Observe(ip)

GateSpec == GateInit /\ [][GateNext]_gateVars

-----------------------------------------------------------------------------
(* Properties *)

\* CHARGED TO THE CLIENT.  A login that came by a route whose proxies pass its
\* sender's address on counts against that address, whatever forwarding
\* headers it carried already.  TrustedProxyIP cannot do more: behind a tunnel
\* and a replacing proxy, as deploy/ sets them up, nothing names the sender.
ChargedToClient ==
  \A s \in Slots : Waiting(s) /\ req[s].named /\ req[s].client \notin Trusted
                     => req[s].ip = req[s].client

\* WINDOW BOUND.  However its logins are spaced, in whatever order they are
\* decided and whenever the sweep forgets buckets, an address is
\* charged within a window for no more logins than a full bucket and what is
\* refilled meanwhile allow.  Readings that are old
\* when they are used add at most three times their age: in the window's
\* start, in a sweep that comes too early, and in the bucket made after it.
WindowBound ==
  \A w \in watch :
    LET passed == IF now < w.since + WindowSecs THEN now - w.since ELSE WindowSecs
    IN Cost * w.n <= Full + (passed + 3 * Lag) * PerIP

\* NOT LOCKED OUT.  An address that keeps trying while it is refused is let
\* in again as soon as one token's worth of time has passed: the refusals
\* in between do not cost it the refill.
NotLockedOut ==
  \A w \in watch : \A f \in w.refused :
    (f.latest - f.first - Lag) * PerIP < Cost

=============================================================================
