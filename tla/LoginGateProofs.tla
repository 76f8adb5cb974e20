---------------------------- MODULE LoginGateProofs ----------------------------
(***************************************************************************)
(* Proofs about LoginGate, for any addresses and proxies, any rate, any    *)
(* number of logins under way and any header a client may send.            *)
(***************************************************************************)
EXTENDS LoginGate, SequenceTheorems, TLAPS

-----------------------------------------------------------------------------
(* The inductive invariant *)

WatchRecord == [ip : Observed, since : Nat, n : Nat,
                refused : SUBSET [first : Nat, latest : Nat]]

\* A login holds a reading of the clock that is at most Lag old.
GateTypeInv ==
  /\ GateTypeOK
  /\ \A s \in Slots : Waiting(s) => /\ req[s].client \in Clients /\ req[s].ip \in Addrs
                                    /\ req[s].at <= now /\ now <= req[s].at + Lag
  /\ watch \subseteq WatchRecord

\* A bucket is below zero only for what an old reading took back: it is
\* worth something again at the present time.
DebtInv ==
  \A ip \in IPs : \A b \in buckets[ip] :
    /\ (b.last - now) * PerIP <= b.tokens
    /\ - (Lag * PerIP) <= b.tokens

\* Between two refusals a bucket gains what its readings are apart.
RefusedInv ==
  \A w \in watch : \A f \in w.refused : \A b \in buckets[w.ip] :
    b.last = f.latest /\ (f.latest - f.first - Lag) * PerIP <= b.tokens

\* What an observed address was given and what its bucket still holds.  The
\* bucket in use since the observation began may be forgotten by a sweep at
\* the end of the window, and a second one be made.
Used(w) == Cost * w.n
InWindow(w) == now < w.since + WindowSecs

NoneSince(w) ==
  /\ buckets[w.ip] = {}
  /\ now >= w.since - Lag + WindowSecs
  /\ Used(w) <= Full + (now - WindowSecs - w.since + 2 * Lag) * PerIP

FirstSince(w, b) ==
  /\ b.last >= w.since - Lag
  /\ Used(w) + b.tokens <= Full + (b.last - w.since + Lag) * PerIP

SecondSince(w, b) ==
  /\ b.last >= w.since + WindowSecs - 2 * Lag
  /\ now >= w.since + WindowSecs - Lag
  /\ Used(w) + b.tokens <= Full + (b.last - w.since + 3 * Lag) * PerIP

SpentInv ==
  \A w \in watch : InWindow(w) /\ w.n # 0 =>
    NoneSince(w) \/ \E b \in buckets[w.ip] : FirstSince(w, b) \/ SecondSince(w, b)

\* After the window nothing is counted any more.
ClosedInv ==
  \A w \in watch : ~InWindow(w) => Used(w) <= Full + (WindowSecs + 3 * Lag) * PerIP

GateInv ==
  /\ GateTypeInv /\ ChargedToClient
  /\ DebtInv /\ RefusedInv /\ NotLockedOut
  /\ SpentInv /\ ClosedInv

-----------------------------------------------------------------------------
(* Whose login it is *)

Hops == Seq(Addrs \cup {NoAddr})

\* The walk finds the last hop that is not trusted.
LEMMA WalkFinds ==
  ASSUME NEW hops \in Hops, NEW n \in 1 .. Len(hops), hops[n] \in Addrs \ Trusted,
         \A k \in n + 1 .. Len(hops) : hops[k] \in Trusted
  PROVE  WalkXFF(hops) = {hops[n]}
<1>1. hops[n] # NoAddr /\ DOMAIN hops = 1 .. Len(hops) /\ Len(hops) \in Nat
  BY AddrsAssumption DEF Hops
<1>2. ASSUME NEW i \in DOMAIN hops, hops[i] \notin Trusted,
             \A k \in i + 1 .. Len(hops) : hops[k] \in Trusted
      PROVE  i = n
  <2>1. ~(i < n) /\ ~(n < i)
    BY <1>1, <1>2
  <2> QED
    BY <1>1, <2>1
<1>3. n \in {j \in DOMAIN hops : /\ hops[j] \notin Trusted
                                 /\ \A k \in j + 1 .. Len(hops) : hops[k] \in Trusted}
  BY <1>1
<1>4. {j \in DOMAIN hops : /\ hops[j] \notin Trusted
                           /\ \A k \in j + 1 .. Len(hops) : hops[k] \in Trusted} = {n}
  BY <1>2, <1>3
<1> QED
  BY <1>1, <1>4 DEF WalkXFF

\* What the walk finds is an address.
LEMMA WalkAddress ==
  ASSUME NEW hops \in Hops
  PROVE  WalkXFF(hops) \subseteq Addrs
BY DEF WalkXFF, Hops

\* What a proxy passes on is a sequence of addresses again.
LEMMA PassedIsHops ==
  ASSUME NEW hop, NEW caller \in Addrs, NEW xff \in Hops
  PROVE  Passed(hop, caller, xff) \in Hops
<1>1. <<caller>> \in Hops /\ Append(xff, caller) \in Hops
  BY DEF Hops
<1> QED
  BY <1>1 DEF Passed

\* The header that reaches the hub is a sequence of addresses.
LEMMA HeaderIsHops ==
  ASSUME NEW c \in Addrs, NEW route \in Routes, NEW sent \in Hops
  PROVE  ForwardedFor(c, route, sent) \in Hops
<1>2. \/ route = <<>>
      \/ \E p \in Proxies : route = <<p>>
      \/ \E p, q \in Proxies : route = <<p, q>>
  BY AddrsAssumption
<1>3. Proxies \subseteq Addrs
  BY AddrsAssumption
<1>4. CASE route = <<>>
  BY <1>4 DEF ForwardedFor
<1>5. CASE \E p \in Proxies : route = <<p>>
  BY <1>3, <1>5, PassedIsHops DEF ForwardedFor
<1>6. CASE \E p, q \in Proxies : route = <<p, q>>
  <2>1. PICK p \in Proxies, q \in Proxies : route = <<p, q>>
    BY <1>6
  <2>2. /\ ForwardedFor(c, route, sent) = Passed(q, p, Passed(p, c, sent))
        /\ p \in Addrs
    BY <1>3, <2>1 DEF ForwardedFor
  <2> QED
    BY <2>2, PassedIsHops
<1> QED
  BY <1>2, <1>4, <1>5, <1>6

\* After the client's address the header has only trusted ones.
NamesLast(c, xff) ==
  \E n \in 1 .. Len(xff) : /\ xff[n] = c
                           /\ \A k \in n + 1 .. Len(xff) : xff[k] \in Trusted

\* A proxy that is no tunnel names its caller, in place of the header or after it.
LEMMA CallerNamed ==
  ASSUME NEW c \in Addrs, NEW hop, hop \notin Tunnels, NEW xff \in Hops
  PROVE  NamesLast(c, Passed(hop, c, xff))
<1>1. CASE hop \in Replacing
  <2>1. /\ Passed(hop, c, xff) = <<c>> /\ Len(<<c>>) = 1 /\ <<c>>[1] = c
    BY <1>1 DEF Passed
  <2> QED
    BY <2>1 DEF NamesLast
<1>2. CASE hop \notin Replacing
  <2>1. /\ Len(xff) \in Nat /\ Len(Append(xff, c)) = Len(xff) + 1
        /\ Append(xff, c)[Len(xff) + 1] = c
    BY DEF Hops
  <2>2. NamesLast(c, Append(xff, c))
    BY <2>1 DEF NamesLast
  <2> QED
    BY <1>2, <2>2 DEF Passed
<1> QED
  BY <1>1, <1>2

\* A further proxy that does not overwrite the header leaves the name in it.
LEMMA NameKept ==
  ASSUME NEW c \in Addrs, NEW p \in Trusted, NEW hop, hop \notin Replacing,
         NEW xff \in Hops, NamesLast(c, xff)
  PROVE  NamesLast(c, Passed(hop, p, xff))
<1>1. CASE hop \in Tunnels
  BY <1>1 DEF Passed
<1>2. CASE hop \notin Tunnels
  <2>1. PICK n \in 1 .. Len(xff) :
          xff[n] = c /\ \A k \in n + 1 .. Len(xff) : xff[k] \in Trusted
    BY DEF NamesLast
  <2>2. /\ Len(xff) \in Nat /\ Len(Append(xff, p)) = Len(xff) + 1
        /\ Append(xff, p)[Len(xff) + 1] = p
        /\ \A k \in 1 .. Len(xff) : Append(xff, p)[k] = xff[k]
    BY AddrsAssumption DEF Hops
  <2>3. /\ n \in 1 .. Len(Append(xff, p)) /\ Append(xff, p)[n] = c
        /\ \A k \in n + 1 .. Len(Append(xff, p)) : Append(xff, p)[k] \in Trusted
    BY <2>1, <2>2
  <2>4. Passed(hop, p, xff) = Append(xff, p)
    BY <1>2 DEF Passed
  <2> QED
    BY <2>3, <2>4 DEF NamesLast
<1> QED
  BY <1>1, <1>2

\* On a route that passes the client's address on, the header names it.
LEMMA HeaderNames ==
  ASSUME NEW c \in Addrs, NEW route \in Routes, route # <<>>, Named(route),
         NEW sent \in Hops
  PROVE  NamesLast(c, ForwardedFor(c, route, sent))
<1>1. \/ \E p \in Proxies : route = <<p>>
      \/ \E p, q \in Proxies : route = <<p, q>>
  BY AddrsAssumption
<1>2. Proxies \subseteq Trusted /\ Trusted \subseteq Addrs
  BY AddrsAssumption
<1>3. CASE \E p \in Proxies : route = <<p>>
  <2>1. PICK p \in Proxies : route = <<p>>
    BY <1>3
  <2>2. p \notin Tunnels /\ ForwardedFor(c, route, sent) = Passed(p, c, sent)
    BY <2>1 DEF Named, ForwardedFor
  <2> QED
    BY <2>2, CallerNamed
<1>4. CASE \E p, q \in Proxies : route = <<p, q>>
  <2>1. PICK p \in Proxies, q \in Proxies : route = <<p, q>>
    BY <1>4
  <2>2. /\ p \notin Tunnels /\ q \notin Replacing
        /\ ForwardedFor(c, route, sent) = Passed(q, p, Passed(p, c, sent))
    BY <2>1 DEF Named, ForwardedFor
  <2>3. Passed(p, c, sent) \in Hops
    BY PassedIsHops
  <2>4. NamesLast(c, Passed(p, c, sent))
    BY <2>2, CallerNamed
  <2> QED
    BY <1>2, <2>2, <2>3, <2>4, NameKept
<1> QED
  BY <1>1, <1>3, <1>4

\* Whatever a client's login carries, it resolves to an address, and to the
\* client's own if the route passes that on and it is in no trusted range.
LEMMA ClientFound ==
  ASSUME NEW c \in Clients, NEW r \in Resolved[c]
  PROVE  /\ r.ip \in Addrs /\ r.named \in BOOLEAN
         /\ r.named /\ c \notin Trusted => r.ip = c
<1>1. PICK route \in Routes, sent \in SentHops, realIP \in SentRealIPs :
        r = [ip |-> ClientIP(Peer(c, route), ForwardedFor(c, route, sent), realIP),
             named |-> Named(route)]
  BY DEF Resolved
<1> DEFINE xff == ForwardedFor(c, route, sent)
<1>2. /\ r.ip = ClientIP(Peer(c, route), xff, realIP)
      /\ r.named = Named(route)
  BY <1>1
<1>3. c \in Addrs /\ sent \in Hops /\ realIP \in Addrs \cup {NoAddr}
  BY GateAssumption DEF Hops
<1>4. Proxies \subseteq Trusted /\ Trusted \subseteq Addrs /\ NoAddr \notin Addrs
  BY AddrsAssumption
<1>5. r.named \in BOOLEAN
  BY <1>2 DEF Named
<1>6. WalkXFF(xff) \subseteq Addrs
  BY <1>3, HeaderIsHops, WalkAddress
<1>7. WalkXFF(xff) # {} => (CHOOSE a \in WalkXFF(xff) : TRUE) \in Addrs
  BY <1>6
<1>8. CASE route = <<>>
  <2>1. Peer(c, route) = c
    BY <1>8 DEF Peer
  <2> QED
    BY <1>2, <1>3, <1>5, <1>7, <2>1 DEF ClientIP
<1>9. CASE route # <<>>
  <2>1. Peer(c, route) \in Proxies
    BY <1>9, AddrsAssumption DEF Peer
  <2>2. r.ip \in Addrs
    BY <1>2, <1>3, <1>4, <1>7, <2>1 DEF ClientIP
  <2>3. ASSUME Named(route), c \notin Trusted PROVE r.ip = c
    <3>1. xff \in Hops /\ NamesLast(c, xff)
      BY <1>3, <1>9, <2>3, HeaderIsHops, HeaderNames
    <3>2. WalkXFF(xff) = {c}
      BY <1>3, <2>3, <3>1, WalkFinds DEF NamesLast
    <3> QED
      BY <1>2, <1>4, <2>1, <3>2 DEF ClientIP
  <2> QED
    BY <1>2, <1>5, <2>2, <2>3
<1> QED
  BY <1>8, <1>9

-----------------------------------------------------------------------------
(* Buckets *)

\* What the refill of a time is worth.
LEMMA Refill ==
  /\ Cost \in Nat \ {0} /\ Full \in Nat /\ Full = WindowSecs * PerIP /\ Cost <= Full
  /\ PerIP \in Nat \ {0} /\ WindowSecs \in Nat \ {0}
  /\ Lag \in Nat /\ 3 * Lag <= WindowSecs /\ Lag * PerIP \in Nat
  /\ \A a \in Int : a * PerIP \in Int
  /\ \A a, b \in Int : a <= b => a * PerIP <= b * PerIP
<1>1. /\ PerIP \in Nat \ {0} /\ WindowSecs \in Nat \ {0}
      /\ Lag \in Nat /\ 3 * Lag <= WindowSecs
  BY RateAssumption, GateAssumption
<1>2. Cost \in Nat \ {0} /\ Full \in Nat /\ Full = WindowSecs * PerIP /\ Cost <= Full
  BY <1>1 DEF Cost, Full
<1>3. Lag * PerIP \in Nat /\ \A a \in Int : a * PerIP \in Int
  BY <1>1
<1>4. ASSUME NEW a \in Int, NEW b \in Int, a <= b PROVE a * PerIP <= b * PerIP
  <2> DEFINE d == b - a
  <2>1. d \in Nat /\ b = a + d
    BY <1>4
  <2> HIDE DEF d
  <2>2. d * PerIP \in Nat /\ (a + d) * PerIP = a * PerIP + d * PerIP
    BY <1>1, <2>1
  <2>3. a * PerIP \in Int
    BY <1>1
  <2> QED
    BY <2>1, <2>2, <2>3
<1> QED
  BY <1>1, <1>2, <1>3, <1>4

\* A call finds a full bucket where there is none in use, and else what the
\* bucket held and gained, up to the brim.
Fresh(ip, t, level) ==
  level = Full /\ \A b \in buckets[ip] : t - b.last >= WindowSecs
Kept(b, t, level) ==
  /\ level <= b.tokens + (t - b.last) * PerIP
  /\ level < Full => level = b.tokens + (t - b.last) * PerIP
  /\ level <= Full /\ (level = Full \/ level = b.tokens + (t - b.last) * PerIP)

\* The level of a bucket is that of a new one, or of one kept and refilled.
LEMMA LevelIs ==
  ASSUME LimiterTypeOK, NEW ip \in IPs, NEW t \in Nat
  PROVE  /\ Level(ip, t) \in Int /\ Level(ip, t) <= Full
         /\ Fresh(ip, t, Level(ip, t)) \/ \E b \in buckets[ip] : Kept(b, t, Level(ip, t))
<1>1. /\ buckets[ip] \in SUBSET Bucket /\ lastGC \in Nat
      /\ \A b, c \in buckets[ip] : b = c
  BY DEF LimiterTypeOK
<1>2. Swept(t)[ip] = {b \in buckets[ip] : SweepDue(t) => t - b.last < WindowSecs}
  BY DEF Swept
<1>3. CASE Swept(t)[ip] = {}
  <2>1. Level(ip, t) = Full
    BY <1>3 DEF Level
  <2>2. \A b \in buckets[ip] : t - b.last >= WindowSecs
    BY <1>1, <1>2, <1>3, Refill DEF Bucket
  <2> QED
    BY <2>1, <2>2, Refill DEF Fresh
<1>4. CASE Swept(t)[ip] # {}
  <2>1. PICK b \in buckets[ip] : Swept(t)[ip] = {b}
    BY <1>1, <1>2, <1>4
  <2>2. Level(ip, t) = Refilled(b, t)
    BY <2>1 DEF Level
  <2>3. b.tokens \in Int /\ b.last \in Nat
    BY <1>1 DEF Bucket
  <2>4. (t - b.last) * PerIP \in Int
    BY <2>3, Refill
  <2> DEFINE gain == (t - b.last) * PerIP
  <2>5. Refilled(b, t) = IF b.tokens + gain < Full THEN b.tokens + gain ELSE Full
    BY DEF Refilled
  <2>6. Kept(b, t, Level(ip, t)) <=>
          /\ Level(ip, t) <= b.tokens + gain
          /\ Level(ip, t) < Full => Level(ip, t) = b.tokens + gain
          /\ Level(ip, t) <= Full /\ (Level(ip, t) = Full \/ Level(ip, t) = b.tokens + gain)
    BY DEF Kept
  <2> HIDE DEF gain
  <2>7. Level(ip, t) \in Int /\ Level(ip, t) <= Full /\ Kept(b, t, Level(ip, t))
    BY <2>2, <2>3, <2>4, <2>5, <2>6, Refill DEF gain
  <2> QED
    BY <2>7
<1> QED
  BY <1>3, <1>4

\* The bucket a call leaves: less a token if it admits.
Left(ip, t) ==
  [tokens |-> IF Admits(ip, t) THEN Level(ip, t) - Cost ELSE Level(ip, t), last |-> t]

\* A call writes the bucket of its address and at most sweeps others.
LEMMA AllowBuckets ==
  ASSUME LimiterTypeOK, NEW ip \in IPs, NEW t \in Nat, Allow(ip, t)
  PROVE  /\ buckets'[ip] = {Left(ip, t)}
         /\ Left(ip, t) \in Bucket /\ Left(ip, t).last = t
         /\ Left(ip, t).tokens = IF Admits(ip, t) THEN Level(ip, t) - Cost ELSE Level(ip, t)
         /\ \A other \in IPs : other # ip =>
              /\ buckets'[other] \subseteq buckets[other]
              /\ \A b \in buckets[other] : b \in buckets'[other] \/ t - b.last >= WindowSecs
         /\ LimiterTypeOK'
<1>1. /\ buckets \in [IPs -> SUBSET Bucket] /\ lastGC \in Nat
      /\ \A i \in IPs : \A b, c \in buckets[i] : b = c /\ b.tokens <= Full
  BY DEF LimiterTypeOK
<1>2. Swept(t) \in [IPs -> SUBSET Bucket]
  BY <1>1 DEF Swept
<1>3. buckets' = [Swept(t) EXCEPT ![ip] = {Left(ip, t)}]
  BY <1>2 DEF Allow, Left
<1>4. /\ buckets'[ip] = {Left(ip, t)}
      /\ \A other \in IPs : other # ip => buckets'[other] = Swept(t)[other]
      /\ buckets' \in [IPs -> SUBSET (Bucket \cup {Left(ip, t)})]
  BY <1>2, <1>3
<1>5. \A other \in IPs : Swept(t)[other] =
        {b \in buckets[other] : SweepDue(t) => t - b.last < WindowSecs}
  BY DEF Swept
<1>6. /\ Left(ip, t).last = t
      /\ Left(ip, t).tokens = IF Admits(ip, t) THEN Level(ip, t) - Cost ELSE Level(ip, t)
  BY DEF Left
<1>7. Left(ip, t) \in Bucket /\ Left(ip, t).tokens <= Full
  <2>1. Level(ip, t) \in Int /\ Level(ip, t) <= Full
    BY LevelIs
  <2> QED
    BY <2>1, Refill DEF Left, Bucket
<1>8. \A other \in IPs : other # ip =>
        /\ buckets'[other] \subseteq buckets[other]
        /\ \A b \in buckets[other] : b \in buckets'[other] \/ t - b.last >= WindowSecs
  <2>1. ASSUME NEW other \in IPs, other # ip, NEW b \in buckets[other], b \notin buckets'[other]
        PROVE  t - b.last >= WindowSecs
    <3>1. ~(t - b.last < WindowSecs) /\ b.last \in Nat
      BY <1>1, <1>4, <1>5, <2>1 DEF Bucket
    <3> QED
      BY <3>1, Refill
  <2> QED
    BY <1>4, <1>5, <2>1
<1>9. LimiterTypeOK'
  <2>1. buckets' \in [IPs -> SUBSET Bucket]
    BY <1>4, <1>7
  <2>2. lastGC' \in Nat
    BY <1>1 DEF Allow
  <2>3. \A i \in IPs : \A b, c \in buckets'[i] : b = c /\ b.tokens <= Full
    BY <1>1, <1>4, <1>7, <1>8
  <2>4. Full' = Full
    BY DEF Full
  <2> QED
    BY <2>1, <2>2, <2>3, <2>4 DEF LimiterTypeOK
<1> QED
  BY <1>4, <1>6, <1>7, <1>8, <1>9

-----------------------------------------------------------------------------
(* What an observer notes, and what a decision finds *)

\* What an observer notes of one decision.
LEMMA NotedIs ==
  ASSUME GateTypeInv, NEW s \in Slots, NEW w \in watch, NEW admitted \in BOOLEAN
  PROVE  LET v == Noted(w, s, admitted)
         IN /\ v \in WatchRecord /\ w \in WatchRecord
            /\ v.ip = w.ip /\ v.since = w.since
            /\ v.n = IF admitted /\ req[s].ip = w.ip /\ InWindow(w)
                       THEN w.n + 1 ELSE w.n
            /\ req[s].ip # w.ip => v.refused = w.refused
            /\ req[s].ip = w.ip =>
                 \/ v.refused = {}
                 \/ /\ ~admitted
                    /\ \A f \in v.refused :
                         /\ f.latest = req[s].at
                         /\ \/ f.first = req[s].at
                            \/ \E g \in w.refused : f.first = g.first
<1> DEFINE v == Noted(w, s, admitted)
           at == req[s].at
           again == {[f EXCEPT !.latest = at] : f \in w.refused}
<1>1. w \in WatchRecord /\ at \in Nat
  BY DEF GateTypeInv, GateTypeOK
<1>2. w.n \in Nat /\ w.refused \in SUBSET [first : Nat, latest : Nat]
      /\ w.ip \in Observed /\ w.since \in Nat
  BY <1>1 DEF WatchRecord
<1>3. \A f \in again : /\ f \in [first : Nat, latest : Nat] /\ f.latest = at
                       /\ \E g \in w.refused : f.first = g.first
  BY <1>1, <1>2
<1> DEFINE newN == IF admitted /\ req[s].ip = w.ip /\ InWindow(w)
                     THEN w.n + 1 ELSE w.n
           newRefused == IF req[s].ip # w.ip THEN w.refused
                         ELSE IF admitted THEN {}
                         ELSE IF w.refused = {} THEN {[first |-> at, latest |-> at]}
                         ELSE again
<1>4. v = [w EXCEPT !.n = newN, !.refused = newRefused]
  BY DEF Noted, InWindow
<1>5. newN \in Nat
  BY <1>2
<1>6. newRefused \in SUBSET [first : Nat, latest : Nat]
  BY <1>1, <1>2, <1>3
<1>7. req[s].ip # w.ip => newRefused = w.refused
  OBVIOUS
<1>8. req[s].ip = w.ip =>
        \/ newRefused = {}
        \/ /\ ~admitted
           /\ \A f \in newRefused :
                /\ f.latest = at
                /\ f.first = at \/ \E g \in w.refused : f.first = g.first
  BY <1>3
<1> HIDE DEF newN, newRefused, again
<1>9. v \in WatchRecord /\ v.ip = w.ip /\ v.since = w.since
      /\ v.n = newN /\ v.refused = newRefused
  BY <1>1, <1>2, <1>4, <1>5, <1>6 DEF WatchRecord
<1> HIDE DEF v
<1> QED
  BY <1>1, <1>7, <1>8, <1>9 DEF newN, v

\* A decision is of a login read at most Lag ago, and writes its bucket.
LEMMA DecideFacts ==
  ASSUME GateTypeInv, NEW s \in Slots, Decide(s)
  PROVE  /\ req[s].ip \in IPs /\ req[s].client \in Clients
         /\ req[s].at \in Nat /\ now \in Nat /\ now' = now
         /\ req[s].at <= now /\ now <= req[s].at + Lag
         /\ LimiterTypeOK /\ Allow(req[s].ip, req[s].at)
         /\ Admits(req[s].ip, req[s].at) \in BOOLEAN
BY GateAssumption DEF Decide, GateTypeInv, GateTypeOK, Admits

\* A refused login found a bucket and kept what it had gained.
LEMMA RefusedKept ==
  ASSUME GateTypeInv, NEW s \in Slots, Decide(s), ~Admits(req[s].ip, req[s].at)
  PROVE  \E b \in buckets[req[s].ip] :
           Level(req[s].ip, req[s].at) = b.tokens + (req[s].at - b.last) * PerIP
<1> DEFINE ip == req[s].ip
           t == req[s].at
<1>1. Level(ip, t) \in Int /\ Level(ip, t) < Full
  <2>1. Level(ip, t) \in Int
    BY DecideFacts, LevelIs
  <2> QED
    BY <2>1, Refill DEF Admits
<1>2. Fresh(ip, t, Level(ip, t)) \/ \E b \in buckets[ip] : Kept(b, t, Level(ip, t))
  BY DecideFacts, LevelIs
<1> QED
  BY <1>1, <1>2, Refill DEF Fresh, Kept

-----------------------------------------------------------------------------
(* A login is decided *)

\* A decision keeps the types and whose login it is.
LEMMA DecideKeepsType ==
  ASSUME GateTypeInv, ChargedToClient, NEW s \in Slots, Decide(s)
  PROVE  GateTypeInv' /\ ChargedToClient'
<1> DEFINE ip == req[s].ip
           t == req[s].at
<1>1. /\ ip \in IPs /\ t \in Nat /\ now' = now /\ LimiterTypeOK /\ Allow(ip, t)
      /\ Admits(ip, t) \in BOOLEAN
  BY DecideFacts
<1>2. LimiterTypeOK'
  BY <1>1, AllowBuckets
<1>3. /\ req \in [Slots -> [client : Addrs \cup {NoAddr}, ip : Addrs \cup {NoAddr},
                            named : BOOLEAN, at : 0 .. MaxTime]]
      /\ req' = [req EXCEPT ![s] = NoLogin]
      /\ watch' = {Noted(w, s, Admits(ip, t)) : w \in watch}
  BY DEF GateTypeInv, GateTypeOK, Decide
<1>4. NoLogin \in [client : Addrs \cup {NoAddr}, ip : Addrs \cup {NoAddr}, named : BOOLEAN, at : 0 .. MaxTime]
  BY GateAssumption DEF NoLogin
<1>5. req' \in [Slots -> [client : Addrs \cup {NoAddr}, ip : Addrs \cup {NoAddr},
                          named : BOOLEAN, at : 0 .. MaxTime]]
  BY <1>3, <1>4
<1>6. \A q \in Slots : Waiting(q)' => Waiting(q) /\ req'[q] = req[q]
  BY <1>3 DEF Waiting
<1>7. \A v \in watch' : /\ v \in WatchRecord
                        /\ \E w \in watch : v.ip = w.ip /\ v.since = w.since
  BY <1>1, <1>3, NotedIs
<1>8. \A v \in watch' : v.ip \in Observed /\ v.since <= now /\ v.n \in Nat
  BY <1>7, GateAssumption DEF GateTypeInv, GateTypeOK, WatchRecord
<1>9. GateTypeOK'
  BY <1>1, <1>2, <1>5, <1>8 DEF GateTypeInv, GateTypeOK
<1>10. GateTypeInv'
  BY <1>1, <1>6, <1>7, <1>9 DEF GateTypeInv
<1>11. ChargedToClient'
  BY <1>6 DEF ChargedToClient
<1> QED
  BY <1>10, <1>11

\* A decision keeps the debt of each bucket.
LEMMA DecideKeepsDebt ==
  ASSUME GateTypeInv, DebtInv, NEW s \in Slots, Decide(s)
  PROVE  DebtInv'
<1> DEFINE ip == req[s].ip
           t == req[s].at
           L == Level(ip, t)
<1>1. /\ ip \in IPs /\ t \in Nat /\ now \in Nat /\ now' = now /\ t <= now /\ now <= t + Lag
      /\ LimiterTypeOK /\ Allow(ip, t)
  BY DecideFacts
<1>2. L \in Int
  BY <1>1, LevelIs
<1>3. (t - now) * PerIP <= 0 /\ - (Lag * PerIP) <= (t - now) * PerIP
      /\ (t - now) * PerIP \in Int
  <2>1. t - now \in Int /\ t - now <= 0 /\ -Lag \in Int /\ -Lag <= t - now
    BY <1>1, Refill
  <2>2. (t - now) * PerIP <= 0 * PerIP /\ (-Lag) * PerIP <= (t - now) * PerIP
    BY <2>1, Refill
  <2> QED
    BY <1>1, <2>2, Refill
<1>4. (t - now) * PerIP <= Left(ip, t).tokens
  <2>1. CASE Admits(ip, t)
    <3>1. Left(ip, t).tokens = L - Cost /\ Cost <= L
      BY <1>1, <2>1, AllowBuckets DEF Admits
    <3> QED
      BY <1>2, <1>3, <3>1, Refill
  <2>2. CASE ~Admits(ip, t)
    <3>1. Left(ip, t).tokens = L
      BY <1>1, <2>2, AllowBuckets
    <3>2. PICK b \in buckets[ip] : L = b.tokens + (t - b.last) * PerIP
      BY <2>2, RefusedKept
    <3>3. b.tokens \in Int /\ b.last \in Nat
      BY <1>1, <3>2 DEF LimiterTypeOK, Bucket
    <3>4. (b.last - now) * PerIP <= b.tokens
      BY <1>1, <3>2 DEF DebtInv
    <3> QED
      BY <1>1, <3>1, <3>2, <3>3, <3>4, Refill
  <2> QED
    BY <2>1, <2>2
<1>5. Left(ip, t) \in Bucket /\ Left(ip, t).last = t /\ buckets'[ip] = {Left(ip, t)}
  BY <1>1, AllowBuckets
<1>6. Left(ip, t).tokens \in Int
  BY <1>5 DEF Bucket
<1>7. - (Lag * PerIP) <= Left(ip, t).tokens
  BY <1>3, <1>4, <1>6, Refill
<1>8. ASSUME NEW other \in IPs, NEW b \in buckets'[other]
      PROVE  (b.last - now) * PerIP <= b.tokens /\ - (Lag * PerIP) <= b.tokens
  <2>1. CASE other = ip
    BY <1>4, <1>5, <1>7, <1>8, <2>1
  <2>2. CASE other # ip
    <3>1. b \in buckets[other]
      BY <1>1, <1>8, <2>2, AllowBuckets
    <3> QED
      BY <3>1 DEF DebtInv
  <2> QED
    BY <2>1, <2>2
<1> QED
  BY <1>1, <1>8 DEF DebtInv

\* A decision keeps what refusals say, and locks nobody out.
LEMMA DecideKeepsRefused ==
  ASSUME GateTypeInv, DebtInv, RefusedInv, NotLockedOut, NEW s \in Slots, Decide(s)
  PROVE  RefusedInv' /\ NotLockedOut'
<1> DEFINE ip == req[s].ip
           t == req[s].at
           L == Level(ip, t)
<1>1. /\ ip \in IPs /\ t \in Nat /\ now \in Nat /\ now' = now /\ t <= now /\ now <= t + Lag
      /\ LimiterTypeOK /\ Allow(ip, t) /\ Admits(ip, t) \in BOOLEAN
  BY DecideFacts
<1>2. L \in Int
  BY <1>1, LevelIs
<1>3. /\ buckets'[ip] = {Left(ip, t)} /\ Left(ip, t).last = t
      /\ \A other \in IPs : other # ip => buckets'[other] \subseteq buckets[other]
  BY <1>1, AllowBuckets
<1>4. Cost' = Cost
  BY DEF Cost
<1>5. ASSUME NEW v \in watch', NEW f \in v.refused
      PROVE  /\ \A b \in buckets'[v.ip] :
                  b.last = f.latest /\ (f.latest - f.first - Lag) * PerIP <= b.tokens
             /\ (f.latest - f.first - Lag) * PerIP < Cost
  <2>1. PICK w \in watch : v = Noted(w, s, Admits(ip, t))
    BY DEF Decide
  <2>2. /\ w \in WatchRecord /\ v.ip = w.ip
        /\ ip # w.ip => v.refused = w.refused
        /\ ip = w.ip =>
             /\ ~Admits(ip, t)
             /\ f.latest = t
             /\ f.first = t \/ \E g \in w.refused : f.first = g.first
    BY <1>1, <1>5, <2>1, NotedIs
  <2>3. w.ip \in IPs /\ w.refused \in SUBSET [first : Nat, latest : Nat]
    BY <2>2, GateAssumption DEF WatchRecord
  <2>4. CASE ip # w.ip
    BY <1>3, <2>2, <2>3, <2>4 DEF RefusedInv, NotLockedOut
  <2>5. CASE ip = w.ip
    <3>1. PICK b \in buckets[ip] : L = b.tokens + (t - b.last) * PerIP
      BY <2>2, <2>5, RefusedKept
    <3>2. b.tokens \in Int /\ b.last \in Nat
      BY <1>1, <3>1 DEF LimiterTypeOK, Bucket
    <3>3. L < Cost /\ Left(ip, t).tokens = L
      BY <1>1, <1>2, <2>2, <2>5, AllowBuckets, Refill DEF Admits
    <3>4. (t - f.first - Lag) * PerIP <= L
      <4>1. CASE f.first = t
        <5>1. DebtInv' /\ Left(ip, t) \in buckets'[ip]
          BY <1>3, DecideKeepsDebt
        <5>2. - (Lag * PerIP) <= L
          BY <1>1, <3>3, <5>1 DEF DebtInv
        <5> QED
          BY <1>1, <1>2, <4>1, <5>2, Refill
      <4>2. CASE \E g \in w.refused : f.first = g.first
        <5>1. PICK g \in w.refused : f.first = g.first
          BY <4>2
        <5>2. /\ b.last = g.latest
              /\ (g.latest - g.first - Lag) * PerIP <= b.tokens
          BY <2>1, <2>5, <3>1, <5>1 DEF RefusedInv
        <5>3. g.first \in Nat /\ g.latest \in Nat
          BY <2>3, <5>1
        <5> QED
          BY <1>1, <3>1, <3>2, <5>1, <5>2, <5>3, Refill
      <4> QED
        BY <2>2, <2>5, <4>1, <4>2
    <3>5. f.first \in Nat
      BY <1>1, <2>2, <2>3, <2>5
    <3>6. (t - f.first - Lag) * PerIP \in Int
      BY <1>1, <3>5, Refill
    <3>7. (t - f.first - Lag) * PerIP < Cost
      BY <1>2, <3>3, <3>4, <3>6, Refill
    <3> QED
      BY <1>3, <2>2, <2>5, <3>3, <3>4, <3>7
  <2> QED
    BY <2>4, <2>5
<1> QED
  BY <1>4, <1>5 DEF RefusedInv, NotLockedOut

\* In the window an address was given no more than its bucket had.
LEMMA UsedBound ==
  ASSUME GateTypeInv, DebtInv, SpentInv, NEW w \in watch, InWindow(w)
  PROVE  Used(w) <= Full + (now - w.since + 3 * Lag) * PerIP
<1>1. /\ w.since \in Nat /\ now \in Nat /\ w.since <= now /\ w.n \in Nat
      /\ w.ip \in IPs /\ Used(w) \in Int
  BY GateAssumption, Refill DEF GateTypeInv, GateTypeOK, WatchRecord, Used
<1>2. Lag \in Nat /\ WindowSecs \in Nat /\ PerIP \in Nat /\ Full \in Nat
      /\ (now - w.since + 3 * Lag) * PerIP \in Int
  BY <1>1, Refill
<1>3. CASE w.n = 0
  <2>1. 0 * PerIP <= (now - w.since + 3 * Lag) * PerIP
    BY <1>1, <1>2, Refill
  <2>2. Used(w) = 0
    BY <1>3, Refill DEF Used
  <2> QED
    BY <1>2, <2>1, <2>2
<1>4. CASE NoneSince(w)
  <2>1. (now - WindowSecs - w.since + 2 * Lag) * PerIP <= (now - w.since + 3 * Lag) * PerIP
    BY <1>1, <1>2, Refill
  <2> QED
    BY <1>1, <1>2, <1>4, <2>1 DEF NoneSince
<1>5. ASSUME NEW b \in buckets[w.ip], FirstSince(w, b) \/ SecondSince(w, b)
      PROVE  Used(w) <= Full + (now - w.since + 3 * Lag) * PerIP
  <2>1. b.tokens \in Int /\ b.last \in Nat
    BY <1>1 DEF GateTypeInv, GateTypeOK, LimiterTypeOK, Bucket
  <2>2. (b.last - now) * PerIP <= b.tokens
    BY <1>1 DEF DebtInv
  <2>3. (b.last - w.since + Lag) * PerIP <= (b.last - w.since + 3 * Lag) * PerIP
    BY <1>1, <1>2, <2>1, Refill
  <2>4. Used(w) + b.tokens <= Full + (b.last - w.since + 3 * Lag) * PerIP
    BY <1>1, <1>2, <1>5, <2>1, <2>3 DEF FirstSince, SecondSince
  <2> QED
    BY <1>1, <1>2, <2>1, <2>2, <2>4
<1> QED
  BY <1>3, <1>4, <1>5 DEF SpentInv

\* A sweep forgets the first bucket only when the window is nearly over, and
\* never the second.
LEMMA Forgotten ==
  ASSUME GateTypeInv, DebtInv, NEW w \in watch, InWindow(w), NEW b \in buckets[w.ip],
         NEW t \in Nat, t <= now, now <= t + Lag, t - b.last >= WindowSecs
  PROVE  /\ FirstSince(w, b) =>
              /\ t >= w.since - Lag + WindowSecs
              /\ Used(w) <= Full + (t - WindowSecs - w.since + 2 * Lag) * PerIP
         /\ ~SecondSince(w, b)
<1>1. /\ w.since \in Nat /\ now \in Nat /\ w.since <= now /\ w.n \in Nat
      /\ w.ip \in IPs /\ Used(w) \in Int
  BY GateAssumption, Refill DEF GateTypeInv, GateTypeOK, WatchRecord, Used
<1>2. /\ Lag \in Nat /\ WindowSecs \in Nat /\ PerIP \in Nat /\ Full \in Nat
      /\ 3 * Lag <= WindowSecs
  BY Refill
<1>3. b.tokens \in Int /\ b.last \in Nat
  BY <1>1 DEF GateTypeInv, GateTypeOK, LimiterTypeOK, Bucket
<1>4. - (Lag * PerIP) <= b.tokens
  BY <1>1 DEF DebtInv
<1>5. (b.last - w.since + 2 * Lag) * PerIP
        <= (t - WindowSecs - w.since + 2 * Lag) * PerIP
  BY <1>1, <1>2, <1>3, Refill
<1>6. ASSUME FirstSince(w, b)
      PROVE  /\ t >= w.since - Lag + WindowSecs
             /\ Used(w) <= Full + (t - WindowSecs - w.since + 2 * Lag) * PerIP
  <2>1. b.last >= w.since - Lag /\ Used(w) + b.tokens <= Full + (b.last - w.since + Lag) * PerIP
    BY <1>6 DEF FirstSince
  <2>2. t >= w.since - Lag + WindowSecs
    BY <1>1, <1>2, <1>3, <2>1
  <2>3. Used(w) <= Full + (b.last - w.since + 2 * Lag) * PerIP
    BY <1>1, <1>2, <1>3, <1>4, <2>1
  <2>4. (b.last - w.since + 2 * Lag) * PerIP \in Int
        /\ (t - WindowSecs - w.since + 2 * Lag) * PerIP \in Int
    BY <1>1, <1>2, <1>3, Refill
  <2>5. Used(w) <= Full + (t - WindowSecs - w.since + 2 * Lag) * PerIP
    BY <1>1, <1>2, <1>5, <2>3, <2>4
  <2> QED
    BY <2>2, <2>5
<1>7. ~SecondSince(w, b)
  BY <1>1, <1>2, <1>3 DEF SecondSince, InWindow
<1> QED
  BY <1>6, <1>7

\* What a call finds in the bucket of an observed address, with what the
\* address was given already.
LEMMA LevelSpent ==
  ASSUME GateTypeInv, DebtInv, SpentInv, NEW w \in watch, InWindow(w),
         NEW t \in Nat, t <= now, now <= t + Lag
  PROVE  LET L == Level(w.ip, t)
         IN \/ /\ t >= w.since - Lag
               /\ Used(w) + L <= Full + (t - w.since + Lag) * PerIP
            \/ /\ t >= w.since + WindowSecs - 2 * Lag
               /\ now >= w.since + WindowSecs - Lag
               /\ Used(w) + L <= Full + (t - w.since + 3 * Lag) * PerIP
<1> DEFINE L == Level(w.ip, t)
           First == /\ t >= w.since - Lag
                    /\ Used(w) + L <= Full + (t - w.since + Lag) * PerIP
           Second == /\ t >= w.since + WindowSecs - 2 * Lag
                     /\ now >= w.since + WindowSecs - Lag
                     /\ Used(w) + L <= Full + (t - w.since + 3 * Lag) * PerIP
<1>1. /\ w.since \in Nat /\ now \in Nat /\ w.since <= now /\ w.n \in Nat
      /\ w.ip \in IPs /\ Used(w) \in Int /\ LimiterTypeOK
  BY GateAssumption, Refill DEF GateTypeInv, GateTypeOK, WatchRecord, Used
<1>2. /\ Lag \in Nat /\ WindowSecs \in Nat /\ PerIP \in Nat /\ Full \in Nat
      /\ Full = WindowSecs * PerIP
  BY Refill
<1>3. /\ L \in Int /\ L <= Full
      /\ Fresh(w.ip, t, L) \/ \E b \in buckets[w.ip] : Kept(b, t, L)
  BY <1>1, LevelIs
<1>4. \A b \in buckets[w.ip] : b.tokens \in Int /\ b.last \in Nat
  BY <1>1 DEF LimiterTypeOK, Bucket
<1>5. \A b, c \in buckets[w.ip] : b = c
  BY <1>1 DEF LimiterTypeOK
<1> HIDE DEF L
<1>6. CASE w.n = 0
  <2>1. 0 * PerIP <= (t - w.since + Lag) * PerIP
    BY <1>1, <1>2, Refill
  <2>2. Used(w) = 0
    BY <1>6, Refill DEF Used
  <2>3. First
    BY <1>1, <1>2, <1>3, <2>1, <2>2
  <2> QED
    BY <2>3 DEF L
<1>7. CASE NoneSince(w)
  <2>1. (now - w.since + 2 * Lag) * PerIP <= (t - w.since + 3 * Lag) * PerIP
    BY <1>1, <1>2, Refill
  <2>2. /\ now >= w.since - Lag + WindowSecs
        /\ Used(w) <= Full + (now - WindowSecs - w.since + 2 * Lag) * PerIP
    BY <1>7 DEF NoneSince
  <2>3. (now - WindowSecs - w.since + 2 * Lag) * PerIP
          = (now - w.since + 2 * Lag) * PerIP - Full
    BY <1>1, <1>2
  <2>4. Used(w) + L <= Full + (t - w.since + 3 * Lag) * PerIP
    BY <1>1, <1>2, <1>3, <2>1, <2>2, <2>3
  <2>5. Second
    BY <1>1, <1>2, <2>2, <2>4
  <2> QED
    BY <2>5 DEF L
<1>8. ASSUME NEW b \in buckets[w.ip], Kept(b, t, L), FirstSince(w, b) \/ SecondSince(w, b)
      PROVE  First \/ Second
  <2>1. L <= b.tokens + (t - b.last) * PerIP
    BY <1>8 DEF Kept
  <2>2. CASE FirstSince(w, b)
    <3>1. Used(w) + b.tokens <= Full + (b.last - w.since + Lag) * PerIP
      BY <2>2 DEF FirstSince
    <3>2. First
      BY <1>1, <1>2, <1>3, <1>4, <2>1, <3>1
    <3> QED
      BY <3>2
  <2>3. CASE SecondSince(w, b)
    <3>1. /\ now >= w.since + WindowSecs - Lag
          /\ Used(w) + b.tokens <= Full + (b.last - w.since + 3 * Lag) * PerIP
      BY <2>3 DEF SecondSince
    <3>2. Second
      BY <1>1, <1>2, <1>3, <1>4, <2>1, <3>1
    <3> QED
      BY <3>2
  <2> QED
    BY <1>8, <2>2, <2>3
<1>9. ASSUME NEW b \in buckets[w.ip], Fresh(w.ip, t, L),
             FirstSince(w, b) \/ SecondSince(w, b)
      PROVE  Second
  <2>1. t - b.last >= WindowSecs
    BY <1>9 DEF Fresh
  <2>2. /\ t >= w.since - Lag + WindowSecs
        /\ Used(w) <= Full + (t - WindowSecs - w.since + 2 * Lag) * PerIP
    BY <1>9, <2>1, Forgotten
  <2>3. (t - w.since + 2 * Lag) * PerIP <= (t - w.since + 3 * Lag) * PerIP
    BY <1>1, <1>2, Refill
  <2>4. (t - WindowSecs - w.since + 2 * Lag) * PerIP
          = (t - w.since + 2 * Lag) * PerIP - Full
    BY <1>1, <1>2
  <2>5. Used(w) + L <= Full + (t - w.since + 3 * Lag) * PerIP
    BY <1>1, <1>2, <1>3, <2>2, <2>3, <2>4
  <2> QED
    BY <1>1, <1>2, <2>2, <2>5
<1>10. ASSUME NEW b \in buckets[w.ip], FirstSince(w, b) \/ SecondSince(w, b)
       PROVE  First \/ Second
  BY <1>3, <1>5, <1>8, <1>9, <1>10
<1>11. w.n # 0 => NoneSince(w)
                  \/ \E b \in buckets[w.ip] : FirstSince(w, b) \/ SecondSince(w, b)
  BY DEF SpentInv
<1> QED
  BY <1>6, <1>7, <1>10, <1>11 DEF L

\* A decision keeps what was spent within the window.
LEMMA DecideKeepsSpent ==
  ASSUME GateTypeInv, DebtInv, SpentInv, ClosedInv,
         NEW s \in Slots, Decide(s)
  PROVE  SpentInv' /\ ClosedInv'
<1> DEFINE ip == req[s].ip
           t == req[s].at
           L == Level(ip, t)
<1>1. /\ ip \in IPs /\ t \in Nat /\ now \in Nat /\ now' = now /\ t <= now /\ now <= t + Lag
      /\ LimiterTypeOK /\ Allow(ip, t) /\ Admits(ip, t) \in BOOLEAN
  BY DecideFacts
<1>2. /\ buckets'[ip] = {Left(ip, t)} /\ Left(ip, t).last = t
      /\ Left(ip, t).tokens = IF Admits(ip, t) THEN L - Cost ELSE L
      /\ \A other \in IPs : other # ip =>
           /\ buckets'[other] \subseteq buckets[other]
           /\ \A b \in buckets[other] : b \in buckets'[other] \/ t - b.last >= WindowSecs
  BY <1>1, AllowBuckets
<1>3. L \in Int
  BY <1>1, LevelIs
<1>4. Lag \in Nat /\ WindowSecs \in Nat /\ Full \in Nat /\ Cost \in Nat /\ PerIP \in Nat
  BY Refill
<1>5. ASSUME NEW v \in watch'
      PROVE  /\ ~InWindow(v)' => Used(v)' <= Full + (WindowSecs + 3 * Lag) * PerIP
             /\ InWindow(v)' /\ v.n # 0 =>
                  \/ NoneSince(v)'
                  \/ \E b \in buckets'[v.ip] : FirstSince(v, b)' \/ SecondSince(v, b)'
  <2>1. PICK w \in watch : v = Noted(w, s, Admits(ip, t))
    BY DEF Decide
  <2>2. /\ w \in WatchRecord /\ v.ip = w.ip /\ v.since = w.since
        /\ v.n = IF Admits(ip, t) /\ req[s].ip = w.ip /\ InWindow(w)
                   THEN w.n + 1 ELSE w.n
    BY <1>1, <2>1, NotedIs
  <2>3. /\ w.ip \in IPs /\ w.since \in Nat /\ w.n \in Nat
        /\ w.since <= now
    BY <2>2, GateAssumption DEF WatchRecord, GateTypeInv, GateTypeOK
  <2>4. InWindow(v)' <=> InWindow(w)
    BY <1>1, <2>2 DEF InWindow
  <2>5. Used(w) \in Int /\ Used(v)' \in Int /\ (v.n = w.n => Used(v)' = Used(w))
        /\ (v.n = w.n + 1 => Used(v)' = Used(w) + Cost)
    <3>1. Cost \in Int /\ Cost' = Cost
      BY <1>4 DEF Cost
    <3>2. Used(w) = Cost * w.n /\ Used(v)' = Cost * v.n
      BY <3>1 DEF Used
    <3>3. v.n = w.n \/ v.n = w.n + 1
      BY <2>2
    <3>4. Cost * w.n \in Int /\ Cost * (w.n + 1) = Cost * w.n + Cost
      BY <2>3, <3>1
    <3> QED
      BY <3>1, <3>2, <3>3, <3>4
  <2>6. ~InWindow(v)' => Used(v)' <= Full + (WindowSecs + 3 * Lag) * PerIP
    BY <2>2, <2>4, <2>5 DEF ClosedInv
  <2>7. ASSUME InWindow(w), v.n # 0, ip # w.ip
        PROVE  NoneSince(v)' \/ \E b \in buckets'[w.ip] : FirstSince(v, b)'
                                                              \/ SecondSince(v, b)'
    <3>1. v.n = w.n /\ Used(v)' = Used(w)
      BY <2>2, <2>5, <2>7
    <3>2. CASE NoneSince(w)
      <4>1. buckets'[w.ip] = {}
        BY <1>2, <2>3, <2>7, <3>2 DEF NoneSince
      <4>2. NoneSince(v)'
        BY <1>1, <2>2, <3>1, <3>2, <4>1 DEF NoneSince, Full
      <4> QED
        BY <4>2
    <3>3. ASSUME NEW b \in buckets[w.ip], FirstSince(w, b) \/ SecondSince(w, b)
          PROVE  NoneSince(v)' \/ \E c \in buckets'[w.ip] : FirstSince(v, c)'
                                                                \/ SecondSince(v, c)'
      <4>1. CASE b \in buckets'[w.ip]
        <5>1. FirstSince(w, b) => FirstSince(v, b)'
          BY <2>2, <3>1 DEF FirstSince, Full
        <5>2. SecondSince(w, b) => SecondSince(v, b)'
          BY <1>1, <2>2, <3>1 DEF SecondSince, Full
        <5> QED
          BY <3>3, <4>1, <5>1, <5>2
      <4>2. CASE b \notin buckets'[w.ip]
        <5>1. t - b.last >= WindowSecs
          BY <1>2, <2>3, <2>7, <3>3, <4>2
        <5>2. /\ t >= w.since - Lag + WindowSecs
              /\ Used(w) <= Full + (t - WindowSecs - w.since + 2 * Lag) * PerIP
          BY <1>1, <2>7, <3>3, <5>1, Forgotten
        <5>3. buckets'[w.ip] = {}
          <6>1. \A c \in buckets[w.ip] : c = b
            BY <1>1, <2>3, <3>3 DEF LimiterTypeOK
          <6> QED
            BY <1>2, <2>3, <2>7, <4>2, <6>1
        <5>4. (t - WindowSecs - w.since + 2 * Lag) * PerIP
                <= (now - WindowSecs - w.since + 2 * Lag) * PerIP
          BY <1>1, <1>4, <2>3, Refill
        <5>5. /\ now >= w.since - Lag + WindowSecs
              /\ Used(w) <= Full + (now - WindowSecs - w.since + 2 * Lag) * PerIP
          BY <1>1, <1>4, <2>3, <2>5, <5>2, <5>4
        <5>6. NoneSince(v)'
          BY <1>1, <2>2, <3>1, <5>3, <5>5 DEF NoneSince, Full
        <5> QED
          BY <5>6
      <4> QED
        BY <4>1, <4>2
    <3> QED
      BY <2>7, <3>1, <3>2, <3>3 DEF SpentInv
  <2>8. ASSUME InWindow(w), ip = w.ip
        PROVE  \A b : b = Left(ip, t) => FirstSince(v, b)' \/ SecondSince(v, b)'
    <3> DEFINE b == Left(ip, t)
    <3>1. Used(v)' + b.tokens <= Used(w) + L /\ b.tokens \in Int
      BY <1>2, <1>3, <1>4, <2>2, <2>5
    <3>2. \/ /\ t >= w.since - Lag
             /\ Used(w) + L <= Full + (t - w.since + Lag) * PerIP
          \/ /\ t >= w.since + WindowSecs - 2 * Lag
             /\ now >= w.since + WindowSecs - Lag
             /\ Used(w) + L <= Full + (t - w.since + 3 * Lag) * PerIP
      BY <1>1, <2>8, LevelSpent
    <3> HIDE DEF b, L
    <3>3. CASE /\ t >= w.since - Lag
               /\ Used(w) + L <= Full + (t - w.since + Lag) * PerIP
      <4>1. Used(v)' + b.tokens <= Full + (t - w.since + Lag) * PerIP
        BY <1>1, <1>3, <1>4, <2>3, <2>5, <3>1, <3>3
      <4>2. \A c : c = b => FirstSince(v, c)'
        BY <1>2, <2>2, <3>3, <4>1 DEF FirstSince, Full, b
      <4> QED
        BY <4>2 DEF b
    <3>4. CASE /\ t >= w.since + WindowSecs - 2 * Lag
               /\ now >= w.since + WindowSecs - Lag
               /\ Used(w) + L <= Full + (t - w.since + 3 * Lag) * PerIP
      <4>1. Used(v)' + b.tokens <= Full + (t - w.since + 3 * Lag) * PerIP
        BY <1>1, <1>3, <1>4, <2>3, <2>5, <3>1, <3>4
      <4>2. \A c : c = b => SecondSince(v, c)'
        BY <1>1, <1>2, <2>2, <3>4, <4>1 DEF SecondSince, Full, b
      <4> QED
        BY <4>2 DEF b
    <3> QED
      BY <3>2, <3>3, <3>4
  <2>9. CASE ip = w.ip
    BY <1>2, <2>2, <2>4, <2>6, <2>8, <2>9
  <2>10. CASE ip # w.ip
    BY <2>2, <2>4, <2>6, <2>7, <2>10
  <2> QED
    BY <2>9, <2>10
<1>6. Full' = Full
  BY DEF Full
<1> QED
  BY <1>5, <1>6 DEF SpentInv, ClosedInv

-----------------------------------------------------------------------------
(* The other steps *)

\* The invariant holds when the hub starts.
LEMMA GateStart ==
  ASSUME GateInit
  PROVE  GateInv
<1>1. /\ buckets = [ip \in IPs |-> {}] /\ lastGC = 0 /\ now = 0 /\ watch = {}
      /\ req = [s \in Slots |-> NoLogin] /\ MaxTime \in Nat
  BY GateAssumption DEF GateInit, LimiterInit
<1>2. \A s \in Slots : ~Waiting(s)
  BY <1>1 DEF Waiting
<1>3. LimiterTypeOK
  BY <1>1 DEF LimiterTypeOK
<1>4. NoLogin \in [client : Addrs \cup {NoAddr}, ip : Addrs \cup {NoAddr}, named : BOOLEAN, at : 0 .. MaxTime]
  BY <1>1 DEF NoLogin
<1>5. GateTypeInv
  BY <1>1, <1>2, <1>3, <1>4 DEF GateTypeInv, GateTypeOK
<1>6. DebtInv
  BY <1>1 DEF DebtInv
<1> QED
  BY <1>1, <1>2, <1>5, <1>6
     DEF GateInv, ChargedToClient, RefusedInv, NotLockedOut, SpentInv, ClosedInv

\* A login arrives with the present time.
LEMMA ArriveKeeps ==
  ASSUME GateInv, NEW s \in Slots, NEW c \in Clients, Arrive(s, c)
  PROVE  GateInv'
<1>1. PICK r \in Resolved[c] :
        req' = [req EXCEPT ![s] = [client |-> c, ip |-> r.ip, named |-> r.named, at |-> now]]
  BY DEF Arrive
<1>2. UNCHANGED <<buckets, lastGC, now, watch>>
  BY DEF Arrive, limiterVars
<1>3. r.ip \in Addrs /\ r.named \in BOOLEAN /\ (r.named /\ c \notin Trusted => r.ip = c)
  BY <1>1, ClientFound
<1>4. c \in Addrs /\ now \in 0 .. MaxTime /\ now <= now + Lag
  BY GateAssumption DEF GateInv, GateTypeInv, GateTypeOK
<1>5. req \in [Slots -> [client : Addrs \cup {NoAddr}, ip : Addrs \cup {NoAddr},
                         named : BOOLEAN, at : 0 .. MaxTime]]
  BY DEF GateInv, GateTypeInv, GateTypeOK
<1>6. /\ req'[s] = [client |-> c, ip |-> r.ip, named |-> r.named, at |-> now]
      /\ \A q \in Slots : q # s => req'[q] = req[q]
      /\ req' \in [Slots -> [client : Addrs \cup {NoAddr}, ip : Addrs \cup {NoAddr},
                             named : BOOLEAN, at : 0 .. MaxTime]]
  BY <1>1, <1>3, <1>4, <1>5
<1>7. GateTypeOK'
  BY <1>2, <1>6 DEF GateInv, GateTypeInv, GateTypeOK, LimiterTypeOK, Full
<1>8. ASSUME NEW q \in Slots, Waiting(q)'
      PROVE  /\ req'[q].client \in Clients /\ req'[q].ip \in Addrs
             /\ req'[q].at <= now /\ now <= req'[q].at + Lag
             /\ req'[q].named /\ req'[q].client \notin Trusted => req'[q].ip = req'[q].client
  <2>1. CASE q = s
    BY <1>3, <1>4, <1>6, <2>1
  <2>2. CASE q # s
    BY <1>6, <1>8, <2>2 DEF GateInv, GateTypeInv, ChargedToClient, Waiting
  <2> QED
    BY <2>1, <2>2
<1>9. GateTypeInv' /\ ChargedToClient'
  BY <1>2, <1>7, <1>8 DEF GateInv, GateTypeInv, ChargedToClient
<1>10. DebtInv' /\ RefusedInv' /\ NotLockedOut'
  BY <1>2 DEF GateInv, DebtInv, RefusedInv, NotLockedOut, Cost
<1>11. SpentInv' /\ ClosedInv'
  BY <1>2 DEF GateInv, SpentInv, ClosedInv, NoneSince, FirstSince, SecondSince, InWindow,
              Used, Cost, Full
<1> QED
  BY <1>9, <1>10, <1>11 DEF GateInv

\* A decision keeps the invariant.
LEMMA DecideKeeps ==
  ASSUME GateInv, NEW s \in Slots, Decide(s)
  PROVE  GateInv'
<1>1. GateTypeInv' /\ ChargedToClient'
  BY DecideKeepsType DEF GateInv
<1>2. DebtInv'
  BY DecideKeepsDebt DEF GateInv
<1>3. RefusedInv' /\ NotLockedOut'
  BY DecideKeepsRefused DEF GateInv
<1>4. SpentInv' /\ ClosedInv'
  BY DecideKeepsSpent DEF GateInv
<1> QED
  BY <1>1, <1>2, <1>3, <1>4 DEF GateInv

\* Time passes: debts are worth more, and a window may close.
LEMMA TickKeeps ==
  ASSUME GateInv, Tick
  PROVE  GateInv'
<1>1. /\ now < MaxTime /\ now' = now + 1 /\ UNCHANGED <<buckets, lastGC, req, watch>>
      /\ \A s \in Slots : Waiting(s) => now < req[s].at + Lag
  BY DEF Tick, limiterVars
<1>2. /\ now \in 0 .. MaxTime /\ MaxTime \in Nat /\ now \in Nat
      /\ req \in [Slots -> [client : Addrs \cup {NoAddr}, ip : Addrs \cup {NoAddr},
                            named : BOOLEAN, at : 0 .. MaxTime]]
  BY GateAssumption DEF GateInv, GateTypeInv, GateTypeOK
<1>3. Lag \in Nat /\ WindowSecs \in Nat /\ Full \in Nat /\ Cost \in Nat /\ PerIP \in Nat
  BY Refill
<1>4. \A w \in watch : /\ w \in WatchRecord /\ w.since \in Nat /\ w.n \in Nat
                       /\ w.ip \in IPs /\ w.since <= now
  BY GateAssumption DEF GateInv, GateTypeInv, GateTypeOK, WatchRecord
<1>5. \A ip \in IPs : \A b \in buckets[ip] : b.tokens \in Int /\ b.last \in Nat
  BY DEF GateInv, GateTypeInv, GateTypeOK, LimiterTypeOK, Bucket
<1>6. GateTypeOK'
  BY <1>1, <1>2, <1>4 DEF GateInv, GateTypeInv, GateTypeOK, LimiterTypeOK, Full
<1>7. GateTypeInv' /\ ChargedToClient'
  BY <1>1, <1>2, <1>3, <1>6 DEF GateInv, GateTypeInv, ChargedToClient, Waiting
<1>8. DebtInv'
  <2>1. ASSUME NEW ip \in IPs, NEW b \in buckets[ip]
        PROVE  (b.last - (now + 1)) * PerIP <= b.tokens
    <3>1. (b.last - now) * PerIP <= b.tokens
      BY DEF GateInv, DebtInv
    <3> QED
      BY <1>2, <1>3, <1>5, <3>1
  <2> QED
    BY <1>1, <2>1 DEF GateInv, DebtInv
<1>9. RefusedInv' /\ NotLockedOut'
  BY <1>1 DEF GateInv, RefusedInv, NotLockedOut, Cost
<1>10. SpentInv'
  <2>1. ASSUME NEW w \in watch, NoneSince(w)
        PROVE  NoneSince(w)'
    <3>1. (now - WindowSecs - w.since + 2 * Lag) * PerIP
            <= (now + 1 - WindowSecs - w.since + 2 * Lag) * PerIP
      BY <1>2, <1>3, <1>4, Refill
    <3>2. Used(w) \in Int
      BY <1>3, <1>4 DEF Used
    <3>3. \A m \in Int : m = now + 1 =>
            /\ m >= w.since - Lag + WindowSecs
            /\ Used(w) <= Full + (m - WindowSecs - w.since + 2 * Lag) * PerIP
      BY <1>2, <1>3, <1>4, <2>1, <3>1, <3>2 DEF NoneSince
    <3>4. /\ now' >= w.since - Lag + WindowSecs
          /\ Used(w) <= Full + (now' - WindowSecs - w.since + 2 * Lag) * PerIP
      <4>1. now' \in Int /\ now' = now + 1
        BY <1>1, <1>2
      <4> QED
        BY <3>3, <4>1, Zenon
    <3>5. Used(w)' = Used(w) /\ Full' = Full /\ buckets'[w.ip] = {}
      BY <1>1, <2>1 DEF Used, Cost, Full, NoneSince
    <3> QED
      BY <3>4, <3>5 DEF NoneSince
  <2>2. ASSUME NEW w \in watch, NEW b \in buckets[w.ip]
        PROVE  /\ FirstSince(w, b) => FirstSince(w, b)'
               /\ SecondSince(w, b) => SecondSince(w, b)'
    BY <1>1, <1>2, <1>3, <1>4 DEF FirstSince, SecondSince, Used, Cost, Full
  <2>3. \A w \in watch : InWindow(w)' => InWindow(w)
    BY <1>1, <1>2, <1>3, <1>4 DEF InWindow
  <2> QED
    BY <1>1, <2>1, <2>2, <2>3 DEF GateInv, SpentInv
<1>11. ASSUME NEW w \in watch, ~InWindow(w)'
       PROVE  Used(w) <= Full + (WindowSecs + 3 * Lag) * PerIP
  <2>1. CASE ~InWindow(w)
    BY <2>1 DEF GateInv, ClosedInv
  <2>2. CASE InWindow(w)
    <3>1. Used(w) <= Full + (now - w.since + 3 * Lag) * PerIP
      BY <2>2, UsedBound DEF GateInv
    <3>2. (now - w.since + 3 * Lag) * PerIP <= (WindowSecs + 3 * Lag) * PerIP
      BY <1>2, <1>3, <1>4, <2>2, Refill DEF InWindow
    <3>3. Used(w) \in Int
      BY <1>3, <1>4 DEF Used
    <3> QED
      BY <1>2, <1>3, <1>4, <3>1, <3>2, <3>3
  <2> QED
    BY <2>1, <2>2
<1>12. ClosedInv'
  BY <1>1, <1>11 DEF ClosedInv, Used, Cost, Full
<1> QED
  BY <1>7, <1>8, <1>9, <1>10, <1>12 DEF GateInv

\* Observing begins with nothing noted.
LEMMA ObserveKeeps ==
  ASSUME GateInv, NEW ip \in Observed, Observe(ip)
  PROVE  GateInv'
<1> DEFINE w == [ip |-> ip, since |-> now, n |-> 0, refused |-> {}]
<1>1. watch' = {w} /\ UNCHANGED <<buckets, lastGC, now, req>>
  BY DEF Observe, limiterVars
<1>2. now \in Nat /\ WindowSecs \in Nat \ {0}
  BY GateAssumption, Refill DEF GateInv, GateTypeInv, GateTypeOK
<1>3. w \in WatchRecord
  BY <1>2 DEF WatchRecord
<1>4. GateTypeOK'
  BY <1>1, <1>2 DEF GateInv, GateTypeInv, GateTypeOK, LimiterTypeOK, Full, Waiting
<1>5. GateTypeInv' /\ ChargedToClient'
  BY <1>1, <1>3, <1>4 DEF GateInv, GateTypeInv, ChargedToClient, Waiting
<1>6. DebtInv'
  BY <1>1 DEF GateInv, DebtInv
<1>7. RefusedInv' /\ NotLockedOut'
  BY <1>1 DEF RefusedInv, NotLockedOut
<1>8. SpentInv' /\ ClosedInv'
  BY <1>1, <1>2 DEF SpentInv, ClosedInv, InWindow
<1> QED
  BY <1>5, <1>6, <1>7, <1>8 DEF GateInv

\* Every step keeps the invariant.
LEMMA GateStep ==
  GateInv /\ [GateNext]_gateVars => GateInv'
<1> SUFFICES ASSUME GateInv, [GateNext]_gateVars
             PROVE  GateInv'
  OBVIOUS
<1>1. ASSUME NEW s \in Slots, NEW c \in Clients, Arrive(s, c) PROVE GateInv'
  BY <1>1, ArriveKeeps
<1>2. ASSUME NEW s \in Slots, Decide(s) PROVE GateInv'
  BY <1>2, DecideKeeps
<1>3. CASE Tick
  BY <1>3, TickKeeps
<1>4. ASSUME NEW ip \in Observed, Observe(ip) PROVE GateInv'
  BY <1>4, ObserveKeeps
<1>5. CASE UNCHANGED gateVars
  <2>1. UNCHANGED <<buckets, lastGC, now, req, watch>>
    BY <1>5 DEF gateVars, limiterVars
  <2>2. GateTypeInv' /\ ChargedToClient'
    BY <2>1 DEF GateInv, GateTypeInv, GateTypeOK, LimiterTypeOK, Full, Waiting, ChargedToClient
  <2>3. DebtInv' /\ RefusedInv' /\ NotLockedOut'
    BY <2>1 DEF GateInv, DebtInv, RefusedInv, NotLockedOut, Cost
  <2>4. SpentInv' /\ ClosedInv'
    BY <2>1 DEF GateInv, SpentInv, ClosedInv, NoneSince, FirstSince, SecondSince, InWindow,
                Used, Cost, Full
  <2> QED
    BY <2>2, <2>3, <2>4 DEF GateInv
<1> QED
  BY <1>1, <1>2, <1>3, <1>4, <1>5 DEF GateNext

\* The invariant holds in every reachable state.
LEMMA GateInvariant == GateSpec => []GateInv
<1>1. GateInit => GateInv
  BY GateStart
<1> QED
  BY <1>1, GateStep, PTL DEF GateSpec

-----------------------------------------------------------------------------
(* Theorems *)

\* What the limiter and the requests hold has its type.  The code this is
\* about: ipLimiter of rate_limit.go and its callers' clock readings.
THEOREM GateTypeCorrect == GateSpec => []GateTypeOK
<1>1. GateInv => GateTypeOK
  BY DEF GateInv, GateTypeInv
<1> QED
  BY <1>1, GateInvariant, PTL

\* A login counts against the address it came from, whatever headers it
\* carries, on every route of at most two proxies that passes that address on:
\* not behind a tunnel and a replacing proxy, as deploy/ sets them up.  The code
\* this is about: TrustedProxyIP and walkXFF of trusted_ip.go.
THEOREM ClientsAreCharged == GateSpec => []ChargedToClient
<1>1. GateInv => ChargedToClient
  BY DEF GateInv
<1> QED
  BY <1>1, GateInvariant, PTL

\* An address is charged for a full bucket and the refill, at every rate, for every
\* order of decisions and wherever a sweep falls (allow of rate_limit.go).
THEOREM WindowIsBounded == GateSpec => []WindowBound
<1>1. ASSUME GateInv PROVE WindowBound
  <2>1. ASSUME NEW w \in watch, InWindow(w)
        PROVE  Cost * w.n <= Full + (now - w.since + 3 * Lag) * PerIP
    BY <1>1, <2>1, UsedBound DEF GateInv, Used
  <2>2. ASSUME NEW w \in watch, ~InWindow(w)
        PROVE  Cost * w.n <= Full + (WindowSecs + 3 * Lag) * PerIP
    BY <1>1, <2>2 DEF GateInv, ClosedInv, Used
  <2> QED
    BY <2>1, <2>2 DEF WindowBound, InWindow
<1> QED
  BY <1>1, GateInvariant, PTL

\* Refusals do not cost an address its refill: allow of rate_limit.go stores
\* the tokens a refused call found together with its time.
THEOREM NobodyLockedOut == GateSpec => []NotLockedOut
<1>1. GateInv => NotLockedOut
  BY DEF GateInv
<1> QED
  BY <1>1, GateInvariant, PTL

=============================================================================
