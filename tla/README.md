# CamHub in TLA+

CamHub is the control plane of a fleet of cameras ("cams"): one Go binary,
`camhub serve`, in front of Postgres and the Cloudflare API. A cam enrolls with
a one-shot token, is given a subdomain, DNS records and a signed JWT, and from
then on sends a heartbeat every minute or so; the hub keeps its database and the
DNS zone in step with what the cams report. Operators use a small web console
with cookie sessions.

This directory holds TLA+ models of the parts of CamHub where several requests,
background jobs, browsers and remote calls meet, TLC runs on small instances,
and theorems checked by TLAPS for every size of the system. Each definition is
a translation of Go code, SQL or the console's script; the `map` of
`PROJECT.json` says of which lines.

    tlc -workers 2 -config fleet_sync.cfg MCFleet     # one run
    tlapm FleetProofs.tla                             # the proofs

## 1. Inventory

### Parts, state and operations

| part | state | operations | modelled |
| --- | --- | --- | --- |
| device enrollment (`httpapi/devices_register.go`, `subdomain.go`) | one goroutine per request | `POST /v1/devices/register`: spend token, find name, create DNS records, insert row, sign JWT, store pointers; rollback | `Enrollment` |
| heartbeat, DNS sync (`httpapi/devices_heartbeat.go`) | one goroutine per request | `POST /v1/devices/heartbeat`, `syncDNS` | `Heartbeat` |
| tokens (`db/enrollment_tokens.go`, `httpapi/admin_enrollment.go`, `cmd/camhub/enrollment.go`) | table `enrollment_tokens` | mint, consume, expiry; revoke (in the store, without a caller yet) | `FleetStore`, `Fleet` |
| device and pointer stores (`db/devices.go`, `db/dns_records.go`) | tables `devices`, `dns_records` | create, heartbeat update, delete with cascade, upsert | `FleetStore` |
| Cloudflare client (`cloudflare/client.go`) | none; the zone is outside | POST, PUT, DELETE of a record | `HubCalls`, `CloudflareZone` |
| presence (`db/devices.go`, sweep in `cmd/camhub/main.go`) | `status`, `last_seen_at` | heartbeat update, two-statement sweep every minute | `Presence` |
| sessions (`db/sessions.go`, `httpapi/auth.go`, `cookie.go`, `middleware_auth.go`) | table `sessions` | login, refresh (rotation), logout, me, purge | `Sessions` |
| web console (`webui/*`, `static/js/camhub.js`) | cookie jar, tabs, ticker | page routes, forms, silent refresh | `Browser` |
| device JWTs (`internal/devicejwt`, `cmd/camhub/devicejwt.go`) | key ring, its file, the hub's copy | init command, load, sign, verify | `KeyRing` |
| login limiter (`httpapi/rate_limit.go`) | token buckets per address | allow, idle sweep | `LoginLimiter`, `LoginGate` |
| client address (`httpapi/trusted_ip.go`, the proxies of `deploy/`) | none | `X-Forwarded-For` walk behind trusted proxies, `X-Real-IP`, peer | `ClientAddress` |
| CSRF, CORS, roles (`httpapi/middleware_*.go`) | none | predicates of one request | no |
| host router, route tables (`webui/middleware_host.go`, `router.go`) | none | dispatch | the routes, as disjuncts of the next-state relations |
| users and passwords (`db/users.go`, `auth/password.go`, `bootstrap.go`) | table `users` | create, lookup, hash | no |
| configuration, start-up, health, logging, deployment | read once | | restarts and background jobs only |

### How the parts interact

The handlers of cams share three tables of Postgres and the Cloudflare zone.
They hold no lock and open no transaction across calls: **each call is a step
of its own and anything may run between two**. Every call takes `r.Context()`,
so a client that disconnects makes all later calls of its request fail, the
rollback included. A request keeps its results (record ids, the name found, the
row read) in local variables; these are the fields of `reg[r]` and `beat[b]`.
The two background jobs of `runServe` (session purge, presence sweep) run beside
all this. The tabs of a browser share one cookie jar; each dashboard has a
ticker, and each `fetch` carries the cookie the jar had when it was sent. A login
goes through the limiter first: what the proxies leave in the headers says whose
it is, and one mutex guards all buckets. The key ring is a file that a command writes, an
operator edits, and the hub reads once when it starts.

### What is hard here

1. The registration writes to three places and undoes by hand: a failing call at
   any step must leave nothing, and must not touch what a competing registration
   of the same cam or for the same name has made.
2. A name is probed, then used at Cloudflare, then inserted: the UNIQUE
   constraint decides at the very end.
3. The heartbeat compares with a row it read earlier, writes it, then changes
   the zone, then the pointer table; failures in the middle are logged and
   ignored, "next heartbeat will retry".
4. Calls may take effect although the caller sees an error.
5. The sweep is a transaction of two statements under READ COMMITTED, between
   which heartbeats commit, and behind whose locks they wait.
6. A refresh replaces the id that identifies the row; the row lock is the only
   guard against two tabs, a logout and the purge.
7. The console believes in a cookie whose value nobody has checked.
8. The limiter's clock is read outside its lock, its buckets are refilled only
   when used, and a sweep forgets them: the bound must survive all three.
9. The key ring outlives many processes: commands that die half-way, rotations
   and hubs that started before or after them must agree on which JWTs count.

What would make each part correct is stated as the properties of section 4; the
`hazards` of `PROJECT.json` go through the code line by line.

## 2. Modules

    HubCalls ---- FleetStore --- CloudflareZone
       |              \             /
       |               Enrollment --- Heartbeat --- Fleet --- FleetInv
       |                                                       /     \
       |                               EnrollmentPromise -- FleetRefinement   FleetProofs -- FleetDnsProofs
       |                                                       |      \        /                    |
       |                                                    MCFleet   FleetRefinementProofs   FleetSyncProofs
       +---- Presence --- MCPresence, PresenceProofs
       +---- Sessions --- Browser --- MCBrowser, BrowserProofs

    ClientAddress --- LoginGate --- MCLoginGate, LoginGateProofs
    LoginLimiter ----/
                      KeyRing --- MCKeyRing, KeyRingProofs

**HubCalls.** How one call ends: `ok`, `failed` (nothing happened) or `lost`
(it happened, the caller sees an error: a timeout, a cut connection, an answer
of Cloudflare without an id). The constant `Faults` names what may go wrong in
an instance; a call of a cancelled request fails.

**FleetStore** has the tables of the fleet, one operator per SQL statement, with
the constraints (`id` primary, `subdomain` unique, one pointer per device and
type, cascade). **CloudflareZone** is the outside: a set of records with the
ids Cloudflare issues. Nothing keeps two records of one name apart there; a
record remembers, for the properties only, the cam that made it.

**Enrollment** is `registerDevice`, one action per call: `RegConsume`
`RegProbe` `RegPostA` `RegPostAAAA` `RegInsert` `RegSign` `RegUpsertA`
`RegUpsertAAAA` `RegRespond` forwards, `RegDropRow` `RegUndoA` `RegUndoAAAA`
back. `reg[r].pc` is the next call. Validation before the first call decides
nothing but which `Bases` arrive. `Candidates[b]` is the sequence
`name, name-2, name-3, ...` the suffixer tries. `jwts` holds the claims handed
out, which is all the hub can ever verify.

**Heartbeat** is `heartbeatDevice` and `syncDNS`: `BeatLookup` (the row of the
claim), `BeatUpdate` (and the comparison with the row read *before*), then for
each changed type `SyncGet`, `SyncPost` or `SyncPut`, `SyncMirror`.

**Fleet** puts them beside each other with minting, revocation and expiry of
tokens, crashes of the hub and an operator's `DELETE`, and states the
properties. **FleetInv** holds the inductive invariants.

**EnrollmentPromise** is the abstract specification: tokens are spent, names
are taken, given back and granted, in single steps, with no requests, calls or
DNS. **FleetRefinement** maps `Fleet` to it: `tokens[t].by` is what is spent,
the device rows say who holds which name, `jwts` what was granted.

**Presence** has the columns `status` and `last_seen_at` and a clock.
`SweepStart` takes the cutoffs (before `BEGIN` and from the hub's clock, as the
code does; `last_seen_at` is Postgres' `now()`, and the two differ by `Skew`),
`SweepOffline` and `SweepStale` are the statements, `SweepCommit` publishes
them. A heartbeat is one statement (`BeatSent`); when the row is locked it waits
with its own `now()` and is `BeatApplied` after the commit.

**Sessions** is the table `sessions` and the four endpoints. Login and logout
are one statement each, `refresh` is two (`RotateSelect` under FOR UPDATE,
`RotateUpdate` with the commit), between which `LockedIds` stops the others.
`created` never changes; that is what `Window` is counted from.
**Browser** composes it with the jar (an id and its `Expires`), the tabs
(`closed`, `login`, `dash`, hidden or with the time the ticker fires) and the
requests under way. `Deliver` applies `Set-Cookie` and runs the script's `then`
branch, `DeliverOrphan` the cookies of an answer whose page is gone,
`FetchFails` the `catch` branch.

**LoginLimiter** has the buckets: `Allow(ip, t)` is one call of `allow` under
the mutex, with the sweep it may have to make, and `Admits` is its result.
Tokens are counted in parts of 1/`WindowSecs`, so that refilling is exact.
**ClientAddress** is `TrustedProxyIP` with `walkXFF`, and the ways a request can
come: directly or through up to two proxies. A proxy is a tunnel, which writes no
header (the nginx of `deploy/lxc101-nginx-camhub.conf` forwards TLS connections),
or replaces `X-Forwarded-For` by its own caller (Caddy: by `header_up` in
`deploy/Caddyfile.prod`, and by default for a caller it does not trust, in
`deploy/Caddyfile`), or appends its caller, the chains `walkXFF` is written for.
`Named` says which routes pass the client's address on at all. **LoginGate** is
the middleware of `POST /v1/auth/login`: `Arrive` finds the address and reads
the clock, `Decide` gets the lock, up to `Lag` later and in any order. `Observe`
starts counting what is charged to one address from some moment on.

**KeyRing** is the life of the ring: `camhub devicejwt init` call by call
(`InitStat` `InitOpen` `InitWrite` `InitRename`, with `InitFails` and `InitDies`
after each), the operator's `Rotate`, and hubs that start, stop and sign. A ring
maps kids to `RetiredAt`; a JWT is known by its kid. `now` is the clock that
`Verifies` compares with.

Definitions under a comment `(mutant)` are not used by any specification. Each
is a plausible slip in the definition next to it, named in `PROJECT.json` with
the property that notices it.

## 3. Assumptions and abstractions

- A statement of Postgres is atomic; READ COMMITTED, row locks until the end
  of the transaction. `Consume` is the single conditional UPDATE it is in SQL.
- The effect of a call that times out is applied while the caller waits or not
  at all. A Cloudflare request that is carried out *after* the hub has given up
  and started its rollback is not modelled.
- Record contents are name, type, value and owner. TTL, proxied flag and
  comment text are constants of the code.
- Bounds of the instances: `MaxRecords`, the POSTs Cloudflare accepts in a
  behaviour, a guard of `PostRecord`; `MaxTime`, the last value of a clock, a
  guard of `Tick`; `LastBeat` in `Presence`, after which no heartbeat is sent.
  Where a run is about liveness no request waits there for ever: in
  `fleet_faults` a POST can always fail, in `next_beat_retries` the one token is
  spent long before. The theorems hold for every value.
- Request slots (`Requests`, `Beats`, `Calls`) are reused after an answer, so a
  behaviour has any number of requests, of which only as many overlap as there
  are slots. A cam has one heartbeat in flight (the agent's loop) unless the
  fault `overlap` says otherwise.
- `LoginGate`: a request waits for the mutex for at most `Lag`, and
  `3 * Lag <= WindowSecs` (a wait of microseconds against a window of minutes).
  The rounding of the code's float64 tokens is left out. The hub listens on TCP,
  so the peer is always an address. Every proxy is in a trusted range, as the
  compose files set it up, and passes `X-Real-IP` as it came.
- `ChargedToClient` is about the routes of `Named`. The production route, a
  tunnel and then a replacing proxy, is modelled and is not among them; what
  happens on it is in section 4. `WindowBound` and `NotLockedOut` are about the
  address a login is *charged to*, on every route; that this address is the
  client's is what `ChargedToClient` adds where it applies.
- Nothing calls the token store's `Revoke` yet. `Fleet!Revoke` is the statement
  as an endpoint or command would run it, so that the stores' guards are checked
  against it.
- `KeyRing`: one `init` command at a time; a write is whole once it has
  returned, so a loss of power between write and rename is not covered; hub and
  operator read the same clock. `Rotate` is the edit of the file that its format
  is made for (`devicejwt.go:16-19`); no command of the hub does it.
- All passwords in `Browser` are right. Roles play no part: the console has no
  endpoint that looks at them but the minting of tokens.

### Fairness

`Fleet!CallsEnd`, used by `fleet_faults`: weak fairness of each request step. A
goroutine is scheduled and every call returns, at the latest by its timeout
(15 s at Cloudflare, the pool's and TCP's for Postgres), if only with an error.

`Fleet!Fairness`, used by `next_beat_retries` only, adds weak fairness of
`BeatArrive` (a cam that holds a JWT keeps sending heartbeats, which is the
contract of the endpoint) and strong fairness of a PUT that takes effect
(Cloudflare does not refuse every one for ever). This last part is generous to
the code; the property is violated in spite of it.

`PresenceFairness`: time passes, statements return, and however often a sweep
fails or the hub restarts, some sweep gets through each of its statements
(strong fairness). Without the last assumption nothing could be promised; with
weak fairness alone a hub that restarts during every sweep would be a
counterexample.

## 4. Runs

`D` devices, `T` tokens, `R` registrations and `B` heartbeats at once. Two of
each is the smallest number that has a competitor. A third adds a second
competitor only: each property relates at most two requests or two rows, and a
slot is reused as soon as its request is answered. Two addresses suffice to
tell old from new, one IPv6 address to have the second record type. Six record
ids (four or two where fewer requests meet) let two registrations and their successors
create all their records.

| run | instance | faults | distinct states | shows |
| --- | --- | --- | --- | --- |
| `fleet_mirror` | 2D 2T 2R 1B, one name to fight for | POST, PUT refused; signing fails | 1.6 M | `MirrorMatchesZone` `OneRecordPerType` `NoStrandedRow` `NoForeignRecord` `OneTokenOneEnrollment` `TokenStaysSpent` `KeepsPromise` |
| `fleet_sync` | 2D 2T 2R 1B, two names | signing fails | 1.2 M | `DnsFollowsCam` `GrantedKeepsRow` |
| `fleet_overlap` | 2D 2T 1R 2B overlapping | PUT, DELETE refused; lost answers of both sides; signing; crashes | 0.6 M | `PointersSound` |
| `fleet_faults` | 1D 2T 1R 1B, one name | all but overlap | 0.26 M | `TypeOK` `EveryRequestAnswered` |
| `presence` | 2 cams, stale 2, offline 4, sweep 2, skew 1, clock to 10 | statements fail, restarts | 86 k | `NobodyLeftBehind` `NotWrittenOffEarly` `SilenceIsNoticed` |
| `login_gate` | a client, three proxies, five routes, 2 requests, 2 logins per 3 s, lag 1, clock to 6 | late readings, five kinds of headers, a foreign `X-Real-IP` | 4.0 M | `ChargedToClient` `WindowBound` `NotLockedOut` |
| `key_ring` | 4 kids, window 2, clock to 6 | a command fails or dies at any call | 80 k | `RingIsWhole` `JwtsHonoured` `RetiredKeysExpire` |
| `console` | 2 tabs, 2 requests, 3 ids, clock to 3 | lost answers, closed pages | 1.8 M | `OneSessionPerLogin` `HardCap` `GrantedIdIsLive` |
| `console_watched` | 1 tab, TTL 6, ticker 4, window 13, clock to 18 | none | 2.8 k | `StaysSignedIn` |
| `next_beat_retries` | 1D 1T 1R 1B | PUT refused | | violated: `NextBeatRetries` |
| `stranded_row` | 1D 1T 1R | an INSERT whose answer is lost | | violated: `NoStrandedRow` |
| `bounce` | 1 tab, 2 ids | none | | violated: `BouncesOnce` |

`console_watched` keeps the proportions of the code (access TTL 15 min, ticker
10 min, window 7 days) as far as they matter: the ticker plus one round trip is
shorter than the TTL, and the window holds about three refreshes. `presence` keeps
stale < offline, and a clock that runs past the last heartbeat by more than
`OfflineAfter` and two sweeps, so that silence can be noticed before it stops.

In the fleet runs a crash happens in `fleet_overlap` and `fleet_faults`, a client
that goes in `fleet_faults` only. That `GrantedKeepsRow`, `OneTokenOneEnrollment`,
`TokenStaysSpent` and `KeepsPromise` survive both, and `PointersSound` a client
that goes, is shown by the theorems of section 5 alone. `fleet_faults` has one candidate name, so that the suffix
search can run out; the two of `fleet_sync` and `fleet_overlap` let it iterate.

`login_gate` has the routes of the repository (straight to the hub, Caddy alone
as in the bundled stack, nginx and Caddy as in production) and two with a proxy
that appends. Every login carries the `X-Real-IP` of somebody else, so that the
fallback is visible when it decides; the last fallback, to the peer, is left to
the proof. It runs for two windows, so that a bucket can be emptied, refilled,
swept and made anew; two requests are enough to be decided in the wrong order,
and PerIP = 2 lets a bucket be partly full. `key_ring` has a key for a first
ring, one for each of two rotations or replacements, and one for a command that
dies; its clock runs past two retirements.

Runs switch deadlock checking off where the clock or the record ids run out or
all tokens are spent and nothing is left to do; the runs with a fleet of idle
heartbeats keep it on.

### What the properties need, and what is not true

Each invariant holds under the faults of its run, and for some that is the
whole point. TLC gives a counterexample to

- `MirrorMatchesZone` as soon as two heartbeats of one cam overlap: PUT and
  Upsert may run in opposite orders. The code has no guard against it; the
  agent's loop is what prevents it.
- `OneRecordPerType` when an Upsert of a pointer fails: the next change of
  address creates a second record.
- `NoForeignRecord` when a rollback cannot finish: a lost answer of a POST, a
  refused DELETE, a client that has gone (its context cancels the rollback too)
  or a crash. No job looks for such records afterwards.
- `GrantedKeepsRow`, `KeepsPromise` and `PointersSound` when an operator deletes
  rows by hand: a heartbeat under way stores an id of the old row for the new one.
- `WindowBound` without its slack: a late reading moves the start of the window,
  makes a sweep come early, or dates a new bucket back. It also shows that the
  bound itself is a full bucket *and* its refill.
- `ChargedToClient` without `named`: on the production route nginx forwards the
  connection and writes no header, Caddy replaces `X-Forwarded-For` by nginx's
  address (`Caddyfile.prod:31,43`), which is in a trusted range
  (`docker-compose.prod.yml:25`), `walkXFF` finds nothing and
  `trusted_ip.go:41-45` falls back to `X-Real-IP` as it came, or else to Caddy's
  address. So a login is charged to an address that has nothing to do with its
  sender, and all logins without that header share one bucket.
- `JwtsHonoured` without `dropped`: `init --force` throws away every key, which
  is what the flag is for.
- `RetiredKeysExpire` for a hub that was started before the retirement: the ring
  is read once, so it goes on signing and accepting under the retired key.

### Disagreements with the repository's own words

1. `next_beat_retries`: `devices_heartbeat.go` says a failed call is retried by
   the next heartbeat. The row already has the new address by then, the
   comparison sees no change, and the name keeps the old address.
   When nothing is refused the question does not arise: `DnsFollowsCam` and
   `EveryRequestAnswered` together leave no stale name behind.
2. `stranded_row`: `devices_register.go:157` says no failure leaves a row that
   blocks a retry. An INSERT that commits while its answer is lost does.
3. `bounce`: `middleware_session.go:34` says a stale cookie costs a single
   round trip. A 401 of `/v1/auth/me` clears no cookie, so `/` and `/login`
   send the tab to each other until the cookie expires. A reload while the
   refresh is under way is enough to get one.

Met while reading, without a run of their own:

- A logout that meets a refresh waits for the row and then deletes nothing: the
  session lives on under its new id, and the refresh may set the cookie again.
- When two tabs refresh at once the loser's 401 clears the winner's cookie.
- Showing a hidden tab starts a full interval: a tab hidden eight minutes after
  a refresh and shown at once asks again ten minutes later, when the cookie of
  fifteen minutes is gone, and is sent to the login page.
- The purge deletes rows whose access TTL has passed but that a refresh could
  still renew, against the comment at `db/sessions.go:107-110`.
- A database error during a refresh is answered 500 with the cookie left in
  place; `auth.go:112-114` speaks of 401 for every failure.
- The loser of a race for a name is answered 500; `subdomain.go:62` says the
  handler re-runs the suffixer after a unique violation.
- A full bucket of the limiter admits `PerIP` logins at once and as many again
  over the next window, twice what `rate_limit.go:10-11` and `README.md:63-64`
  say. Its `Retry-After` is 60 whatever the window.
- The limit "per client IP" of `README.md:63` does not hold on the production
  route: see `ChargedToClient` above. The hint of `README.md:68-73` is about the
  bundled stack, where Caddy is the only proxy and it does hold. A client whose
  own address is inside a trusted range is charged to `X-Real-IP` or to the peer
  on every route.
- Two `devicejwt init` at once share `path + ".tmp"`: one can rename what the
  other is still writing, or replace a ring that is already in use, against
  `file.go:76-78` and `cmd/camhub/devicejwt.go:40-42`. Nothing is synced before
  the rename.
- `devicejwt.go:31-33` tells a cam with an expired key to re-enroll; the primary
  key of `devices` refuses the same id a second time.
- `ttl_hours` is converted to a `time.Duration` before it is compared with the
  cap, so a value too large for the type is not refused as too large.
- `Shutdown` waits 15 s for requests in flight and `runServe` then closes the
  pool; a registration with several calls to Cloudflare can take longer.

## 5. Proofs

Every invariant and every action property of a passing run is also a theorem,
for any finite or infinite sets of cams, names, addresses, tokens, ids, tabs and
request slots, any clock that runs to any `MaxTime`, any number of records and,
unless the last column says otherwise, every fault.

| theorem | module | states | needs |
| --- | --- | --- | --- |
| `TypeCorrect` | `FleetProofs` | `Spec => []TypeOK` | |
| `TokensOneShot` | `FleetProofs` | `Spec => []OneTokenOneEnrollment` | |
| `SpentForGood` | `FleetProofs` | `Spec => TokenStaysSpent` | |
| `GrantsLast` | `FleetProofs` | `Spec => []GrantedKeepsRow` | no `admin_drop` |
| `ZoneStaysClean` | `FleetProofs` | `Spec => []NoForeignRecord` | none of `CleanupFaults` |
| `RowsNotStranded` | `FleetDnsProofs` | `Spec => []NoStrandedRow` | none of `StrandFaults` |
| `PointersStaySound` | `FleetDnsProofs` | `Spec => []PointersSound` | no `admin_drop` |
| `MirrorIsExact` | `FleetSyncProofs` | `Spec => []MirrorMatchesZone` | none of `MirrorFaults` |
| `NoSecondRecord` | `FleetSyncProofs` | `Spec => []OneRecordPerType` | none of `TrackFaults` |
| `NamesFollowCams` | `FleetSyncProofs` | `Spec => []DnsFollowsCam` | only `sign` may fail |
| `FleetKeepsPromise` | `FleetRefinementProofs` | `Spec => KeepsPromise` | no `admin_drop` |
| `NamesUnique` | `FleetRefinementProofs` | `Spec => []Promise!OneNameOneCam` | no `admin_drop` |
| `PresenceTypeCorrect` | `PresenceProofs` | `PresenceSpec => []PresenceTypeOK` | |
| `SweepIsThorough` | `PresenceProofs` | `PresenceSpec => []NobodyLeftBehind` | |
| `SweepIsFair` | `PresenceProofs` | `PresenceSpec => NotWrittenOffEarly` | |
| `BrowserTypeCorrect` | `BrowserProofs` | `Spec => []BrowserTypeOK` | |
| `OneSession` | `BrowserProofs` | `Spec => []OneSessionPerLogin` | |
| `CapIsHard` | `BrowserProofs` | `Spec => []HardCap` | |
| `GrantsAreLive` | `BrowserProofs` | `Spec => GrantedIdIsLive` | |
| `UserStaysSignedIn` | `BrowserProofs` | `WatchSpec => []StaysSignedIn` | `StaysInView` |
| `GateTypeCorrect` | `LoginGateProofs` | `GateSpec => []GateTypeOK` | |
| `ClientsAreCharged` | `LoginGateProofs` | `GateSpec => []ChargedToClient` | routes of `Named` only, in the property |
| `WindowIsBounded` | `LoginGateProofs` | `GateSpec => []WindowBound` | |
| `NobodyLockedOut` | `LoginGateProofs` | `GateSpec => []NotLockedOut` | |
| `RingTypeCorrect` | `KeyRingProofs` | `RingSpec => []RingTypeOK` | |
| `FileNeverTorn` | `KeyRingProofs` | `RingSpec => []RingIsWhole` | |
| `CamsStayEnrolled` | `KeyRingProofs` | `RingSpec => []JwtsHonoured` | |
| `RetirementEnds` | `KeyRingProofs` | `RingSpec => []RetiredKeysExpire` | |

**Assumed of the constants**, by name, in the module that declares them:
`FaultsAssumption` (known faults), `MaxRecordsAssumption`,
`CandidatesAssumption` (each base has a non-empty sequence of names: the
suffixer always tries the bare name first), `TimesAssumption`
(`SweepTakes < SweepEvery <= StaleAfter < OfflineAfter`: a sweep of two UPDATEs
ends before the next is due after a minute, the thresholds are minutes; nothing
but the speed of the database bounds a sweep), `SessionsAssumption`,
`BrowserAssumption` (ticker and round trip are shorter than the TTL: 10 and 15
minutes, and a fetch does not take 15), `RateAssumption`, `AddrsAssumption`, `GateAssumption`
(`3 * Lag <= WindowSecs`, section 3) and `RingAssumption`.

**Assumed of the faults.** The sets of the last column are defined in `FleetInv`:

- `CleanupFaults` = a DELETE is refused, an answer of Cloudflare is lost, the
  client goes, the hub crashes, an operator deletes rows: what keeps a rollback
  from finding or removing a record.
- `StrandFaults` = a statement fails or its answer is lost, the client goes, the
  hub crashes. Nothing Cloudflare does is among them.
- `MirrorFaults` = a statement fails, an answer of Cloudflare is lost, the
  client goes, the hub crashes, heartbeats of one cam overlap, an operator
  deletes rows. Statements whose answers are lost are *not* excluded, nor is
  any refusal by Cloudflare. `TrackFaults` adds a refused DELETE.

Section 4 names the counterexamples behind them.

None of the invariants is inductive; the arguments are these.

*The fleet*, in the order of `FleetInv`:

- `TypeInv`: the types, and `Shapes`, which ids a request holds at which step
  (`RegShape`, `BeatShape`). Without it the Upserts could read an id that was
  never set, and the types of the pointer table would not be kept.
- `TokenInv`: a request past `Consume` has its token bound to its own device,
  and a bound token is consumed. So a second request cannot get past `Consume`
  on it, and `Revoke` cannot match it.
- `GrantInv`: a request between its insert and its answer has its row, under the
  name it will grant, no JWT exists for that cam, and no other request is in
  that position for the same cam. The primary key gives uniqueness; a rollback
  that drops the row therefore never drops a granted one.
- `ZoneInv`: every record is granted to its maker or held by the live request
  that made it, ids in use are below `nextId`, and a request in the last step
  of its rollback has already removed its A record. This is what makes "undo
  exactly what this request made" precise.
- `StrandInv`: a row is granted or in the hands of its request, and every
  request is live, so that a rollback that is due will run.
- `PointerInv`: whoever speaks of a Cloudflare id (a record, a pointer, a
  registration or a DNS sync in flight) says the same of its cam, name and type.
  `Label` is what is said; an id is issued once, so two labels of one id agree.
- `MirrorInv`: the record of a pointer serves the pointer's value, unless a sync
  is about to mirror that record. For this no other request may change it: an id
  in the hands of a registration is in no pointer and no other hands
  (`PrivateInv`), what a request holds is there (`HoldInv`), and a cam has one
  heartbeat in flight.
- `TrackInv`: every record of the zone is tracked, by a pointer, by the
  registration that holds it or by a sync about to write its pointer. Names are
  unique among rows, and a sync that posts has no pointer to lose.
- `FollowInv`: the pointers of a cam hold the addresses of its row, but for the
  types a registration or heartbeat in flight has still to write (`Late`). The
  row that a heartbeat compares with is the row it then updates, because no
  other heartbeat of the cam is in flight and a registration never changes a
  row; so the comparison misses nothing.

`PromiseStep` then maps every action: `RegConsume` to `Spend`, the insert to
`Take` (the constraints give its guard), the dropping of a row to `GiveBack`
(`GrantInv` gives "not granted"), the answer to `Grant`, and everything else to
a stutter. `NamesUnique` is an invariant of the promise and is inherited.

*Presence* (`PresenceInv`): what the statements of the open transaction have
marked was silent and still is, since nobody else writes a locked row
(`MarkInv`); what they passed over had been heard from since (`PassInv`), and a
heartbeat only makes it more so. A heartbeat that waits does so for one sweep at
most, so the time it will write is not older than a transaction can be open
(`WaitInv`): here the assumption on `SweepTakes` is used.

*Sessions and console* (`BrowserInv`): the rows of one login are one; an open
`Rotate` holds its row, alone, and nobody removes or changes it (`LockInv`,
`LockedOnce`); an id that has been drawn but not yet inserted is nobody else's
(`Pending`); a request is never older than `CallTakes` (`CallInv`).
`GrantedIdIsLive` is then read off the step that answers.

`UserStaysSignedIn` is about `StaysInView`: one tab, no failures, and
`RefreshEvery + 2 * CallTakes <= AccessTTL`. Its invariant `Signed` follows the
user through four phases (before the first visit, at the login page, on the
dashboard between two refreshes, with a refresh under way), and says in each how
long cookie and row are good for: at rest, until the ticker fires and one round
trip more. The bound is tight: with a TTL of 5, a ticker of 4 and requests of 1
TLC finds a user who is signed out. The ticker starts when the answer arrives,
up to a round trip after the row was written, its refresh reaches the row up to
a round trip after it fires, and by then the purge may have taken the row. In
the code, TTL 15 and ticker 10 minutes leave 2.5 minutes for one request;
nothing in the script or the server bounds a request, but the network does.

*Login limiter* (`GateInv`): on a route of `Named` the first proxy names the
client in the header (`CallerNamed`), a further one keeps it there (`NameKept`)
and adds trusted addresses only, so the walk stops at the client, whatever stands
before it (`WalkFinds`, `HeaderNames`). The theorem says nothing of the other
routes, the production route of the repository included. The bounds do not rest
on it: they are about the address charged, whichever that is. A bucket is never in debt by more than `Lag` (`DebtInv`), gains between two refusals what
their readings are apart (`RefusedInv`), and what it has given plus what it
holds is at most a full one and the refill since (`SpentInv`). Late readings and
the sweep make the last of these a disjunction: the bucket in use since the
observation began, none because a sweep took it, or a second one made after
that; a third would be past the window.

*Key ring* (`RingInv`): a command about to rename holds its own new ring, whose
key nobody has used, and only `--force` runs over a ring (`InitInv`); every key
a JWT was signed with is in the file unless `--force` dropped it (`FileInv`); the
ring in the memory of a hub may be behind the file, but what it lacks was
retired after it was read (`CopyInv`).

### What stays with TLC

Liveness under fairness and ENABLED are out of the prover's reach:
`EveryRequestAnswered` and `SilenceIsNoticed` are only model-checked, and so of
course are the counterexamples to the three violated properties. So is what a
recursive definition computes for every input; no module here declares a
RECURSIVE operator, and `ClientAddress` states the walk as the choice of an
index, which is why its theorem could be proved.

## 6. Plan

Done, in this order: the fleet (stores, zone, both handlers, composition), its
invariants and proofs, presence, sessions and console, the refinement, the
clocks of presence, the answers of all requests under every fault, the login
limiter with the client's address, the key ring; then the theorems of all
components.

What could follow, the most useful first:

1. Weaker hypotheses where the code deserves them: `NoStrandedRow` and
   `MirrorMatchesZone` with a client that goes after the last statement, and
   `StaysSignedIn` for several tabs.
2. A second refinement: `Sessions` as an implementation of "one session per
   login, extended until the window is over".
3. The lemmas on what a step does to its own request (`RegMoves`, `RegPath` and
   their like for heartbeats) as one group that all fleet proofs share.

### Not modelled

- CSRF, CORS and role checks are predicates of one request: nothing they depend
  on changes between reading and use, and a model would repeat their conditions.
  The middleware tests enumerate them.
- Users and passwords: one INSERT under a unique email, one SELECT, and a hash.
- Matching of host names and the route tables: which handler runs is in the
  next-state relations, the comparison of strings is not.
- Configuration, migrations and the pool run once, before the first request.
- Health, logging, JSON, templates and deployment keep no state that changes or
  lie outside the program.
