------------------------------- MODULE Fleet --------------------------------
(***************************************************************************)
(* The device side of the hub: enrollment and heartbeat handlers over one  *)
(* database and one Cloudflare zone, with the admin who mints tokens, the  *)
(* clock that expires them, restarts of the hub and an operator's psql.    *)
(*                                                                         *)
(* Names and addresses the properties use: a device is AT REST while none  *)
(* of its requests is in flight; the whole hub is Quiet when nothing is.   *)
(***************************************************************************)
EXTENDS Heartbeat

vars == <<storeVars, zoneVars, enrollVars, beat>>

(* POST /v1/admin/enrollment-tokens, the CLI command that mints, and the   *)
(* clock.  The store's Revoke has no HTTP or CLI caller yet: Revoke(t) is   *)
(* what one may do.                                                        *)
MintToken(t) ==
  /\ CreateToken(t)
  /\ UNCHANGED <<devices, dnsRows, zoneVars, enrollVars, beat>>

Revoke(t) ==
  /\ RevokeToken(t)
  /\ UNCHANGED <<devices, dnsRows, zoneVars, enrollVars, beat>>

TokenExpires(t) ==
  /\ ExpireToken(t)
  /\ UNCHANGED <<devices, dnsRows, zoneVars, enrollVars, beat>>

\* An operator drops a device row by hand (the way out the comment on
\* bestEffortDeviceDelete names); no handler of the hub does.
AdminDrop(d) ==
  /\ "admin_drop" \in Faults
  /\ RowOf(d) # {}
  /\ DeleteDevice(d)
  /\ UNCHANGED <<tokens, zoneVars, enrollVars, beat>>

\* The process ends: requests in flight vanish with their rollback.
HubCrash ==
  /\ "crash" \in Faults
  /\ reg' = [r \in Requests |-> Idle]
  /\ beat' = [b \in Beats |-> Idle]
  /\ UNCHANGED <<storeVars, zoneVars, jwts>>

Init == StoreInit /\ ZoneInit /\ EnrollInit /\ BeatInit

RegisterNext ==
  /\ \E r \in Requests : RegArrive(r) \/ RegStep(r) \/ RegClientGone(r)
  /\ UNCHANGED beat

HeartbeatNext ==
  \E b \in Beats : BeatArrive(b) \/ BeatStep(b) \/ BeatClientGone(b)

TokenNext == \E t \in Tokens : MintToken(t) \/ Revoke(t) \/ TokenExpires(t)

Next ==
  \/ RegisterNext
  \/ HeartbeatNext
  \/ TokenNext
  \/ \E d \in Devices : AdminDrop(d)
  \/ HubCrash

Spec == Init /\ [][Next]_vars

\* The scheduler runs every goroutine and every call returns, within its
\* timeout at the latest, if only with an error.
CallsEnd ==
  /\ \A r \in Requests : WF_vars(RegStep(r) /\ UNCHANGED beat)
  /\ \A b \in Beats : WF_vars(BeatStep(b))

\* Besides, a cam that holds a JWT keeps sending heartbeats and Cloudflare
\* does not refuse every PUT for ever.
Fairness ==
  /\ CallsEnd
  /\ \A b \in Beats : WF_vars(BeatArrive(b))
  /\ \A b \in Beats : SF_vars(SyncPut(b) /\ zone' # zone)

AnswerSpec == Spec /\ CallsEnd
FairSpec == Spec /\ Fairness

-----------------------------------------------------------------------------
(* Properties *)

TypeOK == StoreTypeOK /\ ZoneTypeOK /\ EnrollTypeOK /\ BeatTypeOK

Quiet == /\ \A r \in Requests : reg[r] = Idle
         /\ \A b \in Beats : beat[b] = Idle

Enrolling(d) == \E r \in Requests : reg[r] # Idle /\ reg[r].dev = d

\* A request that holds its token: past Consume and before its answer.
Enrolls(r) == reg[r] # Idle /\ reg[r].pc # "consume"

\* ONE TOKEN, ONE ENROLLMENT.  Consume is "the whole atomic step: two
\* simultaneous registrations with the same token can't both succeed", and
\* a device row exists only for a token that its own id spent.
OneTokenOneEnrollment ==
  /\ \A r, s \in Requests :
       Enrolls(r) /\ Enrolls(s) /\ reg[r].token = reg[s].token => r = s
  /\ \A row \in devices : \E t \in Tokens : tokens[t].by = {row.id}

\* A SPENT TOKEN STAYS SPENT.  Whatever races with it (a second consume, a
\* revoke, the expiry), a consumed token never becomes usable and the device
\* it is bound to, the audit trail, never changes.
TokenStaysSpent ==
  [][\A t \in Tokens : tokens[t].consumed =>
        tokens'[t].consumed /\ tokens'[t].by = tokens[t].by]_vars

\* A GRANTED ENROLLMENT LASTS.  A cam that was handed a JWT keeps its row
\* under the name in the JWT, so its heartbeats are never answered 401: no
\* rollback of a competing registration takes the row away.
GrantedKeepsRow ==
  \A j \in jwts : \E row \in RowOf(j.dev) : row.sub = j.sub

\* POINTERS ARE SOUND.  A dns_records row names its own device's subdomain
\* and its Cloudflare id never leads to a record of another cam, name or
\* type; two pointers never share an id.  A PUT on the cached id would
\* otherwise redirect another cam's name.
PointersSound ==
  /\ \A x \in dnsRows :
       /\ \E row \in RowOf(x.dev) : row.sub = x.fqdn
       /\ \A z \in zone : z.id = x.cf =>
            z.owner = x.dev /\ z.name = x.fqdn /\ z.type = x.type
  /\ \A x, y \in dnsRows : x.cf = y.cf => x = y

\* NO FOREIGN RECORD.  Every record in the zone belongs to the cam that owns
\* its name now, or to a registration that is still in flight and will hand
\* it over or undo it: a cam's name never resolves to another cam's address
\* once the race for the name is over.
HeldBy(r, z) == reg[r] # Idle /\ z.id \in reg[r].a \cup reg[r].aaaa

NoForeignRecord ==
  \A z \in zone :
    \/ \E row \in RowOf(z.owner) : row.sub = z.name
    \/ \E r \in Requests : HeldBy(r, z)

\* NO STRANDED ROW.  "A downstream failure (CF outage, DB error, sign
\* failure) doesn't leave us with a row that blocks retry under a fresh
\* token": a device has a row only if its cam holds the JWT for it or its
\* registration is still in flight.
NoStrandedRow ==
  \A row \in devices :
    \/ [dev |-> row.id, sub |-> row.sub] \in jwts
    \/ Enrolling(row.id)

\* DNS FOLLOWS THE CAM.  With nothing in flight, the name of an enrolled cam
\* resolves to exactly the address its row holds, for IPv4 and for IPv6.
DnsFollowsCam ==
  Quiet => \A row \in devices :
    /\ {z.value : z \in Records(row.sub, "A")} = {row.v4}
    /\ {z.value : z \in Records(row.sub, "AAAA")} = row.v6

\* THE MIRROR IS EXACT.  With nothing in flight, dns_records holds the value
\* Cloudflare serves under the id it caches.
MirrorMatchesZone ==
  Quiet => \A x \in dnsRows :
    \E z \in zone : z.id = x.cf /\ z.value = x.value

\* ONE RECORD PER TYPE.  "A device can have at most one A and one AAAA
\* record at a time": with nothing in flight no name has two of a type.
OneRecordPerType ==
  Quiet => \A y, z \in zone : y.name = z.name /\ y.type = z.type => y = z

\* EVERY REQUEST IS ANSWERED.  Whatever fails and whatever the others do, a
\* registration and a heartbeat come to their end: no search for a name, no
\* rollback and no DNS sync goes round for ever.
EveryRequestAnswered ==
  /\ \A r \in Requests : reg[r] # Idle ~> reg[r] = Idle
  /\ \A b \in Beats : beat[b] # Idle ~> beat[b] = Idle

\* THE NEXT BEAT RETRIES.  "CF call fails: log, leave dns_records row alone.
\* Next heartbeat will retry with the same value": a name that resolves to
\* an old address is eventually brought up to date.
StaleName(d) == \E row \in RowOf(d) : \E z \in Records(row.sub, "A") :
                  z.value # row.v4

NextBeatRetries == \A d \in Devices : StaleName(d) ~> ~StaleName(d)

=============================================================================
