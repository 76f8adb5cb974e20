------------------------------ MODULE FleetInv ------------------------------
(***************************************************************************)
(* The inductive invariants behind the safety properties of Fleet.  Each   *)
(* is checked by TLC as an invariant and proved in FleetProofs,            *)
(* FleetDnsProofs or FleetSyncProofs.                                      *)
(***************************************************************************)
EXTENDS Fleet

-----------------------------------------------------------------------------
(* Which ids a request holds at which step.  The types of what the upserts *)
(* write rest on it: no The(..) is applied to an empty option.             *)

RegShape(q) ==
  /\ q.pc \in {"consume", "probe", "postA"} => q.a = {} /\ q.aaaa = {}
  /\ q.pc \notin {"consume", "probe", "postA"} => q.a # {}
  /\ q.pc = "postAAAA" => q.v6 # {} /\ q.aaaa = {}
  /\ q.pc = "upsertAAAA" => q.v6 # {} /\ q.aaaa # {}
  /\ q.pc = "undoAAAA" => q.aaaa # {}
  /\ q.pc \in {"insert", "sign", "upsertA", "respond", "dropRow"} =>
       (q.v6 # {} => q.aaaa # {})

BeatShape(q) ==
  /\ q.pc \in {"get", "post", "put", "mirror"} => q.todo # {}
  /\ q.pc \in {"put", "mirror"} => q.cf # {}
  /\ "AAAA" \in q.todo => q.v6 # {}

Shapes ==
  /\ \A r \in Requests : reg[r] # Idle => RegShape(reg[r])
  /\ \A b \in Beats : beat[b] # Idle => BeatShape(beat[b])

TypeInv == TypeOK /\ Shapes

-----------------------------------------------------------------------------
(* Tokens: a request past Consume has its token bound to its own device,   *)
(* and no other request is past Consume with it.                           *)

TokenInv ==
  /\ \A r \in Requests : Enrolls(r) =>
       tokens[reg[r].token].consumed /\ tokens[reg[r].token].by = {reg[r].dev}
  /\ \A t \in Tokens : tokens[t].by # {} => tokens[t].consumed
  /\ OneTokenOneEnrollment

-----------------------------------------------------------------------------
(* Grants: without operators in the database, a row inserted by a request  *)
(* stays until that request drops it, nobody else holds a JWT for it, and  *)
(* the claims of a heartbeat are those of a JWT handed out.                *)

HasRow(r) ==
  reg[r] # Idle /\
  reg[r].pc \in {"sign", "upsertA", "upsertAAAA", "respond", "dropRow"}

GrantInv ==
  /\ GrantedKeepsRow
  /\ \A r \in Requests : HasRow(r) =>
       /\ \E row \in RowOf(reg[r].dev) : row.sub = Assigned(r)
       /\ \A j \in jwts : j.dev # reg[r].dev
  /\ \A r, s \in Requests :
       HasRow(r) /\ HasRow(s) /\ reg[r].dev = reg[s].dev => r = s

-----------------------------------------------------------------------------
(* Zone: while every rollback can run, each record is granted or held by   *)
(* the registration that made it.                                          *)

\* The faults under which a rollback may not complete.
CleanupFaults == {"cf_delete", "cf_lost", "gone", "crash", "admin_drop"}

Granted(z) == \E j \in jwts : j.dev = z.owner /\ j.sub = z.name

Holds(r, z) == HeldBy(r, z) /\ z.owner = reg[r].dev /\ z.name = Assigned(r)

ZoneInv ==
  /\ \A r \in Requests : reg[r] # Idle => reg[r].live
  /\ \A b \in Beats : beat[b] # Idle => beat[b].claim \in jwts
  /\ \A z \in zone : z.id < nextId
  /\ \A r \in Requests : reg[r] # Idle =>
       \A id \in reg[r].a \cup reg[r].aaaa : id < nextId
  /\ \A z \in zone : Granted(z) \/ \E r \in Requests : Holds(r, z)
  /\ \A r \in Requests : At(r, "undoAAAA") => \A z \in zone : z.id \notin reg[r].a

-----------------------------------------------------------------------------
(* Stranded rows: a row that is not granted is in the hands of the request *)
(* that inserted it, unless a rollback or an answer may fail.              *)

\* The faults under which a request can end without its row or its JWT.
StrandFaults == {"db_down", "db_lost", "gone", "crash"}

StrandInv ==
  /\ \A r \in Requests : reg[r] # Idle => reg[r].live
  /\ \A row \in devices :
       \/ [dev |-> row.id, sub |-> row.sub] \in jwts
       \/ \E r \in Requests :
            HasRow(r) /\ reg[r].dev = row.id /\ Assigned(r) = row.sub

-----------------------------------------------------------------------------
(* Pointers.  Whoever speaks of a Cloudflare id, be it the zone, a row of  *)
(* dns_records, a registration or a DNS sync in flight, speaks of one cam, *)
(* name and type, for as long as the id is spoken of.                      *)

Label(id, dev, name, type) == [id |-> id, dev |-> dev, name |-> name, type |-> type]

ZoneLabels == {Label(z.id, z.owner, z.name, z.type) : z \in zone}
RowLabels == {Label(x.cf, x.dev, x.fqdn, x.type) : x \in dnsRows}
RegLabels(r) ==
  IF reg[r] = Idle THEN {}
  ELSE {Label(id, reg[r].dev, Assigned(r), "A") : id \in reg[r].a}
         \cup {Label(id, reg[r].dev, Assigned(r), "AAAA") : id \in reg[r].aaaa}
BeatLabels(b) ==
  IF BeatAt(b, "put") \/ BeatAt(b, "mirror")
  THEN {Label(id, Cam(b), beat[b].claim.sub, Current(b)) : id \in beat[b].cf}
  ELSE {}

Labels == ZoneLabels \cup RowLabels \cup (UNION {RegLabels(r) : r \in Requests})
            \cup (UNION {BeatLabels(b) : b \in Beats})

LabelInv ==
  /\ \A l \in Labels : l.id < nextId
  /\ \A l, m \in Labels : l.id = m.id => l = m

\* The keys of the tables: PRIMARY KEY (id), PRIMARY KEY (device_id, type).
RowKey == \A x, y \in devices : x.id = y.id => x = y
DnsKey == \A x, y \in dnsRows : x.dev = y.dev /\ x.type = y.type => x = y

DnsNamed == \A x \in dnsRows : \E row \in devices : row.id = x.dev /\ row.sub = x.fqdn

BeatsHoldJwts == \A b \in Beats : beat[b] # Idle => beat[b].claim \in jwts

PointerInv == LabelInv /\ RowKey /\ DnsKey /\ DnsNamed /\ BeatsHoldJwts

-----------------------------------------------------------------------------
(* The mirror.  What dns_records holds is what Cloudflare serves, unless   *)
(* the DNS sync that made the difference is about to write it down.        *)

\* The faults after which a PUT may never be mirrored.
MirrorFaults == {"db_down", "cf_lost", "gone", "crash", "overlap", "admin_drop"}

AllLive ==
  /\ \A r \in Requests : reg[r] # Idle => reg[r].live
  /\ \A b \in Beats : beat[b] # Idle => beat[b].live

OneBeatPerCam ==
  \A b, c \in Beats : beat[b] # Idle /\ beat[c] # Idle /\ Cam(b) = Cam(c) => b = c

\* The ids a registration has neither handed over to a pointer nor deleted.
PrivateA(r) ==
  IF reg[r] # Idle /\ reg[r].pc \notin {"upsertAAAA", "respond", "undoAAAA"}
  THEN reg[r].a ELSE {}
PrivateAAAA(r) == IF reg[r] # Idle /\ reg[r].pc # "respond" THEN reg[r].aaaa ELSE {}
Private(r) == PrivateA(r) \cup PrivateAAAA(r)

HeldIds(b) == IF BeatAt(b, "put") \/ BeatAt(b, "mirror") THEN beat[b].cf ELSE {}

PrivateInv ==
  \A r \in Requests : \A id \in Private(r) :
    /\ \A x \in dnsRows : x.cf # id
    /\ \A b \in Beats : id \notin HeldIds(b)
    /\ \A s \in Requests : s # r => id \notin Private(s)

Serves(id, value) == \E z \in zone : z.id = id /\ z.value = value

HoldInv ==
  /\ \A r \in Requests : reg[r] # Idle =>
       /\ reg[r].pc \in {"postAAAA", "insert", "sign", "upsertA"} =>
            \A id \in reg[r].a : Serves(id, reg[r].v4)
       /\ reg[r].pc \in {"insert", "sign", "upsertA", "upsertAAAA"} =>
            \A id \in reg[r].aaaa : Serves(id, The(reg[r].v6))
  /\ \A b \in Beats :
       /\ BeatAt(b, "put") => \A id \in beat[b].cf : Exists(id)
       /\ BeatAt(b, "mirror") => \A id \in beat[b].cf : Serves(id, Reported(b))

BeingMirrored(id) == \E b \in Beats : BeatAt(b, "mirror") /\ id \in beat[b].cf

ZoneKey == \A y, z \in zone : y.id = z.id => y = z

MirrorInv ==
  /\ AllLive /\ OneBeatPerCam /\ ZoneKey /\ PrivateInv /\ HoldInv
  /\ \A x \in dnsRows : Serves(x.cf, x.value) \/ BeingMirrored(x.cf)

-----------------------------------------------------------------------------
(* No record is lost track of, so that no name ends up with two of a type. *)

TrackFaults == MirrorFaults \cup {"cf_delete"}

SubKey == \A x, y \in devices : x.sub = y.sub => x = y

\* The types of the pointers a registration has still to write.
Unwritten(r) ==
  IF HasRow(r) /\ reg[r].pc \in {"sign", "upsertA", "dropRow"} THEN Types
  ELSE IF At(r, "upsertAAAA") THEN {"AAAA"} ELSE {}

Tracked(id) ==
  \/ \E x \in dnsRows : x.cf = id
  \/ \E r \in Requests : id \in Private(r)
  \/ BeingMirrored(id)

TrackInv ==
  /\ SubKey
  /\ \A r \in Requests : reg[r] # Idle => (reg[r].aaaa # {} => reg[r].v6 # {})
  /\ \A r \in Requests : \A type \in Unwritten(r) : DnsRowOf(reg[r].dev, type) = {}
  /\ \A b \in Beats :
       /\ BeatAt(b, "post") => DnsRowOf(Cam(b), Current(b)) = {}
       /\ BeatAt(b, "put") \/ BeatAt(b, "mirror") =>
            \A x \in DnsRowOf(Cam(b), Current(b)) : beat[b].cf = {x.cf}
  /\ \A z \in zone : Tracked(z.id)

-----------------------------------------------------------------------------
(* The pointers of a cam hold the addresses of its row, but for the types  *)
(* a registration or a heartbeat in flight has still to write.             *)

Wanted(row, type) == IF type = "A" THEN {row.v4} ELSE row.v6

Late(d, type) ==
  \/ \E r \in Requests : reg[r] # Idle /\ reg[r].dev = d /\ type \in Unwritten(r)
  \/ \E b \in Beats : beat[b] # Idle /\ Cam(b) = d /\ type \in beat[b].todo

FollowInv ==
  /\ \A r \in Requests : HasRow(r) =>
       \A row \in RowOf(reg[r].dev) : row.v4 = reg[r].v4 /\ row.v6 = reg[r].v6
  /\ \A b \in Beats :
       /\ BeatAt(b, "lookup") \/ BeatAt(b, "update") => beat[b].todo = {}
       /\ BeatAt(b, "update") =>
            \A row \in RowOf(Cam(b)) :
              beat[b].oldV4 = {row.v4} /\ beat[b].oldV6 = row.v6
       /\ beat[b] # Idle /\ beat[b].todo # {} =>
            \A row \in RowOf(Cam(b)) :
              row.v4 = beat[b].v4 /\ (beat[b].v6 # {} => row.v6 = beat[b].v6)
  /\ \A row \in devices : \A type \in Types :
       ~Late(row.id, type) =>
         {x.value : x \in DnsRowOf(row.id, type)} = Wanted(row, type)

=============================================================================
