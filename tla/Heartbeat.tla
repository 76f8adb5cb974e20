------------------------------ MODULE Heartbeat ------------------------------
(***************************************************************************)
(* POST /v1/devices/heartbeat: internal/httpapi/devices_heartbeat.go.  The *)
(* handler reads the device row, overwrites it with what the cam reports,  *)
(* then compares the report with the row it read BEFORE the update and     *)
(* pushes what changed to Cloudflare (syncDNS), A first, then AAAA:        *)
(*                                                                         *)
(*   lookup -> update -> (get -> post | put -> mirror)*                    *)
(*                                                                         *)
(* One action per call, as in Enrollment.  Heartbeats without a JWT the    *)
(* hub signed, or malformed, change nothing and are not represented.       *)
(***************************************************************************)
EXTENDS Enrollment

CONSTANT Beats    \* heartbeats that may be in flight at once

VARIABLE beat     \* the heartbeat in each slot

BeatSteps == {"lookup", "update", "get", "post", "put", "mirror"}

\* claim is the verified JWT; oldV4 and oldV6 the row as read at lookup
\* (empty before); todo the record types still to sync; cf the Cloudflare id
\* syncDNS works with.
BeatRequest == [pc : BeatSteps, live : BOOLEAN, claim : Claims,
                v4 : V4, v6 : Opt(V6), oldV4 : Opt(V4), oldV6 : Opt(V6),
                todo : SUBSET Types, cf : Opt(Nat)]

BeatTypeOK == beat \in [Beats -> {Idle} \cup BeatRequest]

BeatInit == beat = [b \in Beats |-> Idle]

BeatAt(b, step) == beat[b] # Idle /\ beat[b].pc = step
BeatGoto(b, step) == beat' = [beat EXCEPT ![b].pc = step]
BeatAnswer(b) == beat' = [beat EXCEPT ![b] = Idle]

Cam(b) == beat[b].claim.dev

\* The call of syncDNS in progress.
Current(b) == IF "A" \in beat[b].todo THEN "A" ELSE "AAAA"
Reported(b) == IF Current(b) = "A" THEN beat[b].v4 ELSE The(beat[b].v6)

\* syncDNS returns: on to the next type, or 204.
SyncReturn(b) ==
  IF beat[b].todo = {Current(b)}
  THEN BeatAnswer(b)
  ELSE beat' = [beat EXCEPT ![b].todo = @ \ {Current(b)}, ![b].pc = "get",
                            ![b].cf = {}]

-----------------------------------------------------------------------------

\* A cam sends a heartbeat under a JWT it holds.
BeatArrive(b) ==
  /\ beat[b] = Idle
  /\ \E claim \in jwts, v4 \in V4, v6 \in Opt(V6) :
       /\ \/ "overlap" \in Faults
          \/ \A c \in Beats : beat[c] # Idle => Cam(c) # claim.dev
       /\ beat' = [beat EXCEPT ![b] =
                     [pc |-> "lookup", live |-> TRUE, claim |-> claim,
                      v4 |-> v4, v6 |-> v6, oldV4 |-> {}, oldV6 |-> {},
                      todo |-> {}, cf |-> {}]]
  /\ UNCHANGED <<storeVars, zoneVars, enrollVars>>

\* GetByID and the comparison of the claimed with the stored subdomain: 401
\* for an unknown device and for a stale claim, 500 for a failed statement.
BeatLookup(b) ==
  /\ BeatAt(b, "lookup")
  /\ \/ \E row \in RowOf(Cam(b)) :
          /\ "ok" \in DbReplies(beat[b].live)
          /\ row.sub = beat[b].claim.sub
          /\ beat' = [beat EXCEPT ![b].pc = "update", ![b].oldV4 = {row.v4},
                                  ![b].oldV6 = row.v6]
     \/ /\ \/ DbReplies(beat[b].live) # {"ok"}
           \/ \A row \in RowOf(Cam(b)) : row.sub # beat[b].claim.sub
        /\ BeatAnswer(b)
  /\ UNCHANGED <<storeVars, zoneVars, enrollVars>>

\* (mutant) An IPv6 address is only followed once the row has one.
ChangedKnownV6(b) ==
  {type \in Types :
     \/ type = "A" /\ beat[b].oldV4 # {beat[b].v4}
     \/ /\ type = "AAAA" /\ beat[b].v6 # {} /\ beat[b].oldV6 # {}
        /\ beat[b].oldV6 # beat[b].v6}

\* What the report changes against the row read at lookup.  An IPv6 address
\* the cam stops reporting is left in place.
Changed(b) ==
  {type \in Types :
     \/ type = "A" /\ beat[b].oldV4 # {beat[b].v4}
     \/ type = "AAAA" /\ beat[b].v6 # {} /\ beat[b].oldV6 # beat[b].v6}

\* UPDATE .. RETURNING finds no row when the device was deleted meanwhile;
\* that and a failed statement are 500.
BeatUpdate(b) ==
  /\ BeatAt(b, "update")
  /\ \E reply \in DbReplies(beat[b].live) :
       /\ IF Done(reply) THEN UpdateHeartbeat(Cam(b), beat[b].v4, beat[b].v6)
                         ELSE UNCHANGED devices
       /\ IF reply = "ok" /\ RowOf(Cam(b)) # {} /\ Changed(b) # {}
          THEN beat' = [beat EXCEPT ![b].pc = "get", ![b].todo = Changed(b)]
          ELSE BeatAnswer(b)
  /\ UNCHANGED <<tokens, dnsRows, zoneVars, enrollVars>>

\* (mutant) The lookup forgets the device, or is never made.
SyncGetAnyDevice(b) ==
  /\ BeatAt(b, "get")
  /\ \E reply \in DbReplies(beat[b].live) :
       IF reply # "ok" THEN SyncReturn(b)
       ELSE IF DnsRowOf(Cam(b), Current(b)) = {} THEN BeatGoto(b, "post")
       ELSE \E x \in dnsRows :
              /\ x.type = Current(b)
              /\ beat' = [beat EXCEPT ![b].pc = "put", ![b].cf = {x.cf}]
  /\ UNCHANGED <<storeVars, zoneVars, enrollVars>>

SyncGetAlwaysPosts(b) ==
  /\ BeatAt(b, "get")
  /\ BeatGoto(b, "post")
  /\ UNCHANGED <<storeVars, zoneVars, enrollVars>>

\* DNSRecords.Get: a known record is rewritten, a missing one created.
SyncGet(b) ==
  /\ BeatAt(b, "get")
  /\ \E reply \in DbReplies(beat[b].live) :
       IF reply # "ok" THEN SyncReturn(b)
       ELSE IF DnsRowOf(Cam(b), Current(b)) = {} THEN BeatGoto(b, "post")
       ELSE \E x \in DnsRowOf(Cam(b), Current(b)) :
              beat' = [beat EXCEPT ![b].pc = "put", ![b].cf = {x.cf}]
  /\ UNCHANGED <<storeVars, zoneVars, enrollVars>>

SyncPost(b) ==
  /\ BeatAt(b, "post")
  /\ \E reply \in CfReplies(beat[b].live, "cf_create") :
       /\ IF Done(reply)
          THEN PostRecord(beat[b].claim.sub, Current(b), Reported(b), Cam(b))
          ELSE UNCHANGED zoneVars
       /\ IF reply = "ok"
          THEN beat' = [beat EXCEPT ![b].pc = "mirror", ![b].cf = {nextId}]
          ELSE SyncReturn(b)
  /\ UNCHANGED <<storeVars, enrollVars>>

\* (mutant) A refused PUT is tried again at once, until it succeeds.
SyncPutInsists(b) ==
  /\ BeatAt(b, "put")
  /\ \E reply \in CfReplies(beat[b].live, "cf_update"), id \in beat[b].cf :
       /\ IF Done(reply)
          THEN PutRecord(id, beat[b].claim.sub, Current(b), Reported(b), Cam(b))
          ELSE UNCHANGED zoneVars
       /\ BeatGoto(b, IF reply = "ok" /\ Exists(id) THEN "mirror" ELSE "get")
  /\ UNCHANGED <<storeVars, enrollVars>>

\* PUT on the cached id; Cloudflare refuses an id it does not know.
SyncPut(b) ==
  /\ BeatAt(b, "put")
  /\ \E reply \in CfReplies(beat[b].live, "cf_update"), id \in beat[b].cf :
       /\ IF Done(reply)
          THEN PutRecord(id, beat[b].claim.sub, Current(b), Reported(b), Cam(b))
          ELSE UNCHANGED zoneVars
       /\ IF reply = "ok" /\ Exists(id) THEN BeatGoto(b, "mirror")
                                        ELSE SyncReturn(b)
  /\ UNCHANGED <<storeVars, enrollVars>>

\* (mutant) The mirror is skipped after a PUT.
SyncMirrorSkipped(b) ==
  /\ BeatAt(b, "mirror")
  /\ SyncReturn(b)
  /\ UNCHANGED <<storeVars, zoneVars, enrollVars>>

\* Upsert of the pointer; its failure is logged and ignored.
SyncMirror(b) ==
  /\ BeatAt(b, "mirror")
  /\ \E reply \in DbReplies(beat[b].live) :
       IF Done(reply)
       THEN UpsertDns([dev |-> Cam(b), type |-> Current(b),
                       fqdn |-> beat[b].claim.sub, value |-> Reported(b),
                       cf |-> The(beat[b].cf)])
       ELSE UNCHANGED dnsRows
  /\ SyncReturn(b)
  /\ UNCHANGED <<tokens, devices, zoneVars, enrollVars>>

BeatClientGone(b) ==
  /\ "gone" \in Faults
  /\ beat[b] # Idle /\ beat[b].live
  /\ beat' = [beat EXCEPT ![b].live = FALSE]
  /\ UNCHANGED <<storeVars, zoneVars, enrollVars>>

BeatStep(b) ==
  \/ BeatLookup(b) \/ BeatUpdate(b)
  \/ SyncGet(b) \/ SyncPost(b) \/ SyncPut(b) \/ SyncMirror(b)

=============================================================================
