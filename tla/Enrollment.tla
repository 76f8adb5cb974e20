----------------------------- MODULE Enrollment -----------------------------
(***************************************************************************)
(* POST /v1/devices/register: internal/httpapi/devices_register.go with    *)
(* resolveSubdomain of subdomain.go.  A request is a goroutine; between    *)
(* two calls to Postgres or Cloudflare any other request may run, so each  *)
(* call is one action and reg[r].pc names the next one:                    *)
(*                                                                         *)
(*   consume -> probe* -> postA -> (postAAAA) -> insert -> sign            *)
(*           -> upsertA -> (upsertAAAA) -> respond                         *)
(*                                                                         *)
(* A failure enters the rollback (dropRow ->) undoA -> (undoAAAA) or ends  *)
(* the request.  A slot of Requests is reused: an ended request leaves     *)
(* Idle.  Requests refused before the token is consumed (400, 401, 413,    *)
(* 503: lines 84-151) touch nothing and are not represented; of the answer *)
(* only the 201, which hands a device JWT to the cam, is.                  *)
(***************************************************************************)
EXTENDS HubCalls, CloudflareZone, Sequences

CONSTANTS
  Requests,     \* register requests that may be in flight at once
  Bases,        \* normalised, not reserved preferred names
  Candidates    \* Candidates[b]: b, b-2, b-3, .. up to the suffix cap

ASSUME CandidatesAssumption ==
  /\ Candidates \in [Bases -> Seq(Names)]
  /\ \A b \in Bases : Candidates[b] # <<>>

VARIABLES
  reg,          \* the register request in each slot
  jwts          \* device JWTs cams hold: the claims {device_id, sub}

enrollVars == <<reg, jwts>>

Idle == [pc |-> "idle"]

RegSteps == {"consume", "probe", "postA", "postAAAA", "insert", "sign",
             "upsertA", "upsertAAAA", "respond",
             "dropRow", "undoA", "undoAAAA"}

\* k indexes the candidate being probed, then the assigned one; a and aaaa
\* are aRecordID and aaaaRecordID, empty while the string is "".
RegRequest == [pc : RegSteps, live : BOOLEAN, token : Tokens, dev : Devices,
               base : Bases, v4 : V4, v6 : Opt(V6),
               k : Nat \ {0}, a : Opt(Nat), aaaa : Opt(Nat)]

Claims == [dev : Devices, sub : Names]

EnrollTypeOK ==
  /\ reg \in [Requests -> {Idle} \cup RegRequest]
  /\ \A r \in Requests :
       reg[r] # Idle => reg[r].k \in DOMAIN Candidates[reg[r].base]
  /\ jwts \subseteq Claims

EnrollInit ==
  /\ reg = [r \in Requests |-> Idle]
  /\ jwts = {}

At(r, step) == reg[r] # Idle /\ reg[r].pc = step
Goto(r, step) == reg' = [reg EXCEPT ![r].pc = step]
Answer(r) == reg' = [reg EXCEPT ![r] = Idle]

Assigned(r) == Candidates[reg[r].base][reg[r].k]

-----------------------------------------------------------------------------
(* The way down: one action per call. *)

RegArrive(r) ==
  /\ reg[r] = Idle
  /\ \E t \in Tokens, d \in Devices, b \in Bases, v4 \in V4, v6 \in Opt(V6) :
       reg' = [reg EXCEPT ![r] =
                 [pc |-> "consume", live |-> TRUE, token |-> t, dev |-> d,
                  base |-> b, v4 |-> v4, v6 |-> v6,
                  k |-> 1, a |-> {}, aaaa |-> {}]]
  /\ UNCHANGED <<storeVars, zoneVars, jwts>>

\* (mutant) The answer of Consume is not looked at.
RegConsumeUnchecked(r) ==
  /\ At(r, "consume")
  /\ \E reply \in DbReplies(reg[r].live) :
       /\ IF Done(reply) THEN ConsumeToken(reg[r].token, reg[r].dev)
                         ELSE UNCHANGED tokens
       /\ IF reply = "ok" THEN Goto(r, "probe") ELSE Answer(r)
  /\ UNCHANGED <<devices, dnsRows, zoneVars, jwts>>

\* The token is spent first; an unusable one is 401, a failed statement 500.
RegConsume(r) ==
  /\ At(r, "consume")
  /\ \E reply \in DbReplies(reg[r].live) :
       /\ IF Done(reply) THEN ConsumeToken(reg[r].token, reg[r].dev)
                         ELSE UNCHANGED tokens
       /\ IF reply = "ok" /\ Usable(reg[r].token) THEN Goto(r, "probe")
                                                  ELSE Answer(r)
  /\ UNCHANGED <<devices, dnsRows, zoneVars, jwts>>

\* (mutant) The search goes on past the cap.
RegProbePastCap(r) ==
  /\ At(r, "probe")
  /\ \E reply \in DbReplies(reg[r].live) :
       IF reply # "ok" THEN Answer(r)
       ELSE IF RowsNamed(Assigned(r)) = {} THEN Goto(r, "postA")
       ELSE reg' = [reg EXCEPT ![r].k = @ + 1]
  /\ UNCHANGED <<storeVars, zoneVars, jwts>>

\* isSubdomainFree on the next candidate; 409 when the last one is taken.
RegProbe(r) ==
  /\ At(r, "probe")
  /\ \E reply \in DbReplies(reg[r].live) :
       IF reply # "ok" THEN Answer(r)
       ELSE IF RowsNamed(Assigned(r)) = {} THEN Goto(r, "postA")
       ELSE IF reg[r].k < Len(Candidates[reg[r].base])
            THEN reg' = [reg EXCEPT ![r].k = @ + 1]
            ELSE Answer(r)
  /\ UNCHANGED <<storeVars, zoneVars, jwts>>

\* 502 without anything to undo.
RegPostA(r) ==
  /\ At(r, "postA")
  /\ \E reply \in CfReplies(reg[r].live, "cf_create") :
       /\ IF Done(reply)
          THEN PostRecord(Assigned(r), "A", reg[r].v4, reg[r].dev)
          ELSE UNCHANGED zoneVars
       /\ IF reply = "ok"
          THEN reg' = [reg EXCEPT ![r].a = {nextId},
                         ![r].pc = IF reg[r].v6 = {} THEN "insert" ELSE "postAAAA"]
          ELSE Answer(r)
  /\ UNCHANGED <<storeVars, jwts>>

RegPostAAAA(r) ==
  /\ At(r, "postAAAA")
  /\ \E reply \in CfReplies(reg[r].live, "cf_create") :
       /\ IF Done(reply)
          THEN PostRecord(Assigned(r), "AAAA", The(reg[r].v6), reg[r].dev)
          ELSE UNCHANGED zoneVars
       /\ IF reply = "ok"
          THEN reg' = [reg EXCEPT ![r].aaaa = {nextId}, ![r].pc = "insert"]
          ELSE Goto(r, "undoA")
  /\ UNCHANGED <<storeVars, jwts>>

NewRow(r) == [id |-> reg[r].dev, sub |-> Assigned(r),
              v4 |-> reg[r].v4, v6 |-> reg[r].v6]

\* (mutant) A failed insert leaves the records, or takes the row of the
\* registration that won with it.
RegInsertKeepsRecords(r) ==
  /\ At(r, "insert")
  /\ \E reply \in DbReplies(reg[r].live) :
       /\ IF Done(reply) THEN CreateDevice(NewRow(r)) ELSE UNCHANGED devices
       /\ IF reply = "ok" /\ Insertable(NewRow(r)) THEN Goto(r, "sign")
                                                   ELSE Answer(r)
  /\ UNCHANGED <<tokens, dnsRows, zoneVars, jwts>>

RegInsertDropsRow(r) ==
  /\ At(r, "insert")
  /\ \E reply \in DbReplies(reg[r].live) :
       /\ IF Done(reply) THEN CreateDevice(NewRow(r)) ELSE UNCHANGED devices
       /\ Goto(r, IF reply = "ok" /\ Insertable(NewRow(r)) THEN "sign"
                                                           ELSE "dropRow")
  /\ UNCHANGED <<tokens, dnsRows, zoneVars, jwts>>

\* Both constraints of the table answer 23505, and so does the handler: it
\* undoes the DNS records and answers 500.
RegInsert(r) ==
  /\ At(r, "insert")
  /\ \E reply \in DbReplies(reg[r].live) :
       /\ IF Done(reply) THEN CreateDevice(NewRow(r)) ELSE UNCHANGED devices
       /\ Goto(r, IF reply = "ok" /\ Insertable(NewRow(r)) THEN "sign"
                                                           ELSE "undoA")
  /\ UNCHANGED <<tokens, dnsRows, zoneVars, jwts>>

\* (mutant) A failed signature undoes the records but not the row.
RegSignKeepsRow(r) ==
  /\ At(r, "sign")
  /\ \/ Goto(r, "upsertA")
     \/ "sign" \in Faults /\ Goto(r, "undoA")
  /\ UNCHANGED <<storeVars, zoneVars, jwts>>

\* Signing is local to the hub: no context, no reply to lose.
RegSign(r) ==
  /\ At(r, "sign")
  /\ \/ Goto(r, "upsertA")
     \/ "sign" \in Faults /\ Goto(r, "dropRow")
  /\ UNCHANGED <<storeVars, zoneVars, jwts>>

\* A failed upsert of a pointer is logged and ignored.
RegUpsertA(r) ==
  /\ At(r, "upsertA")
  /\ \E reply \in DbReplies(reg[r].live) :
       IF Done(reply)
       THEN UpsertDns([dev |-> reg[r].dev, type |-> "A", fqdn |-> Assigned(r),
                       value |-> reg[r].v4, cf |-> The(reg[r].a)])
       ELSE UNCHANGED dnsRows
  /\ Goto(r, IF reg[r].v6 = {} THEN "respond" ELSE "upsertAAAA")
  /\ UNCHANGED <<tokens, devices, zoneVars, jwts>>

RegUpsertAAAA(r) ==
  /\ At(r, "upsertAAAA")
  /\ \E reply \in DbReplies(reg[r].live) :
       IF Done(reply)
       THEN UpsertDns([dev |-> reg[r].dev, type |-> "AAAA",
                       fqdn |-> Assigned(r), value |-> The(reg[r].v6),
                       cf |-> The(reg[r].aaaa)])
       ELSE UNCHANGED dnsRows
  /\ Goto(r, "respond")
  /\ UNCHANGED <<tokens, devices, zoneVars, jwts>>

\* 201: the cam holds its JWT, unless it is no longer there to read it.
RegRespond(r) ==
  /\ At(r, "respond")
  /\ jwts' = IF reg[r].live
             THEN jwts \cup {[dev |-> reg[r].dev, sub |-> Assigned(r)]}
             ELSE jwts
  /\ Answer(r)
  /\ UNCHANGED <<storeVars, zoneVars>>

-----------------------------------------------------------------------------
(* The rollback: best effort, on the same context, errors only logged. *)

RegDropRow(r) ==
  /\ At(r, "dropRow")
  /\ \E reply \in DbReplies(reg[r].live) :
       IF Done(reply) THEN DeleteDevice(reg[r].dev)
                      ELSE UNCHANGED <<devices, dnsRows>>
  /\ Goto(r, "undoA")
  /\ UNCHANGED <<tokens, zoneVars, jwts>>

RegUndoA(r) ==
  /\ At(r, "undoA")
  /\ \E reply \in CfReplies(reg[r].live, "cf_delete") :
       IF Done(reply) THEN DeleteRecord(The(reg[r].a))
                      ELSE UNCHANGED zoneVars
  /\ IF reg[r].aaaa = {} THEN Answer(r) ELSE Goto(r, "undoAAAA")
  /\ UNCHANGED <<storeVars, jwts>>

RegUndoAAAA(r) ==
  /\ At(r, "undoAAAA")
  /\ \E reply \in CfReplies(reg[r].live, "cf_delete") :
       IF Done(reply) THEN DeleteRecord(The(reg[r].aaaa))
                      ELSE UNCHANGED zoneVars
  /\ Answer(r)
  /\ UNCHANGED <<storeVars, jwts>>

\* The cam's connection drops: net/http cancels the request context and the
\* handler runs on.
RegClientGone(r) ==
  /\ "gone" \in Faults
  /\ reg[r] # Idle /\ reg[r].live
  /\ reg' = [reg EXCEPT ![r].live = FALSE]
  /\ UNCHANGED <<storeVars, zoneVars, jwts>>

RegStep(r) ==
  \/ RegConsume(r) \/ RegProbe(r) \/ RegPostA(r) \/ RegPostAAAA(r)
  \/ RegInsert(r) \/ RegSign(r) \/ RegUpsertA(r) \/ RegUpsertAAAA(r)
  \/ RegRespond(r)
  \/ RegDropRow(r) \/ RegUndoA(r) \/ RegUndoAAAA(r)

=============================================================================
