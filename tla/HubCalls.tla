------------------------------ MODULE HubCalls ------------------------------
(***************************************************************************)
(* How a blocking call made by a request handler of the hub can end.       *)
(* Every handler passes r.Context() to each call to Postgres and to        *)
(* Cloudflare, so a call ends in one of three ways:                        *)
(*   "ok"      the remote side did it and answered;                        *)
(*   "failed"  the remote side did nothing, the caller gets an error;      *)
(*   "lost"    the remote side did it, the caller still gets an error      *)
(*             (timeout, cut connection, an answer without a record id).   *)
(* Once the client has disconnected the context is cancelled and every     *)
(* later call fails before it leaves the hub.                              *)
(***************************************************************************)

CONSTANT Faults    \* what may go wrong in a behaviour, a set of FaultKinds

FaultKinds ==
  { "db_down",      \* a statement fails and leaves no trace
    "db_lost",      \* a statement commits, its answer does not arrive
    "cf_create",    \* Cloudflare refuses a POST
    "cf_update",    \* Cloudflare refuses a PUT
    "cf_delete",    \* Cloudflare refuses a DELETE
    "cf_lost",      \* Cloudflare obeys, its answer does not arrive
    "sign",         \* the device JWT cannot be signed
    "gone",         \* a client disconnects before its answer
    "crash",        \* the hub process dies and restarts
    "admin_drop",   \* an operator deletes a device row by hand
    "overlap" }     \* a cam sends a heartbeat while one is in flight

ASSUME FaultsAssumption == Faults \subseteq FaultKinds

Replies == {"ok", "failed", "lost"}

\* The remote side carried the call out.
Done(reply) == reply \in {"ok", "lost"}

\* The ways a call can end: `live` says that the request context is not
\* cancelled, `down` and `lost` whether those failures may happen.
CallReplies(live, down, lost) ==
  {reply \in Replies :
     \/ reply = "ok" /\ live
     \/ reply = "failed" /\ (down \/ ~live)
     \/ reply = "lost" /\ lost /\ live}

DbReplies(live) == CallReplies(live, "db_down" \in Faults, "db_lost" \in Faults)

CfReplies(live, refusal) ==
  CallReplies(live, refusal \in Faults, "cf_lost" \in Faults)

=============================================================================
