----------------------------- MODULE FleetStore -----------------------------
(***************************************************************************)
(* The Postgres tables the device endpoints share: enrollment_tokens,      *)
(* devices and dns_records, with the statements internal/db runs on them.  *)
(* Each operator is one statement, atomic as Postgres makes it; it says    *)
(* what happens to the tables, and the handlers say when it is issued and  *)
(* what is done with its answer.  A table is a set of rows (tokens, whose  *)
(* rows are never deleted, a function); SQL NULL is the empty set and a    *)
(* non-NULL value a singleton.  Columns no property tells apart (name,     *)
(* capabilities, ports, stream_health, cam_version, timestamps) are left   *)
(* out, and status and last_seen_at belong to module Presence.             *)
(***************************************************************************)
EXTENDS Naturals

CONSTANTS
  Devices,    \* device ids a cam may present
  Names,      \* subdomain labels under the parent zone
  V4, V6,     \* public addresses a cam may report
  Tokens      \* enrollment tokens, by hash

Types == {"A", "AAAA"}

\* A nullable column or an optional field over S, and its value when set.
Opt(S) == {o \in SUBSET S : \A x, y \in o : x = y}
The(opt) == CHOOSE x \in opt : TRUE

VARIABLES
  tokens,     \* [Tokens -> TokenRow]
  devices,    \* a set of DeviceRow
  dnsRows     \* a set of DnsRow

storeVars == <<tokens, devices, dnsRows>>

TokenRow == [minted : BOOLEAN, expired : BOOLEAN,
             consumed : BOOLEAN, by : Opt(Devices)]
DeviceRow == [id : Devices, sub : Names, v4 : V4, v6 : Opt(V6)]
DnsRow == [dev : Devices, type : Types, fqdn : Names,
           value : V4 \cup V6, cf : Nat]

StoreTypeOK ==
  /\ tokens \in [Tokens -> TokenRow]
  /\ devices \subseteq DeviceRow
  /\ dnsRows \subseteq DnsRow

StoreInit ==
  /\ tokens = [t \in Tokens |-> [minted |-> FALSE, expired |-> FALSE,
                                 consumed |-> FALSE, by |-> {}]]
  /\ devices = {}
  /\ dnsRows = {}

-----------------------------------------------------------------------------
(* enrollment_tokens *)

CreateToken(t) ==
  /\ ~tokens[t].minted
  /\ tokens' = [tokens EXCEPT ![t].minted = TRUE]

\* expires_at passes; the row stays.
ExpireToken(t) ==
  /\ tokens[t].minted /\ ~tokens[t].expired
  /\ tokens' = [tokens EXCEPT ![t].expired = TRUE]

Usable(t) == tokens[t].minted /\ ~tokens[t].consumed /\ ~tokens[t].expired

\* UPDATE .. WHERE consumed_at IS NULL AND expires_at > now(): no row matches
\* an unusable token and the caller sees ErrNotFound.
ConsumeToken(t, d) ==
  tokens' = IF Usable(t)
            THEN [tokens EXCEPT ![t].consumed = TRUE, ![t].by = {d}]
            ELSE tokens

\* (mutant) Revoke without `consumed_at IS NULL`, clearing the binding.
RevokeUnbinds(t) ==
  /\ tokens[t].minted
  /\ tokens' = [tokens EXCEPT ![t].consumed = TRUE, ![t].by = {}]

\* Marks the token consumed without binding it to a device.
RevokeToken(t) ==
  /\ tokens[t].minted /\ ~tokens[t].consumed
  /\ tokens' = [tokens EXCEPT ![t].consumed = TRUE]

-----------------------------------------------------------------------------
(* devices *)

RowOf(d) == {row \in devices : row.id = d}
RowsNamed(n) == {row \in devices : row.sub = n}

\* PRIMARY KEY (id) and UNIQUE (subdomain); a clash is a 23505 error.
Insertable(row) == RowOf(row.id) = {} /\ RowsNamed(row.sub) = {}

CreateDevice(row) ==
  devices' = IF Insertable(row) THEN devices \cup {row} ELSE devices

\* COALESCE keeps the stored public_ipv6 when the heartbeat carries none.
UpdateHeartbeat(d, v4, v6) ==
  devices' = {IF row.id = d
              THEN [row EXCEPT !.v4 = v4, !.v6 = IF v6 = {} THEN @ ELSE v6]
              ELSE row : row \in devices}

\* dns_records.device_id is ON DELETE CASCADE.
DeleteDevice(d) ==
  /\ devices' = devices \ RowOf(d)
  /\ dnsRows' = {x \in dnsRows : x.dev # d}

-----------------------------------------------------------------------------
(* dns_records *)

DnsRowOf(d, type) == {x \in dnsRows : x.dev = d /\ x.type = type}

\* ON CONFLICT (device_id, type) DO UPDATE; the foreign key refuses a row
\* whose device is gone.
UpsertDns(x) ==
  dnsRows' = IF RowOf(x.dev) = {}
             THEN dnsRows
             ELSE (dnsRows \ DnsRowOf(x.dev, x.type)) \cup {x}

=============================================================================
