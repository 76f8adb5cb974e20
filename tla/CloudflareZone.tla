--------------------------- MODULE CloudflareZone ---------------------------
(***************************************************************************)
(* The DNS zone at Cloudflare, which is outside the repository and         *)
(* modelled from what internal/cloudflare/client.go asks of it: POST makes *)
(* a record under a fresh id, PUT rewrites the record with a given id,     *)
(* DELETE removes it.  Cloudflare keeps any number of records per name.    *)
(*                                                                         *)
(* The field `owner` is no part of a Cloudflare record.  It remembers on   *)
(* which cam's behalf the record was last written, so that properties can  *)
(* speak of it; no action reads it.                                        *)
(***************************************************************************)
EXTENDS FleetStore

CONSTANT MaxRecords    \* bound of the model: POSTs in a behaviour
ASSUME MaxRecordsAssumption == MaxRecords \in Nat

VARIABLES
  zone,       \* the records in the zone
  nextId      \* the id Cloudflare gives to the next record

zoneVars == <<zone, nextId>>

ZoneRecord == [id : Nat, name : Names, type : Types,
               value : V4 \cup V6, owner : Devices]

ZoneTypeOK ==
  /\ zone \subseteq ZoneRecord
  /\ nextId \in Nat

ZoneInit ==
  /\ zone = {}
  /\ nextId = 0

Records(name, type) == {z \in zone : z.name = name /\ z.type = type}

PostRecord(name, type, value, owner) ==
  /\ nextId < MaxRecords
  /\ zone' = zone \cup {[id |-> nextId, name |-> name, type |-> type,
                         value |-> value, owner |-> owner]}
  /\ nextId' = nextId + 1

Exists(id) == \E z \in zone : z.id = id

PutRecord(id, name, type, value, owner) ==
  /\ zone' = {IF z.id = id
              THEN [id |-> id, name |-> name, type |-> type,
                    value |-> value, owner |-> owner]
              ELSE z : z \in zone}
  /\ UNCHANGED nextId

DeleteRecord(id) ==
  /\ zone' = {z \in zone : z.id # id}
  /\ UNCHANGED nextId

=============================================================================
