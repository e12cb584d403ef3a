------------------------------ MODULE DhtStore ------------------------------
(***************************************************************************)
(* The content/metadata store of a node's DHT shard (DhtStore).  The code  *)
(* of the store lies outside src/ (holochain_core_types::cas and ::eav),   *)
(* so these operators follow the repository's spec, sections 3 and 4.2:    *)
(*                                                                         *)
(*  - the CAS maps an address to content and is write-once: adding content *)
(*    already present is a no-op.  Content is its own address here, so the *)
(*    CAS is the set of contents it holds;                                 *)
(*  - the EAV store is an append-only set of rows (entity, attribute,      *)
(*    value, index); the index is the row's timestamp, and a query filters *)
(*    by entity and attribute and selects rows by an index filter.         *)
(*                                                                         *)
(* The operators are pure: the module that owns the store's variables      *)
(* applies them inside the reduction of the action that changes the store. *)
(***************************************************************************)
EXTENDS Naturals

\* The attribute tags the core writes: a chain header held for an entry,
\* the CRUD status of an entry, and the CRUD link from a deleted entry to
\* the deletion entry that removed it.
EntryHeader == "entry_header"
CrudStatus  == "crud_status"
CrudLink    == "crud_link"

\* The CRUD status values of an entry (records, so that a status can sit
\* beside headers and entries in the value column of the EAV store).
Live    == [status |-> "live"]
Deleted == [status |-> "deleted"]

\* One EAV row.
Eavi(e, a, v, i) == [entity |-> e, attribute |-> a, value |-> v, index |-> i]

\* ContentAddressableStorage::add: write-once and idempotent.
CasAdd(cas, content) == cas \cup {content}

\* EntityAttributeValueStorage::add_eavi: append-only.
EavAdd(eav, rows) == eav \cup rows

\* The rows of a query fixing the entity and the attribute.
EaviQuery(eav, e, a) == {r \in eav : r.entity = e /\ r.attribute = a}

\* IndexFilter::LatestByAttribute: of the rows a query selects, keep for
\* each attribute only the most recent one (spec 4.2: "current-status
\* queries must select the most recent row for (entity, attribute)").
LatestByAttribute(rows) ==
    {r \in rows : \A s \in rows : s.attribute = r.attribute => s.index <= r.index}

\* fetch_eavi with IndexFilter::LatestByAttribute.
FetchEaviLatest(eav, e, a) == LatestByAttribute(EaviQuery(eav, e, a))

=============================================================================
