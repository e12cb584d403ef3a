-------------------------------- MODULE Node --------------------------------
(***************************************************************************)
(* One node of the runtime: its State (agent chain, DHT shard, history of  *)
(* reduced actions), the threads handle_store_entry spawns to run          *)
(* hold_entry_workflow for StoreEntry messages, and the remove_entry zome  *)
(* API calls of the application.  Every step of a thread that ends in a    *)
(* dispatched action is reduced atomically by State::reduce; between two   *)
(* steps of one thread (each an await or block_on) the steps of the other  *)
(* threads interleave freely.                                              *)
(***************************************************************************)
EXTENDS Naturals, Sequences, FiniteSets, Functions, DhtStore

CONSTANTS
    Entries,    \* application entries (content addressed, so one value each)
    Agents,     \* agents whose chain headers can reach this node
    Me,         \* the agent running this node
    Valid,      \* the entries the DNA's validation callback accepts
    Deletable,  \* the entries whose deletion the DNA's validation accepts
    HoldIds,    \* the threads handle_store_entry may spawn
    CallIds,    \* the remove_entry zome calls the application may make
    NoValue     \* no message, or an argument that is not an Address

ASSUME NodeAssumption ==
    /\ Me \in Agents
    /\ Valid \subseteq Entries
    /\ Deletable \subseteq Entries
    /\ NoValue \notin Entries

-----------------------------------------------------------------------------
(* Content.  A chain header is reduced to the entry it commits and its     *)
(* author; a deletion entry to the address it deletes.                     *)

Header(e, a) == [entry |-> e, author |-> a]
DeletionEntry(x) == [deleted |-> x]
EntryWithHeader(e, a) == [entry |-> e, header |-> Header(e, a)]

DeletionEntries == {DeletionEntry(x) : x \in Entries}
Headers == {Header(e, a) : e \in Entries \cup DeletionEntries, a \in Agents}
Messages == {EntryWithHeader(e, a) : e \in Entries, a \in Agents}
Rows == [entity : Entries,
         attribute : {EntryHeader, CrudStatus, CrudLink},
         value : Headers \cup DeletionEntries \cup {Live, Deleted},
         index : Nat]

\* Entries, chain headers and deletion entries are values of distinct types
\* (App entries, ChainHeader, Entry::Deletion), so no application entry is a
\* header or a deletion entry; and the status of an entry without CRUD
\* metadata (NoValue) is no CrudStatus.
ASSUME ContentAssumption ==
    /\ Entries \cap (DeletionEntries \cup Headers) = {}
    /\ NoValue \notin {Live, Deleted}

HoldPcs == {"idle", "fetch", "validate", "hold", "done", "failed"}
CallPcs == {"idle", "get", "validate", "commit", "remove", "ok", "err"}

VARIABLES
    chain,    \* the agent slice: this agent's chain of headers
    cas,      \* the DHT slice: content storage
    eav,      \* the DHT slice: metadata storage
    history,  \* State.history: identities of the reduced actions
    nextId,   \* identity of the next ActionWrapper
    net,      \* StoreEntry messages the network can deliver to this node
    holdPc,     \* per spawned thread: its step of hold_entry_workflow
    holdMsg,    \* per spawned thread: the StoreEntry message it holds
    callPc,     \* per remove_entry zome call: its step
    callTarget  \* per remove_entry zome call: the address it deletes

vars == <<chain, cas, eav, history, nextId, net, holdPc, holdMsg, callPc, callTarget>>

TypeOK ==
    /\ chain \in Seq(Headers)
    /\ cas \subseteq Entries \cup DeletionEntries \cup Headers
    /\ eav \subseteq Rows
    /\ history \subseteq Nat
    /\ nextId \in Nat
    /\ net \subseteq Messages
    /\ holdPc \in [HoldIds -> HoldPcs]
    /\ holdMsg \in [HoldIds -> Messages \cup {NoValue}]
    /\ callPc \in [CallIds -> CallPcs]
    /\ callTarget \in [CallIds -> Entries \cup {NoValue}]

-----------------------------------------------------------------------------
(* Queries on a state snapshot.                                            *)

ChainEntries == {h.entry : h \in Range(chain)}

\* The CRUD status of x: the value of its latest crud_status row.
Status(x) ==
    LET rows == FetchEaviLatest(eav, x, CrudStatus)
    IN  IF rows = {} THEN NoValue ELSE (CHOOSE r \in rows : TRUE).value

\* State::get_headers: the headers on this agent's chain that commit e, in
\* chain order, then the headers the DHT metadata names for e
\* (IndexFilter::LatestByAttribute), less those already found on the chain,
\* resolved in the DHT CAS (an address the CAS lacks is skipped).
LocalHeaders(e) == SelectSeq(chain, LAMBDA h : h.entry = e)
GetHeaders(e) ==
    LET local == LocalHeaders(e)
        dht == {r.value : r \in FetchEaviLatest(eav, e, EntryHeader)} \ Range(local)
    IN  [local |-> local, dht |-> dht \cap cas]

\* The get of get_entry_result_workflow: the local chain, then the DHT CAS.
Found(x) == x \in ChainEntries \cup cas

-----------------------------------------------------------------------------
(* State::reduce.  Each slice reduces the action (the dispatching action   *)
(* below gives the slice changes) and the ActionWrapper joins history.     *)

Reduce ==
    /\ history' = history \cup {nextId}
    /\ nextId' = nextId + 1

Init ==
    /\ chain = <<>>
    /\ cas = {}
    /\ eav = {}
    /\ history = {}
    /\ nextId = 1
    /\ net = {EntryWithHeader(e, a) : e \in Entries, a \in Agents \ {Me}}
    /\ holdPc = [t \in HoldIds |-> "idle"]
    /\ holdMsg = [t \in HoldIds |-> NoValue]
    /\ callPc = [c \in CallIds |-> "idle"]
    /\ callTarget = [c \in CallIds |-> NoValue]

-----------------------------------------------------------------------------
(* Author workflow (the code is not under src/; modelled from spec 4.2):   *)
(* a valid entry is committed "to chain and DHT" (the comment on           *)
(* commit_entry in invoke_remove_entry): its header is appended to the     *)
(* chain and the entry stored in the DHT's CAS, and the entry is published *)
(* to the network.  Headers here carry no timestamp or previous-header     *)
(* link, so a second commit of an entry would add a header equal to the    *)
(* first: each entry is authored at most once, which bounds the chain.     *)

AuthorEntry(e) ==
    /\ e \in Valid
    /\ e \notin ChainEntries
    /\ Reduce
    /\ chain' = Append(chain, Header(e, Me))
    /\ cas' = CasAdd(cas, e)
    /\ net' = net \cup {EntryWithHeader(e, Me)}
    /\ UNCHANGED <<eav, holdPc, holdMsg, callPc, callTarget>>

-----------------------------------------------------------------------------
(* handle_store_entry and hold_entry_workflow.                             *)

\* The network delivers a StoreEntry message; the handler spawns a thread.
\* Delivery does not consume the message: the network may deliver it again.
HandleStoreEntry(t, m) ==
    /\ holdPc[t] = "idle"
    /\ m \in net
    /\ holdPc' = [holdPc EXCEPT ![t] = "fetch"]
    /\ holdMsg' = [holdMsg EXCEPT ![t] = m]
    /\ UNCHANGED <<chain, cas, eav, history, nextId, net, callPc, callTarget>>

\* Step 1: get the validation package from the header's author.  An Err or
\* Ok(None) (author unreachable) ends the thread with the error logged.
GetValidationPackage(t) ==
    /\ holdPc[t] = "fetch"
    /\ \/ holdPc' = [holdPc EXCEPT ![t] = "validate"]
       \/ holdPc' = [holdPc EXCEPT ![t] = "failed"]
    /\ UNCHANGED <<chain, cas, eav, history, nextId, net, holdMsg, callPc, callTarget>>

\* Variant of ValidateEntry whose caller ignores the validation result.
ValidateEntryIgnoringResult(t) ==
    /\ holdPc[t] = "validate"
    /\ holdPc' = [holdPc EXCEPT ![t] = "hold"]
    /\ UNCHANGED <<chain, cas, eav, history, nextId, net, holdMsg, callPc, callTarget>>

\* Steps 2-3: validate the entry with lifecycle Dht, action Create.
ValidateEntry(t) ==
    /\ holdPc[t] = "validate"
    /\ holdPc' = [holdPc EXCEPT ![t] =
                    IF holdMsg[t].entry \in Valid THEN "hold" ELSE "failed"]
    /\ UNCHANGED <<chain, cas, eav, history, nextId, net, holdMsg, callPc, callTarget>>

\* Variant of HoldEntry whose reducer stores the header but not the entry.
HoldEntryHeaderOnly(t) ==
    LET m == holdMsg[t]
    IN  /\ holdPc[t] = "hold"
        /\ Reduce
        /\ cas' = CasAdd(cas, m.header)
        /\ eav' = EavAdd(eav, {Eavi(m.entry, EntryHeader, m.header, nextId),
                               Eavi(m.entry, CrudStatus, Live, nextId)})
        /\ holdPc' = [holdPc EXCEPT ![t] = "done"]
        /\ UNCHANGED <<chain, net, holdMsg, callPc, callTarget>>

\* Step 4: dispatch the Hold action.  The DHT reducer (not under src/;
\* spec 4.4 and 8) stores entry and header and records the header and the
\* status Live as metadata of the entry.
HoldEntry(t) ==
    LET m == holdMsg[t]
    IN  /\ holdPc[t] = "hold"
        /\ Reduce
        /\ cas' = CasAdd(CasAdd(cas, m.entry), m.header)
        /\ eav' = EavAdd(eav, {Eavi(m.entry, EntryHeader, m.header, nextId),
                               Eavi(m.entry, CrudStatus, Live, nextId)})
        /\ holdPc' = [holdPc EXCEPT ![t] = "done"]
        /\ UNCHANGED <<chain, net, holdMsg, callPc, callTarget>>

-----------------------------------------------------------------------------
(* invoke_remove_entry, one action per block_on'd step.                    *)

\* The argument is decoded as an Address; one that is not ends the call
\* with ArgumentDeserializationFailed.
InvokeRemoveEntry(c, x) ==
    /\ callPc[c] = "idle"
    /\ callPc' = [callPc EXCEPT ![c] = IF x = NoValue THEN "err" ELSE "get"]
    /\ callTarget' = [callTarget EXCEPT ![c] = x]
    /\ UNCHANGED <<chain, cas, eav, history, nextId, net, holdPc, holdMsg>>

\* Variant of GetEntryResult without the early return on a target that is
\* not found.
GetEntryResultNoFoundCheck(c) ==
    /\ callPc[c] = "get"
    /\ \/ callPc' = [callPc EXCEPT ![c] = "validate"]
       \/ callPc' = [callPc EXCEPT ![c] = "err"]
    /\ UNCHANGED <<chain, cas, eav, history, nextId, net, holdPc, holdMsg, callTarget>>

\* Variant of GetEntryResult that waits for the target to be found instead
\* of ending the call on a result that is not found.
GetEntryResultAwaitingFound(c) ==
    /\ callPc[c] = "get"
    /\ Found(callTarget[c])
    /\ callPc' = [callPc EXCEPT ![c] = "validate"]
    /\ UNCHANGED <<chain, cas, eav, history, nextId, net, holdPc, holdMsg, callTarget>>

\* get_entry_result_workflow: an Err or a result that is not found ends the
\* call with Unspecified; otherwise its latest address is the one to delete.
GetEntryResult(c) ==
    /\ callPc[c] = "get"
    /\ \/ /\ Found(callTarget[c])
          /\ callPc' = [callPc EXCEPT ![c] = "validate"]
       \/ callPc' = [callPc EXCEPT ![c] = "err"]
    /\ UNCHANGED <<chain, cas, eav, history, nextId, net, holdPc, holdMsg, callTarget>>

\* Variant of ValidateDeletion whose future chain leaves out commit_entry.
ValidateDeletionSkippingCommit(c) ==
    /\ callPc[c] = "validate"
    /\ \/ /\ callTarget[c] \in Deletable
          /\ callPc' = [callPc EXCEPT ![c] = "remove"]
       \/ callPc' = [callPc EXCEPT ![c] = "err"]
    /\ UNCHANGED <<chain, cas, eav, history, nextId, net, holdPc, holdMsg, callTarget>>

\* build_validation_package, then validate_entry with lifecycle Chain and
\* action Delete; a failure of either is the call's result.
ValidateDeletion(c) ==
    /\ callPc[c] = "validate"
    /\ \/ /\ callTarget[c] \in Deletable
          /\ callPc' = [callPc EXCEPT ![c] = "commit"]
       \/ callPc' = [callPc EXCEPT ![c] = "err"]
    /\ UNCHANGED <<chain, cas, eav, history, nextId, net, holdPc, holdMsg, callTarget>>

\* commit_entry(deletion_entry, Some(deleted address)): the Commit action
\* commits the deletion entry to chain and DHT (its header appended, the
\* entry stored in the CAS).  An Err of the commit ends the and_then chain:
\* it is the call's result and RemoveEntry is never dispatched.
CommitDeletion(c) ==
    LET d == DeletionEntry(callTarget[c])
    IN  /\ callPc[c] = "commit"
        /\ Reduce
        /\ \/ /\ chain' = Append(chain, Header(d, Me))
              /\ cas' = CasAdd(cas, d)
              /\ callPc' = [callPc EXCEPT ![c] = "remove"]
           \/ /\ callPc' = [callPc EXCEPT ![c] = "err"]
              /\ UNCHANGED <<chain, cas>>
        /\ UNCHANGED <<eav, net, holdPc, holdMsg, callTarget>>

\* Variant of RemoveEntry called with its two addresses swapped: the
\* deletion entry is marked Deleted and linked to the entry it deletes.
RemoveEntrySwappedArgs(c) ==
    LET x == callTarget[c]
    IN  /\ callPc[c] = "remove"
        /\ Reduce
        /\ \/ /\ x \in cas
              /\ eav' = EavAdd(eav, {Eavi(DeletionEntry(x), CrudStatus, Deleted, nextId),
                                     Eavi(DeletionEntry(x), CrudLink, x, nextId)})
              /\ callPc' = [callPc EXCEPT ![c] = "ok"]
           \/ /\ x \notin cas
              /\ callPc' = [callPc EXCEPT ![c] = "err"]
              /\ UNCHANGED eav
        /\ UNCHANGED <<chain, cas, net, holdPc, holdMsg, callTarget>>

\* remove_entry: the RemoveEntry action.  Its DHT reducer (not under src/;
\* spec 4.4, 7) fails with missing content when the deleted entry is not in
\* the local CAS; otherwise it records status Deleted and the CRUD link to
\* the deletion entry.  store_result hands the outcome to the caller.
RemoveEntry(c) ==
    LET x == callTarget[c]
    IN  /\ callPc[c] = "remove"
        /\ Reduce
        /\ \/ /\ x \in cas
              /\ eav' = EavAdd(eav, {Eavi(x, CrudStatus, Deleted, nextId),
                                     Eavi(x, CrudLink, DeletionEntry(x), nextId)})
              /\ callPc' = [callPc EXCEPT ![c] = "ok"]
           \/ /\ x \notin cas
              /\ callPc' = [callPc EXCEPT ![c] = "err"]
              /\ UNCHANGED eav
        /\ UNCHANGED <<chain, cas, net, holdPc, holdMsg, callTarget>>

-----------------------------------------------------------------------------

HoldStep(t) == GetValidationPackage(t) \/ ValidateEntry(t) \/ HoldEntry(t)
CallStep(c) == GetEntryResult(c) \/ ValidateDeletion(c)
                 \/ CommitDeletion(c) \/ RemoveEntry(c)

Next ==
    \/ \E e \in Entries : AuthorEntry(e)
    \/ \E t \in HoldIds, m \in net : HandleStoreEntry(t, m)
    \/ \E t \in HoldIds : HoldStep(t)
    \/ \E c \in CallIds, x \in Entries \cup {NoValue} : InvokeRemoveEntry(c, x)
    \/ \E c \in CallIds : CallStep(c)

\* Spawned threads and blocked zome calls are scheduled by the OS: once a
\* local step of one is enabled it is eventually taken.  The fetch of the
\* validation package waits on a remote author with no timeout (spec 5, 9),
\* so it gets no fairness: a hold thread may wait in it forever.
Fairness ==
    /\ \A t \in HoldIds : WF_vars(ValidateEntry(t) \/ HoldEntry(t))
    /\ \A c \in CallIds : WF_vars(CallStep(c))

Spec == Init /\ [][Next]_vars /\ Fairness

-----------------------------------------------------------------------------
(* The refinement mapping to NodeSpec: the shard is the entries in the     *)
(* CAS, and an entry is deleted when its latest CRUD status row says so.   *)

HeldEntries == cas \cap Entries

DeletedEntries == {x \in Entries : Status(x) = Deleted}

AbstractNode == INSTANCE NodeSpec WITH held <- HeldEntries, deleted <- DeletedEntries

-----------------------------------------------------------------------------
(* Properties.                                                             *)

\* Validation rejection (spec 8): no entry the DNA rejects is ever held in
\* the DHT shard, whichever StoreEntry messages arrive and however the hold
\* threads interleave with each other and with the author workflow.
HeldOnlyValid == \A e \in cas \cap Entries : e \in Valid

\* A Deleted status is only ever recorded for an entry whose deletion entry
\* this agent has already committed: invoke_remove_entry commits before it
\* dispatches RemoveEntry, and no other path writes a Deleted row.
DeletedRowsCommitted ==
    \A r \in eav : r.attribute = CrudStatus /\ r.value = Deleted
                   => Header(DeletionEntry(r.entity), Me) \in Range(chain)

\* A deletion entry on the chain deletes an entry this node knew (on its
\* chain or in its DHT shard): the get before the commit found its target,
\* and nothing a concurrent thread does can make that target unknown again.
DeletionsTargetKnown ==
    \A h \in Range(chain) :
        h.entry \in DeletionEntries => h.entry.deleted \in ChainEntries \cup cas

\* The node implements NodeSpec: however the hold threads, the author
\* workflow and the remove_entry calls interleave, each of their steps is
\* one atomic step of the abstract node or leaves its chain, shard and
\* deleted set alone.  In particular the chain only grows by appending, a
\* deletion is committed only for a known deletable entry, and the status
\* Deleted is only recorded for a held entry whose deletion is committed.
ImplementsNodeSpec == AbstractNode!Spec

\* Every remove_entry zome call returns to the application: each step it
\* blocks on is a local reduction that completes.
RemoveReturns ==
    \A c \in CallIds : callPc[c] = "get" ~> callPc[c] \in {"ok", "err"}

\* A hold thread that got the validation package of a valid entry ends with
\* the entry in this node's shard, whatever the other threads and calls do
\* meanwhile: validate_entry and the Hold reduction are local and complete.
\* (The fetch of the package before it may wait forever on its author.)
ValidatedEntriesHeld ==
    \A t \in HoldIds, e \in Valid :
        (holdPc[t] = "validate" /\ holdMsg[t].entry = e) ~> e \in cas

\* Headers accumulate (spec 4.1, 8): get_headers(e) returns every header of
\* e this node knows, on its chain or recorded for e in the DHT metadata.
GetHeadersComplete ==
    \A e \in Entries :
        LET known == Range(LocalHeaders(e))
                     \cup ({r.value : r \in EaviQuery(eav, e, EntryHeader)} \cap cas)
        IN  known \subseteq Range(GetHeaders(e).local) \cup GetHeaders(e).dht

\* CRUD status is a lifecycle (spec 3): once an entry's status is Deleted
\* no later step makes it anything else.
DeletedStaysDeleted ==
    [][\A x \in Entries : Status(x) = Deleted => Status(x)' = Deleted]_vars

\* A remove_entry call that reports failure to the application (spec 7)
\* has not committed a deletion entry: every deletion entry on the chain
\* belongs to a call that is completing or has reported success.  The
\* RemoveEntry reducer fails when the target's content is not in the CAS;
\* the get before the commit found the target on the chain or in the CAS,
\* and whatever other threads and calls do meanwhile it is still there.
FailedRemoveCommitsNothing ==
    \A x \in Entries :
        Len(SelectSeq(chain, LAMBDA h : h.entry = DeletionEntry(x)))
          = Cardinality({c \in CallIds : callTarget[c] = x
                                         /\ callPc[c] \in {"remove", "ok"}})

=============================================================================
