----------------------------- MODULE NodeProofs -----------------------------
(***************************************************************************)
(* Proofs about Node for every value of its constants.                     *)
(*                                                                         *)
(* TypeOK is not inductive: HoldEntry reads the message of its thread and  *)
(* CommitDeletion and RemoveEntry the target of their call, and TypeOK     *)
(* alone allows NoValue there.  TypeInv adds that a thread past the        *)
(* handler holds a message and a call past the argument check an entry.    *)
(* DeletedRowsCommitted needs in addition that a call about to dispatch    *)
(* RemoveEntry has already committed its deletion entry.                   *)
(***************************************************************************)
EXTENDS Node, TLAPS

\* A spawned thread carries the message it was spawned for.
ThreadsHaveMessages ==
    \A t \in HoldIds :
        holdPc[t] \in {"fetch", "validate", "hold"} => holdMsg[t] \in Messages

\* A call past the argument check targets an entry.
CallsHaveTargets ==
    \A c \in CallIds :
        callPc[c] \in {"get", "validate", "commit", "remove"} => callTarget[c] \in Entries

TypeInv == TypeOK /\ ThreadsHaveMessages /\ CallsHaveTargets

\* A call about to dispatch RemoveEntry has committed its deletion entry.
RemovingCommitted ==
    \A c \in CallIds :
        callPc[c] = "remove" => Header(DeletionEntry(callTarget[c]), Me) \in Range(chain)

IInv == TypeInv /\ RemovingCommitted /\ DeletedRowsCommitted

-----------------------------------------------------------------------------
(* Lemmas about the operators the model is built from.                     *)

\* The values of a sequence with one more element appended.
LEMMA RangeAppend ==
    ASSUME NEW S, NEW s \in Seq(S), NEW x
    PROVE  Range(Append(s, x)) = Range(s) \cup {x}
BY DEF Range

\* Every message is an entry with one of its headers.
LEMMA MessageParts ==
    ASSUME NEW m \in Messages
    PROVE  /\ m.entry \in Entries
           /\ m.header \in Headers
           /\ m.header.entry = m.entry
BY DEF Messages, EntryWithHeader, Headers, Header

\* The two outcomes of commit_entry in invoke_remove_entry: the deletion
\* entry committed to chain and DHT, or an Err that ends the call.
CommitOk(c) ==
    /\ chain' = Append(chain, Header(DeletionEntry(callTarget[c]), Me))
    /\ cas' = cas \cup {DeletionEntry(callTarget[c])}
    /\ callPc' = [callPc EXCEPT ![c] = "remove"]

CommitErr(c) ==
    /\ UNCHANGED <<chain, cas>>
    /\ callPc' = [callPc EXCEPT ![c] = "err"]

LEMMA CommitDeletionOutcomes ==
    ASSUME NEW c, CommitDeletion(c)
    PROVE  /\ callPc[c] = "commit"
           /\ history' = history \cup {nextId}
           /\ nextId' = nextId + 1
           /\ UNCHANGED <<eav, net, holdPc, holdMsg, callTarget>>
           /\ CommitOk(c) \/ CommitErr(c)
BY DEF CommitDeletion, Reduce, CasAdd, CommitOk, CommitErr

-----------------------------------------------------------------------------
(* Type correctness.                                                       *)

LEMMA InitTypeInv == Init => TypeInv
BY NodeAssumption DEF Init, TypeInv, TypeOK, ThreadsHaveMessages,
                      CallsHaveTargets, Messages, EntryWithHeader, Header,
                      HoldPcs, CallPcs

LEMMA NextTypeInv == TypeInv /\ [Next]_vars => TypeInv'
<1> SUFFICES ASSUME TypeInv, [Next]_vars PROVE TypeInv'
    OBVIOUS
<1> USE NodeAssumption DEF TypeInv, TypeOK, ThreadsHaveMessages, CallsHaveTargets,
                          HoldPcs, CallPcs
<1>1. ASSUME NEW e \in Entries, AuthorEntry(e) PROVE TypeInv'
    <2>1. Header(e, Me) \in Headers
        BY DEF Headers
    <2>2. EntryWithHeader(e, Me) \in Messages
        BY DEF Messages
    <2> QED
        BY <1>1, <2>1, <2>2 DEF AuthorEntry, Reduce, CasAdd
<1>2. ASSUME NEW t \in HoldIds, NEW m \in net, HandleStoreEntry(t, m)
      PROVE TypeInv'
    BY <1>2 DEF HandleStoreEntry
<1>3. ASSUME NEW t \in HoldIds, HoldStep(t) PROVE TypeInv'
    <2>1. CASE GetValidationPackage(t)
        BY <2>1 DEF GetValidationPackage
    <2>2. CASE ValidateEntry(t)
        BY <2>2 DEF ValidateEntry
    <2>3. CASE HoldEntry(t)
        <3> DEFINE m == holdMsg[t]
        <3>1. m \in Messages
            BY <2>3 DEF HoldEntry
        <3>2. m.entry \in Entries /\ m.header \in Headers
            BY <3>1, MessageParts
        <3>3. cas' \subseteq Entries \cup DeletionEntries \cup Headers
            BY <2>3, <3>2 DEF HoldEntry, CasAdd
        <3>4. eav' \subseteq Rows
            BY <2>3, <3>2 DEF HoldEntry, EavAdd, Eavi, Rows
        <3>5. holdPc' \in [HoldIds -> HoldPcs] /\ ThreadsHaveMessages'
            BY <2>3 DEF HoldEntry
        <3>6. UNCHANGED <<chain, net, holdMsg, callPc, callTarget>>
            BY <2>3 DEF HoldEntry
        <3>7. history' \subseteq Nat /\ nextId' \in Nat
            BY <2>3 DEF HoldEntry, Reduce
        <3> QED
            BY <3>3, <3>4, <3>5, <3>6, <3>7
    <2> QED
        BY <1>3, <2>1, <2>2, <2>3 DEF HoldStep
<1>4. ASSUME NEW c \in CallIds, NEW x \in Entries \cup {NoValue},
             InvokeRemoveEntry(c, x)
      PROVE TypeInv'
    BY <1>4 DEF InvokeRemoveEntry
<1>5. ASSUME NEW c \in CallIds, CallStep(c) PROVE TypeInv'
    <2>1. CASE GetEntryResult(c)
        BY <2>1 DEF GetEntryResult
    <2>2. CASE ValidateDeletion(c)
        BY <2>2 DEF ValidateDeletion
    <2>3. CASE CommitDeletion(c)
        <3>1. /\ DeletionEntry(callTarget[c]) \in DeletionEntries
              /\ Header(DeletionEntry(callTarget[c]), Me) \in Headers
            BY <2>3 DEF CommitDeletion, Headers, DeletionEntries, Header, DeletionEntry
        <3>2. /\ chain' \in {chain, Append(chain, Header(DeletionEntry(callTarget[c]), Me))}
              /\ cas' \in {cas, cas \cup {DeletionEntry(callTarget[c])}}
            BY <2>3 DEF CommitDeletion, CasAdd
        <3>5. /\ chain' \in Seq(Headers)
              /\ cas' \subseteq Entries \cup DeletionEntries \cup Headers
            BY <3>1, <3>2
        <3>3. /\ callPc' \in [CallIds -> CallPcs]
              /\ \A d \in CallIds : callPc'[d] = callPc[d] \/ callPc'[d] \in {"remove", "err"}
            BY <2>3 DEF CommitDeletion
        <3>4. /\ UNCHANGED <<eav, net, holdPc, holdMsg, callTarget>>
              /\ history' \subseteq Nat /\ nextId' \in Nat
            BY <2>3 DEF CommitDeletion, Reduce
        <3> QED
            BY <2>3, <3>3, <3>4, <3>5 DEF CommitDeletion
    <2>4. CASE RemoveEntry(c)
        <3>1. callTarget[c] \in Entries
            BY <2>4 DEF RemoveEntry
        <3>2. eav' \subseteq Rows
            BY <2>4, <3>1 DEF RemoveEntry, EavAdd, Eavi, Rows, DeletionEntries
        <3> QED
            BY <2>4, <3>2 DEF RemoveEntry, Reduce
    <2> QED
        BY <1>5, <2>1, <2>2, <2>3, <2>4 DEF CallStep
<1>6. CASE UNCHANGED vars
    BY <1>6 DEF vars
<1> QED
    BY <1>1, <1>2, <1>3, <1>4, <1>5, <1>6 DEF Next

\* Type correctness of the node: every reachable state is well typed, for
\* every set of entries, agents, threads and calls.
THEOREM TypeCorrect == Spec => []TypeOK
<1>1. Spec => []TypeInv
    BY InitTypeInv, NextTypeInv, PTL DEF Spec
<1> QED
    BY <1>1, PTL DEF TypeInv

-----------------------------------------------------------------------------
(* Deletions are committed before they are recorded.                       *)

LEMMA InitIInv == Init => IInv
<1> SUFFICES ASSUME Init PROVE IInv
    OBVIOUS
<1>1. TypeInv
    BY InitTypeInv
<1>2. RemovingCommitted /\ DeletedRowsCommitted
    BY DEF Init, RemovingCommitted, DeletedRowsCommitted
<1> QED
    BY <1>1, <1>2 DEF IInv

\* The step that changes neither the chain, the metadata nor the calls
\* preserves both conjuncts.
LEMMA Untouched ==
    ASSUME RemovingCommitted, DeletedRowsCommitted,
           UNCHANGED <<chain, eav, callPc, callTarget>>
    PROVE  RemovingCommitted' /\ DeletedRowsCommitted'
BY DEF RemovingCommitted, DeletedRowsCommitted

LEMMA NextIInv == IInv /\ [Next]_vars => IInv'
<1> SUFFICES ASSUME IInv, [Next]_vars
             PROVE  RemovingCommitted' /\ DeletedRowsCommitted'
    BY NextTypeInv DEF IInv
<1> USE DEF IInv, TypeInv, TypeOK
<1>1. ASSUME NEW e \in Entries, AuthorEntry(e)
      PROVE  RemovingCommitted' /\ DeletedRowsCommitted'
    <2>1. Range(chain) \subseteq Range(chain')
        BY <1>1, RangeAppend DEF AuthorEntry
    <2> QED
        BY <1>1, <2>1 DEF AuthorEntry, RemovingCommitted, DeletedRowsCommitted
<1>2. ASSUME NEW t \in HoldIds, NEW m \in net, HandleStoreEntry(t, m)
      PROVE  RemovingCommitted' /\ DeletedRowsCommitted'
    BY <1>2, Untouched DEF HandleStoreEntry
<1>3. ASSUME NEW t \in HoldIds, HoldStep(t)
      PROVE  RemovingCommitted' /\ DeletedRowsCommitted'
    <2>1. CASE GetValidationPackage(t)
        BY <2>1, Untouched DEF GetValidationPackage
    <2>2. CASE ValidateEntry(t)
        BY <2>2, Untouched DEF ValidateEntry
    <2>3. CASE HoldEntry(t)
        <3>1. \A r \in eav' \ eav : ~(r.attribute = CrudStatus /\ r.value = Deleted)
            BY <2>3 DEF HoldEntry, EavAdd, Eavi, Live, Deleted, EntryHeader, CrudStatus
        <3>2. UNCHANGED <<chain, callPc, callTarget>>
            BY <2>3 DEF HoldEntry
        <3> QED
            BY <3>1, <3>2 DEF RemovingCommitted, DeletedRowsCommitted
    <2> QED
        BY <1>3, <2>1, <2>2, <2>3 DEF HoldStep
<1>4. ASSUME NEW c \in CallIds, NEW x \in Entries \cup {NoValue},
             InvokeRemoveEntry(c, x)
      PROVE  RemovingCommitted' /\ DeletedRowsCommitted'
    BY <1>4 DEF InvokeRemoveEntry, RemovingCommitted, DeletedRowsCommitted
<1>5. ASSUME NEW c \in CallIds, CallStep(c)
      PROVE  RemovingCommitted' /\ DeletedRowsCommitted'
    <2>1. CASE GetEntryResult(c)
        BY <2>1 DEF GetEntryResult, RemovingCommitted, DeletedRowsCommitted
    <2>2. CASE ValidateDeletion(c)
        BY <2>2 DEF ValidateDeletion, RemovingCommitted, DeletedRowsCommitted
    <2>3. CASE CommitDeletion(c)
        <3> DEFINE h == Header(DeletionEntry(callTarget[c]), Me)
        <3>0. UNCHANGED <<eav, callTarget>>
            BY <2>3, CommitDeletionOutcomes
        <3>1. CASE CommitOk(c)
            <4>1. Range(chain') = Range(chain) \cup {h}
                BY <3>1, RangeAppend DEF CommitOk
            <4>2. RemovingCommitted'
                BY <3>0, <3>1, <4>1 DEF CommitOk, RemovingCommitted
            <4>3. DeletedRowsCommitted'
                BY <3>0, <4>1 DEF DeletedRowsCommitted
            <4> QED
                BY <4>2, <4>3
        <3>2. CASE CommitErr(c)
            BY <3>0, <3>2 DEF CommitErr, RemovingCommitted, DeletedRowsCommitted
        <3> QED
            BY <2>3, <3>1, <3>2, CommitDeletionOutcomes
    <2>4. CASE RemoveEntry(c)
        <3>1. Header(DeletionEntry(callTarget[c]), Me) \in Range(chain)
            BY <2>4 DEF RemoveEntry, RemovingCommitted
        <3>2. \A r \in eav' \ eav : r.entity = callTarget[c]
            BY <2>4 DEF RemoveEntry, EavAdd, Eavi
        <3>3. DeletedRowsCommitted'
            BY <2>4, <3>1, <3>2 DEF RemoveEntry, DeletedRowsCommitted
        <3>4. RemovingCommitted'
            BY <2>4 DEF RemoveEntry, RemovingCommitted
        <3> QED
            BY <3>3, <3>4
    <2> QED
        BY <1>5, <2>1, <2>2, <2>3, <2>4 DEF CallStep
<1>6. CASE UNCHANGED vars
    BY <1>6, Untouched DEF vars
<1> QED
    BY <1>1, <1>2, <1>3, <1>4, <1>5, <1>6 DEF Next

\* Whatever the interleaving of hold threads and remove_entry calls, the
\* DHT metadata marks an entry Deleted only after this agent has committed
\* the deletion entry for it: invoke_remove_entry's commit_entry precedes
\* its remove_entry, and no other step writes a Deleted status.
THEOREM DeletionCommittedFirst == Spec => []DeletedRowsCommitted
<1>1. Spec => []IInv
    BY InitIInv, NextIInv, PTL DEF Spec
<1> QED
    BY <1>1, PTL DEF IInv


-----------------------------------------------------------------------------
(* Node implements NodeSpec.                                               *)
(*                                                                         *)
(* The refinement needs more than IInv: a hold step maps to NodeSpec's     *)
(* Hold only when its entry is valid, a commit of a deletion to NodeSpec's *)
(* CommitDeletion only when its target is known and deletable, and a       *)
(* remove to Delete only when its new Deleted row is the latest status     *)
(* row of the target.  RInv states these facts of the threads, the calls   *)
(* and the EAV indices.                                                    *)

\* Every EAV row was written by a reduction before the current one.
RowsBelowNext == \A r \in eav : r.index < nextId

\* A thread about to dispatch Hold carries a valid entry.
HoldingValid ==
    \A t \in HoldIds : holdPc[t] = "hold" => holdMsg[t].entry \in Valid

\* A call past its get targets an entry the node knows; one about to
\* commit its deletion targets a deletable entry.
CallsKnown ==
    \A c \in CallIds :
        /\ callPc[c] \in {"validate", "commit"} => Found(callTarget[c])
        /\ callPc[c] = "commit" => callTarget[c] \in Deletable

RInv ==
    /\ IInv
    /\ RowsBelowNext
    /\ HeldOnlyValid
    /\ DeletionsTargetKnown
    /\ HoldingValid
    /\ CallsKnown

\* The chain's committed contents in NodeSpec's form are ChainEntries.
LEMMA CommittedIsChainEntries ==
    ASSUME chain \in Seq(Headers)
    PROVE  AbstractNode!Committed = ChainEntries
BY DEF AbstractNode!Committed, ChainEntries, Range

\* A batch of rows that writes no status row of x leaves the latest status
\* rows of x as they were.
LEMMA LatestUntouched ==
    ASSUME NEW E, NEW R, NEW x, EaviQuery(R, x, CrudStatus) = {}
    PROVE  FetchEaviLatest(E \cup R, x, CrudStatus) = FetchEaviLatest(E, x, CrudStatus)
BY DEF FetchEaviLatest, LatestByAttribute, EaviQuery

\* A batch written at an index above every older row, with one status row
\* w of x, makes w the only latest status row of x.
LEMMA LatestAfterWrite ==
    ASSUME NEW E, NEW R, NEW x, NEW n \in Nat, NEW w,
           \A r \in E : r.index \in Nat /\ r.index < n,
           EaviQuery(R, x, CrudStatus) = {w},
           w.index = n
    PROVE  FetchEaviLatest(E \cup R, x, CrudStatus) = {w}
<1> DEFINE Q == EaviQuery(E \cup R, x, CrudStatus)
<1>1. w \in Q /\ w.attribute = CrudStatus
    BY Zenon DEF EaviQuery
<1>2. \A s \in Q : s.attribute = CrudStatus /\ (s = w \/ (s \in E /\ s.index < n))
    BY Zenon DEF EaviQuery
<1>3. w \in LatestByAttribute(Q)
    BY <1>1, <1>2 DEF LatestByAttribute
<1>4. ASSUME NEW r \in LatestByAttribute(Q) PROVE r = w
    <2>1. r \in Q /\ w.index <= r.index
        BY <1>1, <1>2 DEF LatestByAttribute
    <2>2. r \in E => r.index < n
        OBVIOUS
    <2> QED
        BY <2>1, <2>2, <1>2
<1> QED
    BY <1>3, <1>4 DEF FetchEaviLatest

\* Rows written for x alone, with status v at the current index: x's
\* status becomes v, and every other entry keeps its status.
LEMMA StatusAfterWrite ==
    ASSUME TypeOK, RowsBelowNext, NEW x, NEW v, NEW R,
           eav' = eav \cup R,
           \A r \in R : r.entity = x,
           EaviQuery(R, x, CrudStatus) = {Eavi(x, CrudStatus, v, nextId)}
    PROVE  /\ Status(x)' = v
           /\ \A y \in Entries \ {x} : Status(y)' = Status(y)
<1>1. \A r \in eav : r.index \in Nat /\ r.index < nextId
    BY DEF TypeOK, Rows, RowsBelowNext
<1>2. FetchEaviLatest(eav', x, CrudStatus) = {Eavi(x, CrudStatus, v, nextId)}
    <2>1. Eavi(x, CrudStatus, v, nextId).index = nextId
        BY DEF Eavi
    <2> QED
        BY <1>1, <2>1, LatestAfterWrite DEF TypeOK
<1>3. Status(x)' = v
    <2>1. (CHOOSE r \in {Eavi(x, CrudStatus, v, nextId)} : TRUE) = Eavi(x, CrudStatus, v, nextId)
        OBVIOUS
    <2> QED
        BY <1>2, <2>1 DEF Status, Eavi
<1>4. ASSUME NEW y \in Entries \ {x} PROVE Status(y)' = Status(y)
    <2>1. EaviQuery(R, y, CrudStatus) = {}
        BY Zenon DEF EaviQuery
    <2>2. FetchEaviLatest(eav', y, CrudStatus) = FetchEaviLatest(eav, y, CrudStatus)
        BY <2>1, LatestUntouched
    <2>3. Status(y)' = IF FetchEaviLatest(eav', y, CrudStatus) = {} THEN NoValue
                       ELSE (CHOOSE r \in FetchEaviLatest(eav', y, CrudStatus) : TRUE).value
        BY DEF Status
    <2>4. Status(y) = IF FetchEaviLatest(eav, y, CrudStatus) = {} THEN NoValue
                      ELSE (CHOOSE r \in FetchEaviLatest(eav, y, CrudStatus) : TRUE).value
        BY DEF Status
    <2> QED
        BY <2>2, <2>3, <2>4
<1> QED
    BY <1>3, <1>4

\* The mapped deleted set after such a write: x joins it when the new
\* status is Deleted, and leaves it otherwise.
LEMMA DeletedAfterWrite ==
    ASSUME TypeOK, RowsBelowNext, NEW x \in Entries, NEW v, NEW R,
           eav' = eav \cup R,
           \A r \in R : r.entity = x,
           EaviQuery(R, x, CrudStatus) = {Eavi(x, CrudStatus, v, nextId)}
    PROVE  /\ v = Deleted => DeletedEntries' = DeletedEntries \cup {x}
           /\ v # Deleted => DeletedEntries' = DeletedEntries \ {x}
BY StatusAfterWrite DEF DeletedEntries

\* Knowledge only grows when the chain and the CAS do.
LEMMA FoundGrows ==
    ASSUME Range(chain) \subseteq Range(chain'), cas \subseteq cas', NEW x, Found(x)
    PROVE  Found(x)'
BY DEF Found, ChainEntries

-----------------------------------------------------------------------------

LEMMA InitRInv == Init => RInv
<1> SUFFICES ASSUME Init PROVE RInv
    OBVIOUS
<1>1. Range(chain) = {}
    BY DEF Init, Range
<1> QED
    BY <1>1, InitIInv DEF Init, RInv, RowsBelowNext, HeldOnlyValid,
                          DeletionsTargetKnown, HoldingValid, CallsKnown

LEMMA NextRInv == RInv /\ [Next]_vars => RInv'
<1> SUFFICES ASSUME RInv, [Next]_vars
             PROVE  RowsBelowNext' /\ HeldOnlyValid' /\ DeletionsTargetKnown'
                    /\ HoldingValid' /\ CallsKnown'
    BY NextIInv DEF RInv
<1> USE NodeAssumption, ContentAssumption DEF RInv, IInv, TypeInv, TypeOK
<1>1. ASSUME NEW e \in Entries, AuthorEntry(e)
      PROVE  RowsBelowNext' /\ HeldOnlyValid' /\ DeletionsTargetKnown'
             /\ HoldingValid' /\ CallsKnown'
    <2>0. cas' = cas \cup {e} /\ e \in Valid
        BY <1>1 DEF AuthorEntry, CasAdd
    <2>1. Range(chain') = Range(chain) \cup {Header(e, Me)}
        BY <1>1, RangeAppend DEF AuthorEntry
    <2>2. \A x : Found(x) => Found(x)'
        BY <2>0, <2>1, FoundGrows
    <2>3. Header(e, Me).entry \notin DeletionEntries
        BY DEF Header
    <2>4. DeletionsTargetKnown'
        BY <2>0, <2>1, <2>3 DEF DeletionsTargetKnown, ChainEntries
    <2>5. HeldOnlyValid'
        BY <2>0 DEF HeldOnlyValid
    <2> QED
        BY <1>1, <2>2, <2>4, <2>5 DEF AuthorEntry, Reduce, RowsBelowNext, Rows,
                                     HoldingValid, CallsKnown
<1>2. ASSUME NEW t \in HoldIds, NEW m \in net, HandleStoreEntry(t, m)
      PROVE  RowsBelowNext' /\ HeldOnlyValid' /\ DeletionsTargetKnown'
             /\ HoldingValid' /\ CallsKnown'
    BY <1>2 DEF HandleStoreEntry, RowsBelowNext, HeldOnlyValid,
                DeletionsTargetKnown, ChainEntries, HoldingValid, CallsKnown, Found
<1>3. ASSUME NEW t \in HoldIds, HoldStep(t)
      PROVE  RowsBelowNext' /\ HeldOnlyValid' /\ DeletionsTargetKnown'
             /\ HoldingValid' /\ CallsKnown'
    <2>1. CASE GetValidationPackage(t)
        BY <2>1 DEF GetValidationPackage, RowsBelowNext, HeldOnlyValid,
                    DeletionsTargetKnown, ChainEntries, HoldingValid, CallsKnown, Found
    <2>2. CASE ValidateEntry(t)
        BY <2>2 DEF ValidateEntry, RowsBelowNext, HeldOnlyValid,
                    DeletionsTargetKnown, ChainEntries, HoldingValid, CallsKnown, Found
    <2>3. CASE HoldEntry(t)
        <3> DEFINE m == holdMsg[t]
        <3>1. m \in Messages
            BY <2>3 DEF HoldEntry, ThreadsHaveMessages
        <3>2. m.entry \in Entries /\ m.header \in Headers
            BY <3>1, MessageParts
        <3>3. cas' \cap Entries = (cas \cap Entries) \cup {m.entry}
            BY <2>3, <3>2 DEF HoldEntry, CasAdd
        <3>4. HeldOnlyValid'
            BY <2>3, <3>3 DEF HoldEntry, HeldOnlyValid, HoldingValid
        <3>5. RowsBelowNext'
            BY <2>3 DEF HoldEntry, Reduce, EavAdd, Eavi, RowsBelowNext, Rows
        <3>6. \A x : Found(x) => Found(x)'
            BY <2>3, FoundGrows DEF HoldEntry, CasAdd
        <3> QED
            BY <2>3, <3>4, <3>5, <3>6 DEF HoldEntry, CasAdd, DeletionsTargetKnown,
                                         ChainEntries, HoldingValid, CallsKnown
    <2> QED
        BY <1>3, <2>1, <2>2, <2>3 DEF HoldStep
<1>4. ASSUME NEW c \in CallIds, NEW x \in Entries \cup {NoValue},
             InvokeRemoveEntry(c, x)
      PROVE  RowsBelowNext' /\ HeldOnlyValid' /\ DeletionsTargetKnown'
             /\ HoldingValid' /\ CallsKnown'
    BY <1>4 DEF InvokeRemoveEntry, RowsBelowNext, HeldOnlyValid,
                DeletionsTargetKnown, ChainEntries, HoldingValid, CallsKnown, Found
<1>5. ASSUME NEW c \in CallIds, CallStep(c)
      PROVE  RowsBelowNext' /\ HeldOnlyValid' /\ DeletionsTargetKnown'
             /\ HoldingValid' /\ CallsKnown'
    <2>1. CASE GetEntryResult(c)
        BY <2>1 DEF GetEntryResult, RowsBelowNext, HeldOnlyValid,
                    DeletionsTargetKnown, ChainEntries, HoldingValid, CallsKnown, Found
    <2>2. CASE ValidateDeletion(c)
        BY <2>2 DEF ValidateDeletion, RowsBelowNext, HeldOnlyValid,
                    DeletionsTargetKnown, ChainEntries, HoldingValid, CallsKnown, Found
    <2>3. CASE CommitDeletion(c)
        <3> DEFINE x == callTarget[c]
        <3>0. /\ callPc[c] = "commit"
              /\ nextId' = nextId + 1
              /\ UNCHANGED <<eav, holdPc, holdMsg, callTarget>>
            BY <2>3, CommitDeletionOutcomes
        <3>1. RowsBelowNext' /\ HoldingValid'
            BY <3>0 DEF RowsBelowNext, Rows, HoldingValid
        <3>2. Found(x) /\ x \in Deletable
            BY <3>0 DEF CallsKnown
        <3>3. CASE CommitOk(c)
            <4>1. Range(chain') = Range(chain) \cup {Header(DeletionEntry(x), Me)}
                BY <3>3, RangeAppend DEF CommitOk
            <4>2. x \in Entries /\ DeletionEntry(x) \notin Entries
                BY <3>0 DEF CallsHaveTargets, DeletionEntries
            <4>3. \A y : Found(y) => Found(y)'
                BY <3>3, <4>1, FoundGrows DEF CommitOk
            <4>4. DeletionsTargetKnown'
                BY <3>2, <4>1, <4>3
                   DEF DeletionsTargetKnown, Found, ChainEntries, Header, DeletionEntry
            <4>5. CallsKnown'
                BY <3>0, <3>3, <4>3 DEF CommitOk, CallsKnown
            <4>6. HeldOnlyValid'
                BY <3>3, <4>2 DEF CommitOk, HeldOnlyValid
            <4> QED
                BY <3>1, <4>4, <4>5, <4>6
        <3>4. CASE CommitErr(c)
            BY <3>0, <3>1, <3>4 DEF CommitErr, HeldOnlyValid, DeletionsTargetKnown,
                                    ChainEntries, CallsKnown, Found
        <3> QED
            BY <2>3, <3>3, <3>4, CommitDeletionOutcomes
    <2>4. CASE RemoveEntry(c)
        <3>1. RowsBelowNext'
            BY <2>4 DEF RemoveEntry, Reduce, EavAdd, Eavi, RowsBelowNext, Rows
        <3>2. CallsKnown'
            BY <2>4 DEF RemoveEntry, CallsKnown, Found, ChainEntries
        <3> QED
            BY <2>4, <3>1, <3>2 DEF RemoveEntry, HeldOnlyValid, DeletionsTargetKnown,
                                   ChainEntries, HoldingValid
    <2> QED
        BY <1>5, <2>1, <2>2, <2>3, <2>4 DEF CallStep
<1>6. CASE UNCHANGED vars
    BY <1>6 DEF vars, RowsBelowNext, HeldOnlyValid, DeletionsTargetKnown,
                ChainEntries, HoldingValid, CallsKnown, Found
<1> QED
    BY <1>1, <1>2, <1>3, <1>4, <1>5, <1>6 DEF Next

\* A step that leaves the chain, the CAS and the EAV rows alone leaves the
\* abstract node alone.
\* The deleted set is read from the EAV rows alone.
LEMMA DeletedUnchanged ==
    ASSUME UNCHANGED eav
    PROVE  UNCHANGED DeletedEntries
<1>1. \A x \in Entries : Status(x)' = Status(x)
    BY DEF Status
<1> QED
    BY <1>1 DEF DeletedEntries

LEMMA MappingUnchanged ==
    ASSUME UNCHANGED <<cas, eav>>
    PROVE  UNCHANGED <<HeldEntries, DeletedEntries>>
BY DeletedUnchanged DEF HeldEntries

LEMMA AbstractStutter ==
    ASSUME UNCHANGED <<chain, cas, eav>>
    PROVE  UNCHANGED AbstractNode!vars
BY MappingUnchanged DEF AbstractNode!vars

\* Every step of Node is a step of NodeSpec under the refinement mapping,
\* or leaves its variables unchanged.
LEMMA NextRefines ==
    ASSUME RInv, [Next]_vars
    PROVE  [AbstractNode!Next]_AbstractNode!vars
<1> USE NodeAssumption, ContentAssumption DEF RInv, IInv, TypeInv, TypeOK
<1>1. ASSUME NEW e \in Entries, AuthorEntry(e)
      PROVE  AbstractNode!CommitEntry(e)
    <2>1. AbstractNode!Committed = ChainEntries
        BY CommittedIsChainEntries
    <2>2. HeldEntries' = HeldEntries \cup {e}
        BY <1>1 DEF AuthorEntry, CasAdd, HeldEntries
    <2>3. UNCHANGED DeletedEntries
        BY <1>1, DeletedUnchanged DEF AuthorEntry
    <2> QED
        BY <1>1, <2>1, <2>2, <2>3 DEF AuthorEntry, AbstractNode!CommitEntry,
                                     AbstractNode!Commit, Header
<1>2. ASSUME NEW t \in HoldIds, HoldEntry(t)
      PROVE  AbstractNode!Hold(holdMsg[t].entry)
    <2> DEFINE m == holdMsg[t]
    <2>1. m \in Messages
        BY <1>2 DEF HoldEntry, ThreadsHaveMessages
    <2>2. m.entry \in Entries /\ m.header \in Headers
        BY <2>1, MessageParts
    <2>3. m.entry \in Valid
        BY <1>2 DEF HoldEntry, HoldingValid
    <2>4. HeldEntries' = HeldEntries \cup {m.entry}
        BY <1>2, <2>2 DEF HoldEntry, CasAdd, HeldEntries
    <2> DEFINE R == {Eavi(m.entry, EntryHeader, m.header, nextId),
                     Eavi(m.entry, CrudStatus, Live, nextId)}
    <2>5. /\ eav' = eav \cup R
          /\ \A r \in R : r.entity = m.entry
          /\ EaviQuery(R, m.entry, CrudStatus) = {Eavi(m.entry, CrudStatus, Live, nextId)}
        BY <1>2 DEF HoldEntry, EavAdd, Eavi, EaviQuery, EntryHeader, CrudStatus
    <2>6. DeletedEntries' = DeletedEntries \ {m.entry}
        <3>1. Live # Deleted
            BY DEF Live, Deleted
        <3>2. PICK e \in Entries : e = m.entry
            BY <2>2
        <3>3. /\ eav' = eav \cup {Eavi(e, EntryHeader, m.header, nextId),
                                  Eavi(e, CrudStatus, Live, nextId)}
              /\ \A r \in {Eavi(e, EntryHeader, m.header, nextId),
                           Eavi(e, CrudStatus, Live, nextId)} : r.entity = e
              /\ EaviQuery({Eavi(e, EntryHeader, m.header, nextId),
                            Eavi(e, CrudStatus, Live, nextId)}, e, CrudStatus)
                   = {Eavi(e, CrudStatus, Live, nextId)}
            BY ONLY <2>5, <3>2, Zenon
        <3>4. RowsBelowNext /\ TypeOK
            OBVIOUS
        <3>5. PICK S : S = {Eavi(e, EntryHeader, m.header, nextId),
                            Eavi(e, CrudStatus, Live, nextId)}
            BY ONLY <3>2, Zenon
        <3>6. /\ eav' = eav \cup S
              /\ \A r \in S : r.entity = e
              /\ EaviQuery(S, e, CrudStatus) = {Eavi(e, CrudStatus, Live, nextId)}
            BY ONLY <3>3, <3>5, Zenon
        <3>7. DeletedEntries' = DeletedEntries \ {e}
            BY ONLY <3>1, <3>2, <3>4, <3>6, DeletedAfterWrite, Zenon
        <3> QED
            BY <3>2, <3>7
    <2> QED
        BY <1>2, <2>3, <2>4, <2>6 DEF HoldEntry, AbstractNode!Hold
<1>3. ASSUME NEW c \in CallIds, CommitDeletion(c), CommitOk(c)
      PROVE  AbstractNode!CommitDeletion(callTarget[c])
    <2> DEFINE x == callTarget[c]
    <2>0. callPc[c] = "commit" /\ UNCHANGED eav
        BY <1>3, CommitDeletionOutcomes
    <2>1. x \in Entries /\ x \in Deletable /\ Found(x)
        BY <2>0 DEF CallsKnown, CallsHaveTargets
    <2>2. AbstractNode!Committed = ChainEntries
        BY CommittedIsChainEntries
    <2>3. x \in AbstractNode!Known
        BY <2>1, <2>2 DEF Found, AbstractNode!Known, HeldEntries
    <2>4. DeletionEntry(x) \notin Entries
        BY <2>1 DEF DeletionEntries
    <2>5. UNCHANGED HeldEntries
        BY <1>3, <2>4 DEF CommitOk, HeldEntries
    <2>6. UNCHANGED DeletedEntries
        BY <2>0, DeletedUnchanged
    <2> QED
        BY <1>3, <2>1, <2>3, <2>5, <2>6 DEF CommitOk, AbstractNode!CommitDeletion,
                                           AbstractNode!Commit, AbstractNode!Deletion,
                                           Header, DeletionEntry
<1>4. ASSUME NEW c \in CallIds, RemoveEntry(c), callTarget[c] \in cas
      PROVE  AbstractNode!Delete(callTarget[c])
    <2> DEFINE x == callTarget[c]
    <2>1. x \in Entries
        BY <1>4 DEF RemoveEntry, CallsHaveTargets
    <2>2. AbstractNode!Deletion(x) \in AbstractNode!Committed
        <3>1. Header(DeletionEntry(x), Me) \in Range(chain)
            BY <1>4 DEF RemoveEntry, RemovingCommitted
        <3> QED
            BY <3>1, CommittedIsChainEntries
               DEF ChainEntries, Header, DeletionEntry, AbstractNode!Deletion
    <2> DEFINE R == {Eavi(x, CrudStatus, Deleted, nextId),
                     Eavi(x, CrudLink, DeletionEntry(x), nextId)}
    <2>3. /\ eav' = eav \cup R
          /\ \A r \in R : r.entity = x
          /\ EaviQuery(R, x, CrudStatus) = {Eavi(x, CrudStatus, Deleted, nextId)}
        BY <1>4 DEF RemoveEntry, EavAdd, Eavi, EaviQuery, CrudLink, CrudStatus
    <2>4. DeletedEntries' = DeletedEntries \cup {x}
        BY <2>1, <2>3, DeletedAfterWrite
    <2>5. HeldEntries' = HeldEntries
        BY <1>4 DEF RemoveEntry, HeldEntries
    <2> QED
        BY <1>4, <2>1, <2>2, <2>4, <2>5 DEF RemoveEntry, AbstractNode!Delete, HeldEntries
<1>5. ASSUME NEW c \in CallIds, RemoveEntry(c), callTarget[c] \notin cas
      PROVE  UNCHANGED AbstractNode!vars
    BY <1>5, AbstractStutter DEF RemoveEntry
<1> QED
    <2>1. CASE \E e \in Entries : AuthorEntry(e)
        BY <2>1, <1>1 DEF AbstractNode!Next
    <2>2. CASE \E t \in HoldIds : HoldEntry(t)
        <3>1. PICK t \in HoldIds : HoldEntry(t)
            BY <2>2
        <3>2. holdMsg[t].entry \in Entries
            BY <3>1, MessageParts DEF HoldEntry, ThreadsHaveMessages
        <3> QED
            BY <3>1, <3>2, <1>2 DEF AbstractNode!Next
    <2>3. CASE \E c \in CallIds : CommitDeletion(c)
        <3>1. PICK c \in CallIds : CommitDeletion(c)
            BY <2>3
        <3>2. callTarget[c] \in Entries
            BY <3>1 DEF CommitDeletion, CallsHaveTargets
        <3>3. CASE CommitOk(c)
            BY <3>1, <3>2, <3>3, <1>3 DEF AbstractNode!Next
        <3>4. CASE CommitErr(c)
            BY <3>1, <3>4, CommitDeletionOutcomes, AbstractStutter DEF CommitErr
        <3> QED
            BY <3>1, <3>3, <3>4, CommitDeletionOutcomes
    <2>4. CASE \E c \in CallIds : RemoveEntry(c)
        <3>1. PICK c \in CallIds : RemoveEntry(c)
            BY <2>4
        <3>2. callTarget[c] \in Entries
            BY <3>1 DEF RemoveEntry, CallsHaveTargets
        <3> QED
            BY <3>1, <3>2, <1>4, <1>5 DEF AbstractNode!Next
    <2>5. CASE UNCHANGED <<chain, cas, eav>>
        BY <2>5, AbstractStutter
    <2> QED
        BY <2>1, <2>2, <2>3, <2>4, <2>5
           DEF Next, vars, HoldStep, CallStep, HandleStoreEntry, GetValidationPackage,
               ValidateEntry, InvokeRemoveEntry, GetEntryResult, ValidateDeletion

\* Node implements NodeSpec: whatever the interleaving of hold threads,
\* the author workflow and remove_entry calls, the chain only grows by a
\* valid new entry or by the deletion of a known deletable one, only valid
\* entries are held, and an entry is marked Deleted only while it is held
\* and its deletion is on the chain.
THEOREM NodeImplementsSpec == Spec => ImplementsNodeSpec
<1>1. Spec => []RInv
    BY InitRInv, NextRInv, PTL DEF Spec
<1>2. Init => AbstractNode!Init
    <2> SUFFICES ASSUME Init PROVE AbstractNode!Init
        OBVIOUS
    <2>1. \A x \in Entries : Status(x) = NoValue
        BY DEF Init, Status, FetchEaviLatest, LatestByAttribute, EaviQuery
    <2> QED
        BY <2>1, ContentAssumption DEF Init, AbstractNode!Init, HeldEntries, DeletedEntries
<1>3. RInv /\ [Next]_vars => [AbstractNode!Next]_AbstractNode!vars
    BY NextRefines
<1> QED
    BY <1>1, <1>2, <1>3, PTL DEF Spec, ImplementsNodeSpec, AbstractNode!Spec

\* Validation rejection holds for every instance: however StoreEntry
\* deliveries and hold threads interleave, the shard holds only entries the
\* DNA's validation accepts.
THEOREM ShardHoldsOnlyValid == Spec => []HeldOnlyValid
<1>1. Spec => []RInv
    BY InitRInv, NextRInv, PTL DEF Spec
<1> QED
    BY <1>1, PTL DEF RInv

\* Every deletion entry this agent commits targets an entry it knew, since
\* the get that precedes commit_entry in invoke_remove_entry found it and
\* knowledge never shrinks.
THEOREM DeletionsKnown == Spec => []DeletionsTargetKnown
<1>1. Spec => []RInv
    BY InitRInv, NextRInv, PTL DEF Spec
<1> QED
    BY <1>1, PTL DEF RInv



=============================================================================
