# Verification models of the holochain-rust sources

TLA+ models of the parts of `src/` that hold state or coordinate threads.
They are checked with TLC on small instances. The central invariants are proved
with TLAPS for every value of the constants.

## The system and how its parts interact

A node runs one **State** (`core/src/state.rs`). It is made of four slices:
nucleus, agent (the source chain), DHT (content store plus EAV metadata) and
network. Every change is an `ActionWrapper` that `State::reduce` hands to all
four slice reducers. The wrapper is then inserted into `history`.

Three kinds of actor dispatch actions concurrently:

* **Network handlers** (`core/src/network/handler/store.rs`).
  * `handle_store_entry` spawns one OS thread per `StoreEntry` message. The
    thread runs `hold_entry_workflow` (`core/src/workflows/hold_entry.rs`):
    fetch the validation package, validate, then dispatch `Hold`.
  * `handle_store_meta` spawns a link workflow per `link`/`link_remove`
    message. It ignores CRUD metadata.
* **Zome calls.** Wasm code calls host functions through `Runtime`
  (`core/src/nucleus/ribosome/runtime.rs`). Arguments and results cross
  linear memory as encoded allocations.
  * `invoke_remove_entry` (`.../api/remove_entry.rs`) blocks on a get, then
    validation, then `commit_entry`, then the `RemoveEntry` action.
  * The runtime looks zome functions and entry types up in the **Dna**
    (`core_types/src/dna/dna.rs`).
* **The network reducer** `reduce_init` (`core/src/network/reducers/init.rs`)
  opens the P2P connection and tracks the DNA.

Beside the core:

* The conductor runs a **static UI server**
  (`conductor_api/src/static_file_server.rs`): a thread per `start`, stopped
  through a channel.
* The **sodium** crate wraps libsodium (key derivation, password hashing,
  signing) over `SecBuf`s.

## Modules

| Module | Models | State and actions |
|---|---|---|
| `DhtStore` | CAS and EAVI storage (not under `src/`; from the spec, sections 3, 4.4 and 8) | operators only: `CasAdd`, `EavAdd`, `EaviQuery`, `LatestByAttribute` |
| `Node` | one node: State, hold threads, remove_entry calls | see below |
| `NodeSpec` | what a node promises (spec sections 3, 4.2, 4.4, 7), without threads or EAV rows | `CommitEntry`, `CommitDeletion`, `Hold`, `Delete` |
| `NetworkBridge` | `reduce_init`, `handle_store_meta` | `ReduceInit`, `HandleStoreMeta`, `LinkWorkflow` |
| `Ribosome` | `Runtime`: `zome_call_data`, `load_json_string_from_args`, `store_as_json_string`, `store_result`, `invoke_index` | `GuestWrite`, `InvokeIndex` |
| `Dna` | the Dna lookups | `Ask(q)`, one lookup of the loaded DNA |
| `StaticServer` | `from_configs`, `start` with its thread, `stop` | `Start`, `BindOk`, `BindPanics`, `Recv`, `Stop` |
| `Sodium` | buffer lengths in `kdf::derive`, `pwhash::hash`, `sign::{seed_keypair, sign, verify}` | one action per wrapper |

The `MC_*` modules fix the constants for TLC. `NodeProofs`, `RibosomeProofs`,
`DnaProofs` and `StaticServerProofs` hold the TLAPS proofs. PROJECT.json `map` lists the
source lines each definition translates.

**Node.** The variables are the chain, the CAS, the EAV rows, history, the next
wrapper id, and the StoreEntry messages the network can deliver.

* Each hold thread has a program counter (`holdPc`) and its message.
* Each remove_entry call has a program counter (`callPc`) and its target.
* Every `await!`/`block_on` boundary of `hold_entry_workflow` and
  `invoke_remove_entry` is the end of an action. Other threads' steps may come
  in between.
* An action that dispatches reduces atomically. `Reduce` adds the wrapper id to
  history.
* The author workflow and the DHT reducers for Hold and RemoveEntry are not
  under `src/`. They follow the spec: a hold records `EntryHeader` and
  `CrudStatus = Live`; a remove records `Deleted` and a CRUD link, or fails
  when the content is missing.
* A commit (the author workflow, and step 3 of `invoke_remove_entry`) goes
  "to chain and DHT": it appends the header and puts the entry in the CAS.
  `CommitDeletion` may also fail, and the call then reports an error without
  a header or CAS write.
  * Headers carry no timestamp, so `AuthorEntry` commits each entry at most
    once. A second commit would write an identical header. This also bounds
    the chain.
* A failing `P2pNetwork::new` is not a `Node` concern; `NetworkBridge` models
  it.

**NodeSpec and the refinement.** `NodeSpec` is the abstract node: a chain
that grows by one header of this agent at a time, a set of held entries, and
the set of held entries whose status is Deleted. Each step is atomic.

* A commit is of a valid entry not yet on the chain, or of the deletion of a
  deletable entry the node knows.
* Holding a valid entry makes it Live.
* An entry becomes Deleted only while it is held and its deletion is on the
  chain.

`Node` maps to it by `HeldEntries` (the entries in the CAS) and
`DeletedEntries` (the entries whose latest `crud_status` row says Deleted).
`AbstractNode == INSTANCE NodeSpec WITH ...` gives the mapped specification.
The property `ImplementsNodeSpec == AbstractNode!Spec` says that each step of
`Node` is one abstract step or leaves the mapped state alone:

* the author workflow maps to `CommitEntry`;
* a hold reduction maps to `Hold`;
* a deletion commit maps to `CommitDeletion`;
* a successful `RemoveEntry` maps to `Delete`;
* every other step is a stutter.

**Ribosome.**

* Bytes are abstracted to three values: terminator, text, non-UTF-8.
* The allocator hands out consecutive ranges of a `MemSize` memory. It and the
  word encoding are from the spec, section 4.3.
* `InvokeIndex` follows the code's order:
  1. an unknown index panics;
  2. `zome_call_data()?` traps a direct call;
  3. argument loading asserts one argument, panics on a failure word, unwraps
     the allocation and the UTF-8 conversion;
  4. decode failure returns `ArgumentDeserializationFailed`;
  5. otherwise the result goes through `store_as_json_string`, which pushes a
     0 byte and returns `Unspecified` when the write does not fit.

**Dna.**

* `Dna::zomes` is a `BTreeMap`, which iterates its keys in increasing
  order. `ZomeOrder(d)` is therefore any sequence that lists the zome names
  once each in increasing order (`SortedKeys`). There is exactly one.
* The nested loops of `get_zome_name_for_app_entry_type` and
  `get_entry_type_def` return at their first match. `Declaring` is the set of
  outer iterations whose zome defines the type. `FirstDeclaring` is the zome
  of the least of them.
* The lookups that call `get_zome(..)?` and then test the function or trait
  are IF chains in the code's order, so a missing zome is reported as
  `ZomeNotFound` and never as a missing function.

## Runs

| Run | Checks | Result |
|---|---|---|
| `node_safety` | `TypeOK`, `HeldOnlyValid`, `DeletedRowsCommitted`, `DeletionsTargetKnown`, `FailedRemoveCommitsNothing`, `ImplementsNodeSpec` | pass |
| `node_live` | `RemoveReturns`, `ValidatedEntriesHeld` | pass |
| `node_headers` | `GetHeadersComplete` | violation |
| `node_resurrect` | `DeletedStaysDeleted` | violation |
| `static_server` | `RunningMatchesSignal`, `StoppedServerReleasesPort` | pass |
| `static_server_stop` | `RunningServerStoppable` | violation |
| `ribosome` | `TypeOK`, `HandlesReadBack` | pass |
| `ribosome_trap` | `ArgumentErrorsDoNotTrap` | violation |
| `dna` | `EntryTypeLookupsAgree`, `AnswersMatchDna` | pass |
| `bridge_panic` | `InboundFailuresSwallowed` | violation |
| `sodium_bounds` | `NoOutOfBounds` | violation |

What the passing runs show:

* Two hold threads, two remove_entry calls and the author workflow interleave
  freely. Still:
  * no entry the DNA rejects is ever held;
  * a `Deleted` row exists only after its deletion entry was committed;
  * a committed deletion always targets an entry the node knew;
  * a remove_entry call that reports failure has committed no deletion entry
    (`FailedRemoveCommitsNothing`). The `RemoveEntry` reducer fails only when
    the target's content is missing from the CAS. The get before the commit
    found it on the chain or in the CAS, and commits put their entries in the
    CAS, so the target is still there. Only a failed commit reports an
    error, and it has written nothing;
  * the node implements `NodeSpec`.
* Every remove_entry call that got past decoding returns.
* A hold thread that got the validation package of a valid entry ends with
  that entry in the shard. Only the fetch before it may hang.
* The server's running flag agrees with its stored sender. A stopped
  server's thread releases the port.
* In the ribosome, every allocation reads back its payload even after the
  memory filled up. Host results keep their terminator.
* Over every DNA of up to two zomes:
  * `get_entry_type_def` and `get_zome_name_for_app_entry_type` pick the same
    zome;
  * each lookup answers what the DNA declares.

The violation runs are the findings in PROJECT.json:

* `get_headers` returns only the latest DHT header of an entry
  (`IndexFilter::LatestByAttribute`). The spec says headers accumulate.
* A StoreEntry delivered again after a deletion makes the entry Live.
* A second `start` overwrites the sender. Dropping the old sender makes the
  old thread return by itself, but the new thread may reach `bind` while the
  old one still holds the port, and panic there. Then `running` is true and
  no live thread can receive: every `stop()` fails with a send error and
  leaves `running` true until another `start`.
* A `link`/`link_remove` StoreMeta whose content list does not have exactly
  one element reaches `assert_eq!` and panics the network handler. The spec
  (section 5) says inbound failures are logged and swallowed.
* Malformed zome-call arguments trap instead of returning a failure word.
* `kdf::derive` does not check the length of the parent key before libsodium
  reads 32 bytes of it. `sign` checks no length at all.

Two further hazards are recorded in PROJECT.json without a run:

* `State::reduce` inserts into `history` but never reads it, so a wrapper
  dispatched twice is applied twice. The spec (4.1) calls re-dispatch a no-op.
  The instance creates a fresh wrapper per dispatch, as `Node` does.
* `reduce_init` unwraps `P2pNetwork::new`: a network that cannot be opened
  panics the thread that reduces every action. `NetworkBridge` models the
  panic (`reducer` becomes `panicked`), but the spec states nothing a failed
  init should do, so no property is checked against it.

Each property of a passing run has a mutant in PROJECT.json: a plausible bug
in the mapped definition under which TLC finds the property violated.

## Bounds

* **Node:** two entries (one valid, one deletable), two agents, two hold
  threads, two calls, symmetric over threads and calls in the safety run.
  * That is enough for the hazards: two holds racing each other and a remove,
    a delivery from a foreign author and from ourselves, a remove of a held
    and of an unheld entry, and two removes of the same entry.
  * The liveness run has no symmetry.
* **Ribosome:** six bytes of memory and three calls. The allocator fills the
  memory to its end, so a result that does not fit occurs.
* **StaticServer:** three starts, so a restart over a running server and a
  stop after a restart both occur.
* **NetworkBridge:** three inits and three StoreMeta messages over two links.
* **Dna:** every DNA over two zome names, one trait, two functions and two
  entry types.

## Fairness

* **Node:** weak fairness of each hold thread's local steps
  (`ValidateEntry \/ HoldEntry`) and of each call's step (`CallStep`). These
  are OS threads, and a wasm thread blocked in `block_on` on a local
  reduction. Once runnable, the scheduler runs them.
  * `GetValidationPackage` gets no fairness. It awaits a remote author with no
    timeout (`hold_entry.rs:24`), so a thread may wait in it forever.
  * Network deliveries and new calls get no fairness either: they may never
    come.
* **StaticServer:** weak fairness of each server thread (a spawned OS thread).
  `start` and `stop` are the conductor's choices and get none.

## Proofs (TLAPS)

* **`NodeProofs`**
  * `TypeCorrect`: `Spec => []TypeOK`. `TypeOK` is not inductive, since
    `HoldEntry`, `CommitDeletion` and `RemoveEntry` read a thread's message or a
    call's target. The proof goes through `TypeInv`, which adds that a spawned
    thread carries a message and a call past decoding targets an entry.
  * `DeletionCommittedFirst`: `Spec => []DeletedRowsCommitted`.
    * `DeletedRowsCommitted` is not inductive on its own. A call at `remove`
      could write a Deleted row for a target whose deletion was never
      committed.
    * The inductive invariant `IInv` adds `RemovingCommitted`: every call at
      `remove` has its deletion entry on the chain.
    * `NextIInv` has one step per action. Hold adds no Deleted row. Commit only
      extends the chain (lemma `RangeAppend`). Remove writes the row of a call
      whose commit `RemovingCommitted` guarantees.
  * `NodeImplementsSpec`: `Spec => ImplementsNodeSpec`, for every instance.
    * It rests on the inductive invariant `RInv`. `RInv` adds five facts to
      `IInv`:
      * every EAV row has an index below `nextId` (`RowsBelowNext`), so the
        rows a reduction writes are the latest of their entity;
      * `HeldOnlyValid` and `DeletionsTargetKnown`;
      * a thread at `hold` carries a valid entry;
      * a call past its get targets a found entry, and a call at `commit` a
        deletable one.
    * `NextRInv` has one step per action. `NextRefines` maps each action to
      its abstract step.
    * The lemmas `LatestAfterWrite`, `StatusAfterWrite` and
      `DeletedAfterWrite` compute the status after a write.
    * The QED combines `[]RInv`, the initial-state mapping and the step
      mapping by PTL.
    * `CommitDeletion` has two outcomes. Lemma `CommitDeletionOutcomes`
      names them `CommitOk` (header and CAS written) and `CommitErr`
      (nothing written), and every step of the proofs splits on them. A
      failed commit is an abstract stutter.
    * Lemma `DeletedUnchanged`: a step that leaves `eav` alone leaves
      `DeletedEntries` alone.
  * `ShardHoldsOnlyValid` and `DeletionsKnown`: `Spec => []HeldOnlyValid` and
    `Spec => []DeletionsTargetKnown`, both corollaries of `[]RInv`.
* **`RibosomeProofs`**
  * `RibosomeTypeCorrect` and `AllocationsReadBack`: `Spec => []TypeOK` and
    `Spec => []HandlesReadBack`, for every memory size and call bound.
  * The inductive invariant adds `HandlesBelowTop`: every allocation ends at
    or below the allocator's `top`. A write starts at `top`, so it touches no
    earlier allocation (lemma `WriteKeeps`). Its own range reads back what it
    wrote (`WriteReads`).
  * A store that does not fit leaves the memory alone (`MemoryUntouched`).
* **`DnaProofs`**
  * `LookupsMatchDna`: `Spec => []AnswersMatchDna`, for every finite set of
    zome names (`DnaAssumption`: zome names are naturals, finitely many).
    * It rests on `IInv`: the kept answer is the lookup of the kept query.
      `FunctionFound` and the trait case show that each lookup answers what
      the Dna declares.
    * The entry-type case needs `FirstDeclaringIsLeast`: the zome of the
      first iteration that defines a type is the least zome name defining
      it.
    * That rests on `ZomeOrderSorted`: a sorted enumeration of the zome
      names exists, so `ZomeOrder` is one. `SortedEnumExists` proves this
      for every finite set of naturals by least counterexample. Among the
      sizes of sets with no sorted enumeration, `WFMin` and
      `NatLessThanWellFounded` give a least one. Removing the least element
      of such a set leaves a smaller set that has one, and putting that
      element first sorts the original. The library's induction theorems
      take an operator parameter, which the provers cannot instantiate, so
      the induction is done this way.
  * `EntryTypeLookupsConsistent`: `Spec => []EntryTypeLookupsAgree`. The two
    lookups run the same loops and take the same branch for every app entry
    type (`LookupsAgree`).
* **`StaticServerProofs`**
  * `ServerTypeCorrect`: `Spec => []TypeOK`.
  * `RunningSignalAgree`: `Spec => []RunningMatchesSignal`.
  * Both hold for every `MaxStarts`. `TypeOK /\ RunningMatchesSignal` is
    inductive. Stop's three outcomes are separate cases.

The assumptions are the named `ASSUME`s of the modules, which TLC also
evaluates:

* `NodeAssumption`, `RibosomeAssumption`, `DnaAssumption`;
* `ContentAssumption`: application entries are neither headers nor deletion
  entries, which are distinct Rust types; and `NoValue` is no CRUD status;
* `StartsAssumption`.

## Left to TLC

* Liveness (`RemoveReturns`, `ValidatedEntriesHeld`,
  `StoppedServerReleasesPort`): TLAPS has no support here for fairness
  reasoning over ENABLED.
* `FailedRemoveCommitsNothing`. Its proof would relate the number of
  deletion headers on the chain (a `SelectSeq` length) to the set of calls
  that committed, which the provers do not reach without induction over the
  chain.
* `Sodium`'s buffer bounds, which only a violation run checks.
* The violation runs, which are counterexamples.

## Not modelled

* `StaticService` request handling: HTTP and file I/O.
* `holo_signing_service.rs`: one HTTP request.
* `http.rs`, `conductor/mod.rs`, `net/src/lib.rs`: constructors and module
  declarations.
* `sodium/src/error.rs`: an error enum.
* `network/mod.rs`: tests only.
* `State::new_with_agent` and `try_from_agent_snapshot`: rebuilding a state
  from a persisted chain.
  * `try_from_agent_snapshot` builds the restored ChainStore over
    `dht_storage`, while `State::new` builds it over `chain_storage`.
  * Whether these are one store is decided by the conductor's configuration,
    which is not under `src/`. Snapshot persistence and the ChainStore walk are
    not under `src/` either, and the spec says nothing of them.
  * A restart model would therefore guess the one thing that decides its
    outcome: which headers the restored chain still finds.
* The cryptographic content of the sodium functions: only buffer lengths
  matter to the properties.
