------------------------------ MODULE Ribosome ------------------------------
(***************************************************************************)
(* One execution context of the ribosome: a wasm instance calling host     *)
(* functions through Runtime (core/src/nucleus/ribosome/runtime.rs).       *)
(* Wasm runs one call at a time, so a host call is one atomic step from    *)
(* the guest's point of view.                                              *)
(*                                                                         *)
(* Complex values cross the boundary as bytes in the shared linear memory: *)
(* the guest passes an encoded allocation word, the host copies the bytes  *)
(* out (load_json_string_from_args) and returns its result through a       *)
(* fresh allocation ending in a 0 byte (store_as_json_string).  The        *)
(* encoding of words (RibosomeEncodedValue) and the allocator              *)
(* (WasmPageManager, WasmAllocation) are not under src/ and follow the     *)
(* spec (sections 3 and 4.3): a word is one of three disjoint kinds, and   *)
(* the allocator hands out consecutive ranges of the memory.               *)
(***************************************************************************)
EXTENDS Naturals, Sequences

CONSTANTS
    MemSize,   \* bytes of linear memory the allocator may hand out
    Known,     \* indices of ZomeApiFunction other than MissingNo
    Indices,   \* the indices a guest may call
    MaxCalls   \* bound on the host calls of one run

ASSUME RibosomeAssumption ==
    /\ MemSize \in Nat \ {0}
    /\ Known \subseteq Indices
    /\ MaxCalls \in Nat

\* Bytes, abstracted to what the runtime tells apart: the 0 terminator, a
\* byte of valid UTF-8 text, and one that is not valid UTF-8.
Nul == 0
Text == 1
NotUtf8 == 2
Bytes == {Nul, Text, NotUtf8}

Addrs == 0..(MemSize - 1)

\* RibosomeEncodedValue: the three disjoint meanings of a word.
Success == [kind |-> "success"]
Failure(code) == [kind |-> "failure", code |-> code]
Allocation(o, l) == [kind |-> "allocation", offset |-> o, length |-> l]
\* No host call has returned yet.
NoReturn == [kind |-> "none"]

Codes == {"Unspecified", "ArgumentDeserializationFailed"}

\* The payloads a guest writes for an argument: JSON text, or bytes that
\* are not UTF-8.
GuestPayloads == {<<Text>>, <<Text, Text>>, <<NotUtf8>>}

\* The JSON of ZomeApiInternalResult for a host function's Ok and Err
\* results; a failure carries the error and is the longer of the two.
ResultJson(ok) == IF ok THEN <<Text>> ELSE <<Text, Text>>

\* Why an execution context was trapped.
TrapCauses == {"unknown_index", "direct_call", "arg_count", "failure_word",
               "malformed_handle", "not_utf8"}

VARIABLES
    data,     \* Runtime.data: a zome call, or a direct call without zome data
    mem,      \* the shared linear memory
    top,      \* the allocator's next free offset
    handles,  \* every (allocation, payload) pair the allocator produced
    phase,    \* "guest" while the wasm code runs, "trapped" once a call trapped
    cause,    \* what trapped it
    ret,      \* the word the last host call returned to the guest
    calls     \* host calls made

vars == <<data, mem, top, handles, phase, cause, ret, calls>>

Words == {Success} \cup {Failure(c) : c \in Codes}
         \cup {Allocation(o, l) : o \in 0..MemSize, l \in 0..MemSize}

TypeOK ==
    /\ data \in {"zome", "direct"}
    /\ mem \in [Addrs -> Bytes]
    /\ top \in 0..MemSize
    /\ handles \subseteq [offset : Addrs, length : 1..MemSize, payload : Seq(Bytes),
                          by : {"guest", "host"}]
    /\ phase \in {"guest", "trapped"}
    /\ cause \in TrapCauses \cup {"none"}
    /\ ret \in Words \cup {NoReturn}
    /\ calls \in 0..MaxCalls

-----------------------------------------------------------------------------
(* Memory and the allocator.                                               *)

\* WasmPageManager::read of an allocation.
Read(o, l) == [i \in 1..l |-> mem[o + i - 1]]

\* WasmAllocation::try_from of an allocation word: a zero length or a range
\* past the memory is rejected.
WellFormed(w) == w.length > 0 /\ w.offset + w.length <= MemSize

\* Mutant: the bound check of the allocator off by one.
CanWriteOffByOne(bytes) == top + Len(bytes) <= MemSize + 1

\* WasmPageManager::write: the bytes go to the next free range, which
\* must fit in the memory; returns the allocation.
CanWrite(bytes) == top + Len(bytes) <= MemSize

Write(bytes) ==
    /\ mem' = [a \in Addrs |-> IF top <= a /\ a < top + Len(bytes)
                                 THEN bytes[a - top + 1] ELSE mem[a]]
    /\ top' = top + Len(bytes)

\* The pair Write records: the allocation, the payload whose bytes it holds
\* and who wrote it.
Produced(bytes, payload, by) ==
    [offset |-> top, length |-> Len(bytes), payload |-> payload, by |-> by]

-----------------------------------------------------------------------------

Init ==
    /\ data \in {"zome", "direct"}
    /\ mem = [a \in Addrs |-> Nul]
    /\ top = 0
    /\ handles = {}
    /\ phase = "guest"
    /\ cause = "none"
    /\ ret = NoReturn
    /\ calls = 0

\* The guest allocates and writes the bytes of an argument.
GuestWrite(p) ==
    /\ phase = "guest"
    /\ CanWrite(p)
    /\ Write(p)
    /\ handles' = handles \cup {Produced(p, p, "guest")}
    /\ UNCHANGED <<data, phase, cause, ret, calls>>

\* The words a guest can pass: those of the allocations it holds, the
\* success and failure words, and an allocation past the memory.
ArgWords == {Success, Failure("Unspecified"), Allocation(MemSize - 1, 2)}
            \cup {Allocation(h.offset, h.length) : h \in handles}
ArgLists == {<<>>, <<Success, Success>>} \cup {<<w>> : w \in ArgWords}

\* A host call that traps the execution context.
Trap(why) ==
    /\ phase' = "trapped"
    /\ cause' = why
    /\ UNCHANGED <<data, mem, top, handles, ret>>

\* load_json_string_from_args: the trap it raises on an argument list, or
\* "none" when it returns a JsonString.
LoadTrap(args) ==
    IF Len(args) # 1 THEN "arg_count"
    ELSE LET w == args[1] IN
         CASE w.kind = "success" -> "none"
           [] w.kind = "failure" -> "failure_word"
           [] w.kind = "allocation" /\ ~WellFormed(w) -> "malformed_handle"
           [] w.kind = "allocation" /\ WellFormed(w) /\
              \E i \in 1..w.length : Read(w.offset, w.length)[i] = NotUtf8 -> "not_utf8"
           [] OTHER -> "none"

\* The argument was the success word, which loads as JsonString::null.
LoadsNull(args) == args[1].kind = "success"

\* Mutant: store_as_json_string without the terminator.
StoreAsJsonStringUnterminated(json) ==
    IF CanWrite(json)
    THEN /\ Write(json)
         /\ handles' = handles \cup {Produced(json, json, "host")}
         /\ ret' = Allocation(top, Len(json))
    ELSE /\ ret' = Failure("Unspecified")
         /\ UNCHANGED <<mem, top, handles>>

\* store_as_json_string: the JSON with a 0 byte pushed, written through the
\* allocator; a failed write returns the Unspecified failure word.
StoreAsJsonString(json) ==
    LET bytes == json \o <<Nul>> IN
    IF CanWrite(bytes)
    THEN /\ Write(bytes)
         /\ handles' = handles \cup {Produced(bytes, json, "host")}
         /\ ret' = Allocation(top, Len(bytes))
    ELSE /\ ret' = Failure("Unspecified")
         /\ UNCHANGED <<mem, top, handles>>

\* Externals::invoke_index with a host function like invoke_remove_entry:
\* MissingNo panics; zome_call_data()? traps a direct call; the argument is
\* loaded; an argument that does not deserialize returns
\* ArgumentDeserializationFailed; otherwise the function's Ok or Err result
\* goes through store_result.
InvokeIndex(i, args) ==
    /\ phase = "guest"
    /\ calls < MaxCalls
    /\ calls' = calls + 1
    /\ IF i \notin Known THEN Trap("unknown_index")
       ELSE IF data = "direct" THEN Trap("direct_call")
       ELSE IF LoadTrap(args) # "none" THEN Trap(LoadTrap(args))
       ELSE /\ UNCHANGED <<data, phase, cause>>
            /\ \/ /\ ret' = Failure("ArgumentDeserializationFailed")
                  /\ UNCHANGED <<mem, top, handles>>
               \/ /\ ~LoadsNull(args)
                  /\ \E ok \in BOOLEAN : StoreAsJsonString(ResultJson(ok))

Next ==
    \/ \E p \in GuestPayloads : GuestWrite(p)
    \/ \E i \in Indices, args \in ArgLists : InvokeIndex(i, args)

Spec == Init /\ [][Next]_vars

-----------------------------------------------------------------------------
(* Properties.                                                             *)

\* Spec 8, the encoding boundary: whatever calls the guest and the host
\* made since, reading any allocation the allocator produced gives back
\* its payload, and for a result of store_as_json_string the payload
\* followed by the terminator.
HandlesReadBack ==
    \A h \in handles :
        Read(h.offset, h.length) =
            IF h.by = "host" THEN h.payload \o <<Nul>> ELSE h.payload

\* Spec 7: malformed data crossing the boundary is reported as a failure
\* word, never a trap; only an unknown index, a malformed handle (and a
\* call without zome data) end the execution context.
ArgumentErrorsDoNotTrap ==
    phase = "trapped" => cause \in {"unknown_index", "malformed_handle", "direct_call"}

=============================================================================
