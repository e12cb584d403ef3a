--------------------------- MODULE RibosomeProofs ---------------------------
(***************************************************************************)
(* Proofs about Ribosome for every memory size and every bound on calls.   *)
(*                                                                         *)
(* HandlesReadBack is not inductive: a write at top could overwrite the    *)
(* bytes of an allocation that reaches past top.  The allocator only       *)
(* hands out ranges below top and only moves top forward, so every        *)
(* allocation lies below it (HandlesBelowTop), and a write, which starts   *)
(* at top, touches none of them.                                           *)
(***************************************************************************)
EXTENDS Ribosome, TLAPS

\* Every allocation produced so far ends at or below the allocator's top.
HandlesBelowTop == \A h \in handles : h.offset + h.length <= top

IInv == TypeOK /\ HandlesBelowTop /\ HandlesReadBack

-----------------------------------------------------------------------------
(* Lemmas about the allocator.                                             *)

\* A write that fits keeps the memory typed and hands out a range inside it.
LEMMA WriteType ==
    ASSUME TypeOK, NEW bytes \in Seq(Bytes), Len(bytes) >= 1,
           CanWrite(bytes), Write(bytes)
    PROVE  /\ mem' \in [Addrs -> Bytes]
           /\ top' \in 0..MemSize
           /\ top \in Addrs
           /\ Len(bytes) \in 1..MemSize
BY RibosomeAssumption DEF TypeOK, CanWrite, Write, Addrs

\* A write leaves the bytes of every range below top as they were.
LEMMA WriteKeeps ==
    ASSUME TypeOK, NEW bytes \in Seq(Bytes), CanWrite(bytes), Write(bytes),
           NEW o \in Nat, NEW l \in Nat, o + l <= top
    PROVE  Read(o, l)' = Read(o, l)
BY RibosomeAssumption DEF TypeOK, CanWrite, Write, Read, Addrs

\* A write's range reads back the bytes written.
LEMMA WriteReads ==
    ASSUME TypeOK, NEW bytes \in Seq(Bytes), CanWrite(bytes), Write(bytes),
           NEW o, o = top
    PROVE  Read(o, Len(bytes))' = bytes
BY RibosomeAssumption DEF TypeOK, CanWrite, Write, Read, Addrs

\* What load_json_string_from_args reports is a trap cause or "none".
LEMMA LoadTrapType ==
    ASSUME NEW args
    PROVE  LoadTrap(args) \in TrapCauses \cup {"none"}
BY DEF LoadTrap, TrapCauses

\* The JSON of a host function's result is a short text.
LEMMA ResultJsonType ==
    ASSUME NEW ok \in BOOLEAN
    PROVE  /\ ResultJson(ok) \in Seq(Bytes)
           /\ ResultJson(ok) \o <<Nul>> \in Seq(Bytes)
           /\ Len(ResultJson(ok) \o <<Nul>>) >= 1
<1>1. <<Text>> \in Seq(Bytes) /\ <<Text, Text>> \in Seq(Bytes) /\ <<Nul>> \in Seq(Bytes)
    BY DEF Bytes, Nul, Text
<1>2. ResultJson(ok) \in Seq(Bytes)
    BY <1>1 DEF ResultJson
<1>3. ResultJson(ok) \o <<Nul>> \in Seq(Bytes)
    BY <1>1, <1>2
<1>4. Len(ResultJson(ok) \o <<Nul>>) = Len(ResultJson(ok)) + 1
    BY <1>1, <1>2
<1> QED
    BY <1>2, <1>3, <1>4

-----------------------------------------------------------------------------
(* One write of the allocator, by the guest or by store_as_json_string,    *)
(* preserves the invariant.                                                *)

LEMMA WritePreserves ==
    ASSUME IInv, NEW bytes \in Seq(Bytes), Len(bytes) >= 1, NEW payload \in Seq(Bytes),
           NEW by \in {"guest", "host"},
           bytes = IF by = "host" THEN payload \o <<Nul>> ELSE payload,
           CanWrite(bytes), Write(bytes),
           handles' = handles \cup {Produced(bytes, payload, by)}
    PROVE  /\ mem' \in [Addrs -> Bytes]
           /\ top' \in 0..MemSize
           /\ handles' \subseteq [offset : Addrs, length : 1..MemSize,
                                  payload : Seq(Bytes), by : {"guest", "host"}]
           /\ HandlesBelowTop'
           /\ HandlesReadBack'
<1> USE DEF IInv
<1>1. /\ mem' \in [Addrs -> Bytes]
      /\ top' \in 0..MemSize
      /\ top \in Addrs
      /\ Len(bytes) \in 1..MemSize
    BY WriteType
<1> DEFINE new == Produced(bytes, payload, by)
<1>2. new \in [offset : Addrs, length : 1..MemSize, payload : Seq(Bytes),
               by : {"guest", "host"}]
    BY <1>1 DEF Produced
<1>3. top' = top + Len(bytes)
    BY DEF Write
<1>4. HandlesBelowTop'
    <2> SUFFICES ASSUME NEW h \in handles' PROVE h.offset + h.length <= top'
        BY DEF HandlesBelowTop
    <2>1. CASE h \in handles
        BY <1>1, <1>3, <2>1, RibosomeAssumption DEF HandlesBelowTop, TypeOK, Addrs
    <2>2. CASE h = new
        BY <1>1, <1>3, <2>2, RibosomeAssumption DEF Produced, Addrs
    <2> QED
        BY <2>1, <2>2
<1>5. ASSUME NEW h \in handles'
      PROVE  Read(h.offset, h.length)' =
                 IF h.by = "host" THEN h.payload \o <<Nul>> ELSE h.payload
    <2>1. CASE h \in handles
        <3>1. h.offset \in Nat /\ h.length \in Nat /\ h.offset + h.length <= top
            BY <2>1 DEF HandlesBelowTop, TypeOK, Addrs
        <3>2. Read(h.offset, h.length)' = Read(h.offset, h.length)
            BY <3>1, WriteKeeps
        <3> QED
            BY <2>1, <3>2 DEF HandlesReadBack
    <2>2. CASE h = new
        <3>1. PICK o : o = top
            OBVIOUS
        <3>2. Read(o, Len(bytes))' = bytes
            BY <3>1, WriteReads
        <3>3. h.offset = o /\ h.length = Len(bytes) /\ h.payload = payload /\ h.by = by
            BY <2>2, <3>1 DEF Produced
        <3> QED
            BY <3>2, <3>3
    <2> QED
        BY <2>1, <2>2
<1> QED
    BY <1>1, <1>2, <1>4, <1>5 DEF TypeOK, HandlesReadBack

\* A host call that returns a word without touching the memory, the
\* allocator or the execution context preserves the invariant.
LEMMA MemoryUntouched ==
    ASSUME IInv, UNCHANGED <<data, mem, top, handles, phase, cause>>,
           ret' \in Words, calls' \in 0..MaxCalls
    PROVE  IInv'
BY DEF IInv, TypeOK, HandlesBelowTop, HandlesReadBack, Read

-----------------------------------------------------------------------------

LEMMA InitIInv == Init => IInv
BY RibosomeAssumption DEF Init, IInv, TypeOK, HandlesBelowTop, HandlesReadBack,
                          Addrs, Bytes, Nul, NoReturn

LEMMA NextIInv == IInv /\ [Next]_vars => IInv'
<1> SUFFICES ASSUME IInv, [Next]_vars PROVE IInv'
    OBVIOUS
<1> USE RibosomeAssumption
<1>1. ASSUME NEW p \in GuestPayloads, GuestWrite(p) PROVE IInv'
    <2>1. p \in Seq(Bytes) /\ Len(p) >= 1
        <3>1. <<Text>> \in Seq(Bytes) /\ <<Text, Text>> \in Seq(Bytes)
              /\ <<NotUtf8>> \in Seq(Bytes)
            BY DEF Bytes, Text, NotUtf8
        <3>2. Len(<<Text>>) = 1 /\ Len(<<Text, Text>>) = 2 /\ Len(<<NotUtf8>>) = 1
            OBVIOUS
        <3>3. p = <<Text>> \/ p = <<Text, Text>> \/ p = <<NotUtf8>>
            BY DEF GuestPayloads
        <3>4. CASE p = <<Text>>
            BY <3>1, <3>2, <3>4
        <3>5. CASE p = <<Text, Text>>
            BY <3>1, <3>2, <3>5
        <3>6. CASE p = <<NotUtf8>>
            BY <3>1, <3>2, <3>6
        <3> QED
            BY <3>3, <3>4, <3>5, <3>6
    <2>2. /\ mem' \in [Addrs -> Bytes]
          /\ top' \in 0..MemSize
          /\ handles' \subseteq [offset : Addrs, length : 1..MemSize,
                                 payload : Seq(Bytes), by : {"guest", "host"}]
          /\ HandlesBelowTop'
          /\ HandlesReadBack'
        BY <1>1, <2>1, WritePreserves DEF GuestWrite
    <2> QED
        BY <1>1, <2>2 DEF GuestWrite, IInv, TypeOK
<1>2. ASSUME NEW i \in Indices, NEW args \in ArgLists, InvokeIndex(i, args)
      PROVE  IInv'
    <2>1. calls' \in 0..MaxCalls
        BY <1>2 DEF InvokeIndex, IInv, TypeOK
    <2>2. ASSUME NEW why \in TrapCauses, Trap(why) PROVE IInv'
        BY <2>1, <2>2 DEF Trap, IInv, TypeOK, HandlesBelowTop, HandlesReadBack, Read
    <2>3. CASE i \notin Known
        BY <1>2, <2>2, <2>3 DEF InvokeIndex, TrapCauses
    <2>4. CASE i \in Known /\ data = "direct"
        BY <1>2, <2>2, <2>4 DEF InvokeIndex, TrapCauses
    <2>5. CASE i \in Known /\ data # "direct" /\ LoadTrap(args) # "none"
        <3>1. LoadTrap(args) \in TrapCauses
            BY <2>5, LoadTrapType
        <3> QED
            BY <1>2, <2>2, <2>5, <3>1 DEF InvokeIndex
    <2>6. CASE i \in Known /\ data # "direct" /\ LoadTrap(args) = "none"
        <3>1. UNCHANGED <<data, phase, cause>>
            BY <1>2, <2>6 DEF InvokeIndex
        <3>2. CASE /\ ret' = Failure("ArgumentDeserializationFailed")
                   /\ UNCHANGED <<mem, top, handles>>
            <4>1. ret' \in Words
                BY <3>2 DEF Words, Codes
            <4> QED
                BY <2>1, <3>1, <3>2, <4>1, MemoryUntouched
        <3>3. CASE \E ok \in BOOLEAN : StoreAsJsonString(ResultJson(ok))
            <4>1. PICK ok \in BOOLEAN : StoreAsJsonString(ResultJson(ok))
                BY <3>3
            <4> DEFINE json == ResultJson(ok)
                       bytes == json \o <<Nul>>
            <4>2. json \in Seq(Bytes) /\ bytes \in Seq(Bytes) /\ Len(bytes) >= 1
                BY ResultJsonType
            <4>3. CASE CanWrite(bytes)
                <5>1. /\ Write(bytes)
                      /\ handles' = handles \cup {Produced(bytes, json, "host")}
                      /\ ret' = Allocation(top, Len(bytes))
                    BY <4>1, <4>3 DEF StoreAsJsonString
                <5>2. /\ mem' \in [Addrs -> Bytes]
                      /\ top' \in 0..MemSize
                      /\ handles' \subseteq [offset : Addrs, length : 1..MemSize,
                                             payload : Seq(Bytes), by : {"guest", "host"}]
                      /\ HandlesBelowTop'
                      /\ HandlesReadBack'
                    BY <4>2, <4>3, <5>1, WritePreserves
                <5>3. top + Len(bytes) <= MemSize /\ top \in Nat
                    BY <4>3 DEF CanWrite, IInv, TypeOK
                <5>4. ret' \in Words
                    BY <4>2, <5>1, <5>3 DEF Words
                <5> QED
                    BY <2>1, <3>1, <5>2, <5>4 DEF IInv, TypeOK
            <4>4. CASE ~CanWrite(bytes)
                <5>1. ret' = Failure("Unspecified") /\ UNCHANGED <<mem, top, handles>>
                    BY <4>1, <4>4 DEF StoreAsJsonString
                <5>2. ret' \in Words
                    BY <5>1 DEF Words, Codes
                <5> QED
                    BY <2>1, <3>1, <5>1, <5>2, MemoryUntouched
            <4> QED
                BY <4>3, <4>4
        <3> QED
            BY <1>2, <2>6, <3>2, <3>3 DEF InvokeIndex
    <2> QED
        BY <2>3, <2>4, <2>5, <2>6
<1>3. CASE UNCHANGED vars
    BY <1>3 DEF vars, IInv, TypeOK, HandlesBelowTop, HandlesReadBack, Read
<1> QED
    BY <1>1, <1>2, <1>3 DEF Next

\* The runtime's host state stays well typed for every memory size.
THEOREM RibosomeTypeCorrect == Spec => []TypeOK
<1>1. Spec => []IInv
    BY InitIInv, NextIInv, PTL DEF Spec
<1> QED
    BY <1>1, PTL DEF IInv

\* The encoding boundary keeps every value intact, for every memory size:
\* whatever the guest writes and the host stores through
\* store_as_json_string (including a store that fails on a full memory),
\* every allocation still reads back its payload, and each host result its
\* payload followed by the 0 terminator.
THEOREM AllocationsReadBack == Spec => []HandlesReadBack
<1>1. Spec => []IInv
    BY InitIInv, NextIInv, PTL DEF Spec
<1> QED
    BY <1>1, PTL DEF IInv

=============================================================================
