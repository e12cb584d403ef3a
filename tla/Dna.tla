-------------------------------- MODULE Dna --------------------------------
(***************************************************************************)
(* The lookups of the Dna (core_types/src/dna/dna.rs) the runtime uses to  *)
(* dispatch a zome call and to find the validation rules of an entry type. *)
(*                                                                         *)
(* A Dna is reduced to its zomes, a BTreeMap from zome name to zome, so    *)
(* iterated in the order of the names (numbers here).  A zome is reduced   *)
(* to what the lookups read: its trait names, its function declarations in *)
(* the order they are declared, and the app entry types it defines, each   *)
(* with its own definition.  A lookup is one query of a caller; its answer *)
(* is kept so that the properties can compare it with a reference.         *)
(***************************************************************************)
EXTENDS Naturals, Sequences, FiniteSets, Functions

CONSTANTS
    ZomeNames,   \* zome names, ordered as BTreeMap keys: numbers
    TraitNames,
    FnNames,
    TypeNames,   \* app entry type names
    SystemType   \* an entry type name that is not a valid app name

ASSUME DnaAssumption ==
    /\ ZomeNames \subseteq Nat
    /\ IsFiniteSet(ZomeNames)
    /\ SystemType \notin TypeNames

\* An entry type definition, one per zome that declares the type.
Def(z, t) == <<z, t>>

\* The zome's wasm code.
Code(z) == <<"wasm", z>>

Zomes == [traits : SUBSET TraitNames,
          fns : {<<>>} \cup {<<f>> : f \in FnNames} \cup {<<f, g>> : f, g \in FnNames},
          types : SUBSET TypeNames]

Dnas == UNION {[zs -> Zomes] : zs \in SUBSET ZomeNames}

\* Results: Ok/Err of a Result, Some/None of an Option, and a panic.
Ok(v) == [tag |-> "ok", val |-> v]
Err(e) == [tag |-> "err", val |-> e]
Some(v) == [tag |-> "some", val |-> v]
None == [tag |-> "none", val |-> "none"]
Panic == [tag |-> "panic", val |-> "assert"]

\* No lookup asked yet.
NoQuery == [op |-> "none"]

VARIABLES
    dna,     \* the loaded Dna
    query,   \* the last lookup asked of it, with its arguments
    answer   \* what the lookup returned

vars == <<dna, query, answer>>

Queries ==
    [op : {"get_function_with_zome_name"}, zome : ZomeNames, name : FnNames]
    \cup [op : {"get_trait_fns_with_zome_name"}, zome : ZomeNames, name : TraitNames]
    \cup [op : {"get_wasm_from_zome_name"}, zome : ZomeNames]
    \cup [op : {"get_zome_name_for_app_entry_type", "get_entry_type_def"},
          type : TypeNames \cup {SystemType}]

TypeOK ==
    /\ dna \in Dnas
    /\ query \in Queries \cup {NoQuery}
    /\ answer.tag \in {"ok", "err", "some", "none", "panic"}

-----------------------------------------------------------------------------
(* The lookups.                                                            *)

\* get_zome: the zome of that name, or ZomeNotFound.
GetZome(d, z) == IF z \in DOMAIN d THEN Ok(z) ELSE Err("ZomeNotFound")

\* get_trait: the trait of the zome, if declared.
GetTrait(d, z, r) == IF r \in d[z].traits THEN Some(r) ELSE None

\* get_function: the first declaration with that name (its position).
GetFunction(d, z, f) ==
    LET at == {i \in 1..Len(d[z].fns) : d[z].fns[i] = f} IN
    IF at = {} THEN None
    ELSE Some(CHOOSE i \in at : \A j \in at : i <= j)

\* get_function_with_zome_name: ZomeNotFound, ZomeFunctionNotFound, or the
\* declaration.
GetFunctionWithZomeName(d, z, f) ==
    IF GetZome(d, z).tag = "err" THEN GetZome(d, z)
    ELSE IF GetFunction(d, z, f) = None THEN Err("ZomeFunctionNotFound")
    ELSE Ok(<<z, GetFunction(d, z, f).val>>)

\* get_wasm_from_zome_name: the zome's code, if the zome exists.
GetWasmFromZomeName(d, z) ==
    IF GetZome(d, z).tag = "err" THEN None ELSE Some(Code(z))

\* Mutant: get_trait_fns_with_zome_name without the is_none check.
GetTraitFnsWithZomeNameUnchecked(d, z, r) ==
    IF GetZome(d, z).tag = "err" THEN GetZome(d, z) ELSE Ok(<<z, r>>)

\* get_trait_fns_with_zome_name: ZomeNotFound, TraitNotFound, or the trait.
GetTraitFnsWithZomeName(d, z, r) ==
    IF GetZome(d, z).tag = "err" THEN GetZome(d, z)
    ELSE IF GetTrait(d, z, r) = None THEN Err("TraitNotFound")
    ELSE Ok(<<z, r>>)

\* s lists the keys S of a BTreeMap in the order the map iterates them:
\* each key once, in increasing order.
SortedKeys(s, S) ==
    /\ \A x \in S : \E i \in 1..Cardinality(S) : s[i] = x
    /\ \A i, j \in 1..Cardinality(S) : i < j => s[i] < s[j]

\* The zomes in the order a BTreeMap iterates them.
ZomeOrder(d) ==
    CHOOSE s \in [1..Cardinality(DOMAIN d) -> DOMAIN d] : SortedKeys(s, DOMAIN d)

\* The iterations of the outer loop whose zome defines app entry type t
\* (the inner loop looks for t among the zome's entry types).
Declaring(d, t) == {i \in 1..Len(ZomeOrder(d)) : t \in d[ZomeOrder(d)[i]].types}

\* The zome of the first of them: the nested for loops with their early
\* return.
FirstDeclaring(d, t) ==
    ZomeOrder(d)[CHOOSE i \in Declaring(d, t) : \A j \in Declaring(d, t) : i <= j]

\* EntryType::has_valid_app_name.
ValidAppName(t) == t # SystemType

\* get_zome_name_for_app_entry_type: asserts a valid app name, then the
\* name of the first zome defining the type.
GetZomeNameForAppEntryType(d, t) ==
    IF ~ValidAppName(t) THEN Panic
    ELSE IF Declaring(d, t) = {} THEN None
    ELSE Some(FirstDeclaring(d, t))

\* Mutant: get_entry_type_def scanning every zome, so that the last zome
\* defining the type wins.
GetEntryTypeDefLastMatch(d, t) ==
    LET holders == {z \in DOMAIN d : t \in d[z].types} IN
    IF ~ValidAppName(t) THEN Panic
    ELSE IF holders = {} THEN None
    ELSE Some(Def(CHOOSE z \in holders : \A y \in holders : y <= z, t))

\* get_entry_type_def: asserts a valid app name, then the definition in the
\* first zome defining the type.
GetEntryTypeDef(d, t) ==
    IF ~ValidAppName(t) THEN Panic
    ELSE IF Declaring(d, t) = {} THEN None
    ELSE Some(Def(FirstDeclaring(d, t), t))

\* The answer of a lookup.
Lookup(d, q) ==
    CASE q.op = "get_function_with_zome_name" -> GetFunctionWithZomeName(d, q.zome, q.name)
      [] q.op = "get_trait_fns_with_zome_name" -> GetTraitFnsWithZomeName(d, q.zome, q.name)
      [] q.op = "get_wasm_from_zome_name" -> GetWasmFromZomeName(d, q.zome)
      [] q.op = "get_zome_name_for_app_entry_type" -> GetZomeNameForAppEntryType(d, q.type)
      [] q.op = "get_entry_type_def" -> GetEntryTypeDef(d, q.type)

-----------------------------------------------------------------------------

Init ==
    /\ dna \in Dnas
    /\ query = NoQuery
    /\ answer = None

\* A caller asks a lookup of the loaded Dna.
Ask(q) ==
    /\ query' = q
    /\ answer' = Lookup(dna, q)
    /\ UNCHANGED dna

Next == \E q \in Queries : Ask(q)

Spec == Init /\ [][Next]_vars

-----------------------------------------------------------------------------
(* Properties.                                                             *)

\* The zome and the definition of an app entry type come from the same
\* zome, however many zomes define the type: the validation of an entry
\* (which reads get_entry_type_def) and the dispatch of its callbacks
\* (which reads get_zome_name_for_app_entry_type) agree.
EntryTypeLookupsAgree ==
    \A t \in TypeNames :
        LET zn == GetZomeNameForAppEntryType(dna, t)
            df == GetEntryTypeDef(dna, t)
        IN  /\ zn.tag = "none" <=> df.tag = "none"
            /\ zn.tag = "some" => df = Some(Def(zn.val, t))

\* Every answer is what the DNA says: a zome function or trait is found
\* exactly when its zome exists and declares it, and the zome of an entry
\* type is the least-named zome that defines it.
AnswersMatchDna ==
    query # NoQuery =>
    CASE query.op = "get_function_with_zome_name" ->
            answer.tag = "ok" <=> query.zome \in DOMAIN dna
                                  /\ query.name \in Range(dna[query.zome].fns)
      [] query.op = "get_trait_fns_with_zome_name" ->
            answer.tag = "ok" <=> query.zome \in DOMAIN dna
                                  /\ query.name \in dna[query.zome].traits
      [] query.op = "get_zome_name_for_app_entry_type" /\ query.type # SystemType ->
            LET holders == {z \in DOMAIN dna : query.type \in dna[z].types} IN
            IF holders = {} THEN answer = None
            ELSE answer = Some(CHOOSE z \in holders : \A y \in holders : z <= y)
      [] OTHER -> TRUE

=============================================================================
