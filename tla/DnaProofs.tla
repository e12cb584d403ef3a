------------------------------ MODULE DnaProofs ------------------------------
(***************************************************************************)
(* Proofs about the Dna lookups for every Dna over any finite set of zome  *)
(* names.                                                                  *)
(*                                                                         *)
(* The entry-type lookups scan the zomes in the order a BTreeMap iterates  *)
(* them: each zome name once, in increasing order (ZomeOrder).  The first  *)
(* lemmas show that such an enumeration exists, so that ZomeOrder is one.  *)
(* That needs an induction on the number of zomes,                         *)
(* done here as a least counterexample: the least cardinality of a set of  *)
(* naturals without a sorted enumeration, which removing the least element *)
(* of such a set contradicts.                                              *)
(***************************************************************************)
EXTENDS Dna, FiniteSetTheorems, WellFoundedInduction, TLAPS

\* g lists the elements of S once each, in increasing order.
IsSortedEnum(g, S) == g \in [1..Cardinality(S) -> S] /\ SortedKeys(g, S)

\* A nonempty set of naturals has a least element.
LEMMA NatMin ==
    ASSUME NEW T \in SUBSET Nat, T # {}
    PROVE  \E m \in T : \A y \in T : ~(y < m)
<1>1. \E m \in T : \A y \in T : ~(<<y, m>> \in OpToRel(<, Nat))
    BY NatLessThanWellFounded, WFMin
<1> QED
    BY <1>1 DEF OpToRel

\* Every finite set of naturals has a sorted enumeration.
LEMMA SortedEnumExists ==
    ASSUME NEW S \in SUBSET Nat, IsFiniteSet(S)
    PROVE  \E g : IsSortedEnum(g, S)
<1> DEFINE Bad == {n \in Nat : \E X \in SUBSET Nat :
                       /\ IsFiniteSet(X)
                       /\ Cardinality(X) = n
                       /\ ~\E g : IsSortedEnum(g, X)}
<1>1. SUFFICES Bad = {}
    BY FS_CardinalityType
<1>2. SUFFICES ASSUME Bad # {} PROVE FALSE
    OBVIOUS
<1>3. PICK n \in Bad : \A y \in Bad : ~(y < n)
    BY <1>2, NatMin
<1>4. PICK X \in SUBSET Nat : /\ IsFiniteSet(X)
                             /\ Cardinality(X) = n
                             /\ ~\E g : IsSortedEnum(g, X)
    BY <1>3
<1>5. X # {}
    <2>1. SUFFICES ASSUME X = {} PROVE FALSE
        OBVIOUS
    <2>2. Cardinality(X) = 0
        BY <2>1, FS_EmptySet
    <2>3. IsSortedEnum(<<>>, X)
        BY <2>1, <2>2 DEF IsSortedEnum, SortedKeys
    <2> QED
        BY <1>4, <2>3
<1>6. PICK m \in X : \A y \in X : ~(y < m)
    BY <1>5, NatMin
<1> DEFINE Y == X \ {m}
<1>7. IsFiniteSet(Y) /\ Cardinality(Y) = n - 1 /\ n \in Nat \ {0}
    BY <1>4, <1>5, FS_RemoveElement, FS_EmptySet
<1>8. PICK h : IsSortedEnum(h, Y)
    <2>1. n - 1 \notin Bad
        BY <1>3, <1>7
    <2> QED
        BY <1>7, <2>1
<1>10. /\ h \in [1..(n - 1) -> Y]
       /\ \A x \in Y : \E i \in 1..(n - 1) : h[i] = x
       /\ \A i, j \in 1..(n - 1) : i < j => h[i] < h[j]
    <2>1. Cardinality(Y) = n - 1
        BY <1>7
    <2> QED
        BY <1>8, <2>1 DEF IsSortedEnum, SortedKeys
<1> DEFINE g == [i \in 1..n |-> IF i = 1 THEN m ELSE h[i - 1]]
<1>9. IsSortedEnum(g, X)
    <2>1. g \in [1..n -> X]
        BY <1>7, <1>10
    <2>2. ASSUME NEW x \in X PROVE \E i \in 1..n : g[i] = x
        <3>1. CASE x = m
            BY <3>1, <1>7
        <3>2. CASE x # m
            <4>1. PICK j \in 1..(n - 1) : h[j] = x
                BY <3>2, <1>10
            <4> QED
                BY <4>1, <1>7
        <3> QED
            BY <3>1, <3>2
    <2>3. ASSUME NEW i \in 1..n, NEW j \in 1..n, i < j PROVE g[i] < g[j]
        <3>1. h[j - 1] \in Y
            BY <2>3, <1>7, <1>10
        <3>2. CASE i = 1
            <4>1. ~(h[j - 1] < m) /\ h[j - 1] # m /\ h[j - 1] \in Nat
                BY <3>1, <1>6
            <4>2. g[i] = m /\ g[j] = h[j - 1] /\ m \in Nat
                BY <2>3, <3>2
            <4> QED
                BY <4>1, <4>2
        <3>3. CASE i # 1
            BY <2>3, <3>3, <1>7, <1>10
        <3> QED
            BY <3>2, <3>3
    <2> QED
        BY <1>4, <2>1, <2>2, <2>3 DEF IsSortedEnum, SortedKeys
<1> QED
    BY <1>4, <1>9

\* ZomeOrder lists the zome names of a Dna once each, in increasing order.
LEMMA ZomeOrderSorted ==
    ASSUME NEW d \in Dnas
    PROVE  LET n == Cardinality(DOMAIN d) IN
           /\ n \in Nat
           /\ ZomeOrder(d) \in [1..n -> DOMAIN d]
           /\ SortedKeys(ZomeOrder(d), DOMAIN d)
           /\ Len(ZomeOrder(d)) = n
<1>1. DOMAIN d \in SUBSET ZomeNames
    BY DEF Dnas
<1>2. IsFiniteSet(DOMAIN d) /\ DOMAIN d \subseteq Nat
    BY <1>1, DnaAssumption, FS_Subset
<1>3. Cardinality(DOMAIN d) \in Nat
    BY <1>2, FS_CardinalityType
<1>4. \E g : IsSortedEnum(g, DOMAIN d)
    BY <1>2, SortedEnumExists
<1>5. /\ ZomeOrder(d) \in [1..Cardinality(DOMAIN d) -> DOMAIN d]
      /\ SortedKeys(ZomeOrder(d), DOMAIN d)
    BY <1>4 DEF IsSortedEnum, ZomeOrder
<1> QED
    BY <1>3, <1>5


-----------------------------------------------------------------------------
(* The entry-type lookups.                                                 *)

\* The first zome, in iteration order, that defines t is the least zome
\* name that defines it, and there is one exactly when some zome does.
LEMMA FirstDeclaringIsLeast ==
    ASSUME NEW d \in Dnas, NEW t
    PROVE  LET holders == {z \in DOMAIN d : t \in d[z].types} IN
           /\ Declaring(d, t) = {} <=> holders = {}
           /\ holders # {} =>
                /\ FirstDeclaring(d, t) \in holders
                /\ \A y \in holders : FirstDeclaring(d, t) <= y
<1> DEFINE holders == {z \in DOMAIN d : t \in d[z].types}
           o == ZomeOrder(d)
           n == Cardinality(DOMAIN d)
           D == Declaring(d, t)
<1>1. /\ n \in Nat
      /\ o \in [1..n -> DOMAIN d]
      /\ SortedKeys(o, DOMAIN d)
      /\ Len(o) = n
    BY ZomeOrderSorted
<1>2. D = {i \in 1..n : t \in d[o[i]].types}
    BY <1>1 DEF Declaring
<1>0. DOMAIN d \subseteq Nat
    BY DnaAssumption DEF Dnas
<1>3. D = {} <=> holders = {}
    BY <1>1, <1>2 DEF SortedKeys
<1>4. ASSUME holders # {}
      PROVE  /\ FirstDeclaring(d, t) \in holders
             /\ \A y \in holders : FirstDeclaring(d, t) <= y
    <2>1. PICK m \in D : \A y \in D : ~(y < m)
        BY <1>2, <1>3, <1>4, NatMin
    <2>2. \E i \in D : \A j \in D : i <= j
        BY <2>1, <1>2
    <2>3. PICK i0 \in D : /\ i0 = CHOOSE i \in D : \A j \in D : i <= j
                          /\ \A j \in D : i0 <= j
        BY <2>2
    <2>4. FirstDeclaring(d, t) = o[i0]
        BY <2>3 DEF FirstDeclaring
    <2>5. o[i0] \in holders
        BY <2>3, <1>1, <1>2
    <2>6. ASSUME NEW y \in holders PROVE o[i0] <= y
        <3>1. PICK j \in 1..n : o[j] = y
            BY <1>1 DEF SortedKeys
        <3>2. j \in D /\ i0 \in 1..n /\ i0 <= j
            BY <3>1, <2>3, <1>2
        <3>3. y \in Nat
            BY <1>0
        <3>4. CASE i0 = j
            BY <3>1, <3>3, <3>4
        <3>5. CASE i0 < j
            BY <3>1, <3>2, <3>5, <1>0, <1>1 DEF SortedKeys
        <3> QED
            BY <3>2, <3>4, <3>5
    <2> QED
        BY <2>4, <2>5, <2>6
<1> QED
    BY <1>3, <1>4

\* Both entry-type lookups take the same branch for every app entry type.
LEMMA LookupsAgree ==
    ASSUME NEW d, NEW t \in TypeNames
    PROVE  LET zn == GetZomeNameForAppEntryType(d, t)
               df == GetEntryTypeDef(d, t)
           IN  /\ zn.tag = "none" <=> df.tag = "none"
               /\ zn.tag = "some" => df = Some(Def(zn.val, t))
<1>1. ValidAppName(t)
    BY DnaAssumption DEF ValidAppName
<1> QED
    BY <1>1 DEF GetZomeNameForAppEntryType, GetEntryTypeDef, Some, None, Panic

\* The validation rules and the callbacks of an app entry type come from
\* the same zome in every Dna, whatever the number of zomes defining it
\* (get_entry_type_def and get_zome_name_for_app_entry_type).
THEOREM EntryTypeLookupsConsistent == Spec => []EntryTypeLookupsAgree
<1>1. EntryTypeLookupsAgree
    BY LookupsAgree DEF EntryTypeLookupsAgree
<1> QED
    BY <1>1, PTL


-----------------------------------------------------------------------------
(* The answers.                                                            *)

\* The answer kept is the lookup of the query kept.
AnswerIsLookup == query # NoQuery => answer = Lookup(dna, query)

IInv ==
    /\ dna \in Dnas
    /\ query \in Queries \cup {NoQuery}
    /\ AnswerIsLookup

\* A function is found exactly when the zome declares it.
LEMMA FunctionFound ==
    ASSUME NEW d \in Dnas, NEW z \in DOMAIN d, NEW f
    PROVE  GetFunction(d, z, f) # None <=> f \in Range(d[z].fns)
<1> DEFINE fns == d[z].fns
           at == {i \in 1..Len(fns) : fns[i] = f}
<1>1. fns \in {<<>>} \cup {<<g>> : g \in FnNames} \cup {<<g, h>> : g, h \in FnNames}
    BY DEF Dnas, Zomes
<1>2. at = {} <=> f \notin Range(fns)
    <2>1. CASE fns = <<>>
        BY <2>1 DEF Range
    <2>2. CASE \E g \in FnNames : fns = <<g>>
        BY <2>2 DEF Range
    <2>3. CASE \E g, h \in FnNames : fns = <<g, h>>
        BY <2>3 DEF Range
    <2> QED
        BY <1>1, <2>1, <2>2, <2>3
<1>3. GetFunction(d, z, f) = None <=> at = {}
    BY DEF GetFunction, Some, None
<1> QED
    BY <1>2, <1>3

\* Every lookup answers what the Dna says.
LEMMA LookupMatchesDna ==
    ASSUME dna \in Dnas, query \in Queries, answer = Lookup(dna, query)
    PROVE  AnswersMatchDna
<1> DEFINE z == query.zome
           r == query.name
           t == query.type
<1>1. CASE query.op = "get_function_with_zome_name"
    <2>1. answer = GetFunctionWithZomeName(dna, z, r)
        BY <1>1 DEF Lookup
    <2>2. answer.tag = "ok" <=> z \in DOMAIN dna /\ r \in Range(dna[z].fns)
        <3>1. CASE z \notin DOMAIN dna
            BY <2>1, <3>1 DEF GetFunctionWithZomeName, GetZome, Err
        <3>2. CASE z \in DOMAIN dna
            <4>1. GetFunction(dna, z, r) # None <=> r \in Range(dna[z].fns)
                BY <3>2, FunctionFound
            <4> QED
                BY <2>1, <3>2, <4>1 DEF GetFunctionWithZomeName, GetZome, Ok, Err
        <3> QED
            BY <3>1, <3>2
    <2> QED
        BY <1>1, <2>2 DEF AnswersMatchDna
<1>2. CASE query.op = "get_trait_fns_with_zome_name"
    <2>1. answer.tag = "ok" <=> z \in DOMAIN dna /\ r \in dna[z].traits
        BY <1>2 DEF Lookup, GetTraitFnsWithZomeName, GetZome, GetTrait, Ok, Err,
                    Some, None
    <2> QED
        BY <1>2, <2>1 DEF AnswersMatchDna
<1>3. CASE query.op = "get_zome_name_for_app_entry_type" /\ t # SystemType
    <2> DEFINE holders == {y \in DOMAIN dna : t \in dna[y].types}
    <2>1. answer = GetZomeNameForAppEntryType(dna, t)
        BY <1>3 DEF Lookup
    <2>2. ValidAppName(t)
        BY <1>3 DEF ValidAppName
    <2>3. CASE holders = {}
        <3>1. Declaring(dna, t) = {}
            BY <2>3, FirstDeclaringIsLeast
        <3> QED
            BY <1>3, <2>1, <2>2, <2>3, <3>1 DEF GetZomeNameForAppEntryType,
                                                AnswersMatchDna
    <2>4. CASE holders # {}
        <3>1. /\ Declaring(dna, t) # {}
              /\ FirstDeclaring(dna, t) \in holders
              /\ \A y \in holders : FirstDeclaring(dna, t) <= y
            BY <2>4, FirstDeclaringIsLeast
        <3>2. holders \subseteq Nat
            BY DnaAssumption DEF Dnas
        <3>3. (CHOOSE y \in holders : \A w \in holders : y <= w) = FirstDeclaring(dna, t)
            BY <3>1, <3>2
        <3>4. answer = Some(FirstDeclaring(dna, t))
            BY <2>1, <2>2, <3>1 DEF GetZomeNameForAppEntryType
        <3> QED
            BY <1>3, <2>4, <3>3, <3>4 DEF AnswersMatchDna
    <2> QED
        BY <2>3, <2>4
<1>4. CASE /\ query.op # "get_function_with_zome_name"
           /\ query.op # "get_trait_fns_with_zome_name"
           /\ ~(query.op = "get_zome_name_for_app_entry_type" /\ t # SystemType)
    BY <1>4 DEF AnswersMatchDna
<1> QED
    BY <1>1, <1>2, <1>3, <1>4

LEMMA InitIInv == Init => IInv
BY DEF Init, IInv, AnswerIsLookup

LEMMA NextIInv == IInv /\ [Next]_vars => IInv'
BY DEF IInv, AnswerIsLookup, Next, Ask, vars, Queries, NoQuery

\* Every lookup a caller asks of the loaded Dna answers what the Dna
\* declares: zome functions and traits are found exactly when declared,
\* and the zome of an app entry type is the least-named zome defining it
\* (the BTreeMap order of get_zome_name_for_app_entry_type).
THEOREM LookupsMatchDna == Spec => []AnswersMatchDna
<1>1. Spec => []IInv
    BY InitIInv, NextIInv, PTL DEF Spec
<1>2. IInv => AnswersMatchDna
    BY LookupMatchesDna DEF IInv, AnswerIsLookup, AnswersMatchDna
<1> QED
    BY <1>1, <1>2, PTL

==============================================================================
