CONSTANTS
    r1 = r1
    f1 = f1
    f2 = f2
    t1 = t1
    t2 = t2
    sys = sys
    ZomeNames <- MCZomeNames
    TraitNames <- MCTraitNames
    FnNames <- MCFnNames
    TypeNames <- MCTypeNames
    SystemType = sys
SPECIFICATION Spec
INVARIANTS EntryTypeLookupsAgree AnswersMatchDna
