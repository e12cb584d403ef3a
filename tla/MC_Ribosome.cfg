CONSTANTS
    remove = remove
    missing = missing
    MemSize <- MCMemSize
    Known <- MCKnown
    Indices <- MCIndices
    MaxCalls <- MCMaxCalls
SPECIFICATION Spec
INVARIANTS TypeOK HandlesReadBack
CHECK_DEADLOCK FALSE
