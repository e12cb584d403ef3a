CONSTANTS
    remove = remove
    missing = missing
    MemSize <- MCMemSize
    Known <- MCKnown
    Indices <- MCIndices
    MaxCalls <- MCMaxCalls
SPECIFICATION Spec
INVARIANT ArgumentErrorsDoNotTrap
CHECK_DEADLOCK FALSE
