CONSTANTS
    e1 = e1
    e2 = e2
    a1 = a1
    a2 = a2
    t1 = t1
    t2 = t2
    c1 = c1
    c2 = c2
    NoValue = NoValue
    Entries <- MCEntries
    Agents <- MCAgents
    Me = a1
    Valid <- MCValid
    Deletable <- MCDeletable
    HoldIds <- MCHoldIds
    CallIds <- MCCallIds

SYMMETRY MCSymmetry

SPECIFICATION Spec

INVARIANTS
    TypeOK
    HeldOnlyValid
    DeletedRowsCommitted
    DeletionsTargetKnown
    FailedRemoveCommitsNothing

PROPERTY
    ImplementsNodeSpec

\* The node stops once its bounded threads, calls and messages are used up.
CHECK_DEADLOCK FALSE
