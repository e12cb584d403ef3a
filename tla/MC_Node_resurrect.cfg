CONSTANTS
    e1 = e1
    e2 = e2
    a1 = a1
    a2 = a2
    t1 = t1
    t2 = t2
    c1 = c1
    c2 = c2
    NoValue = NoValue
    Entries <- MCEntries
    Agents <- MCAgents
    Me = a1
    Valid <- MCValid
    Deletable <- MCDeletable
    HoldIds <- MCHoldIds
    CallIds <- MCCallIds

SPECIFICATION Spec

PROPERTY
    DeletedStaysDeleted

CHECK_DEADLOCK FALSE
