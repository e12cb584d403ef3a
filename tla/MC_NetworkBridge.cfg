CONSTANTS
    d1 = d1
    d2 = d2
    ag = ag
    l1 = l1
    l2 = l2
    none = none
    DnaAddresses <- MCDnaAddresses
    AgentIds <- MCAgentIds
    Links <- MCLinks
    MaxInits <- MCMaxInits
    MaxMetas <- MCMaxMetas
    NoValue = none
SPECIFICATION Spec
INVARIANT InboundFailuresSwallowed
CHECK_DEADLOCK FALSE
