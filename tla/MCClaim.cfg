CONSTANTS
    d1 = d1
    d2 = d2
    d3 = d3
    None = None
    Deliveries <- ThreeDeliveries
    MaxFaults = 2
    AmbiguousInvoke = FALSE
SPECIFICATION FairSpec
INVARIANTS
    TypeOK
    AtMostOneOwner
    RunningHasExecutor
PROPERTIES
    TerminalIsForever
    QueuedIsClaimed
CHECK_DEADLOCK FALSE
