CONSTANTS
    r1 = r1
    r2 = r2
    r3 = r3
    Requests <- ThreeRequests
    Estimates = {0, 1}
    MaxJobs = 2
    Costs = {1}
    MaxSpent = 1
    Limit = 1
    LastWindow = 1
    MaxFaults = 1
    AmbiguousInvoke = FALSE
SPECIFICATION Spec
INVARIANTS
    NeverUndercounts
    ConvergesOnSpend
    WithinLimit
SYMMETRY RequestSymmetry
CHECK_DEADLOCK FALSE
