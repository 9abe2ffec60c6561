CONSTANTS
    NRuns = 1
    MaxConcurrent = 1
    EvalKinds <- OnlyDeterminism
    Budgeted = FALSE
    MaxClock = 0
    Faulty <- OnlyFlip
    MaxFaults = 1
    Ambiguous = FALSE
    CanDie = FALSE
SPECIFICATION Spec
INVARIANTS
    ReturnedIsSettled
CHECK_DEADLOCK FALSE
