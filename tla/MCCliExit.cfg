CONSTANTS
    NRuns = 1
    MaxConcurrent = 1
    EvalKinds <- OnlyDeterminism
    Budgeted = FALSE
    MaxClock = 1
    Faulty = {}
    MaxFaults = 0
    Ambiguous = FALSE
    CanDie = FALSE
    Stale = FALSE
    Histories <- Deployed
    MaxReconnects = 1
    Invocations <- MCInvocations
    CanInterrupt = TRUE
SPECIFICATION StackSpec
INVARIANTS
    CodeIsTheVerdict
CHECK_DEADLOCK FALSE
