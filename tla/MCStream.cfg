CONSTANTS
    NRuns = 1
    MaxConcurrent = 1
    EvalKinds <- OnlyDeterminism
    Budgeted = FALSE
    MaxClock = 0
    Faulty = {}
    MaxFaults = 0
    Ambiguous = FALSE
    CanDie = FALSE
    Stale = TRUE
    Histories <- BothHistories
    MaxReconnects = 1
    Invocations <- MCInvocations
    CanInterrupt = TRUE
SPECIFICATION StackFairSpec
INVARIANTS
    CommandSeesTheLog
    StreamEndsOnComplete
    CodeIsTrue
PROPERTIES
    CommandEnds
CHECK_DEADLOCK FALSE
