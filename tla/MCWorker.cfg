CONSTANTS
    NRuns = 2
    MaxConcurrent = 2
    EvalKinds <- AllEvalKinds
    Budgeted = TRUE
    MaxClock = 2
    Faulty <- WorkFaults
    MaxFaults = 2
    Ambiguous = TRUE
    CanDie = TRUE
SPECIFICATION FairSpec
INVARIANTS
    FewLateStarts
    AnnouncedRunIsStored
    CancelledOnlyOnRequest
    TerminalRowIsClosed
    LogInOrder
    SettledRowListsRuns
    ReturnedIsSettled
PROPERTIES
    SettlesLikeLifecycle
CHECK_DEADLOCK FALSE
