CONSTANTS
    c1 = c1
    c2 = c2
    NRuns = 2
    MaxConcurrent = 2
    Clients <- OneClient
    MaxFaults = 2
    CanCrash = TRUE
SPECIFICATION FairSpec
INVARIANTS
    SubscriberSeesTheLog
    EndedStreamIsComplete
    DeleteMeansCancelled
PROPERTIES
    SettledRowStands
    StreamsEnd
CHECK_DEADLOCK FALSE
