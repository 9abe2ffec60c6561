SPECIFICATION FairSpec
CONSTANTS
    RunIds <- MCRunIds
    EvalIds <- MCEvalIds
    Lagging <- MCLagging
    Times <- MCTimes
    Backends = {"sqlite", "dynamo"}
    PageSize <- MCPages
    Absent = Absent
    AnyStatus = AnyStatus
    NewRuns <- MCNewRuns
    Tools = {t1, t2}
    Raws = {"text", "guardrail", "control", "result"}
    Scenes <- MCScenes
    Writers = {w1, w2}
    Lower <- MCLower
    Urls <- MCUrls
    MaxSaves = 2
CHECK_DEADLOCK FALSE
INVARIANTS
    RowTellsTheStream
    ToolsOnTheRowOnce
    ServerIsOneDefinition
PROPERTIES
    FinalRowsStand
    WalkIsExact
    RunsSettle
