SPECIFICATION MCSpec
CONSTANTS
    Fold <- MCFold
    NoValue = NoValue
    Unit = 12
    PassThreshold = 9
    Suite <- MCSuite
    CaseOrder <- MCOrder
    Cases <- MCOrder
    Calibrate = TRUE
    Nothing = Nothing
    None = Nothing
    Err = Err
    RateUnit = 10
    Unset = Unset
    Family <- MCFamily
    DefaultBar <- MCBar
    SmallSuite = 2
    Repeats = 2
    MaxConcurrent = 2
    MaxAttempts = 2
    Budget = 3
    NoBudget = NoBudget
    Prior = 1
    MaxAttemptCost = 1
    Answers <- MCAnswers
    AnswerOf <- MCAnswerOf
    Judges <- MCJudges
    ProbeReports <- MCProbeReports
    JudgeCost = 1
    Tag <- MCTag
    Others <- MCOthers
    Bars <- MCBars
    SuiteFiles <- MCSuiteFiles
    Confined = {"main.md"}
    Texts = {"main", "terse"}
    Invocations <- MCInvocations
    ArmResults <- MCArmResults
    PromotedCase <- MCPromotedCase
    NewSuite <- MCNewSuite
    StarterSuite <- PlainFile
    Priced = {"m1", "m2"}
    MaxSuiteRuns = 4
    MaxChecks = 3
    MaxPanel = 1
    MaxArms = 4
    EvaluationIds <- MCIds
    MaxEdits = 1
INVARIANTS
    OvershootBounded LedgerMatchesTasks PassedCaseHasEvidence MissingEvidenceShows
    OrderNeverMatters GatesAgree LosingNeverHelps ComparisonIsCoherent PlanIsTrusted
