---------------------------- MODULE SuiteScoring ----------------------------
(***************************************************************************)
(* From the outcomes of a batch and the rows of the judges' reports to the *)
(* result document of an evaluation: evals/grader.py, evals/metrics.py and *)
(* the result half of evals/engine.py and evals/budget.py.                 *)
(*                                                                         *)
(* Scores are whole parts of Unit, which is chosen so that every mean the  *)
(* instance can form is whole and round(x, 4) changes nothing.             *)
(*   outcomes    job index -> the answer, None for a run that failed       *)
(*   report      what one judge did: [raised, rows, probes], rows from the *)
(*               runs and probes from the <<case, probe>> pairs it was     *)
(*               shown, each to a score or Err                             *)
(***************************************************************************)
EXTENDS Assertions, Sorting

CONSTANTS
    Unit,            \* the score 1.0
    PassThreshold,   \* suite.pass_threshold
    Suite,           \* case id -> [checks, judged, expected, critical]
    CaseOrder,       \* the ids in file order
    Calibrate,       \* suite.calibrate
    Nothing,         \* Python's None
    Err              \* a report row "Evaluator error: ..."

ASSUME ScoreAssumption ==
    /\ Unit \in Nat \ {0} /\ PassThreshold \in Int
    /\ Nothing \notin Int /\ Err \notin Int
    /\ Nothing # "budget_exhausted"

\* a suite's ids are unique
ASSUME OrderAssumption ==
    /\ CaseOrder \in Seq(DOMAIN Suite)
    /\ \A i, j \in DOMAIN CaseOrder : CaseOrder[i] = CaseOrder[j] => i = j

Ids == ToSet(CaseOrder)
Sum(f) == FoldFunction(+, 0, f)
Mean(f) == Sum(f) \div Cardinality(DOMAIN f)
Passing(f, Test(_)) == {x \in DOMAIN f : Test(f[x])}

\* round(mean * 100), ties to even, clamped to 0..100
Percent(mean) ==
    LET q == (mean * 100) \div Unit
        r == 2 * ((mean * 100) % Unit)
        p == IF r > Unit \/ (r = Unit /\ q % 2 = 1) THEN q + 1 ELSE q
    IN  IF p > 100 THEN 100 ELSE p

\* rubrics.score_to_grade
Grade(score) ==
    CASE score >= 90 -> "A" [] score \in 70..89 -> "B" [] score \in 50..69 -> "C"
      [] score \in 30..49 -> "D" [] OTHER -> "F"

(***************************************************************************)
(* One judge over a suite (grader.judge_suite).                            *)
(***************************************************************************)
Probes == {"reference", "empty"}

\* the probes a calibrating judge is shown for the judged cases
ProbesOf(ids) ==
    IF Calibrate
    THEN {<<c, p>> : c \in ids, p \in Probes}
           \ {<<c, "reference">> : c \in {i \in ids : ~Suite[i].expected}}
    ELSE {}

NoVerdict == [scores |-> <<>>, errors |-> {}, spread |-> Nothing]
NoJudgement(failed) == [verdicts |-> <<>>, error |-> failed, calibration |-> <<>>]

\* every row is an evaluator error, or there is no row at all
JudgeFailure(report) ==
    /\ \A j \in DOMAIN report.rows : report.rows[j] = Err
    /\ \A x \in DOMAIN report.probes : report.probes[x] = Err

\* caseOf maps a run's index to its case: rows are told apart by their name
JudgeSuite(toJudge, caseOf, report) ==
    LET rows == report.rows
        ofCase(c) == {j \in toJudge : caseOf[j] = c}
        probed == {c \in Ids : \E p \in Probes : <<c, p>> \in ProbesOf({caseOf[j] : j \in toJudge})}
    IN  IF toJudge = {} \/ report.raised THEN NoJudgement(TRUE)
        ELSE [verdicts |->
                 [c \in {caseOf[j] : j \in toJudge} |->
                     [scores |-> [j \in {i \in ofCase(c) : rows[i] # Err} |-> rows[j]],
                      errors |-> {j \in ofCase(c) : rows[j] = Err},
                      spread |-> Nothing]],
              error |-> JudgeFailure(report),
              calibration |->
                 [c \in probed |->
                     [p \in {q \in Probes : <<c, q>> \in DOMAIN report.probes} |->
                         IF report.probes[<<c, p>>] = Err THEN Nothing
                         ELSE report.probes[<<c, p>>]]]]

(***************************************************************************)
(* A panel (grader.combine_judgements).                                    *)
(***************************************************************************)
\* a mutant: the first judge that scored a repeat decides
CombineFirst(verdicts) ==
    LET scoredBy(j) == {k \in DOMAIN verdicts : j \in DOMAIN verdicts[k].scores}
        scored == UNION {DOMAIN verdicts[k].scores : k \in DOMAIN verdicts}
    IN  [scores |-> [j \in scored |-> verdicts[Min(scoredBy(j))].scores[j]],
         errors |-> (UNION {verdicts[k].errors : k \in DOMAIN verdicts}) \ scored,
         spread |-> Nothing]

\* a repeat's score is the mean of the judges that scored it
CombineCase(verdicts) ==
    LET all == DOMAIN verdicts
        scoredBy(j) == {k \in all : j \in DOMAIN verdicts[k].scores}
        scored == UNION {DOMAIN verdicts[k].scores : k \in all}
        gap(j) == LET got == {verdicts[k].scores[j] : k \in scoredBy(j)}
                  IN  Max(got) - Min(got)
        gaps == {gap(j) : j \in {i \in scored : Cardinality(scoredBy(i)) > 1}}
    IN  [scores |-> [j \in scored |-> Mean([k \in scoredBy(j) |-> verdicts[k].scores[j]])],
         errors |-> (UNION {verdicts[k].errors : k \in all}) \ scored,
         spread |-> IF gaps = {} THEN Nothing ELSE Max(gaps)]

\* per case and probe, the mean of the judges that scored it; Nothing when none did
CombineCalibration(judged) ==
    LET all == DOMAIN judged
        shown(c, p) == {k \in all : /\ c \in DOMAIN judged[k].calibration
                                    /\ p \in DOMAIN judged[k].calibration[c]}
        scores(c, p) == [k \in {m \in shown(c, p) : judged[m].calibration[c][p] # Nothing} |->
                            judged[k].calibration[c][p]]
    IN  [c \in UNION {DOMAIN judged[k].calibration : k \in all} |->
            [p \in {q \in Probes : shown(c, q) # {}} |->
                IF DOMAIN scores(c, p) = {} THEN Nothing ELSE Mean(scores(c, p))]]

CombineJudgements(judged) ==
    LET having(c) == {k \in DOMAIN judged : c \in DOMAIN judged[k].verdicts}
    IN  IF Len(judged) = 1 THEN judged[1]
        ELSE [verdicts |->
                 [c \in UNION {DOMAIN judged[k].verdicts : k \in DOMAIN judged} |->
                     CombineCase([k \in having(c) |-> judged[k].verdicts[c]])],
              error |-> \A k \in DOMAIN judged : judged[k].error,
              calibration |-> CombineCalibration(judged)]

\* _judge_suite: cases with judge: false never reach a judge
ToJudge(outcomes, caseOf) ==
    {j \in Passing(outcomes, LAMBDA a : a # Nothing) : Suite[caseOf[j]].judged}

JudgeOutcomes(outcomes, caseOf, reports) ==
    IF /\ Passing(outcomes, LAMBDA a : a # Nothing) # {}
       /\ ToJudge(outcomes, caseOf) = {}
    THEN NoJudgement(FALSE)
    ELSE CombineJudgements([k \in DOMAIN reports |->
             JudgeSuite(ToJudge(outcomes, caseOf), caseOf, reports[k])])

(***************************************************************************)
(* One case's line (engine._suite_case_result).  runs: index -> answer.    *)
(***************************************************************************)
AllPassed(checked) == \A i \in DOMAIN checked : checked[i].passed

\* a mutant: an answer no judge scored counts as 0
RepeatScoreOrZero(c, verdict, j, answer, checked) ==
    CASE answer = Nothing -> 0
      [] answer # Nothing /\ ~Suite[c].judged -> IF AllPassed(checked) THEN Unit ELSE 0
      [] answer # Nothing /\ Suite[c].judged ->
             IF j \in DOMAIN verdict.scores THEN verdict.scores[j] ELSE 0

\* 0 for a repeat that failed to run, Nothing for an answer no judge scored;
\* without a judge, the checks decide
RepeatScore(c, verdict, j, answer, checked) ==
    CASE answer = Nothing -> 0
      [] answer # Nothing /\ ~Suite[c].judged ->
             IF Suite[c].checks # <<>> /\ AllPassed(checked) THEN Unit ELSE 0
      [] answer # Nothing /\ Suite[c].judged ->
             IF j \in DOMAIN verdict.scores THEN verdict.scores[j] ELSE Nothing

\* a mutant: the mean over the answers that came back
CaseScoreOfAnswers(answered, scores) ==
    IF answered = {} \/ \E j \in DOMAIN scores : scores[j] = Nothing THEN Nothing
    ELSE Mean([j \in answered |-> scores[j]])

\* the mean over every repeat
CaseScore(answered, scores) ==
    IF answered = {} \/ \E j \in DOMAIN scores : scores[j] = Nothing THEN Nothing ELSE Mean(scores)

SuiteCaseResult(c, runs, verdict) ==
    LET checks == Suite[c].checks
        answered == Passing(runs, LAMBDA a : a # Nothing)
        checked == [j \in answered |-> Evaluate(checks, runs[j])]
        scores == [j \in DOMAIN runs |-> RepeatScore(c, verdict, j, runs[j],
                       IF j \in answered THEN checked[j] ELSE <<>>)]
        assertionsFailed == \E j \in answered : ~AllPassed(checked[j])
        unjudged == \E j \in DOMAIN runs : scores[j] = Nothing
        mean == CaseScore(answered, scores)
        passed == mean # Nothing /\ mean >= PassThreshold /\ ~assertionsFailed
    IN  [id |-> c, total |-> Cardinality(DOMAIN runs), succeeded |-> answered,
         scores |-> scores, score |-> mean, passed |-> passed,
         status |-> CASE answered = {} -> "error"
                      [] answered # {} /\ unjudged ->
                             IF assertionsFailed THEN "failed" ELSE "judge_error"
                      [] OTHER -> IF passed THEN "passed" ELSE "failed",
         error |-> CASE answered = {} -> IF DOMAIN runs = {} THEN "not_run" ELSE "run_error"
                     [] answered # {} /\ unjudged -> "judge_error"
                     [] OTHER -> Nothing,
         spread |-> verdict.spread,
         assertions |-> [total  |-> Cardinality(answered) * Len(checks),
                         failed |-> Sum([j \in answered |->
                             Cardinality({i \in DOMAIN checks : ~checked[j][i].passed})])]]

(***************************************************************************)
(* The suite's result (engine._build_suite_result) and what the budget     *)
(* adds to it (budget.annotate).  spend: [exhausted, skipped, runs, judge] *)
(* with Nothing for an unpriced amount.                                    *)
(***************************************************************************)
\* nearest rank: durations[max(0, ceil(fraction * n) - 1)], fraction = num/100
Percentile(durations, num) ==
    LET ordered == SortSeq(durations, <)
        rank == (num * Len(durations) + 99) \div 100
    IN  ordered[IF rank < 1 THEN 1 ELSE rank]

\* p50 and p95 over the runs that answered; nothing when none did
LatencyMetrics(outcomes) ==
    LET answered == Passing(outcomes, LAMBDA a : a # Nothing)
        ms == [k \in 1..Cardinality(answered) |->
                  outcomes[Increasing(answered)[k]].ms]
    IN  IF answered = {} THEN Nothing
        ELSE [p50 |-> Percentile(ms, 50), p95 |-> Percentile(ms, 95)]

\* the probes on the wrong side of the threshold (engine._calibration)
Flagged(calibration) ==
    UNION {{<<c, p>> : p \in {q \in DOMAIN calibration[c] :
               /\ calibration[c][q] # Nothing
               /\ IF q = "reference" THEN calibration[c][q] < PassThreshold
                                     ELSE calibration[c][q] >= PassThreshold}} :
           c \in DOMAIN calibration}

\* an evaluation that has no result has not even an empty one
NoResult == <<>>

SuiteDocument(lines, outcomes, judged, spend) ==
    LET count(Test(_)) == Cardinality({k \in DOMAIN lines : Test(lines[k])})
        scored == [k \in {i \in DOMAIN lines : lines[i].score # Nothing} |-> lines[k].score]
    IN  [cases |-> lines,
         score |-> IF DOMAIN scored = {} THEN Nothing ELSE Percent(Mean(scored)),
         grade |-> IF DOMAIN scored = {} THEN Nothing ELSE Grade(Percent(Mean(scored))),
         casesPassed |-> count(LAMBDA x : x.passed),
         casesFailed |-> count(LAMBDA x : x.status = "failed"),
         casesErrored |-> count(LAMBDA x : x.status \in {"error", "judge_error"}),
         failedRuns |-> Passing(outcomes, LAMBDA a : a = Nothing),
         latency |-> LatencyMetrics(outcomes),
         flagged |-> IF Calibrate THEN Flagged(judged.calibration) ELSE {},
         judgeError |-> judged.error,
         cost |-> IF spend.runs = Nothing \/ spend.judge = Nothing THEN Nothing
                  ELSE spend.runs + spend.judge,
         exhausted |-> spend.exhausted,
         skipped |-> IF spend.exhausted THEN spend.skipped ELSE 0]

\* a case that did not run because the budget was spent says so
ForBudget(case, spend) ==
    IF spend.exhausted /\ case.total = 0 THEN [case EXCEPT !.error = "budget_exhausted"] ELSE case

SuiteResult(outcomes, caseOf, judged, spend) ==
    LET runsOf(c) == [j \in {i \in DOMAIN outcomes : caseOf[i] = c} |-> outcomes[j]]
        verdict(c) == IF c \in DOMAIN judged.verdicts THEN judged.verdicts[c] ELSE NoVerdict
        line(c) == ForBudget(SuiteCaseResult(c, runsOf(c), verdict(c)), spend)
    IN  SuiteDocument([k \in DOMAIN CaseOrder |-> line(CaseOrder[k])], outcomes, judged, spend)

(***************************************************************************)
(* kind="determinism" and kind="grade" (grader.judge, metrics.py).         *)
(***************************************************************************)
\* the most common value, ties broken by first appearance
ModalValue(values) ==
    LET times(v) == Cardinality({k \in DOMAIN values : values[k] = v})
        best == Max({times(values[k]) : k \in DOMAIN values})
    IN  values[Min({k \in DOMAIN values : times(values[k]) = best})]

Signature(answer) == [i \in DOMAIN answer.calls |-> <<answer.calls[i].name, answer.calls[i].input>>]

\* answers: a sequence, in run order
LocalMetrics(answers) ==
    LET n == Len(answers)
        texts == [k \in 1..n |-> answers[k].words]
        tools == [k \in 1..n |-> Signature(answers[k])]
        same(values) == Cardinality({k \in 1..n : values[k] = ModalValue(values)})
    IN  IF n = 0 THEN [analyzed |-> 0, exact |-> 0, unique |-> 0, sameTools |-> 0]
        ELSE [analyzed |-> n, exact |-> same(texts), unique |-> Cardinality(ToSet(texts)),
              sameTools |-> same(tools)]

\* an evaluator error is a row of score 0; only when every row is one is it a failure
RowScore(row) == IF row = Err THEN 0 ELSE row

\* order: the runs that answered, in the order the engine hands them over
JudgeRuns(order, report) ==
    IF order = <<>> \/ report.raised \/ JudgeFailure(report)
    THEN [score |-> Nothing, error |-> TRUE]
    ELSE [score |-> Percent(Mean([j \in ToSet(order) |-> RowScore(report.rows[j])])),
          error |-> FALSE]

\* a determinism batch is judged against its most common answer
Reference(order, outcomes) ==
    IF order = <<>> THEN Nothing ELSE ModalValue([k \in DOMAIN order |-> outcomes[order[k]].words])

\* engine._build_result; order: the outcomes as they were collected
RunsResult(order, outcomes, report, spend) ==
    LET answered == Keep(order, Passing(outcomes, LAMBDA a : a # Nothing))
        judged == JudgeRuns(answered, report)
    IN  [metrics |-> LocalMetrics([k \in DOMAIN answered |-> outcomes[answered[k]]]),
         reference |-> Reference(answered, outcomes),
         score |-> judged.score, judgeError |-> judged.error,
         failedRuns |-> Passing(outcomes, LAMBDA a : a = Nothing),
         exhausted |-> spend.exhausted,
         skipped |-> IF spend.exhausted THEN spend.skipped ELSE 0]
=============================================================================
