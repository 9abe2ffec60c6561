---------------------------- MODULE SuitePipeline ----------------------------
(***************************************************************************)
(* One evaluation from its first run to the document that is compared and  *)
(* gated: the batch under its ledger (EvalBatch), the judges, the result   *)
(* (SuiteScoring), and the readers of the stored result (ArmComparison).   *)
(*                                                                         *)
(* A judge's report is chosen when grading: it may raise, or give every    *)
(* answer it is shown a score or an evaluator error.  When the result is   *)
(* stored, execute_evaluation's locals are gone.                           *)
(***************************************************************************)
EXTENDS EvalBatch, ArmComparison

CONSTANTS
    AnswerOf,      \* the name of an answer -> the answer
    Judges,        \* the panel: a sequence of the scores each judge can give
    ProbeReports,  \* what each judge may make of the calibration probes: Probes -> score or Err
    JudgeCost,     \* what one judge that ran adds to the cost
    Tag,           \* the arm this evaluation is stored as, but for kind, status and result
    Others,        \* sequences of stored evaluations it can be compared with
    Bars           \* readiness bars a caller may ask for

\* the batch and the scoring are of one suite
ASSUME SameSuite == Cases = CaseOrder /\ None = Nothing

ASSUME PanelAssumption == Judges \in Seq(SUBSET Int) /\ Judges # <<>>

ASSUME ProbeAssumption ==
    \A k \in DOMAIN Judges : ProbeReports[k] \subseteq [Probes -> Int \cup {Err}]

\* a judge that was priced adds to the cost
ASSUME PriceAssumption == JudgeCost \in Nat

\* the result of an arm that is a suite's: a line for each case that was asked
ResultFits(arm) ==
    LET doc == arm.result
        lines == doc.cases
    IN  /\ {"cases", "casesPassed", "score", "cost"} \subseteq DOMAIN doc
        /\ lines \in Seq(ToSet(lines))
        /\ \A k, m \in DOMAIN lines : lines[k].id = lines[m].id => k = m
        /\ {lines[k].id : k \in DOMAIN lines} = DOMAIN arm.questions
        /\ doc.casesPassed = Cardinality({k \in DOMAIN lines : lines[k].status = "passed"})
        /\ doc.score \in Int \cup {Nothing} /\ doc.cost \in Int \cup {Nothing}

ArmFits(arm) ==
    /\ {"kind", "status", "result", "questions", "baseline", "critical"} \subseteq DOMAIN arm
    /\ \A c \in DOMAIN arm.questions : arm.questions[c] # Nothing
    /\ arm.kind = "suite" /\ arm.result # NoResult => ResultFits(arm)

ASSUME OthersAssumption ==
    \A others \in Others :
        /\ others \in Seq(ToSet(others)) /\ others # <<>>
        /\ \A k \in DOMAIN others : ArmFits(others[k])

\* ReadinessBar: 0 <= max_regression_rate <= 1
ASSUME BarsAssumption == \A bar \in Bars : bar # Nothing /\ bar.rate \in 0..RateUnit

\* the stored suite is the one that runs
ASSUME TagAssumption ==
    /\ ArmFits([Tag EXCEPT !.result = NoResult])
    /\ DOMAIN Tag.questions = Ids /\ Tag.critical = {c \in Ids : Suite[c].critical}

VARIABLES
    kind,     \* "suite" or "determinism"
    reports,  \* what the judges reported
    result    \* the result document, or Nothing

vars == <<task, ledger, collected, cancelAsked, phase, kind, reports, result>>

Init ==
    /\ BatchInit
    /\ kind \in {"suite", "determinism"}
    /\ reports = <<>>
    /\ result = NoResult

RunBatch ==
    /\ BatchNext
    /\ UNCHANGED <<kind, reports, result>>

CaseOfRun == [j \in Indices |-> CaseOf(j)]
Outcomes == [j \in ToSet(collected) |->
                IF task[j].answer = Nothing THEN Nothing ELSE AnswerOf[task[j].answer]]
Successes == {j \in DOMAIN Outcomes : Outcomes[j] # Nothing}

\* a determinism batch shows its one judge every answer
Shown == IF kind = "suite" THEN ToJudge(Outcomes, CaseOfRun) ELSE Successes

Raised == [raised |-> TRUE, rows |-> <<>>, probes |-> <<>>]

Reports(k) ==
    LET probes == IF kind = "suite" THEN ProbesOf({CaseOfRun[j] : j \in Shown}) ELSE {}
    IN  {Raised} \cup {[raised |-> FALSE, rows |-> own, probes |-> [x \in probes |-> p[x[2]]]] :
                          own \in [Shown -> Judges[k] \cup {Err}], p \in ProbeReports[k]}

\* budget.annotate: judges that were built are metered
SpendWith(given) ==
    [exhausted |-> ledger.exhausted, skipped |-> ledger.skipped, runs |-> ledger.spent,
     judge |-> JudgeCost * Cardinality({k \in DOMAIN given : ~given[k].raised})]

ResultOf(given) ==
    IF kind = "suite"
    THEN SuiteResult(Outcomes, CaseOfRun, JudgeOutcomes(Outcomes, CaseOfRun, given), SpendWith(given))
    ELSE RunsResult(collected, Outcomes, given[1], SpendWith(given))

\* only a suite has a panel; with no answer to show, no judge is asked
Panel == IF kind = "suite" THEN Judges ELSE <<Judges[1]>>

GradeOutcomes ==
    /\ phase = "grading"
    /\ \E given \in IF Shown = {} THEN {[k \in DOMAIN Panel |-> Raised]}
                    ELSE {g \in [DOMAIN Panel -> UNION {Reports(k) : k \in DOMAIN Panel}] :
                             \A k \in DOMAIN Panel : g[k] \in Reports(k)} :
          /\ reports' = given
          /\ result' = ResultOf(given)
    /\ phase' = "graded"
    /\ UNCHANGED <<task, ledger, collected, cancelAsked, kind>>

\* save_evaluation and the terminal event; the coroutine returns, or raises what
\* cancelled it.  An exception out of the batch leaves no result.
Store ==
    /\ phase \in {"graded", "cancelled", "failed"}
    /\ phase' = CASE phase = "cancelled" -> "stored cancelled"
                  [] phase = "failed" \/ (phase = "graded" /\ Successes = {}) -> "stored error"
                  [] OTHER -> "stored completed"
    /\ task' = [j \in Indices |-> Waiting]
    /\ ledger' = NewLedger
    /\ collected' = <<>>
    /\ cancelAsked' = FALSE
    /\ reports' = <<>>
    /\ UNCHANGED <<kind, result>>

Stored == phase \in {"stored completed", "stored error", "stored cancelled"}

Done == Stored /\ UNCHANGED vars

Next == RunBatch \/ GradeOutcomes \/ Store \/ Done

Spec == Init /\ [][Next]_vars

(***************************************************************************)
(* Properties of the result; EvalBatch states those of the batch.          *)
(***************************************************************************)
Graded == phase = "graded"
SuiteGraded == Graded /\ kind = "suite"

RunsOf(c) == {j \in DOMAIN Outcomes : CaseOfRun[j] = c}
Heard(j) == {k \in DOMAIN reports : ~reports[k].raised /\ reports[k].rows[j] # Err}
Best(j) == IF ~Suite[CaseOfRun[j]].judged THEN Unit
           ELSE Max({reports[k].rows[j] : k \in Heard(j)})

\* docs/suites.md "Only a fully scored case can pass" and "Every repeat counts":
\* behind a passed case there is an answer, no answer without a judge's score,
\* no failed check, and a mean, failed repeats counting 0, that no choice among
\* the judges' scores could have kept under the threshold.
PassedCaseHasEvidence ==
    SuiteGraded => \A k \in DOMAIN result.cases :
        LET line == result.cases[k]
            answered == RunsOf(line.id) \cap Successes
        IN  line.passed =>
               /\ answered # {}
               /\ \A j \in answered :
                     /\ Suite[line.id].judged => Heard(j) # {}
                     /\ \A i \in DOMAIN Suite[line.id].checks :
                            Evaluate(Suite[line.id].checks, Outcomes[j])[i].passed
               /\ Sum([j \in answered |-> Best(j)]) >= PassThreshold * Cardinality(RunsOf(line.id))

\* evals/engine.py _suite_case_result: an unjudged answer is missing evidence,
\* neither a pass nor a zero, unless a check has failed already; a case that did
\* not run at all is an error, named after the budget when that kept it from running.
MissingEvidenceShows ==
    SuiteGraded => \A k \in DOMAIN result.cases :
        LET line == result.cases[k]
            answered == RunsOf(line.id) \cap Successes
            unheard == {j \in answered : Suite[line.id].judged /\ Heard(j) = {}}
        IN  /\ unheard # {} => line.score = Nothing /\ line.status \in {"failed", "judge_error"}
            /\ line.status = "judge_error" => unheard # {}
            /\ line.status = "error" <=> answered = {}
            /\ line.error = "budget_exhausted" <=> RunsOf(line.id) = {} /\ ledger.exhausted

\* grader.combine_judgements: the order of the panel does not matter, and a judge
\* that raised leaves no trace as long as another one answered.
PanelIsFair ==
    SuiteGraded /\ Len(reports) = 2 =>
        LET judged(given) == JudgeOutcomes(Outcomes, CaseOfRun, given)
        IN  /\ judged(<<reports[2], reports[1]>>) = judged(reports)
            /\ reports[2].raised => judged(<<reports[1]>>) = judged(reports)
            /\ reports[1].raised => judged(<<reports[2]>>) = judged(reports)

\* engine._execute_batch sorts what landed: the answer a determinism batch is
\* judged against is the one a sequential batch would pick, ties included.
ReferenceIgnoresLandingOrder ==
    Graded /\ kind = "determinism" => result.reference = Reference(Increasing(Successes), Outcomes)

\* grader.py, Failure policy: an evaluator error is never graded as a zero.
ErrorRowsNeverScore ==
    Graded /\ kind = "determinism" /\ result.score # Nothing =>
        \A j \in Successes : reports[1].rows[j] # Err

(***************************************************************************)
(* Properties of what reads the stored result.                             *)
(***************************************************************************)
Status == CASE phase = "stored completed" -> "completed"
            [] phase = "stored error" -> "error" [] OTHER -> "cancelled"
Candidate == [Tag EXCEPT !.kind = kind, !.status = Status, !.result = result]
SuiteStored == Stored /\ kind = "suite"
Comparable == {others \in Others : Refusal(<<Candidate>> \o others, Nothing) = Nothing}

\* cli/gating.py: whatever the engine decided, the gate on case failures, a
\* minimum pass rate of 1 and the JUnit report give one answer.
GatesAgree ==
    SuiteStored /\ Status = "completed" =>
        LET junit == JunitCounts(Status, result)
            strict == [failUnder |-> Nothing, caseFailure |-> TRUE, minPassRate |-> Nothing]
            whole == [failUnder |-> Nothing, caseFailure |-> FALSE, minPassRate |-> <<1, 1>>]
        IN  /\ junit.failures = result.casesFailed /\ junit.errors = result.casesErrored
            /\ junit.tests = result.casesPassed + junit.failures + junit.errors
            /\ Misses(strict, result) = {} <=> junit.failures + junit.errors = 0
            /\ Misses(strict, result) = {} <=> Misses(whole, result) = {}

\* evals/compare.py "Ranking": the first of the ranking is not beaten, cost orders
\* but never decides, and the order the arms were named in changes nothing but the
\* order of equals.
RankingIsFair ==
    SuiteStored => \A others \in Comparable :
        LET arms == <<Candidate>> \o others
            back == Reverse(arms)
            free == [k \in DOMAIN arms |-> IF arms[k].result = NoResult THEN arms[k]
                                           ELSE [arms[k] EXCEPT !.result.cost = Nothing]]
            names(of, ks) == {Label(of[k]) : k \in ks}
        IN  /\ \A k \in Top(arms), m \in Ranked(arms) : ~Better(arms[m], arms[k])
            /\ names(arms, Top(arms)) = names(back, Top(back))
            /\ Top(arms) = Top(free)
            /\ ToSet(Ranking(arms)) = Ranked(arms)

\* evals/readiness.py: losing one more case never improves a verdict.
VerdictRank(v) == CASE v = "not_ready" -> 1 [] v = "inconclusive" -> 2 [] v = "ready" -> 3
LosingNeverHelps ==
    SuiteStored => \A others \in Comparable, bar \in Bars, critical \in SUBSET Ids :
        LET judged(passed) == Assess(Pair(PassedByCase(others[1]), passed), bar,
                                     Status = "completed", critical, Unset, Unset)
            now == PassedByCase(Candidate)
        IN  \A c \in {d \in DOMAIN now : now[d]} :
                VerdictRank(judged([now EXCEPT ![c] = FALSE]).status)
                    <= VerdictRank(judged(now).status)

\* compare.py: one row of the table, the pairing with the baseline and the verdict
\* say the same of a case: the cases two arms split on are the ones one lost or won.
TableMatchesVerdict ==
    SuiteStored => \A others \in {o \in Comparable : Len(o) = 1}, bar \in Bars :
        LET comparison == Compare(<<Candidate>> \o others, Nothing, bar)
        IN  comparison.baseline = 2 /\ comparison.verdicts[1] # Nothing =>
              LET verdict == comparison.verdicts[1]
                  moved == verdict.regressions \cup verdict.improvements
              IN  /\ \A c \in DOMAIN comparison.agreement :
                        /\ comparison.agreement[c] = "split" => c \in moved
                        /\ comparison.agreement[c] \in {"all_passed", "all_failed"} => c \notin moved
                  /\ verdict.status = "ready" =>
                        /\ Status = "completed"
                        /\ verdict.regressions \cap {c \in Ids : Suite[c].critical} = {}
                        /\ verdict.baselinePassed >= CasesNeeded(bar.rate)

\* compare.py `_effects`: at most one axis dominates, and naming the arms in
\* another order changes neither the axis nor the table.
GridIsFair ==
    SuiteStored => \A others \in Comparable :
        LET arms == <<Candidate>> \o others
            axis == Dominant(arms)
        IN  /\ Dominant(Reverse(arms)) = axis
            /\ Table(Reverse(arms)) = Table(arms)
            /\ axis # Nothing => \A x \in DOMAIN arms[1].axes \ {axis} :
                                     Spread(arms, x) < Spread(arms, axis)

\* compare.py build_comparison: arms that may be compared ran the same cases, so a
\* row of the table lacks an arm only where that arm has no result.
ComparedArmsRanTheSame ==
    SuiteStored => \A others \in Comparable :
        LET arms == <<Candidate>> \o others
        IN  \A k, m \in DOMAIN arms : arms[k].result # NoResult /\ arms[m].result # NoResult =>
                DOMAIN PassedByCase(arms[k]) = DOMAIN PassedByCase(arms[m])

\* Repeats land, judges answer and arms are named in any order: none of it
\* changes what an evaluation scores, which arm leads or what the grid shows.
OrderNeverMatters ==
    PanelIsFair /\ ReferenceIgnoresLandingOrder /\ RankingIsFair /\ GridIsFair

\* A comparison is of the same cases, and its parts agree on each of them.
ComparisonIsCoherent == ComparedArmsRanTheSame /\ TableMatchesVerdict
=============================================================================
