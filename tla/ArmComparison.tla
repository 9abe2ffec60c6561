---------------------------- MODULE ArmComparison ----------------------------
(***************************************************************************)
(* Finished evaluations of one suite compared as arms (evals/compare.py),  *)
(* and the bar a command line sets for one of them (cli/gating.py).        *)
(*                                                                         *)
(* A stored evaluation is                                                  *)
(*   [id, kind, status, result, questions, name, model, prompt, inference, *)
(*    tools, baseline, axes, bar, critical, judges, usesTools]             *)
(* with `result` what SuiteScoring makes of it, `questions` the case ids   *)
(* and their inputs, `name` and `bar` Nothing when not set, `axes` a       *)
(* function from axis names, and `judges` a set of models.  A rate is a    *)
(* fraction <<numerator, denominator>>.                                    *)
(***************************************************************************)
EXTENDS SuiteScoring, Readiness

CONSTANTS
    Family,       \* model -> its family name
    DefaultBar,   \* ReadinessBar()
    SmallSuite    \* SMALL_SUITE_CASES

\* why a comparison is refused
Refusals == {"compare_not_suite", "compare_different_suites", "compare_duplicate_arm",
             "compare_duplicate_model", "compare_unknown_baseline"}

Decided == {"passed", "failed"}

ASSUME NoneAssumption == Nothing \notin (Nat \X Nat) \cup Refusals \cup Decided

Label(arm) == IF arm.name = Nothing THEN arm.model ELSE arm.name

CasesOf(arm) == IF arm.result = NoResult THEN <<>> ELSE arm.result.cases
PassRate(result) == <<result.casesPassed, Len(result.cases)>>
Below(p, q) == p[1] * q[2] < q[1] * p[2]

\* the index of the arm asked for by label or id, else of the tagged one; 0 for none
ResolveBaseline(arms, requested) ==
    LET fits(a) == IF requested = Nothing THEN a.baseline ELSE requested \in {Label(a), a.id}
    IN  SelectInSeq(arms, fits)

\* the caller's bar, else the baseline's, else the first arm's that has one
ResolveBar(arms, base, requested) ==
    LET ordered == (IF base = 0 THEN <<>> ELSE <<arms[base]>>) \o arms
        first == SelectInSeq(ordered, LAMBDA a : a.bar # Nothing)
    IN  CASE requested # Nothing -> requested
          [] requested = Nothing /\ first # 0 -> ordered[first].bar
          [] OTHER -> DefaultBar

(***************************************************************************)
(* Ranking.                                                                *)
(***************************************************************************)
Ranked(arms) == {k \in DOMAIN arms : arms[k].status = "completed" /\ CasesOf(arms[k]) # <<>>}

SameQuality(a, b) ==
    /\ ~Below(PassRate(a.result), PassRate(b.result))
    /\ ~Below(PassRate(b.result), PassRate(a.result))
    /\ a.result.score = b.result.score

\* pass rate, then the mean score, no score counting as the lowest
Better(a, b) ==
    \/ Below(PassRate(b.result), PassRate(a.result))
    \/ /\ ~Below(PassRate(a.result), PassRate(b.result))
       /\ a.result.score # Nothing
       /\ b.result.score = Nothing \/ a.result.score > b.result.score

Cheaper(a, b) ==
    /\ a.result.cost # Nothing
    /\ b.result.cost = Nothing \/ a.result.cost < b.result.cost

\* a stable sort, so arms level on everything keep their order
Ahead(arms) ==
    {pair \in Ranked(arms) \X Ranked(arms) :
        LET a == arms[pair[1]]
            b == arms[pair[2]]
        IN  \/ Better(a, b)
            \/ SameQuality(a, b) /\ Cheaper(a, b)
            \/ SameQuality(a, b) /\ ~Cheaper(b, a) /\ pair[1] < pair[2]}

Ranking(arms) == Sorted(Ranked(arms), Ahead(arms))

\* the arms as good as the first of the ranking
Top(arms) == {k \in Ranked(arms) : SameQuality(arms[k], arms[Ranking(arms)[1]])}

(***************************************************************************)
(* One arm against the baseline.                                           *)
(***************************************************************************)
PassedByCase(arm) ==
    [c \in {CasesOf(arm)[k].id : k \in DOMAIN CasesOf(arm)} |->
        \E k \in DOMAIN CasesOf(arm) :
            CasesOf(arm)[k].id = c /\ CasesOf(arm)[k].status = "passed"]

Ratio(numerator, denominator) ==
    IF numerator = Nothing \/ denominator = Nothing \/ denominator = 0
    THEN Unset ELSE <<numerator, denominator>>

P95(arm) == IF arm.result = NoResult \/ arm.result.latency = Nothing
            THEN Nothing ELSE arm.result.latency.p95
CostOfArm(arm) == IF arm.result = NoResult THEN Nothing ELSE arm.result.cost

AgainstBaseline(base, arm, bar) ==
    IF base.status # "completed" \/ base.result = NoResult THEN Nothing
    ELSE Assess(Pair(PassedByCase(base), PassedByCase(arm)), bar, arm.status = "completed",
                base.critical \cup arm.critical,
                Ratio(P95(arm), P95(base)), Ratio(CostOfArm(arm), CostOfArm(base)))

Changes(base, arm) == {f \in {"model", "prompt", "inference", "tools"} : base[f] # arm[f]}

(***************************************************************************)
(* The main effect of each axis, when the arms are a complete grid.        *)
(***************************************************************************)
AxisValues(arms, axis) == {arms[k].axes[axis] : k \in DOMAIN arms}

IsGrid(arms) ==
    LET axes == DOMAIN arms[1].axes
    IN  /\ Len(arms) >= 4
        /\ \A k \in DOMAIN arms : DOMAIN arms[k].axes = axes /\ axes # {}
        /\ \A x \in axes : Cardinality(AxisValues(arms, x)) >= 2
        /\ Cardinality({arms[k].axes : k \in DOMAIN arms}) = Len(arms)
        /\ \A cell \in [axes -> UNION {AxisValues(arms, x) : x \in axes}] :
              (\A x \in axes : cell[x] \in AxisValues(arms, x)) =>
                  \E k \in DOMAIN arms : arms[k].axes = cell
        /\ DOMAIN arms = Ranked(arms)

\* per value the passed cases of its arms: in a grid each value of an axis has as many
Effect(arms, axis) ==
    [v \in AxisValues(arms, axis) |->
        Sum([k \in {m \in DOMAIN arms : arms[m].axes[axis] = v} |-> arms[k].result.casesPassed])]

\* an axis' spread over the same denominator for every axis, its number of values
Spread(arms, axis) ==
    LET values == Effect(arms, axis)
    IN  (Max({values[v] : v \in DOMAIN values}) - Min({values[v] : v \in DOMAIN values}))
            * Cardinality(DOMAIN values)

\* the axis whose spread is at least DOMINANCE_RATIO = 3/2 of every other
Dominant(arms) ==
    LET axes == DOMAIN arms[1].axes
        tops == {x \in axes : /\ Spread(arms, x) > 0
                              /\ \A y \in axes \ {x} : 2 * Spread(arms, x) >= 3 * Spread(arms, y)}
    IN  IF IsGrid(arms) /\ tops # {} THEN CHOOSE x \in tops : TRUE ELSE Nothing

(***************************************************************************)
(* The comparison.                                                         *)
(***************************************************************************)
Statuses(arms, c) ==
    [k \in DOMAIN arms |->
        LET at == SelectInSeq(CasesOf(arms[k]), LAMBDA x : x.id = c)
        IN  IF at = 0 THEN Nothing ELSE CasesOf(arms[k])[at].status]

\* a mutant: an undecided arm is left out
AgreementOfDecided(statuses) ==
    LET seen == ToSet(statuses) \cap Decided
    IN  CASE seen = {} -> "incomplete"
          [] seen = {"passed"} -> "all_passed"
          [] seen = {"failed"} -> "all_failed"
          [] OTHER -> "split"

Agreement(statuses) ==
    LET seen == ToSet(statuses)
    IN  CASE ~(seen \subseteq Decided) -> "incomplete"
          [] seen = {"passed"} -> "all_passed"
          [] seen = {"failed"} -> "all_failed"
          [] OTHER -> "split"

\* one row per case that any arm has a result for
Table(arms) ==
    [c \in UNION {DOMAIN PassedByCase(arms[k]) : k \in DOMAIN arms} |-> Agreement(Statuses(arms, c))]

AssertsTools(questions) == \E c \in DOMAIN questions :
    \E k \in DOMAIN Suite[c].checks : Suite[c].checks[k].type \in ToolChecks

Warnings(arms, base) ==
    LET done == {k \in DOMAIN arms : arms[k].status = "completed"}
        w(code, who) == IF who = {} THEN {} ELSE {<<code, who>>}
    IN  w("single_repeat", {k \in done : arms[k].repeats = 1})
        \cup w("small_suite", {k \in done : Len(CasesOf(arms[k])) < SmallSuite})
        \cup w("judge_family_overlap",
               {k \in DOMAIN arms : Family[arms[k].model] \in {Family[j] : j \in arms[k].judges}})
        \cup w("tools_unchecked",
               {k \in DOMAIN arms : arms[k].usesTools /\ ~AssertsTools(arms[k].questions)})
        \cup IF base = 0 THEN {}
             ELSE w("baseline_incomplete", {base} \ done)
                  \cup IF IsGrid(arms) THEN {}
                       ELSE w("confounded", {k \in DOMAIN arms \ {base} :
                                {"model", "prompt"} \subseteq Changes(arms[base], arms[k])})

Compare(arms, requested, bar) ==
    LET base == ResolveBaseline(arms, requested)
        used == ResolveBar(arms, base, bar)
    IN  [ranking |-> Ranking(arms),
         winner  |-> IF Cardinality(Top(arms)) = 1 THEN CHOOSE k \in Top(arms) : TRUE ELSE 0,
         tied    |-> IF Cardinality(Top(arms)) = 1 THEN {} ELSE Top(arms),
         agreement |-> Table(arms),
         baseline |-> base,
         verdicts |-> [k \in IF base = 0 THEN {} ELSE DOMAIN arms \ {base} |->
                          AgainstBaseline(arms[base], arms[k], used)],
         dominant |-> Dominant(arms),
         warnings |-> Warnings(arms, base)]

\* the cases two stored suites ask differently, or only one asks
SuiteDifferences(arms) ==
    LET asked(k, c) == IF c \in DOMAIN arms[k].questions THEN arms[k].questions[c] ELSE Nothing
    IN  {c \in UNION {DOMAIN arms[k].questions : k \in DOMAIN arms} :
            Cardinality({asked(k, c) : k \in DOMAIN arms}) > 1}

\* why build_comparison refuses, or Nothing
Refusal(arms, requested) ==
    CASE \E k \in DOMAIN arms : arms[k].kind # "suite" -> "compare_not_suite"
      [] (\A k \in DOMAIN arms : arms[k].kind = "suite") /\ SuiteDifferences(arms) # {} ->
             "compare_different_suites"
      [] OTHER ->
             CASE Cardinality({Label(arms[k]) : k \in DOMAIN arms}) # Len(arms) ->
                      IF \E k \in DOMAIN arms : arms[k].name # Nothing
                      THEN "compare_duplicate_arm" ELSE "compare_duplicate_model"
               [] OTHER -> IF requested # Nothing /\ ResolveBaseline(arms, requested) = 0
                           THEN "compare_unknown_baseline" ELSE Nothing

(***************************************************************************)
(* A gate: [failUnder, caseFailure, minPassRate].                          *)
(***************************************************************************)
\* a mutant: a case that could not be decided has not failed
FailedOnly(result) ==
    IF result = NoResult THEN {}
    ELSE {result.cases[k].id : k \in {m \in DOMAIN result.cases : result.cases[m].status = "failed"}}

FailedCases(result) ==
    IF result = NoResult THEN {}
    ELSE {result.cases[k].id : k \in {m \in DOMAIN result.cases : ~result.cases[m].passed}}

\* a result with no score, or no pass rate, has not shown that it clears the bar
Misses(gate, result) ==
    {r \in {"score", "rate", "cases"} :
        CASE r = "score" -> /\ gate.failUnder # Nothing
                            /\ \/ result = NoResult
                               \/ result.score = Nothing
                               \/ result.score < gate.failUnder
          [] r = "rate"  -> /\ gate.minPassRate # Nothing
                            /\ \/ result = NoResult
                               \/ result.cases = <<>>
                               \/ Below(PassRate(result), gate.minPassRate)
          [] r = "cases" -> gate.caseFailure /\ FailedCases(result) # {}}

JunitCounts(status, result) ==
    LET lines == IF result = NoResult THEN <<>> ELSE result.cases
        bad(failed) == Cardinality({k \in DOMAIN lines :
                           ~lines[k].passed /\ (lines[k].status = "failed") = failed})
    IN  CASE status # "completed" -> [tests |-> 1, failures |-> 0, errors |-> 1]
          [] status = "completed" /\ lines = <<>> -> [tests |-> 1, failures |-> 0, errors |-> 0]
          [] OTHER -> [tests |-> Len(lines), failures |-> bad(TRUE), errors |-> bad(FALSE)]
=============================================================================
