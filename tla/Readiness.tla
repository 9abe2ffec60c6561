----------------------------- MODULE Readiness ------------------------------
(***************************************************************************)
(* Whether a candidate may stand in for a baseline (evals/readiness.py), a *)
(* pure function of both arms' case verdicts: functions from case ids to   *)
(* BOOLEAN.  The allowed regression rate is bar.rate / RateUnit, and the   *)
(* ratios are candidate over baseline as <<numerator, denominator>>.       *)
(***************************************************************************)
EXTENDS Integers, FiniteSets, Combinatorics, FiniteSetsExt, Functions

CONSTANTS
    RateUnit,  \* rates are fractions of it
    Unset      \* an optional limit or ratio that is None

ASSUME RateAssumption == RateUnit \in Nat \ {0}

Verdict(verdicts, c) == c \in DOMAIN verdicts /\ verdicts[c]

\* a case without a verdict did not pass
Pair(baseline, candidate) ==
    LET ids == DOMAIN baseline \cup DOMAIN candidate
        where(b, c) == {i \in ids : Verdict(baseline, i) = b /\ Verdict(candidate, i) = c}
    IN  [regressions  |-> where(TRUE, FALSE),
         improvements |-> where(FALSE, TRUE),
         bothPass     |-> Cardinality(where(TRUE, TRUE)),
         bothFail     |-> Cardinality(where(FALSE, FALSE))]

\* a mutant: the rate is taken over the cases both pass
BothPassed(paired) == paired.bothPass

BaselinePassed(paired) == Cardinality(paired.regressions) + paired.bothPass

\* base ** n
Power(base, n) ==
    LET power[m \in Nat] == IF m = 0 THEN 1 ELSE base * power[m - 1]
    IN  power[n]

\* RateUnit^n * P(X <= k) for X ~ Binomial(n, rate / RateUnit)
BinomialWeight(k, n, rate) ==
    LET weight == [i \in 0..n |-> choose(n, i) * Power(rate, i) * Power(RateUnit - rate, n - i)]
    IN  MapThenSumSet(LAMBDA i : weight[i], 0..k)

\* upper_bound(k, n) > rate: seeing as few as k is still likelier than 1 - CONFIDENCE
\* (1 in 20) when the true rate is `rate`, because the bisection ends where it is not
BoundOver(k, n, rate) ==
    \/ (n <= 0 \/ k >= n) /\ rate < RateUnit
    \/ n > 0 /\ k < n /\ 20 * BinomialWeight(k, n, rate) > Power(RateUnit, n)

\* n cases without a regression certify the rate
Certifies(n, rate) == 20 * Power(RateUnit - rate, n) <= Power(RateUnit, n)

\* the smallest n that does (19 * RateUnit always does); Unset when none can
CasesNeeded(rate) ==
    CASE rate <= 0 -> Unset
      [] rate >= RateUnit -> 1
      [] OTHER -> CHOOSE n \in 1..(19 * RateUnit) :
             Certifies(n, rate) /\ \A m \in 1..(n - 1) : ~Certifies(m, rate)

Exceeds(ratio, limit) == ratio[1] * limit[2] > limit[1] * ratio[2]

OverLimit(ratio, limit) == limit # Unset /\ ratio # Unset /\ Exceeds(ratio, limit)

\* not_ready beats inconclusive beats ready
Assess(paired, bar, completed, critical, latency, cost) ==
    LET k == Cardinality(paired.regressions)
        n == BaselinePassed(paired)
        lost == paired.regressions \cap critical
        fails == \/ ~completed
                 \/ lost # {}
                 \/ n > 0 /\ k * RateUnit > bar.rate * n
                 \/ OverLimit(latency, bar.latency)
                 \/ OverLimit(cost, bar.cost)
        unknown == \/ bar.latency # Unset /\ latency = Unset
                   \/ bar.cost # Unset /\ cost = Unset
                   \/ n = 0
                   \/ BoundOver(k, n, bar.rate)
    IN  [status |-> CASE fails -> "not_ready"
                      [] ~fails /\ unknown -> "inconclusive"
                      [] OTHER -> "ready",
         regressions |-> paired.regressions, improvements |-> paired.improvements,
         criticalRegressions |-> lost, baselinePassed |-> n]
=============================================================================
