------------------------------ MODULE EvalBatch ------------------------------
(***************************************************************************)
(* The batch of runs one evaluation makes (evals/engine.py) under its cost *)
(* ledger (evals/budget.py).                                               *)
(*                                                                         *)
(* `planned_jobs` orders the runs: a suite's cases in file order, a case's *)
(* repeats adjacent.  `_execute_batch` creates one task per job and lets   *)
(* at most MAX_CONCURRENT_RUNS hold the semaphore, which wakes its waiters *)
(* in the order they came.  A task that gets the slot polls the cancel     *)
(* flag, asks the ledger, and then runs its job with retries: a retryable  *)
(* failure sleeps and goes again, its cost kept.  Costs are whole units.   *)
(*                                                                         *)
(* An exception that leaves a task ends the evaluation with an error, and  *)
(* a cancellation of the evaluation's own task ends every task it has: a   *)
(* run that was admitted and did not return is never settled.  After an    *)
(* exception the other tasks go on, until the process or the loop ends.    *)
(***************************************************************************)
EXTENDS Integers, Sequences, FiniteSets, Sorting

CONSTANTS
    Cases,            \* the suite's case ids in file order, a sequence
    Repeats,          \* runs per case
    MaxConcurrent,    \* MAX_CONCURRENT_RUNS
    MaxAttempts,      \* 1 + Len(RETRY_BACKOFF_SECONDS)
    Budget,           \* max_cost_usd, in units, or NoBudget
    NoBudget,
    Prior,            \* prior_per_run: the estimate before any run finished
    MaxAttemptCost,   \* the most one attempt can cost
    Answers,          \* case -> what a run of it that completes can answer
    None              \* no answer: the run failed

ASSUME SuiteAssumption ==
    /\ Cases \in Seq(DOMAIN Answers)
    /\ Repeats \in Nat \ {0}

ASSUME LimitAssumption ==
    /\ MaxConcurrent \in Nat \ {0}
    /\ MaxAttempts \in Nat \ {0}
    /\ MaxAttemptCost \in Nat
    /\ Prior \in Nat
    /\ NoBudget \notin Nat
    /\ Budget \in Nat \cup {NoBudget}

Indices == 1..(Len(Cases) * Repeats)
CaseOf(j) == Cases[((j - 1) \div Repeats) + 1]

VARIABLES
    task,        \* per job: [st, attempt, cost, answer]
    ledger,      \* the CostLedger
    collected,   \* outcomes in the order they landed
    cancelAsked, \* cancelled() has turned True
    phase        \* "batch" or, one of its tasks raised, "failed", and what comes next

batchVars == <<task, ledger, collected, cancelAsked, phase>>

(***************************************************************************)
(* The ledger.                                                             *)
(***************************************************************************)
NewLedger == [spent |-> 0, finished |-> 0, inFlight |-> 0, skipped |-> 0,
              exhausted |-> FALSE]

\* spent + (in_flight + 1) * estimate_per_run() > max_cost_usd, the mean
\* multiplied out by the number of runs it is taken over
ProjectedOver(l) ==
    IF l.finished = 0
    THEN l.spent + (l.inFlight + 1) * Prior > Budget
    ELSE l.spent * l.finished + (l.inFlight + 1) * l.spent > Budget * l.finished

\* a mutant: once a run has finished nothing is projected
RefusesBeforeFirst(l) ==
    \/ l.exhausted
    \/ Budget # NoBudget /\ l.finished = 0 /\ ProjectedOver(l)

Refuses(l) ==
    \/ l.exhausted
    \/ Budget # NoBudget /\ (l.spent >= Budget \/ ProjectedOver(l))

Admit(l)  == [l EXCEPT !.inFlight = @ + 1]
Refuse(l) == [l EXCEPT !.exhausted = TRUE, !.skipped = @ + 1]

\* a mutant: a run without a price keeps its slot
SettlePriced(l, cost) ==
    [l EXCEPT !.inFlight = IF cost = 0 THEN @ ELSE @ - 1,
              !.finished = @ + 1,
              !.spent = @ + cost]

\* a cost that is not known counts as 0
Settle(l, cost) ==
    [l EXCEPT !.inFlight = IF @ = 0 THEN 0 ELSE @ - 1,
              !.finished = @ + 1,
              !.spent = @ + cost]

(***************************************************************************)
(* The tasks.                                                              *)
(***************************************************************************)
Waiting == [st |-> "waiting", attempt |-> 0, cost |-> 0, answer |-> None]

Holding == {j \in Indices : task[j].st \in {"running", "backoff"}}
Lost == {j \in Indices : task[j].st = "lost"}

\* gather raises the first exception and does not touch its other tasks
Alive == phase \in {"batch", "failed"}

BatchInit ==
    /\ task = [j \in Indices |-> Waiting]
    /\ ledger = NewLedger
    /\ collected = <<>>
    /\ cancelAsked = FALSE
    /\ phase = "batch"

\* the semaphore's next waiter takes a free slot
NextWaiter(j) ==
    /\ Alive
    /\ task[j].st = "waiting"
    /\ \A i \in Indices : i < j => task[i].st # "waiting"
    /\ Cardinality(Holding) < MaxConcurrent

\* cancelled() is true, or the ledger refuses: the task returns without running
Pass(j) ==
    /\ NextWaiter(j)
    /\ cancelAsked \/ Refuses(ledger)
    /\ task' = [task EXCEPT ![j].st = "passed"]
    /\ ledger' = IF cancelAsked THEN ledger ELSE Refuse(ledger)
    /\ UNCHANGED <<collected, cancelAsked, phase>>

Start(j) ==
    /\ NextWaiter(j)
    /\ ~cancelAsked
    /\ ~Refuses(ledger)
    /\ task' = [task EXCEPT ![j].st = "running", ![j].attempt = 1]
    /\ ledger' = Admit(ledger)
    /\ UNCHANGED <<collected, cancelAsked, phase>>

\* a failed attempt's tokens are still spent
Spent(j, cost) == task[j].cost + cost

\* the outcome lands: the ledger settles, the slot is freed, the outcome is kept;
\* then it is saved and published, and either may raise
Land(j, cost, answer) ==
    /\ task' = [task EXCEPT ![j] = [Waiting EXCEPT !.st = "done", !.answer = answer]]
    /\ ledger' = Settle(ledger, Spent(j, cost))
    /\ collected' = Append(collected, j)
    /\ phase' \in {phase, "failed"}
    /\ UNCHANGED cancelAsked

\* execute_run completed: the metrics event priced it
Answered(j, answer, cost) ==
    /\ Alive
    /\ task[j].st = "running"
    /\ Land(j, cost, answer)

\* an error that is not retryable, or the last attempt's: run_failed
Failed(j, cost) ==
    /\ Alive
    /\ task[j].st = "running"
    /\ Land(j, cost, None)

\* run_started could not be published, or the run's row not read: the slot is
\* freed, the ledger is not settled
RunRaises(j) ==
    /\ Alive
    /\ task[j].st = "running"
    /\ task' = [task EXCEPT ![j] = [Waiting EXCEPT !.st = "lost"]]
    /\ phase' = "failed"
    /\ UNCHANGED <<ledger, collected, cancelAsked>>

\* throttled, a retryable error, or cut off by the run timeout
SleepToRetry(j, cost) ==
    /\ Alive
    /\ task[j].st = "running"
    /\ task[j].attempt < MaxAttempts
    /\ task' = [task EXCEPT ![j].st = "backoff",
                            ![j].cost = Spent(j, cost)]
    /\ UNCHANGED <<ledger, collected, cancelAsked, phase>>

Retry(j) ==
    /\ Alive
    /\ task[j].st = "backoff"
    /\ task' = [task EXCEPT ![j].st = "running", ![j].attempt = @ + 1]
    /\ UNCHANGED <<ledger, collected, cancelAsked, phase>>

\* a worker's cancel poll or its deadline; the local lane's job.cancelled
AskCancel ==
    /\ Alive
    /\ ~cancelAsked
    /\ cancelAsked' = TRUE
    /\ UNCHANGED <<task, ledger, collected, phase>>

\* CancelledError, at the gather or at a judge: it reaches every task there is, and
\* those that wait for a slot are never admitted
CancelTask ==
    /\ phase \in {"batch", "grading"}
    /\ task' = [j \in Indices |->
                   IF j \in Holding THEN [Waiting EXCEPT !.st = "lost"]
                   ELSE IF task[j].st = "waiting" THEN [Waiting EXCEPT !.st = "passed"]
                   ELSE task[j]]
    /\ phase' = "cancelled"
    /\ UNCHANGED <<ledger, collected, cancelAsked>>

BatchOver == \A j \in Indices : task[j].st \in {"done", "passed"}

\* gather returned: sort by index, poll cancelled() once more, go and grade
EndBatch ==
    /\ phase = "batch"
    /\ BatchOver
    /\ phase' = IF cancelAsked THEN "cancelled" ELSE "grading"
    /\ collected' = Increasing({j \in Indices : task[j].st = "done"})
    /\ UNCHANGED <<task, ledger, cancelAsked>>

Costs == 0..MaxAttemptCost

RunStep(j) ==
    \/ Pass(j) \/ Start(j) \/ Retry(j) \/ RunRaises(j)
    \/ \E c \in Costs : \/ \E a \in Answers[CaseOf(j)] : Answered(j, a, c)
                        \/ Failed(j, c)
                        \/ SleepToRetry(j, c)

BatchNext == (\E j \in Indices : RunStep(j)) \/ AskCancel \/ CancelTask \/ EndBatch

BatchSpec == BatchInit /\ [][BatchNext]_batchVars

(***************************************************************************)
(* Properties.                                                             *)
(***************************************************************************)
MaxRunCost == MaxAttempts * MaxAttemptCost

\* evals/budget.py: "Runs already in flight always finish, so the overshoot
\* is bounded by the concurrency limit": once anything ran, what is spent
\* stays under the budget plus one full run, retries included, per slot --
\* and what is still in flight has room under that bound too.  A run that was
\* lost to an exception is paid for and not in the ledger: one full run more.
OvershootBounded ==
    Budget # NoBudget =>
        \/ ledger.spent = 0 /\ ledger.inFlight = 0
        \/ ledger.spent + ledger.inFlight * MaxRunCost
               < Budget + (MaxConcurrent + Cardinality(Lost)) * MaxRunCost

\* The ledger's in-flight count is the slots that are really held, with the runs
\* that an exception or a cancellation took, which stay in it, and its finished
\* count the outcomes that landed: every other admitted run is settled once.
LedgerMatchesTasks ==
    /\ ledger.inFlight = Cardinality(Holding) + Cardinality(Lost)
    /\ ledger.finished = Cardinality({j \in Indices : task[j].st = "done"})

\* "Refusing is permanent": no later run starts, whatever finished runs do
\* to the mean.
RefusalIsPermanent ==
    [][Alive /\ ledger.exhausted =>
          /\ ledger'.exhausted
          /\ \A j \in Indices : task[j].st = "waiting" => task'[j].st # "running"]_batchVars
=============================================================================
