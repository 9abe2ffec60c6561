-------------------------- MODULE SuitePipelineProofs --------------------------
(***************************************************************************)
(* One evaluation, for any suite, panel of judges, budget, concurrency and *)
(* number of attempts, the comparison of such evaluations, and the plan    *)
(* that is made of one.                                                    *)
(*                                                                         *)
(* First the batch under its ledger (EvalBatch): the ledger counts exactly *)
(* the slots that are held, the runs that were taken from theirs by an     *)
(* exception or a cancellation, and the outcomes that landed, what is spent *)
(* stays under the budget plus one full run per slot, and a refusal is     *)
(* permanent.  Then the evaluation around it: what the judges were shown   *)
(* is what landed, in job order, the result is what they made of it, and   *)
(* the stored document is that result.  Then what holds of any documents   *)
(* that are compared: the ranking is an order, a verdict can only get      *)
(* worse with another regression.  Last the plan (FallbackPlan), which     *)
(* stays what its evaluations, files and command made it.                  *)
(***************************************************************************)
EXTENDS SuitePipeline, FallbackPlan, DataLemmas, SequenceTheorems

-----------------------------------------------------------------------------
(* The batch: its inductive invariant *)

\* what some run of the batch can answer
AllAnswers == UNION {Answers[CaseOf(j)] : j \in Indices}

TaskType == [st : {"waiting", "running", "backoff", "done", "passed", "lost"},
             attempt : Nat, cost : Nat, answer : AllAnswers \cup {None}]

LedgerType == [spent : Nat, finished : Nat, inFlight : Nat, skipped : Nat, exhausted : BOOLEAN]

BatchTypes == task \in [Indices -> TaskType] /\ ledger \in LedgerType

\* What an unfinished run has cost is bounded by the attempts it has made.
CostsBounded ==
    \A j \in Indices :
        /\ task[j].st = "waiting" => task[j].cost = 0
        /\ task[j].st = "running" =>
              /\ task[j].attempt \in 1..MaxAttempts
              /\ task[j].cost <= (task[j].attempt - 1) * MaxAttemptCost
        /\ task[j].st = "backoff" =>
              /\ task[j].attempt \in 1..(MaxAttempts - 1)
              /\ task[j].cost <= task[j].attempt * MaxAttemptCost

SlotsRespected == Cardinality(Holding) <= MaxConcurrent

BatchInv == BatchTypes /\ CostsBounded /\ SlotsRespected /\ LedgerMatchesTasks /\ OvershootBounded

-----------------------------------------------------------------------------
(* Arithmetic and cardinalities *)

\* Products grow with their factors.
LEMMA TimesMonotone ==
    ASSUME NEW a \in Nat, NEW b \in Nat, NEW c \in Nat, a <= b
    PROVE  a * c <= b * c
<1>1. (b - a) * c >= 0
  OBVIOUS
<1>2. (b - a) * c = b * c - a * c
  OBVIOUS
<1> QED
  BY <1>1, <1>2

\* One more factor is one more summand.
LEMMA TimesSucc == ASSUME NEW a \in Int, NEW c \in Int PROVE (a + 1) * c = a * c + c
  OBVIOUS

LEMMA IndicesFinite == IsFiniteSet(Indices)
<1>1. Len(Cases) * Repeats \in Int
  BY SuiteAssumption
<1> QED
  BY <1>1, FS_Interval DEF Indices

\* The counted sets are finite.
LEMMA CountedFinite ==
    /\ IsFiniteSet(Holding) /\ Cardinality(Holding) \in Nat
    /\ IsFiniteSet(Lost) /\ Cardinality(Lost) \in Nat
    /\ IsFiniteSet({j \in Indices : task[j].st = "done"})
<1>1. /\ IsFiniteSet(Holding) /\ IsFiniteSet(Lost)
      /\ IsFiniteSet({j \in Indices : task[j].st = "done"})
  BY IndicesFinite, FS_Subset DEF Holding, Lost
<1> QED
  BY <1>1, FS_CardinalityType

\* MaxRunCost is a number, and what an attempt adds stays within it.
LEMMA RunCost ==
    /\ MaxRunCost \in Nat
    /\ \A a \in 1..MaxAttempts, k \in Nat, c \in Costs :
           k <= (a - 1) * MaxAttemptCost => k + c <= a * MaxAttemptCost /\ k + c <= MaxRunCost
<1>1. MaxRunCost \in Nat
  BY LimitAssumption DEF MaxRunCost
<1>2. ASSUME NEW a \in 1..MaxAttempts, NEW k \in Nat, NEW c \in Costs,
             k <= (a - 1) * MaxAttemptCost
      PROVE  k + c <= a * MaxAttemptCost /\ k + c <= MaxRunCost
  <2>1. a \in Nat /\ a - 1 \in Nat /\ c \in Nat /\ c <= MaxAttemptCost /\ MaxAttemptCost \in Nat
        /\ MaxAttempts \in Nat /\ a <= MaxAttempts
    BY LimitAssumption DEF Costs
  <2>2. ((a - 1) + 1) * MaxAttemptCost = (a - 1) * MaxAttemptCost + MaxAttemptCost
    BY <2>1, TimesSucc
  <2>3. k + c <= a * MaxAttemptCost
    BY <1>2, <2>1, <2>2
  <2>4. a * MaxAttemptCost <= MaxAttempts * MaxAttemptCost
    BY <2>1, TimesMonotone
  <2> QED
    BY <2>1, <2>3, <2>4 DEF MaxRunCost
<1> QED
  BY <1>1, <1>2

-----------------------------------------------------------------------------
(* Steps *)

FreshBatch == task = [j \in Indices |-> Waiting] /\ ledger = NewLedger

LEMMA FreshBatchInv == FreshBatch => BatchInv
<1> SUFFICES ASSUME FreshBatch PROVE BatchInv
  OBVIOUS
<1>1. BatchTypes
  BY DEF FreshBatch, BatchTypes, TaskType, LedgerType, Waiting, NewLedger
<1>2. CostsBounded
  BY DEF FreshBatch, CostsBounded, Waiting
<1>3. Holding = {} /\ Lost = {} /\ {j \in Indices : task[j].st = "done"} = {}
  BY DEF FreshBatch, Holding, Lost, Waiting
<1>4. Cardinality({}) = 0
  BY FS_EmptySet
<1>5. ledger.spent = 0 /\ ledger.inFlight = 0 /\ ledger.finished = 0
  BY DEF FreshBatch, NewLedger
<1>6. SlotsRespected
  BY <1>3, <1>4, LimitAssumption DEF SlotsRespected
<1>7. LedgerMatchesTasks
  <2>1. Cardinality(Holding) = 0 /\ Cardinality(Lost) = 0
    BY <1>3, <1>4
  <2>2. Cardinality({j \in Indices : task[j].st = "done"}) = 0
    BY <1>3, <1>4
  <2> QED
    BY <1>5, <2>1, <2>2 DEF LedgerMatchesTasks
<1>8. OvershootBounded
  BY <1>5 DEF OvershootBounded
<1> QED
  BY <1>1, <1>2, <1>6, <1>7, <1>8 DEF BatchInv

LEMMA BatchInitInv == BatchInit => BatchInv
  BY FreshBatchInv DEF BatchInit, FreshBatch

\* What an update of one task leaves alone.
LEMMA TaskUpdate ==
    ASSUME BatchTypes, NEW j \in Indices, NEW t \in TaskType, task' = [task EXCEPT ![j] = t]
    PROVE  /\ task' \in [Indices -> TaskType]
           /\ task'[j] = t
           /\ \A i \in Indices \ {j} : task'[i] = task[i]
  BY DEF BatchTypes

\* The costs stay bounded when the one task that changes keeps to its bound.
LEMMA CostsUpdate ==
    ASSUME CostsBounded, NEW j \in Indices,
           \A i \in Indices \ {j} : task'[i] = task[i],
           task'[j].st # "waiting",
           task'[j].st = "running" =>
               /\ task'[j].attempt \in 1..MaxAttempts
               /\ task'[j].cost <= (task'[j].attempt - 1) * MaxAttemptCost,
           task'[j].st = "backoff" =>
               /\ task'[j].attempt \in 1..(MaxAttempts - 1)
               /\ task'[j].cost <= task'[j].attempt * MaxAttemptCost
    PROVE  CostsBounded'
<1> SUFFICES ASSUME NEW i \in Indices
             PROVE  /\ task'[i].st = "waiting" => task'[i].cost = 0
                    /\ task'[i].st = "running" =>
                          /\ task'[i].attempt \in 1..MaxAttempts
                          /\ task'[i].cost <= (task'[i].attempt - 1) * MaxAttemptCost
                    /\ task'[i].st = "backoff" =>
                          /\ task'[i].attempt \in 1..(MaxAttempts - 1)
                          /\ task'[i].cost <= task'[i].attempt * MaxAttemptCost
  BY DEF CostsBounded, Indices
<1>1. CASE i = j
  BY <1>1
<1>2. CASE i # j
  BY <1>2 DEF CostsBounded
<1> QED
  BY <1>1, <1>2

\* A task that returns without running changes no count and no cost.
LEMMA PassKeepsInv == ASSUME BatchInv, NEW j \in Indices, Pass(j) PROVE BatchInv'
<1> DEFINE t == [task[j] EXCEPT !.st = "passed"]
<1>1. t \in TaskType /\ t.st = "passed" /\ task[j].st = "waiting"
  BY DEF Pass, NextWaiter, BatchInv, BatchTypes, TaskType
<1>2. task' = [task EXCEPT ![j] = t]
  BY DEF Pass, BatchInv, BatchTypes, TaskType
<1>3. /\ task' \in [Indices -> TaskType] /\ task'[j] = t
      /\ \A i \in Indices \ {j} : task'[i] = task[i]
  BY <1>1, <1>2, TaskUpdate DEF BatchInv
<1>4. /\ ledger' \in LedgerType
      /\ ledger'.inFlight = ledger.inFlight
      /\ ledger'.finished = ledger.finished
      /\ ledger'.spent = ledger.spent
  <2>1. CASE cancelAsked
    <3>1. ledger' = (IF cancelAsked THEN ledger ELSE Refuse(ledger))
      BY DEF Pass
    <3>2. ledger' = ledger
      BY <2>1, <3>1, Zenon
    <3> QED
      BY <3>2 DEF BatchInv, BatchTypes
  <2>2. CASE ~cancelAsked
    <3>1. ledger' = Refuse(ledger)
      BY <2>2 DEF Pass
    <3>2. ledger \in LedgerType
      BY DEF BatchInv, BatchTypes
    <3>3. ledger' = [ledger EXCEPT !.exhausted = TRUE, !.skipped = ledger.skipped + 1]
      BY <3>1 DEF Refuse
    <3>4. ledger.skipped + 1 \in Nat
      BY <3>2 DEF LedgerType
    <3>5. [ledger EXCEPT !.exhausted = TRUE] \in LedgerType
      BY <3>2 DEF LedgerType
    <3>6. ledger' = [[ledger EXCEPT !.exhausted = TRUE] EXCEPT !.skipped = ledger.skipped + 1]
      BY <3>3
    <3>7. ledger' \in LedgerType
      BY <3>2, <3>4, <3>6 DEF LedgerType
    <3>8. ledger'.inFlight = ledger.inFlight
      BY <3>2, <3>3 DEF LedgerType
    <3> QED
      BY <3>2, <3>3, <3>7, <3>8 DEF LedgerType
  <2> QED
    BY <2>1, <2>2
<1>5. CostsBounded'
  BY <1>1, <1>3, CostsUpdate DEF BatchInv
<1>6. /\ Holding' = Holding /\ Lost' = Lost
      /\ {i \in Indices : task'[i].st = "done"} = {i \in Indices : task[i].st = "done"}
  BY <1>1, <1>3 DEF Holding, Lost, Indices
<1>7. SlotsRespected' /\ LedgerMatchesTasks'
  BY <1>4, <1>6 DEF BatchInv, SlotsRespected, LedgerMatchesTasks, Indices
<1>8. OvershootBounded'
  BY <1>4, <1>6 DEF BatchInv, OvershootBounded, MaxRunCost
<1> QED
  BY <1>3, <1>4, <1>5, <1>7, <1>8 DEF BatchInv, BatchTypes, Indices

\* An admitted run takes a slot that was free, under a budget not yet spent.
LEMMA StartKeepsInv == ASSUME BatchInv, NEW j \in Indices, Start(j) PROVE BatchInv'
<1> DEFINE t == [task[j] EXCEPT !.st = "running", !.attempt = 1]
<1>1. /\ t \in TaskType /\ t.st = "running" /\ t.attempt = 1 /\ t.cost = task[j].cost
      /\ task[j].st = "waiting"
  BY DEF Start, NextWaiter, BatchInv, BatchTypes, TaskType
<1>2. task' = [task EXCEPT ![j] = t]
  BY DEF Start, BatchInv, BatchTypes, TaskType
<1>3. /\ task' \in [Indices -> TaskType] /\ task'[j] = t
      /\ \A i \in Indices \ {j} : task'[i] = task[i]
  BY <1>1, <1>2, TaskUpdate DEF BatchInv
<1>4. /\ ledger' \in LedgerType
      /\ ledger'.inFlight = ledger.inFlight + 1
      /\ ledger'.finished = ledger.finished
      /\ ledger'.spent = ledger.spent
  BY DEF Start, Admit, BatchInv, BatchTypes, LedgerType
<1>5. CostsBounded'
  <2>1. task[j].cost = 0
    BY <1>1 DEF BatchInv, CostsBounded
  <2>2. task'[j].st = "running" =>
            /\ task'[j].attempt \in 1..MaxAttempts
            /\ task'[j].cost <= (task'[j].attempt - 1) * MaxAttemptCost
    BY <1>1, <1>3, <2>1, LimitAssumption
  <2> QED
    BY <1>1, <1>3, <2>2, CostsUpdate DEF BatchInv
<1>6. Holding' = Holding \cup {j} /\ j \notin Holding /\ Lost' = Lost
  <2> HIDE DEF t
  <2>1. Holding' = Holding \cup {j} /\ j \notin Holding
    BY <1>1, <1>3 DEF Holding, Indices
  <2>2. Lost' = Lost
    BY <1>1, <1>3 DEF Lost, Indices
  <2> QED
    BY <2>1, <2>2
<1>7. {i \in Indices : task'[i].st = "done"} = {i \in Indices : task[i].st = "done"}
  BY <1>1, <1>3 DEF Indices
<1>8. Cardinality(Holding') = Cardinality(Holding) + 1
  BY <1>6, CountedFinite, FS_AddElement
<1>9. Cardinality(Holding) \in Nat /\ Cardinality(Holding) < MaxConcurrent /\ Cardinality(Lost) \in Nat
  BY CountedFinite DEF Start, NextWaiter
<1>10. SlotsRespected' /\ LedgerMatchesTasks'
  <2>1. SlotsRespected'
    BY <1>8, <1>9, LimitAssumption DEF SlotsRespected
  <2>2. ledger'.inFlight = Cardinality(Holding') + Cardinality(Lost')
    BY <1>4, <1>6, <1>8, <1>9 DEF BatchInv, LedgerMatchesTasks
  <2>3. ledger'.finished = Cardinality({i \in Indices : task'[i].st = "done"})
    BY <1>4, <1>7 DEF BatchInv, LedgerMatchesTasks
  <2> QED
    BY <2>1, <2>2, <2>3 DEF LedgerMatchesTasks, Indices
<1>11. OvershootBounded'
  <2> SUFFICES ASSUME Budget # NoBudget
               PROVE  ledger'.spent + ledger'.inFlight * MaxRunCost
                          < Budget + (MaxConcurrent + Cardinality(Lost)) * MaxRunCost
    BY <1>6 DEF OvershootBounded, MaxRunCost
  <2> DEFINE room == MaxConcurrent + Cardinality(Lost)
  <2>1. ledger.spent \in Nat /\ Budget \in Nat /\ ledger.spent < Budget
    BY LimitAssumption DEF Start, Refuses, BatchInv, BatchTypes, LedgerType
  <2>2. ledger'.inFlight \in Nat /\ room \in Nat /\ ledger'.inFlight <= room
    BY <1>4, <1>9, LimitAssumption DEF BatchInv, BatchTypes, LedgerType, LedgerMatchesTasks
  <2> HIDE DEF room
  <2>3. ledger'.inFlight * MaxRunCost <= room * MaxRunCost
    BY <2>2, RunCost, TimesMonotone
  <2>4. ledger'.inFlight * MaxRunCost \in Int /\ room * MaxRunCost \in Int
    BY <2>2, RunCost
  <2>5. ledger'.spent + ledger'.inFlight * MaxRunCost < Budget + room * MaxRunCost
    BY <1>4, <2>1, <2>3, <2>4
  <2> QED
    BY <2>5 DEF room
<1> QED
  BY <1>3, <1>4, <1>5, <1>10, <1>11 DEF BatchInv, BatchTypes, Indices

\* An outcome that lands frees its slot, and costs at most one full run.
LEMMA LandKeepsInv ==
    ASSUME BatchInv, NEW j \in Indices, NEW c \in Costs, NEW a \in AllAnswers \cup {None},
           task[j].st = "running", Land(j, c, a)
    PROVE  BatchInv'
<1> DEFINE t == [Waiting EXCEPT !.st = "done", !.answer = a]
           paid == Spent(j, c)
<1>1. t \in TaskType /\ t.st = "done"
  BY DEF Waiting, TaskType
<1>2. task' = [task EXCEPT ![j] = t]
  BY DEF Land
<1>3. /\ task' \in [Indices -> TaskType] /\ task'[j] = t
      /\ \A i \in Indices \ {j} : task'[i] = task[i]
  BY <1>1, <1>2, TaskUpdate DEF BatchInv
<1>4. paid \in Nat /\ paid <= MaxRunCost
  <2>1. /\ task[j].cost \in Nat /\ task[j].attempt \in 1..MaxAttempts
        /\ task[j].cost <= (task[j].attempt - 1) * MaxAttemptCost
    BY DEF BatchInv, BatchTypes, TaskType, CostsBounded
  <2>2. c \in Nat
    BY LimitAssumption DEF Costs
  <2> QED
    BY <2>1, <2>2, RunCost DEF Spent
<1>5. Holding' = Holding \ {j} /\ j \in Holding /\ Lost' = Lost
  BY <1>1, <1>3 DEF Holding, Lost, Indices
<1>6. Cardinality(Holding') = Cardinality(Holding) - 1
  BY <1>5, CountedFinite, FS_RemoveElement
<1>7. /\ Cardinality(Holding) \in Nat /\ Cardinality(Holding') \in Nat
      /\ Cardinality(Lost) \in Nat
  BY <1>5, CountedFinite, FS_CardinalityType, FS_RemoveElement
<1>8. /\ ledger.inFlight \in Nat \ {0} /\ ledger.spent \in Nat /\ ledger.finished \in Nat
      /\ ledger \in LedgerType
  BY <1>6, <1>7 DEF BatchInv, BatchTypes, LedgerType, LedgerMatchesTasks
<1>9. /\ ledger' \in LedgerType
      /\ ledger'.inFlight = ledger.inFlight - 1
      /\ ledger'.finished = ledger.finished + 1
      /\ ledger'.spent = ledger.spent + paid
  <2>1. ledger' = [ledger EXCEPT !.inFlight = ledger.inFlight - 1,
                                 !.finished = ledger.finished + 1,
                                 !.spent = ledger.spent + paid]
    BY <1>8 DEF Land, Settle
  <2>2. /\ ledger.inFlight - 1 \in Nat /\ ledger.finished + 1 \in Nat
        /\ ledger.spent + paid \in Nat
    BY <1>4, <1>8
  <2> DEFINE f == ledger.inFlight - 1
             d == ledger.finished + 1
             s == ledger.spent + paid
  <2>3. f \in Nat /\ d \in Nat /\ s \in Nat
    BY <2>2
  <2>4. ledger' = [ledger EXCEPT !.inFlight = f, !.finished = d, !.spent = s]
    BY <2>1
  <2> HIDE DEF paid, f, d, s
  <2>5. ledger' = [[[ledger EXCEPT !.inFlight = f] EXCEPT !.finished = d] EXCEPT !.spent = s]
    BY <1>8, <2>4 DEF LedgerType
  <2>6. [ledger EXCEPT !.inFlight = f] \in LedgerType
    BY <1>8, <2>3 DEF LedgerType
  <2>7. [[ledger EXCEPT !.inFlight = f] EXCEPT !.finished = d] \in LedgerType
    BY <2>3, <2>6 DEF LedgerType
  <2>8. ledger' \in LedgerType
    BY <2>3, <2>5, <2>7 DEF LedgerType
  <2>9. ledger'.inFlight = f /\ ledger'.finished = d /\ ledger'.spent = s
    BY <1>8, <2>4 DEF LedgerType
  <2> QED
    BY <2>8, <2>9 DEF f, d, s
<1>10. CostsBounded'
  BY <1>1, <1>3, CostsUpdate DEF BatchInv
<1>11. LET done == {i \in Indices : task[i].st = "done"}
       IN  /\ {i \in Indices : task'[i].st = "done"} = done \cup {j}
           /\ j \notin done
  BY <1>1, <1>3 DEF Indices
<1>12. Cardinality({i \in Indices : task'[i].st = "done"})
           = Cardinality({i \in Indices : task[i].st = "done"}) + 1
  BY <1>11, CountedFinite, FS_AddElement
<1>13. SlotsRespected'
  BY <1>6, <1>7, LimitAssumption DEF BatchInv, SlotsRespected
<1>14. LedgerMatchesTasks'
  <2>1. ledger'.inFlight = Cardinality(Holding') + Cardinality(Lost')
    BY <1>5, <1>6, <1>7, <1>9 DEF BatchInv, LedgerMatchesTasks
  <2>2. ledger'.finished = Cardinality({i \in Indices : task'[i].st = "done"})
    BY <1>9, <1>12 DEF BatchInv, LedgerMatchesTasks
  <2> QED
    BY <2>1, <2>2 DEF LedgerMatchesTasks, Indices
<1>15. OvershootBounded'
  <2> SUFFICES ASSUME Budget # NoBudget
               PROVE  ledger'.spent + ledger'.inFlight * MaxRunCost
                          < Budget + (MaxConcurrent + Cardinality(Lost)) * MaxRunCost
    BY <1>5 DEF OvershootBounded, MaxRunCost
  <2> DEFINE n == ledger.inFlight - 1
             room == MaxConcurrent + Cardinality(Lost)
  <2>1. ledger.spent + ledger.inFlight * MaxRunCost < Budget + room * MaxRunCost
    BY <1>8 DEF BatchInv, OvershootBounded
  <2>5. room \in Nat
    BY <1>7, LimitAssumption
  <2>2. n \in Nat /\ ledger.inFlight = n + 1
    BY <1>8
  <2>3. (n + 1) * MaxRunCost = n * MaxRunCost + MaxRunCost
    BY <2>2, RunCost, TimesSucc
  <2> HIDE DEF room
  <2>4. n * MaxRunCost \in Int /\ room * MaxRunCost \in Int /\ Budget \in Int
    BY <2>2, <2>5, RunCost, LimitAssumption
  <2> HIDE DEF n, paid
  <2>6. ledger'.spent + ledger'.inFlight * MaxRunCost < Budget + room * MaxRunCost
    BY <1>4, <1>8, <1>9, <2>1, <2>2, <2>3, <2>4, RunCost DEF n
  <2> QED
    BY <2>6 DEF room
<1> QED
  BY <1>3, <1>9, <1>10, <1>13, <1>14, <1>15 DEF BatchInv, BatchTypes, Indices

\* A sleeping task keeps its slot, and what its attempts have cost.
LEMMA SleepKeepsInv ==
    ASSUME BatchInv, NEW j \in Indices, NEW c \in Costs, SleepToRetry(j, c)
    PROVE  BatchInv'
<1> DEFINE t == [task[j] EXCEPT !.st = "backoff", !.cost = Spent(j, c)]
<1>1. /\ task[j].st = "running" /\ task[j].cost \in Nat /\ task[j].attempt \in 1..MaxAttempts
      /\ task[j].cost <= (task[j].attempt - 1) * MaxAttemptCost
      /\ task[j].attempt < MaxAttempts /\ c \in Nat
  BY LimitAssumption DEF SleepToRetry, BatchInv, BatchTypes, TaskType, CostsBounded, Costs
<1>2. Spent(j, c) \in Nat /\ Spent(j, c) <= task[j].attempt * MaxAttemptCost
  BY <1>1, RunCost DEF Spent
<1>3. /\ t \in TaskType /\ t.st = "backoff" /\ t.attempt = task[j].attempt
      /\ t.cost = Spent(j, c)
  BY <1>2 DEF BatchInv, BatchTypes, TaskType
<1>4. task' = [task EXCEPT ![j] = t]
  BY DEF SleepToRetry, BatchInv, BatchTypes, TaskType
<1>5. /\ task' \in [Indices -> TaskType] /\ task'[j] = t
      /\ \A i \in Indices \ {j} : task'[i] = task[i]
  BY <1>3, <1>4, TaskUpdate DEF BatchInv
<1>6. /\ Holding' = Holding /\ Lost' = Lost
      /\ {i \in Indices : task'[i].st = "done"} = {i \in Indices : task[i].st = "done"}
  <2> HIDE DEF t
  <2> QED
    BY <1>1, <1>3, <1>5 DEF Holding, Lost, Indices
<1>7. ledger' = ledger
  BY DEF SleepToRetry
<1>8. CostsBounded'
  <2>1. t.attempt \in 1..(MaxAttempts - 1)
    BY <1>1, <1>3, LimitAssumption
  <2> HIDE DEF t
  <2> QED
    BY <1>2, <1>3, <1>5, <2>1, CostsUpdate DEF BatchInv
<1> QED
  BY <1>5, <1>6, <1>7, <1>8 DEF BatchInv, BatchTypes, SlotsRespected, LedgerMatchesTasks,
     OvershootBounded, MaxRunCost, Indices

LEMMA RetryKeepsInv == ASSUME BatchInv, NEW j \in Indices, Retry(j) PROVE BatchInv'
<1> DEFINE t == [task[j] EXCEPT !.st = "running", !.attempt = task[j].attempt + 1]
<1>1. /\ task[j].st = "backoff" /\ task[j].cost \in Nat
      /\ task[j].attempt \in 1..(MaxAttempts - 1)
      /\ task[j].cost <= task[j].attempt * MaxAttemptCost
  BY DEF Retry, BatchInv, BatchTypes, TaskType, CostsBounded
<1>2. /\ t \in TaskType /\ t.st = "running" /\ t.attempt = task[j].attempt + 1
      /\ t.cost = task[j].cost
  <2>1. task[j] \in TaskType /\ task[j].attempt + 1 \in Nat
    BY <1>1 DEF BatchInv, BatchTypes
  <2> DEFINE n == task[j].attempt + 1
  <2>2. n \in Nat /\ t = [task[j] EXCEPT !.st = "running", !.attempt = n]
    BY <2>1
  <2> HIDE DEF n, t
  <2> QED
    BY <2>1, <2>2 DEF TaskType, n
<1>3. task' = [task EXCEPT ![j] = t]
  BY DEF Retry, BatchInv, BatchTypes, TaskType
<1>4. /\ task' \in [Indices -> TaskType] /\ task'[j] = t
      /\ \A i \in Indices \ {j} : task'[i] = task[i]
  BY <1>2, <1>3, TaskUpdate DEF BatchInv
<1>5. /\ Holding' = Holding /\ Lost' = Lost
      /\ {i \in Indices : task'[i].st = "done"} = {i \in Indices : task[i].st = "done"}
  BY <1>1, <1>2, <1>4 DEF Holding, Lost, Indices
<1>6. ledger' = ledger
  BY DEF Retry
<1>7. CostsBounded'
  <2>1. t.attempt \in 1..MaxAttempts /\ t.attempt - 1 = task[j].attempt
    BY <1>1, <1>2, LimitAssumption
  <2> HIDE DEF t
  <2> QED
    BY <1>1, <1>2, <1>4, <2>1, CostsUpdate DEF BatchInv
<1> QED
  BY <1>4, <1>5, <1>6, <1>7 DEF BatchInv, BatchTypes, SlotsRespected, LedgerMatchesTasks,
     OvershootBounded, MaxRunCost, Indices

\* The invariant says nothing of the cancel flag, the phase and what was collected.
LEMMA FrameKeepsInv == ASSUME BatchInv, UNCHANGED <<task, ledger>> PROVE BatchInv'
  BY DEF BatchInv, BatchTypes, CostsBounded, SlotsRespected, LedgerMatchesTasks,
     OvershootBounded, MaxRunCost, Holding, Lost, Indices

\* Runs that are taken from their slots without being settled: the ledger keeps
\* what it has of them.
LEMMA LosingKeepsInv ==
    ASSUME BatchInv, task' \in [Indices -> TaskType], UNCHANGED ledger,
           \A i \in Indices :
               \/ task'[i] = task[i]
               \/ task[i].st \in {"running", "backoff"} /\ task'[i].st = "lost"
               \/ task[i].st = "waiting" /\ task'[i].st = "passed"
    PROVE  BatchInv'
<1>1. CostsBounded'
  <2> SUFFICES ASSUME NEW i \in Indices
               PROVE  /\ task'[i].st = "waiting" => task'[i].cost = 0
                      /\ task'[i].st = "running" =>
                            /\ task'[i].attempt \in 1..MaxAttempts
                            /\ task'[i].cost <= (task'[i].attempt - 1) * MaxAttemptCost
                      /\ task'[i].st = "backoff" =>
                            /\ task'[i].attempt \in 1..(MaxAttempts - 1)
                            /\ task'[i].cost <= task'[i].attempt * MaxAttemptCost
    BY DEF CostsBounded, Indices
  <2>1. CASE task'[i] = task[i]
    BY <2>1 DEF BatchInv, CostsBounded
  <2>2. CASE task'[i].st \in {"lost", "passed"}
    BY <2>2
  <2> QED
    BY <2>1, <2>2
<1> DEFINE Held == Holding'
           Missing == Lost'
           Landed == {i \in Indices : task[i].st = "done"}
<1>2. /\ {i \in Indices : task'[i].st = "done"} = Landed
      /\ Held \subseteq Holding /\ Held \cup Missing = Holding \cup Lost
      /\ Held \cap Missing = {} /\ Holding \cap Lost = {}
  BY DEF Holding, Lost, Indices
<1>3. /\ IsFiniteSet(Held) /\ IsFiniteSet(Missing) /\ IsFiniteSet(Holding) /\ IsFiniteSet(Lost)
      /\ Cardinality(Held) \in Nat /\ Cardinality(Missing) \in Nat
      /\ Cardinality(Holding) \in Nat /\ Cardinality(Lost) \in Nat
  <2>1. Held \subseteq Indices /\ Missing \subseteq Indices
    BY DEF Holding, Lost, Indices
  <2>2. IsFiniteSet(Held) /\ IsFiniteSet(Missing)
    BY <2>1, IndicesFinite, FS_Subset
  <2> QED
    BY <2>2, CountedFinite, FS_CardinalityType
<1> HIDE DEF Held, Missing
<1>4. Cardinality(Held) <= Cardinality(Holding)
  BY <1>2, <1>3, FS_Subset
<1>5. /\ Cardinality(Held \cup Missing) = Cardinality(Held) + Cardinality(Missing)
      /\ Cardinality(Holding \cup Lost) = Cardinality(Holding) + Cardinality(Lost)
  <2>1. ASSUME NEW S, NEW T, IsFiniteSet(S), IsFiniteSet(T), S \cap T = {}
        PROVE  Cardinality(S \cup T) = Cardinality(S) + Cardinality(T)
    <3>1. Cardinality(S \cup T) = Cardinality(S) + Cardinality(T) - Cardinality(S \cap T)
      BY <2>1, FS_Union
    <3>2. Cardinality(S \cap T) = 0
      BY <2>1, FS_EmptySet
    <3>3. Cardinality(S) \in Nat /\ Cardinality(T) \in Nat
      BY <2>1, FS_CardinalityType
    <3> QED
      BY <3>1, <3>2, <3>3
  <2>2. Cardinality(Held \cup Missing) = Cardinality(Held) + Cardinality(Missing)
    BY <1>2, <1>3, <2>1
  <2>3. Cardinality(Holding \cup Lost) = Cardinality(Holding) + Cardinality(Lost)
    BY <1>2, <1>3, <2>1
  <2> QED
    BY <2>2, <2>3
<1>9. Cardinality(Held) + Cardinality(Missing) = Cardinality(Holding) + Cardinality(Lost)
  BY <1>2, <1>5
<1>6. SlotsRespected'
  <2>1. Cardinality(Held) <= MaxConcurrent
    BY <1>3, <1>4, LimitAssumption DEF BatchInv, SlotsRespected
  <2> QED
    BY <2>1 DEF SlotsRespected, Held
<1>7. LedgerMatchesTasks'
  <2>1. ledger.inFlight = Cardinality(Held) + Cardinality(Missing)
    BY <1>9 DEF BatchInv, LedgerMatchesTasks
  <2> QED
    BY <1>2, <2>1 DEF BatchInv, LedgerMatchesTasks, Indices, Held, Missing
<1>8. OvershootBounded'
  <2> SUFFICES ASSUME Budget # NoBudget, ~(ledger.spent = 0 /\ ledger.inFlight = 0)
               PROVE  ledger.spent + ledger.inFlight * MaxRunCost
                          < Budget + (MaxConcurrent + Cardinality(Missing)) * MaxRunCost
    BY DEF OvershootBounded, MaxRunCost, Missing
  <2> DEFINE before == MaxConcurrent + Cardinality(Lost)
             now == MaxConcurrent + Cardinality(Missing)
  <2>1. ledger.spent + ledger.inFlight * MaxRunCost < Budget + before * MaxRunCost
    BY DEF BatchInv, OvershootBounded
  <2>2. before \in Nat /\ now \in Nat /\ before <= now
    BY <1>3, <1>4, <1>9, LimitAssumption
  <2> HIDE DEF before, now
  <2>3. before * MaxRunCost <= now * MaxRunCost
    BY <2>2, RunCost, TimesMonotone
  <2>4. /\ before * MaxRunCost \in Int /\ now * MaxRunCost \in Int /\ Budget \in Int
        /\ ledger.spent + ledger.inFlight * MaxRunCost \in Int
    <3>1. ledger.spent \in Int /\ ledger.inFlight \in Int
      BY DEF BatchInv, BatchTypes, LedgerType
    <3> QED
      BY <2>2, <3>1, RunCost, LimitAssumption
  <2>5. ledger.spent + ledger.inFlight * MaxRunCost < Budget + now * MaxRunCost
    BY <2>1, <2>3, <2>4
  <2> QED
    BY <2>5 DEF now
<1> QED
  BY <1>1, <1>6, <1>7, <1>8 DEF BatchInv, BatchTypes, Indices

LEMMA RaiseKeepsInv == ASSUME BatchInv, NEW j \in Indices, RunRaises(j) PROVE BatchInv'
<1> DEFINE t == [Waiting EXCEPT !.st = "lost"]
<1>1. t \in TaskType /\ t.st = "lost"
  BY DEF Waiting, TaskType
<1>2. task' = [task EXCEPT ![j] = t] /\ task[j].st = "running" /\ UNCHANGED ledger
  BY DEF RunRaises
<1> HIDE DEF t
<1>3. /\ task' \in [Indices -> TaskType] /\ task'[j] = t
      /\ \A i \in Indices \ {j} : task'[i] = task[i]
  BY <1>1, <1>2, TaskUpdate DEF BatchInv
<1> QED
  BY <1>1, <1>2, <1>3, LosingKeepsInv

LEMMA CancelKeepsInv == ASSUME BatchInv, CancelTask PROVE BatchInv'
<1> DEFINE t == [Waiting EXCEPT !.st = "lost"]
           u == [Waiting EXCEPT !.st = "passed"]
<1>1. t \in TaskType /\ t.st = "lost" /\ u \in TaskType /\ u.st = "passed"
  BY DEF Waiting, TaskType
<1>2. /\ task' = [i \in Indices |-> IF i \in Holding THEN t
                                   ELSE IF task[i].st = "waiting" THEN u ELSE task[i]]
      /\ UNCHANGED ledger
  BY DEF CancelTask
<1> HIDE DEF t, u
<1>3. \A i \in Indices : i \in Holding => task[i].st \in {"running", "backoff"}
  BY DEF Holding
<1>4. task' \in [Indices -> TaskType]
  BY <1>1, <1>2 DEF BatchInv, BatchTypes
<1> QED
  BY <1>1, <1>2, <1>3, <1>4, LosingKeepsInv

LEMMA BatchStepInv == BatchInv /\ [BatchNext]_batchVars => BatchInv'
<1> SUFFICES ASSUME BatchInv, [BatchNext]_batchVars PROVE BatchInv'
  OBVIOUS
<1>1. ASSUME NEW j \in Indices, RunStep(j) PROVE BatchInv'
  <2>1. Answers[CaseOf(j)] \subseteq AllAnswers
    BY DEF AllAnswers
  <2>2. CASE Pass(j) \/ Start(j) \/ Retry(j) \/ RunRaises(j)
    BY <2>2, PassKeepsInv, StartKeepsInv, RetryKeepsInv, RaiseKeepsInv
  <2>3. ASSUME NEW c \in Costs, NEW a \in Answers[CaseOf(j)], Answered(j, a, c) PROVE BatchInv'
    BY <2>1, <2>3, LandKeepsInv DEF Answered
  <2>4. ASSUME NEW c \in Costs, Failed(j, c) PROVE BatchInv'
    BY <2>4, LandKeepsInv DEF Failed
  <2>5. ASSUME NEW c \in Costs, SleepToRetry(j, c) PROVE BatchInv'
    BY <2>5, SleepKeepsInv
  <2> QED
    BY <1>1, <2>2, <2>3, <2>4, <2>5 DEF RunStep
<1>2. CASE AskCancel \/ EndBatch \/ UNCHANGED batchVars
  BY <1>2, FrameKeepsInv DEF AskCancel, EndBatch, batchVars
<1> QED
  BY <1>1, <1>2, CancelKeepsInv DEF BatchNext

-----------------------------------------------------------------------------
(* Theorems *)

LEMMA BatchInvariant == BatchSpec => []BatchInv
  BY BatchInitInv, BatchStepInv, PTL DEF BatchSpec

\* The budget's promise for any budget and any concurrency: once anything ran,
\* spent money and money in flight stay under the budget plus a full run per slot
\* and per run that an exception or a cancellation took.
THEOREM OvershootStaysBounded == BatchSpec => []OvershootBounded
<1>1. BatchInv => OvershootBounded
  BY DEF BatchInv
<1> QED
  BY <1>1, BatchInvariant, PTL

\* The ledger counts the slots that are held, the runs that were taken from theirs
\* without being settled, and the outcomes that landed.
THEOREM LedgerIsExact == BatchSpec => []LedgerMatchesTasks
<1>1. BatchInv => LedgerMatchesTasks
  BY DEF BatchInv
<1> QED
  BY <1>1, BatchInvariant, PTL

\* Never more than MAX_CONCURRENT_RUNS runs hold a slot.
THEOREM ConcurrencyIsLimited == BatchSpec => []SlotsRespected
<1>1. BatchInv => SlotsRespected
  BY DEF BatchInv
<1> QED
  BY <1>1, BatchInvariant, PTL

\* A task that starts did so past a ledger that does not refuse.
LEMMA StartNeedsRoom ==
    ASSUME BatchInv, NEW j \in Indices, RunStep(j), ledger.exhausted
    PROVE  /\ ledger'.exhausted
           /\ \A i \in Indices : task[i].st = "waiting" => task'[i].st # "running"
<1>0. /\ task \in [Indices -> TaskType] /\ ledger \in LedgerType
  BY DEF BatchInv, BatchTypes
<1>1. CASE Pass(j)
  <2>1. ledger'.exhausted
    BY <1>0, <1>1 DEF Pass, Refuse, LedgerType
  <2>2. \A i \in Indices : task[i].st = "waiting" => task'[i].st # "running"
    BY <1>0, <1>1 DEF Pass, TaskType
  <2> QED
    BY <2>1, <2>2
<1>2. CASE Start(j)
  BY <1>2 DEF Start, Refuses
<1>3. CASE Retry(j)
  BY <1>0, <1>3 DEF Retry, TaskType
<1>4. ASSUME NEW c \in Costs, NEW a, Land(j, c, a), task[j].st = "running"
      PROVE  /\ ledger'.exhausted
             /\ \A i \in Indices : task[i].st = "waiting" => task'[i].st # "running"
  <2>1. ledger'.exhausted
    BY <1>0, <1>4 DEF Land, Settle, LedgerType
  <2>2. \A i \in Indices : task[i].st = "waiting" => task'[i].st # "running"
    BY <1>0, <1>4 DEF Land, Waiting
  <2> QED
    BY <2>1, <2>2
<1>5. ASSUME NEW c \in Costs, SleepToRetry(j, c)
      PROVE  /\ ledger'.exhausted
             /\ \A i \in Indices : task[i].st = "waiting" => task'[i].st # "running"
  BY <1>0, <1>5 DEF SleepToRetry, TaskType
<1>6. CASE RunRaises(j)
  BY <1>0, <1>6 DEF RunRaises, Waiting
<1> QED
  BY <1>1, <1>2, <1>3, <1>4, <1>5, <1>6 DEF RunStep, Answered, Failed

\* A refusal is permanent.
THEOREM RefusalStands == BatchSpec => RefusalIsPermanent
<1>1. BatchInv /\ [BatchNext]_batchVars =>
          [Alive /\ ledger.exhausted =>
              /\ ledger'.exhausted
              /\ \A j \in Indices : task[j].st = "waiting" => task'[j].st # "running"]_batchVars
  <2> SUFFICES ASSUME BatchInv, BatchNext, ledger.exhausted
               PROVE  /\ ledger'.exhausted
                      /\ \A j \in Indices : task[j].st = "waiting" => task'[j].st # "running"
    OBVIOUS
  <2>1. CASE AskCancel \/ EndBatch
    BY <2>1 DEF AskCancel, EndBatch
  <2>2. CASE CancelTask
    BY <2>2 DEF CancelTask, Holding, Waiting
  <2> QED
    BY <2>1, <2>2, StartNeedsRoom DEF BatchNext
<1> QED
  BY <1>1, BatchInvariant, PTL DEF BatchSpec, RefusalIsPermanent

-----------------------------------------------------------------------------
(* The result document *)

CaseStatuses == {"passed", "failed", "judge_error", "error"}

\* One case's line, whatever it was made from.
LineFits(line, c) ==
    /\ line.id = c
    /\ line.passed \in BOOLEAN
    /\ line.passed <=> line.status = "passed"
    /\ line.status \in CaseStatuses

LEMMA CaseLineFits ==
    ASSUME NEW c, NEW runs, NEW verdict, NEW spend
    PROVE  LineFits(ForBudget(SuiteCaseResult(c, runs, verdict), spend), c)
<1> DEFINE line == SuiteCaseResult(c, runs, verdict)
<1>1. LineFits(line, c)
  BY DEF SuiteCaseResult, LineFits, CaseStatuses, CaseScore, Passing
<1>2. line = [f \in DOMAIN line |-> line[f]] /\ "error" \in DOMAIN line
  BY DEF SuiteCaseResult
<1> HIDE DEF line
<1>3. LineFits([line EXCEPT !.error = "budget_exhausted"], c)
  BY <1>1, <1>2 DEF LineFits
<1> QED
  BY <1>1, <1>3 DEF ForBudget, line

\* The lines are in file order, one for each case, and the counts are theirs.
LinesFit(lines) ==
    /\ lines \in Seq({lines[k] : k \in DOMAIN CaseOrder}) /\ Len(lines) = Len(CaseOrder)
    /\ \A k \in DOMAIN CaseOrder : LineFits(lines[k], CaseOrder[k])

AtStatus(lines, st) == {k \in DOMAIN lines : lines[k].status \in st}

DocumentFits(doc) ==
    /\ doc # NoResult
    /\ LinesFit(doc.cases)
    /\ doc.casesPassed = Cardinality(AtStatus(doc.cases, {"passed"}))
    /\ doc.casesFailed = Cardinality(AtStatus(doc.cases, {"failed"}))
    /\ doc.casesErrored = Cardinality(AtStatus(doc.cases, {"error", "judge_error"}))

LEMMA SuiteResultFits ==
    ASSUME NEW outcomes, NEW caseOf, NEW judged, NEW spend
    PROVE  DocumentFits(SuiteResult(outcomes, caseOf, judged, spend))
<1> DEFINE runsOf(c) == [j \in {i \in DOMAIN outcomes : caseOf[i] = c} |-> outcomes[j]]
           verdict(c) == IF c \in DOMAIN judged.verdicts THEN judged.verdicts[c] ELSE NoVerdict
           line(c) == ForBudget(SuiteCaseResult(c, runsOf(c), verdict(c)), spend)
           lines == [k \in DOMAIN CaseOrder |-> line(CaseOrder[k])]
           doc == SuiteDocument(lines, outcomes, judged, spend)
<1>1. SuiteResult(outcomes, caseOf, judged, spend) = doc
  BY DEF SuiteResult
<1>2. \A k \in DOMAIN CaseOrder : LineFits(lines[k], CaseOrder[k])
  <2> SUFFICES ASSUME NEW k \in DOMAIN CaseOrder PROVE LineFits(lines[k], CaseOrder[k])
    OBVIOUS
  <2>1. lines[k] = line(CaseOrder[k])
    OBVIOUS
  <2> QED
    BY <2>1, CaseLineFits
<1>3. Len(CaseOrder) \in Nat /\ DOMAIN CaseOrder = 1..Len(CaseOrder)
  BY OrderAssumption, LenProperties
<1>4. DOMAIN lines = DOMAIN CaseOrder /\ lines = [k \in DOMAIN CaseOrder |-> lines[k]]
  OBVIOUS
<1> HIDE DEF lines
<1>5. lines \in Seq({lines[k] : k \in DOMAIN CaseOrder}) /\ Len(lines) = Len(CaseOrder)
  <2>1. lines \in [1..Len(CaseOrder) -> {lines[k] : k \in DOMAIN CaseOrder}]
    BY <1>3, <1>4
  <2>2. lines \in Seq({lines[k] : k \in DOMAIN CaseOrder})
    BY <1>3, <2>1, SeqDef
  <2> QED
    BY <1>3, <1>4, <2>2, LenProperties
<1>6. /\ doc.cases = lines
      /\ doc.casesPassed = Cardinality({k \in DOMAIN lines : lines[k].passed})
      /\ doc.casesFailed = Cardinality({k \in DOMAIN lines : lines[k].status = "failed"})
      /\ doc.casesErrored = Cardinality({k \in DOMAIN lines : lines[k].status \in {"error", "judge_error"}})
      /\ DOMAIN doc # {}
  BY DEF SuiteDocument, Passing
<1>7. /\ {k \in DOMAIN lines : lines[k].passed} = AtStatus(lines, {"passed"})
      /\ {k \in DOMAIN lines : lines[k].status = "failed"} = AtStatus(lines, {"failed"})
      /\ {k \in DOMAIN lines : lines[k].status \in {"error", "judge_error"}}
            = AtStatus(lines, {"error", "judge_error"})
  BY <1>2, <1>4 DEF LineFits, AtStatus
<1>8. doc # NoResult
  BY <1>6 DEF NoResult
<1>9. LinesFit(lines)
  BY <1>2, <1>5 DEF LinesFit
<1> HIDE DEF doc
<1> QED
  BY <1>1, <1>6, <1>7, <1>8, <1>9 DEF DocumentFits

-----------------------------------------------------------------------------
(* The evaluation: its inductive invariant *)

Phases == {"batch", "failed", "grading", "cancelled", "graded",
           "stored completed", "stored error", "stored cancelled"}

DoneRuns == {j \in Indices : task[j].st = "done"}

\* What graders are handed is every outcome that landed, in the order of the jobs.
CollectedInOrder == phase \in {"grading", "graded"} => collected = Increasing(DoneRuns)

\* What the judges can have reported of the answers they were shown.
Heeded(given) ==
    /\ given = [k \in DOMAIN Panel |-> given[k]]
    /\ Shown = {} => \A k \in DOMAIN Panel : given[k] = Raised
    /\ Shown # {} => \A k \in DOMAIN Panel : given[k] \in Reports(k)

GradedFrom == phase = "graded" => Heeded(reports) /\ result = ResultOf(reports)

\* There is a result exactly after grading, and a completed evaluation has cases.
DocumentKept ==
    /\ kind = "suite" /\ phase \in {"graded", "stored completed"} => DocumentFits(result)
    /\ kind = "suite" /\ phase = "stored error" /\ result # NoResult => DocumentFits(result)
    /\ phase \in {"batch", "failed", "grading", "cancelled", "stored cancelled"} => result = NoResult
    /\ phase = "stored completed" => Len(CaseOrder) > 0

SuiteInv ==
    /\ BatchInv
    /\ kind \in {"suite", "determinism"} /\ phase \in Phases
    /\ CollectedInOrder /\ GradedFrom /\ DocumentKept

LEMMA SuiteInitInv == Init => SuiteInv
<1> SUFFICES ASSUME Init PROVE SuiteInv
  OBVIOUS
<1>1. BatchInv
  BY BatchInitInv DEF Init
<1>2. phase = "batch" /\ result = NoResult /\ kind \in {"suite", "determinism"}
  BY DEF Init, BatchInit
<1> QED
  BY <1>1, <1>2 DEF SuiteInv, Phases, CollectedInOrder, GradedFrom, DocumentKept

\* The batch runs until it is graded, unless it fails or is cancelled.
LEMMA RunBatchPhases ==
    ASSUME RunBatch
    PROVE  /\ phase \in {"batch", "failed", "grading"}
           /\ phase' \in {"batch", "failed", "cancelled", "grading"}
           /\ phase' = "grading" => collected' = Increasing(DoneRuns')
<1>1. CASE EndBatch
  BY <1>1 DEF EndBatch, DoneRuns, Indices
<1>2. CASE AskCancel \/ CancelTask
  BY <1>2 DEF AskCancel, CancelTask, Alive
<1>3. CASE \E j \in Indices : RunStep(j)
  BY <1>3 DEF RunStep, Pass, Start, NextWaiter, Retry, Answered, Failed, SleepToRetry, RunRaises, Land, Alive
<1> QED
  BY <1>1, <1>2, <1>3 DEF RunBatch, BatchNext

LEMMA RunBatchKeepsInv == ASSUME SuiteInv, RunBatch PROVE SuiteInv'
<1>1. BatchInv'
  BY BatchStepInv DEF SuiteInv, RunBatch
<1>2. /\ phase \in {"batch", "failed", "grading"}
      /\ phase' \in {"batch", "failed", "cancelled", "grading"}
      /\ phase' = "grading" => collected' = Increasing(DoneRuns')
  BY RunBatchPhases
<1>3. UNCHANGED <<kind, reports, result>> /\ result = NoResult
  BY <1>2 DEF RunBatch, SuiteInv, DocumentKept
<1> QED
  BY <1>1, <1>2, <1>3 DEF SuiteInv, Phases, CollectedInOrder, GradedFrom, DocumentKept

\* What the result is made from is what the batch left.
LEMMA FrameKeepsScoring ==
    ASSUME UNCHANGED <<task, ledger, collected, kind>>
    PROVE  /\ Outcomes' = Outcomes /\ CaseOfRun' = CaseOfRun
           /\ Heeded(reports)' <=> Heeded(reports')
           /\ ResultOf(reports)' = ResultOf(reports')
<1>1. Outcomes' = Outcomes /\ CaseOfRun' = CaseOfRun
  BY DEF Outcomes, CaseOfRun, Indices, CaseOf
<1>2. Successes' = Successes
  BY <1>1 DEF Successes
<1>3. Shown' = Shown
  BY <1>1, <1>2 DEF Shown
<1>4. \A k : Reports(k)' = Reports(k)
  BY <1>1, <1>3 DEF Reports
<1>5. Panel' = Panel
  BY DEF Panel
<1>6. Heeded(reports)' <=> Heeded(reports')
  BY <1>3, <1>4, <1>5 DEF Heeded
<1>7. SpendWith(reports)' = SpendWith(reports')
  BY DEF SpendWith
<1>8. ResultOf(reports)' = ResultOf(reports')
  BY <1>1, <1>7 DEF ResultOf
<1> QED
  BY <1>1, <1>6, <1>8

LEMMA GradeKeepsInv == ASSUME SuiteInv, GradeOutcomes PROVE SuiteInv'
<1>1. /\ phase = "grading" /\ phase' = "graded"
      /\ UNCHANGED <<task, ledger, collected, cancelAsked, kind>>
  BY DEF GradeOutcomes
<1>2. BatchInv'
  BY <1>1, FrameKeepsInv DEF SuiteInv
<1>3. DoneRuns' = DoneRuns
  BY <1>1 DEF DoneRuns, Indices
<1>4. Heeded(reports') /\ result' = ResultOf(reports')
  BY DEF GradeOutcomes, Heeded
<1>5. Heeded(reports)' /\ (result = ResultOf(reports))'
  BY <1>1, <1>4, FrameKeepsScoring
<1>6. kind = "suite" => DocumentFits(result')
  BY <1>4, SuiteResultFits DEF ResultOf
<1> QED
  BY <1>1, <1>2, <1>3, <1>5, <1>6 DEF SuiteInv, Phases, CollectedInOrder, GradedFrom, DocumentKept, DocumentFits

\* The runs that landed are a finite set of numbers, each of them collected once.
LEMMA DoneRunsAreSorted ==
    /\ DoneRuns \subseteq Indices /\ DoneRuns \in SUBSET Int /\ IsFiniteSet(DoneRuns)
    /\ ToSet(Increasing(DoneRuns)) = DoneRuns
<1>1. DoneRuns \subseteq Indices
  BY DEF DoneRuns
<1>2. Indices \in SUBSET Int
  BY DEF Indices
<1>3. IsFiniteSet(DoneRuns) /\ DoneRuns \in SUBSET Int
  BY <1>1, <1>2, IndicesFinite, FS_Subset
<1> DEFINE n == Cardinality(DoneRuns)
           s == Increasing(DoneRuns)
<1>4. s \in [1..n -> DoneRuns] /\ \A x \in DoneRuns : \E i \in 1..n : s[i] = x
  BY <1>3, IncreasingOrders
<1> HIDE DEF s, n
<1>5. ToSet(s) = DoneRuns
  BY <1>4 DEF ToSet
<1> QED
  BY <1>1, <1>3, <1>5 DEF s

\* An answer is of one of the suite's cases.
LEMMA AnswersNeedCases ==
    ASSUME SuiteInv, phase \in {"grading", "graded"}, Successes # {}
    PROVE  Len(CaseOrder) > 0
<1>1. collected = Increasing(DoneRuns)
  BY DEF SuiteInv, CollectedInOrder
<1>3. ToSet(collected) \subseteq Indices
  BY <1>1, DoneRunsAreSorted
<1>4. PICK j : j \in Indices
  BY <1>3 DEF Successes, Outcomes
<1>5. Cases = CaseOrder /\ Len(CaseOrder) \in Nat
  BY SameSuite, OrderAssumption, LenProperties
<1>6. CASE Len(CaseOrder) = 0
  BY <1>4, <1>5, <1>6, SuiteAssumption DEF Indices
<1> QED
  BY <1>5, <1>6

LEMMA StoreKeepsInv == ASSUME SuiteInv, Store PROVE SuiteInv'
<1>1. phase \in {"graded", "cancelled", "failed"} /\ UNCHANGED <<kind, result>>
  BY DEF Store
<1>2. BatchInv'
  <2>1. FreshBatch'
    BY DEF Store, FreshBatch, Indices, Waiting, NewLedger
  <2> QED
    BY <2>1, FreshBatchInv, PTL
<1>3. /\ phase = "cancelled" => phase' = "stored cancelled"
      /\ phase = "failed" => phase' = "stored error"
      /\ phase = "graded" => phase' \in {"stored error", "stored completed"}
      /\ phase = "graded" /\ phase' = "stored completed" => Successes # {}
  BY <1>1 DEF Store
<1>4. phase' = "stored completed" => Len(CaseOrder) > 0
  BY <1>1, <1>3, AnswersNeedCases
<1> QED
  BY <1>1, <1>2, <1>3, <1>4 DEF SuiteInv, Phases, CollectedInOrder, GradedFrom, DocumentKept, DocumentFits

LEMMA SuiteStepInv == SuiteInv /\ [Next]_vars => SuiteInv'
<1> SUFFICES ASSUME SuiteInv, [Next]_vars PROVE SuiteInv'
  OBVIOUS
<1>1. CASE UNCHANGED vars
  <2>1. BatchInv'
    BY <1>1, FrameKeepsInv DEF SuiteInv, vars
  <2>2. (Heeded(reports)' <=> Heeded(reports')) /\ ResultOf(reports)' = ResultOf(reports')
    BY <1>1, FrameKeepsScoring DEF vars
  <2>3. GradedFrom'
    <3>1. UNCHANGED <<phase, reports, result>>
      BY <1>1 DEF vars
    <3> QED
      BY <2>2, <3>1 DEF SuiteInv, GradedFrom
  <2> QED
    BY <1>1, <2>1, <2>3 DEF SuiteInv, vars, CollectedInOrder, DoneRuns, Indices, DocumentKept
<1> QED
  BY <1>1, RunBatchKeepsInv, GradeKeepsInv, StoreKeepsInv DEF Next, Done

LEMMA SuiteInvariant == Spec => []SuiteInv
  BY SuiteInitInv, SuiteStepInv, PTL DEF Spec

-----------------------------------------------------------------------------
(* The gate *)

\* cli/gating.py: the gate on case failures, a minimum pass rate of 1 and the
\* JUnit report give one answer about every completed suite evaluation.
LEMMA DocumentGates ==
    ASSUME NEW doc, DocumentFits(doc), Len(CaseOrder) > 0
    PROVE  LET junit == JunitCounts("completed", doc)
               strict == [failUnder |-> Nothing, caseFailure |-> TRUE, minPassRate |-> Nothing]
               whole == [failUnder |-> Nothing, caseFailure |-> FALSE, minPassRate |-> <<1, 1>>]
           IN  /\ junit.failures = doc.casesFailed /\ junit.errors = doc.casesErrored
               /\ junit.tests = doc.casesPassed + junit.failures + junit.errors
               /\ Misses(strict, doc) = {} <=> junit.failures + junit.errors = 0
               /\ Misses(strict, doc) = {} <=> Misses(whole, doc) = {}
<1> DEFINE lines == doc.cases
           n == Len(CaseOrder)
           passed == AtStatus(lines, {"passed"})
           failed == AtStatus(lines, {"failed"})
           errored == AtStatus(lines, {"error", "judge_error"})
           junit == JunitCounts("completed", doc)
           strict == [failUnder |-> Nothing, caseFailure |-> TRUE, minPassRate |-> Nothing]
           whole == [failUnder |-> Nothing, caseFailure |-> FALSE, minPassRate |-> <<1, 1>>]
<1>1. n \in Nat /\ DOMAIN CaseOrder = 1..n /\ DOMAIN lines = 1..n /\ Len(lines) = n /\ lines # <<>>
  BY OrderAssumption, LenProperties, EmptySeq DEF DocumentFits, LinesFit
<1>2. \A k \in 1..n : LineFits(lines[k], CaseOrder[k])
  BY <1>1 DEF DocumentFits, LinesFit
<1>3. doc # NoResult /\ doc.casesPassed = Cardinality(passed)
      /\ doc.casesFailed = Cardinality(failed) /\ doc.casesErrored = Cardinality(errored)
  BY DEF DocumentFits
<1> HIDE DEF lines
<1>4. /\ passed \cup failed \cup errored = 1..n
      /\ passed \cap failed = {} /\ (passed \cup failed) \cap errored = {}
  BY <1>1, <1>2 DEF AtStatus, LineFits, CaseStatuses
<1>5. /\ Cardinality(passed) \in Nat /\ Cardinality(failed) \in Nat /\ Cardinality(errored) \in Nat
      /\ Cardinality(passed) + Cardinality(failed) + Cardinality(errored) = n
      /\ Cardinality(failed) + Cardinality(errored) = 0 <=> failed \cup errored = {}
  <2>1. IsFiniteSet(1..n) /\ Cardinality(1..n) = n
    BY <1>1, CountUpTo
  <2>2. IsFiniteSet(passed) /\ IsFiniteSet(failed) /\ IsFiniteSet(errored)
    <3>1. passed \subseteq 1..n /\ failed \subseteq 1..n /\ errored \subseteq 1..n
      BY <1>4
    <3> HIDE DEF passed, failed, errored
    <3> QED
      BY <2>1, <3>1, FS_Subset
  <2>3. /\ IsFiniteSet(passed \cup failed)
        /\ Cardinality(passed \cup failed) = Cardinality(passed) + Cardinality(failed)
    <3> HIDE DEF passed, failed, errored
    <3> QED
      BY <1>4, <2>2, CountDisjoint
  <2>4. Cardinality(passed \cup failed \cup errored) = Cardinality(passed \cup failed) + Cardinality(errored)
    <3> HIDE DEF passed, failed, errored
    <3> QED
      BY <1>4, <2>2, <2>3, CountDisjoint
  <2>5. /\ Cardinality(failed) = 0 <=> failed = {}
        /\ Cardinality(errored) = 0 <=> errored = {}
    BY <2>2, FS_EmptySet
  <2>6. Cardinality(passed) \in Nat /\ Cardinality(failed) \in Nat /\ Cardinality(errored) \in Nat
    BY <2>2, FS_CardinalityType
  <2>7. Cardinality(passed \cup failed \cup errored) = n
    BY <1>4, <2>1
  <2>8. failed \cup errored = {} <=> failed = {} /\ errored = {}
    OBVIOUS
  <2> HIDE DEF n, passed, failed, errored
  <2> QED
    BY <2>3, <2>4, <2>5, <2>6, <2>7, <2>8
<1>6. junit.tests = n /\ junit.failures = Cardinality(failed) /\ junit.errors = Cardinality(errored)
  <2>1. {k \in DOMAIN lines : ~lines[k].passed /\ (lines[k].status = "failed") = TRUE} = failed
    BY <1>1, <1>2 DEF AtStatus, LineFits, CaseStatuses
  <2>2. {k \in DOMAIN lines : ~lines[k].passed /\ (lines[k].status = "failed") = FALSE} = errored
    BY <1>1, <1>2 DEF AtStatus, LineFits, CaseStatuses
  <2>3. lines = doc.cases
    BY DEF lines
  <2> QED
    BY <1>1, <1>3, <2>1, <2>2, <2>3 DEF JunitCounts
<1>7. Misses(strict, doc) = {} <=> failed \cup errored = {}
  <2>1. Misses(strict, doc) = {} <=> FailedCases(doc) = {}
    BY DEF Misses
  <2>2. FailedCases(doc) = {lines[k].id : k \in {m \in DOMAIN lines : ~lines[m].passed}}
    BY <1>3 DEF FailedCases, lines
  <2>3. {m \in DOMAIN lines : ~lines[m].passed} = failed \cup errored
    BY <1>1, <1>2 DEF AtStatus, LineFits, CaseStatuses
  <2> QED
    BY <2>1, <2>2, <2>3
<1>8. Misses(whole, doc) = {} <=> Cardinality(failed) + Cardinality(errored) = 0
  <2>1. Below(PassRate(doc), <<1, 1>>) <=> doc.casesPassed * 1 < 1 * Len(lines)
    BY DEF Below, PassRate, lines
  <2>2. Below(PassRate(doc), <<1, 1>>) <=> Cardinality(failed) + Cardinality(errored) # 0
    <3> HIDE DEF passed, failed, errored
    <3> QED
      BY <1>1, <1>3, <1>5, <2>1
  <2>3. <<1, 1>> # Nothing /\ doc.cases # <<>>
    BY <1>1, NoneAssumption DEF lines
  <2>4. Misses(whole, doc) = {} <=> ~Below(PassRate(doc), <<1, 1>>)
    BY <1>3, <2>3 DEF Misses
  <2> QED
    BY <2>2, <2>4
<1> HIDE DEF junit, strict, whole, passed, failed, errored
<1> QED
  BY <1>3, <1>5, <1>6, <1>7, <1>8 DEF junit, strict, whole

THEOREM GatesAlwaysAgree == Spec => []GatesAgree
<1>1. SuiteInv => GatesAgree
  <2> SUFFICES ASSUME SuiteInv, SuiteStored, Status = "completed"
               PROVE  LET junit == JunitCounts(Status, result)
                          strict == [failUnder |-> Nothing, caseFailure |-> TRUE, minPassRate |-> Nothing]
                          whole == [failUnder |-> Nothing, caseFailure |-> FALSE, minPassRate |-> <<1, 1>>]
                      IN  /\ junit.failures = result.casesFailed /\ junit.errors = result.casesErrored
                          /\ junit.tests = result.casesPassed + junit.failures + junit.errors
                          /\ Misses(strict, result) = {} <=> junit.failures + junit.errors = 0
                          /\ Misses(strict, result) = {} <=> Misses(whole, result) = {}
    BY DEF GatesAgree
  <2>1. DocumentFits(result) /\ Len(CaseOrder) > 0
    BY DEF SuiteInv, SuiteStored, Stored, Status, DocumentKept
  <2> QED
    BY <2>1, DocumentGates
<1> QED
  BY <1>1, SuiteInvariant, PTL

-----------------------------------------------------------------------------
(* Sums and means *)

LEMMA Quotient ==
    ASSUME NEW a \in Int, NEW b \in Nat \ {0}
    PROVE  a \div b \in Int /\ b * (a \div b) <= a /\ a < b * (a \div b) + b
OBVIOUS

\* A quotient reaches whole numbers exactly when the product does.
LEMMA QuotientReaches ==
    ASSUME NEW a \in Int, NEW b \in Nat \ {0}, NEW t \in Int
    PROVE  a \div b >= t <=> a >= t * b
<1> DEFINE q == a \div b
<1>1. q \in Int /\ b * q <= a /\ a < b * q + b
  BY Quotient
<1> HIDE DEF q
<1>2. ASSUME q >= t PROVE a >= t * b
  <2>1. b * (q - t) >= 0
    BY <1>1, <1>2
  <2>2. b * (q - t) = b * q - t * b
    BY <1>1
  <2>3. b * q \in Int /\ t * b \in Int
    BY <1>1
  <2> QED
    BY <1>1, <2>1, <2>2, <2>3
<1>3. ASSUME q < t PROVE a < t * b
  <2>1. b * (t - q - 1) >= 0
    BY <1>1, <1>3
  <2>2. b * (t - q - 1) = t * b - b * q - b
    BY <1>1
  <2>3. b * q \in Int /\ t * b \in Int
    BY <1>1
  <2> QED
    BY <1>1, <2>1, <2>2, <2>3
<1>4. t * b \in Int
  OBVIOUS
<1> QED
  BY <1>1, <1>2, <1>3, <1>4 DEF q

LEMMA SumIsTotal == ASSUME NEW f PROVE Sum(f) = Total(f, DOMAIN f)
BY DEF Sum, FoldFunction, FoldFunctionOnSet, Total, MapThenSumSet, MapThenFoldSet

\* A mean of integers is one.
LEMMA MeanIsInt ==
    ASSUME NEW S, IsFiniteSet(S), S # {}, NEW f \in [S -> Int]
    PROVE  /\ Sum(f) \in Int /\ Cardinality(S) \in Nat \ {0}
           /\ Mean(f) \in Int /\ Mean(f) = Sum(f) \div Cardinality(S)
<1>1. DOMAIN f = S /\ \A x \in S : f[x] \in Int
  OBVIOUS
<1>2. Sum(f) \in Int
  BY <1>1, SumIsTotal, TotalIsInt
<1>3. Cardinality(S) \in Nat \ {0}
  BY FS_CardinalityType, FS_EmptySet
<1> QED
  BY <1>1, <1>2, <1>3, Quotient DEF Mean

LEMMA MeanOfOne == ASSUME NEW x, NEW v \in Int PROVE Mean([k \in {x} |-> v]) = v
<1> DEFINE f == [k \in {x} |-> v]
<1>1. IsFiniteSet({x}) /\ Cardinality({x}) = 1
  BY FS_Singleton
<1>2. DOMAIN f = {x} /\ f[x] = v
  OBVIOUS
<1> HIDE DEF f
<1>3. Total(f, {x}) = f[x] + Total(f, {x} \ {x})
  BY <1>1, <1>2, TotalRemoves
<1>4. {x} \ {x} = {}
  OBVIOUS
<1>5. Sum(f) = v
  BY <1>2, <1>3, <1>4, TotalOfNone, SumIsTotal
<1>6. v \div 1 = v
  OBVIOUS
<1> QED
  BY <1>1, <1>2, <1>5, <1>6 DEF Mean, f

\* What every value stays under times the number of values, the sum stays under.
LEMMA SumAtMost ==
    ASSUME NEW S, IsFiniteSet(S), NEW f \in [S -> Int], NEW m \in Int, \A x \in S : f[x] <= m
    PROVE  Sum(f) <= m * Cardinality(S)
<1> DEFINE Good == {s \in SUBSET S : Total(f, s) <= m * Cardinality(s)}
<1>1. ASSUME NEW s \in SUBSET S, \A u \in SUBSET s : u # s => u \in Good
      PROVE  s \in Good
  <2>1. IsFiniteSet(s)
    BY FS_Subset
  <2>2. CASE s = {}
    BY <2>2, TotalOfNone, FS_EmptySet
  <2>3. CASE s # {}
    <3>1. PICK x \in s : TRUE
      BY <2>3
    <3> DEFINE u == s \ {x}
    <3>2. Total(f, s) = f[x] + Total(f, u)
      BY <2>1, TotalRemoves
    <3>3. IsFiniteSet(u) /\ Cardinality(u) = Cardinality(s) - 1 /\ Cardinality(s) \in Nat
      BY <2>1, FS_RemoveElement, FS_CardinalityType
    <3>4. Total(f, u) <= m * Cardinality(u) /\ Total(f, u) \in Int
      <4>1. u \in Good
        BY <1>1, <3>1
      <4>2. \A y \in u : f[y] \in Int
        OBVIOUS
      <4> QED
        BY <3>3, <4>1, <4>2, TotalIsInt
    <3>5. f[x] \in Int /\ f[x] <= m
      OBVIOUS
    <3>6. m * (Cardinality(s) - 1) = m * Cardinality(s) - m /\ m * Cardinality(s) \in Int
      BY <3>3
    <3> HIDE DEF u
    <3> QED
      BY <3>2, <3>3, <3>4, <3>5, <3>6
  <2> QED
    BY <2>2, <2>3
<1>2. Good = SUBSET S
  <2>1. Good \in SUBSET SUBSET S
    OBVIOUS
  <2> HIDE DEF Good
  <2> QED
    BY <1>1, <2>1, SubsetInduction
<1>3. S \in Good /\ DOMAIN f = S
  BY <1>2
<1> QED
  BY <1>3, SumIsTotal

\* A mean is not over what all its values stay under.
LEMMA MeanAtMost ==
    ASSUME NEW S, IsFiniteSet(S), S # {}, NEW f \in [S -> Int], NEW m \in Int,
           \A x \in S : f[x] <= m
    PROVE  Mean(f) <= m
<1>1. /\ Sum(f) \in Int /\ Cardinality(S) \in Nat \ {0}
      /\ Mean(f) \in Int /\ Mean(f) = Sum(f) \div Cardinality(S)
  BY MeanIsInt
<1>2. Sum(f) <= m * Cardinality(S)
  BY SumAtMost
<1> DEFINE n == Cardinality(S)
<1>3. ASSUME Mean(f) >= m + 1 PROVE FALSE
  <2>1. Sum(f) >= (m + 1) * n
    BY <1>1, <1>3, QuotientReaches
  <2>2. (m + 1) * n = m * n + n /\ m * n \in Int
    BY <1>1
  <2> HIDE DEF n
  <2> QED
    BY <1>1, <1>2, <2>1, <2>2 DEF n
<1> QED
  BY <1>1, <1>3

-----------------------------------------------------------------------------
(* What the judges make of an answer *)

\* The rows of a judge that did not raise are scores or evaluator errors.
RowsFit(reports_, toJudge) ==
    \A k \in DOMAIN reports_ : ~reports_[k].raised =>
        \A j \in toJudge : reports_[k].rows[j] \in Int \cup {Err}

\* The judges that scored a repeat.
Scorers(reports_, j) == {k \in DOMAIN reports_ : ~reports_[k].raised /\ reports_[k].rows[j] # Err}

VerdictOn(judged, c) == IF c \in DOMAIN judged.verdicts THEN judged.verdicts[c] ELSE NoVerdict

\* One judge's verdicts are on the cases it was shown, and score the repeats it scored.
LEMMA JudgeScores ==
    ASSUME NEW toJudge, NEW caseOf, NEW report, NEW j \in toJudge
    PROVE  LET verdicts == JudgeSuite(toJudge, caseOf, report).verdicts
           IN  /\ caseOf[j] \in DOMAIN verdicts <=> ~report.raised
               /\ ~report.raised =>
                     /\ j \in DOMAIN verdicts[caseOf[j]].scores <=> report.rows[j] # Err
                     /\ j \in DOMAIN verdicts[caseOf[j]].scores =>
                           verdicts[caseOf[j]].scores[j] = report.rows[j]
<1> DEFINE verdicts == JudgeSuite(toJudge, caseOf, report).verdicts
           c == caseOf[j]
<1>1. CASE report.raised
  BY <1>1 DEF JudgeSuite, NoJudgement
<1>2. CASE ~report.raised
  <2>1. verdicts = [d \in {caseOf[i] : i \in toJudge} |->
                     [scores |-> [i \in {x \in {y \in toJudge : caseOf[y] = d} : report.rows[x] # Err} |->
                                     report.rows[i]],
                      errors |-> {i \in {y \in toJudge : caseOf[y] = d} : report.rows[i] = Err},
                      spread |-> Nothing]]
    BY <1>2 DEF JudgeSuite
  <2>2. c \in {caseOf[i] : i \in toJudge}
    OBVIOUS
  <2>3. verdicts[c].scores =
           [i \in {x \in {y \in toJudge : caseOf[y] = c} : report.rows[x] # Err} |-> report.rows[i]]
    BY <2>1, <2>2
  <2>4. c \in DOMAIN verdicts
    BY <2>1, <2>2
  <2>5. /\ j \in DOMAIN verdicts[c].scores <=> report.rows[j] # Err
        /\ j \in DOMAIN verdicts[c].scores => verdicts[c].scores[j] = report.rows[j]
    <3> HIDE DEF verdicts
    <3> QED
      BY <2>3
  <2> QED
    BY <1>2, <2>4, <2>5
<1> QED
  BY <1>1, <1>2

LEMMA CombinedScores ==
    ASSUME NEW verdicts
    PROVE  CombineCase(verdicts).scores =
              [j \in UNION {DOMAIN verdicts[k].scores : k \in DOMAIN verdicts} |->
                  Mean([k \in {m \in DOMAIN verdicts : j \in DOMAIN verdicts[m].scores} |->
                           verdicts[k].scores[j]])]
BY DEF CombineCase

\* A panel scores a repeat when a judge does, with the mean of those that did.
LEMMA PanelScores ==
    ASSUME NEW outcomes, NEW caseOf, NEW n \in Nat \ {0}, NEW reports_, DOMAIN reports_ = 1..n,
           RowsFit(reports_, ToJudge(outcomes, caseOf)), NEW j \in ToJudge(outcomes, caseOf)
    PROVE  LET verdict == VerdictOn(JudgeOutcomes(outcomes, caseOf, reports_), caseOf[j])
               heard == Scorers(reports_, j)
           IN  /\ j \in DOMAIN verdict.scores <=> heard # {}
               /\ heard # {} =>
                     verdict.scores[j] = Mean([k \in heard |-> reports_[k].rows[j]])
<1> DEFINE toJudge == ToJudge(outcomes, caseOf)
           c == caseOf[j]
           heard == Scorers(reports_, j)
           judged == [k \in 1..n |-> JudgeSuite(toJudge, caseOf, reports_[k])]
           verdict == VerdictOn(JudgeOutcomes(outcomes, caseOf, reports_), c)
<1>1. JudgeOutcomes(outcomes, caseOf, reports_) = CombineJudgements(judged)
  BY DEF JudgeOutcomes
<1>2. \A k \in 1..n : c \in DOMAIN judged[k].verdicts <=> ~reports_[k].raised
  BY JudgeScores
<1>3. \A k \in 1..n : ~reports_[k].raised =>
         /\ j \in DOMAIN judged[k].verdicts[c].scores <=> reports_[k].rows[j] # Err
         /\ j \in DOMAIN judged[k].verdicts[c].scores =>
               judged[k].verdicts[c].scores[j] = reports_[k].rows[j]
  BY JudgeScores
<1>4. judged \in Seq({judged[k] : k \in 1..n}) /\ Len(judged) = n /\ DOMAIN judged = 1..n
  <2>1. DOMAIN judged = 1..n /\ judged = [k \in 1..n |-> judged[k]]
    OBVIOUS
  <2> HIDE DEF judged
  <2>2. judged \in [1..n -> {judged[k] : k \in 1..n}]
    BY <2>1
  <2> QED
    BY <2>1, <2>2, SeqDef, LenProperties
<1>5. \A k \in heard : k \in 1..n /\ reports_[k].rows[j] \in Int /\ ~reports_[k].raised
  BY DEF Scorers, RowsFit
<1> HIDE DEF judged, toJudge
<1>6. CASE n = 1
  <2>1. verdict = VerdictOn(judged[1], c)
    BY <1>1, <1>4, <1>6 DEF CombineJudgements
  <2>2. heard \subseteq {1} /\ (heard # {} <=> ~reports_[1].raised /\ reports_[1].rows[j] # Err)
    BY <1>6 DEF Scorers
  <2>3. CASE heard = {}
    <3>1. CASE reports_[1].raised
      BY <1>2, <1>6, <2>1, <2>3, <3>1 DEF VerdictOn, NoVerdict
    <3>2. CASE ~reports_[1].raised
      BY <1>2, <1>3, <1>6, <2>1, <2>2, <2>3, <3>2 DEF VerdictOn
    <3> QED
      BY <3>1, <3>2
  <2>4. CASE heard # {}
    <3>1. heard = {1} /\ reports_[1].rows[j] \in Int /\ ~reports_[1].raised /\ reports_[1].rows[j] # Err
      BY <1>5, <2>2, <2>4
    <3>2. j \in DOMAIN verdict.scores /\ verdict.scores[j] = reports_[1].rows[j]
      BY <1>2, <1>3, <1>6, <2>1, <3>1 DEF VerdictOn
    <3>3. [k \in heard |-> reports_[k].rows[j]] = [k \in {1} |-> reports_[1].rows[j]]
      BY <3>1
    <3>4. Mean([k \in {1} |-> reports_[1].rows[j]]) = reports_[1].rows[j]
      BY <3>1, MeanOfOne
    <3> HIDE DEF verdict, heard
    <3> QED
      BY <2>4, <3>2, <3>3, <3>4 DEF verdict, heard
  <2> QED
    BY <2>3, <2>4
<1>7. CASE n # 1
  <2> DEFINE having == {k \in 1..n : c \in DOMAIN judged[k].verdicts}
             verdicts == [k \in having |-> judged[k].verdicts[c]]
             scoredBy(i) == {k \in having : i \in DOMAIN verdicts[k].scores}
             scored == UNION {DOMAIN verdicts[k].scores : k \in having}
  <2>1. CombineJudgements(judged).verdicts =
           [d \in UNION {DOMAIN judged[k].verdicts : k \in 1..n} |->
               CombineCase([k \in {m \in 1..n : d \in DOMAIN judged[m].verdicts} |-> judged[k].verdicts[d]])]
    BY <1>4, <1>7 DEF CombineJudgements
  <2>2. c \in DOMAIN CombineJudgements(judged).verdicts <=> having # {}
    BY <2>1
  <2>3. having # {} => verdict = CombineCase(verdicts)
    BY <1>1, <2>1, <2>2 DEF VerdictOn
  <2>4. having = {k \in 1..n : ~reports_[k].raised}
    BY <1>2
  <2>5. scoredBy(j) = heard
    BY <1>3, <2>4 DEF Scorers
  <2>6. having # {} => verdict.scores = [i \in scored |-> Mean([k \in scoredBy(i) |-> verdicts[k].scores[i]])]
    <3>1. DOMAIN verdicts = having
      OBVIOUS
    <3>2. CombineCase(verdicts).scores = [i \in scored |-> Mean([k \in scoredBy(i) |-> verdicts[k].scores[i]])]
      <4> HIDE DEF verdicts, having
      <4> QED
        BY <3>1, CombinedScores
    <3> QED
      BY <2>3, <3>2
  <2>7. CASE having = {}
    BY <1>1, <2>2, <2>4, <2>7 DEF VerdictOn, NoVerdict, Scorers
  <2>8. CASE having # {}
    <3>1. j \in scored <=> heard # {}
      BY <2>5
    <3>2. [k \in scoredBy(j) |-> verdicts[k].scores[j]] = [k \in heard |-> reports_[k].rows[j]]
      BY <1>3, <2>4, <2>5 DEF Scorers
    <3> HIDE DEF verdict, heard, scoredBy, scored, verdicts, having
    <3> QED
      BY <2>6, <2>8, <3>1, <3>2 DEF verdict, heard
  <2> QED
    BY <2>7, <2>8
<1> QED
  BY <1>6, <1>7

-----------------------------------------------------------------------------
(* A graded suite *)

\* A judge that did not raise reports a score or an evaluator error for what it was shown.
ReportFits(report, toJudge) ==
    ~report.raised =>
        /\ \A j \in toJudge : report.rows[j] \in Int \cup {Err}
        /\ \A x \in DOMAIN report.probes : report.probes[x] \in Int \cup {Err}

LEMMA ReportsFit ==
    ASSUME SuiteInv, SuiteGraded
    PROVE  /\ Len(Judges) \in Nat \ {0} /\ DOMAIN reports = 1..Len(Judges) /\ Len(reports) = Len(Judges)
           /\ \A k \in DOMAIN reports : ReportFits(reports[k], ToJudge(Outcomes, CaseOfRun))
<1>1. Len(Judges) \in Nat \ {0} /\ DOMAIN Judges = 1..Len(Judges)
      /\ \A k \in DOMAIN Judges : Judges[k] \in SUBSET Int
  <2>1. Judges \in Seq(SUBSET Int) /\ Judges # <<>>
    BY PanelAssumption
  <2> QED
    BY <2>1, LenProperties, EmptySeq
<1>2. Heeded(reports)
  BY DEF SuiteInv, SuiteGraded, Graded, GradedFrom
<1>3. Panel = Judges /\ Shown = ToJudge(Outcomes, CaseOfRun)
  BY DEF Panel, Shown, SuiteGraded
<1>4. reports = [k \in 1..Len(Judges) |-> reports[k]]
  BY <1>1, <1>2, <1>3 DEF Heeded
<1>5. Len(reports) = Len(Judges)
  <2> DEFINE R == {reports[k] : k \in 1..Len(Judges)}
  <2>1. reports \in [1..Len(Judges) -> R]
    BY <1>4
  <2> HIDE DEF R
  <2> QED
    BY <1>1, <1>4, <2>1, SeqDef, LenProperties
<1>6. ASSUME NEW k \in DOMAIN reports, ~reports[k].raised
      PROVE  /\ \A j \in Shown : reports[k].rows[j] \in Int \cup {Err}
             /\ \A x \in DOMAIN reports[k].probes : reports[k].probes[x] \in Int \cup {Err}
  <2> DEFINE probes == IF kind = "suite" THEN ProbesOf({CaseOfRun[i] : i \in Shown}) ELSE {}
  <2>1. k \in DOMAIN Judges /\ reports[k] \in Reports(k) /\ reports[k] # Raised
    BY <1>1, <1>2, <1>3, <1>4, <1>6 DEF Heeded, Raised
  <2>2. reports[k] \in {[raised |-> FALSE, rows |-> own, probes |-> [x \in probes |-> p[x[2]]]] :
                          own \in [Shown -> Judges[k] \cup {Err}], p \in ProbeReports[k]}
    <3>1. Reports(k) = {Raised} \cup
             {[raised |-> FALSE, rows |-> own, probes |-> [x \in probes |-> p[x[2]]]] :
                 own \in [Shown -> Judges[k] \cup {Err}], p \in ProbeReports[k]}
      BY DEF Reports
    <3> HIDE DEF probes
    <3> QED
      BY <2>1, <3>1
  <2>3. \A x \in probes : x[2] \in Probes
    BY DEF ProbesOf
  <2> HIDE DEF probes
  <2>4. PICK own \in [Shown -> Judges[k] \cup {Err}], p \in ProbeReports[k] :
           reports[k] = [raised |-> FALSE, rows |-> own, probes |-> [x \in probes |-> p[x[2]]]]
    BY <2>2
  <2>5. p \in [Probes -> Int \cup {Err}] /\ Judges[k] \in SUBSET Int
    BY <1>1, <2>1, ProbeAssumption
  <2> QED
    BY <2>3, <2>4, <2>5
<1> QED
  BY <1>1, <1>3, <1>4, <1>5, <1>6 DEF ReportFits

LEMMA GradedSuite ==
    ASSUME SuiteInv, SuiteGraded
    PROVE  /\ DOMAIN Outcomes = DoneRuns /\ IsFiniteSet(DOMAIN Outcomes)
           /\ Len(Judges) \in Nat \ {0} /\ DOMAIN reports = 1..Len(Judges)
           /\ RowsFit(reports, ToJudge(Outcomes, CaseOfRun))
           /\ result = SuiteResult(Outcomes, CaseOfRun, JudgeOutcomes(Outcomes, CaseOfRun, reports),
                                   SpendWith(reports))
<1>1. DOMAIN Outcomes = DoneRuns /\ IsFiniteSet(DOMAIN Outcomes)
  <2>1. collected = Increasing(DoneRuns)
    BY DEF SuiteInv, SuiteGraded, Graded, CollectedInOrder
  <2>2. DOMAIN Outcomes = ToSet(collected)
    BY DEF Outcomes
  <2> QED
    BY <2>1, <2>2, DoneRunsAreSorted
<1>2. Len(Judges) \in Nat \ {0} /\ DOMAIN reports = 1..Len(Judges)
  BY ReportsFit
<1>3. Heeded(reports) /\ result = ResultOf(reports)
  BY DEF SuiteInv, SuiteGraded, Graded, GradedFrom
<1>5. RowsFit(reports, ToJudge(Outcomes, CaseOfRun))
  BY ReportsFit DEF ReportFits, RowsFit
<1>6. result = SuiteResult(Outcomes, CaseOfRun, JudgeOutcomes(Outcomes, CaseOfRun, reports),
                           SpendWith(reports))
  BY <1>3 DEF ResultOf, SuiteGraded
<1> QED
  BY <1>1, <1>2, <1>5, <1>6

\* What a repeat of a case counts for in the case's line.
Counts(c, j) ==
    IF j \notin Successes THEN 0
    ELSE IF Suite[c].judged
         THEN IF Heard(j) # {} THEN Mean([k \in Heard(j) |-> reports[k].rows[j]]) ELSE Nothing
         ELSE IF Suite[c].checks # <<>> /\ AllPassed(Evaluate(Suite[c].checks, Outcomes[j]))
              THEN Unit ELSE 0

FailsCheck(c, j) == ~AllPassed(Evaluate(Suite[c].checks, Outcomes[j]))

\* What a line says of the repeats that ran, that were answered, and of their scores.
LineSays(line, ran, answered, scores, failed, unjudged) ==
    /\ line.total = Cardinality(ran)
    /\ line.score = CaseScore(answered, scores)
    /\ line.passed <=> line.score # Nothing /\ line.score >= PassThreshold /\ ~failed
    /\ line.status = CASE answered = {} -> "error"
                       [] answered # {} /\ unjudged -> IF failed THEN "failed" ELSE "judge_error"
                       [] OTHER -> IF line.passed THEN "passed" ELSE "failed"
    /\ line.error = CASE answered = {} -> IF ran = {} THEN "not_run" ELSE "run_error"
                      [] answered # {} /\ unjudged -> "judge_error"
                      [] OTHER -> Nothing

LEMMA LineFields ==
    ASSUME NEW c, NEW runs, NEW verdict
    PROVE  LET answered == {j \in DOMAIN runs : runs[j] # Nothing}
               scores == [j \in DOMAIN runs |-> RepeatScore(c, verdict, j, runs[j],
                              IF j \in answered THEN Evaluate(Suite[c].checks, runs[j]) ELSE <<>>)]
           IN  LineSays(SuiteCaseResult(c, runs, verdict), DOMAIN runs, answered, scores,
                        \E j \in answered : ~AllPassed(Evaluate(Suite[c].checks, runs[j])),
                        \E j \in DOMAIN runs : scores[j] = Nothing)
<1> DEFINE answered == {j \in DOMAIN runs : runs[j] # Nothing}
           checked == [j \in answered |-> Evaluate(Suite[c].checks, runs[j])]
           scores == [j \in DOMAIN runs |-> RepeatScore(c, verdict, j, runs[j],
                          IF j \in answered THEN checked[j] ELSE <<>>)]
           plain == [j \in DOMAIN runs |-> RepeatScore(c, verdict, j, runs[j],
                          IF j \in answered THEN Evaluate(Suite[c].checks, runs[j]) ELSE <<>>)]
<1>1. scores = plain
  OBVIOUS
<1> QED
  BY <1>1 DEF SuiteCaseResult, Passing, LineSays

LEMMA LineIsARecord ==
    ASSUME NEW c, NEW runs, NEW verdict
    PROVE  LET line == SuiteCaseResult(c, runs, verdict)
           IN  line = [f \in DOMAIN line |-> line[f]] /\ "error" \in DOMAIN line
BY DEF SuiteCaseResult

\* A line of the result, in terms of what was reported; a case that the budget
\* kept from running says so.
LEMMA GradedLine ==
    ASSUME SuiteInv, SuiteGraded, NEW k \in DOMAIN result.cases
    PROVE  LET line == result.cases[k]
               c == line.id
               answered == RunsOf(c) \cap Successes
               skipped == ledger.exhausted /\ Cardinality(RunsOf(c)) = 0
           IN  \E plain :
                  /\ LineSays(plain, RunsOf(c), answered, [j \in RunsOf(c) |-> Counts(c, j)],
                              \E j \in answered : FailsCheck(c, j),
                              \E j \in RunsOf(c) : Counts(c, j) = Nothing)
                  /\ line.score = plain.score /\ line.passed = plain.passed /\ line.status = plain.status
                  /\ line.error = IF skipped THEN "budget_exhausted" ELSE plain.error
<1> DEFINE judged == JudgeOutcomes(Outcomes, CaseOfRun, reports)
           spend == SpendWith(reports)
           c == CaseOrder[k]
           runs == [j \in RunsOf(c) |-> Outcomes[j]]
           verdict == VerdictOn(judged, c)
           full == SuiteCaseResult(c, runs, verdict)
           answered == RunsOf(c) \cap Successes
           got == {j \in DOMAIN runs : runs[j] # Nothing}
           scores == [j \in DOMAIN runs |-> RepeatScore(c, verdict, j, runs[j],
                          IF j \in got THEN Evaluate(Suite[c].checks, runs[j]) ELSE <<>>)]
           failed == \E j \in got : ~AllPassed(Evaluate(Suite[c].checks, runs[j]))
           unjudged == \E j \in DOMAIN runs : scores[j] = Nothing
           counts == [j \in RunsOf(c) |-> Counts(c, j)]
           line == result.cases[k]
<1>1. result = SuiteResult(Outcomes, CaseOfRun, judged, spend)
  BY GradedSuite
<1>2. DocumentFits(result)
  BY DEF SuiteInv, DocumentKept, SuiteGraded, Graded
<1>3. k \in DOMAIN CaseOrder /\ line.id = c
  <2>1. DOMAIN result.cases = DOMAIN CaseOrder
    BY <1>2, OrderAssumption, LenProperties DEF DocumentFits, LinesFit
  <2> QED
    BY <1>2, <2>1 DEF DocumentFits, LinesFit, LineFits
<1>4. line = ForBudget(full, spend)
  BY <1>1, <1>3 DEF SuiteResult, SuiteDocument, RunsOf, VerdictOn
<1>5. got = answered /\ DOMAIN runs = RunsOf(c)
  BY DEF RunsOf, Successes
<1>6. scores = counts
  <2> SUFFICES ASSUME NEW j \in RunsOf(c) PROVE scores[j] = counts[j]
    OBVIOUS
  <2>1. runs[j] = Outcomes[j] /\ j \in DOMAIN Outcomes /\ CaseOfRun[j] = c
    BY DEF RunsOf
  <2>2. CASE j \notin Successes
    BY <2>1, <2>2 DEF Counts, RepeatScore, Successes
  <2>3. CASE j \in Successes /\ ~Suite[c].judged
    BY <2>1, <2>3 DEF Counts, RepeatScore, Successes
  <2>4. CASE j \in Successes /\ Suite[c].judged
    <3>1. j \in ToJudge(Outcomes, CaseOfRun)
      BY <2>1, <2>4 DEF ToJudge, Passing, Successes
    <3>2. /\ j \in DOMAIN verdict.scores <=> Scorers(reports, j) # {}
          /\ Scorers(reports, j) # {} =>
                verdict.scores[j] = Mean([m \in Scorers(reports, j) |-> reports[m].rows[j]])
      BY <2>1, <3>1, GradedSuite, PanelScores
    <3>3. Scorers(reports, j) = Heard(j)
      BY DEF Scorers, Heard
    <3>4. scores[j] = IF j \in DOMAIN verdict.scores THEN verdict.scores[j] ELSE Nothing
      BY <2>1, <2>4 DEF RepeatScore, Successes
    <3>5. counts[j] = IF Heard(j) # {} THEN Mean([m \in Heard(j) |-> reports[m].rows[j]]) ELSE Nothing
      BY <2>4 DEF Counts
    <3> HIDE DEF scores, counts, verdict
    <3> QED
      BY <3>2, <3>3, <3>4, <3>5
  <2> QED
    BY <2>2, <2>3, <2>4
<1>7. /\ failed <=> \E j \in answered : FailsCheck(c, j)
      /\ unjudged <=> \E j \in RunsOf(c) : Counts(c, j) = Nothing
  <2>1. \A j \in RunsOf(c) : runs[j] = Outcomes[j]
    OBVIOUS
  <2>2. \A j \in RunsOf(c) : counts[j] = Counts(c, j)
    OBVIOUS
  <2>3. failed <=> \E j \in answered : FailsCheck(c, j)
    <3> HIDE DEF got, runs
    <3> QED
      BY <1>5, <2>1 DEF FailsCheck
  <2>4. unjudged <=> \E j \in RunsOf(c) : Counts(c, j) = Nothing
    <3> HIDE DEF scores, counts, runs
    <3> QED
      BY <1>5, <1>6, <2>2
  <2> QED
    BY <2>3, <2>4
<1>8. LineSays(full, DOMAIN runs, got, scores, failed, unjudged)
  <2> HIDE DEF verdict, runs
  <2> QED
    BY LineFields
<1>9. /\ line.score = full.score /\ line.passed = full.passed /\ line.status = full.status
      /\ line.error = IF spend.exhausted /\ full.total = 0 THEN "budget_exhausted" ELSE full.error
  <2>1. full = [f \in DOMAIN full |-> full[f]] /\ "error" \in DOMAIN full
    BY LineIsARecord
  <2> HIDE DEF full, spend, line
  <2> QED
    BY <1>4, <2>1 DEF ForBudget
<1>10. spend.exhausted = ledger.exhausted
  BY DEF SpendWith
<1> HIDE DEF line, full, spend, got, scores, failed, unjudged, runs, answered
<1>11. LineSays(full, RunsOf(c), answered, counts, failed, unjudged)
  BY <1>5, <1>6, <1>8
<1>12. full.total = Cardinality(RunsOf(c))
  BY <1>11 DEF LineSays
<1> DEFINE failing == \E j \in answered : FailsCheck(c, j)
           unheard == \E j \in RunsOf(c) : Counts(c, j) = Nothing
<1>13. LineSays(full, RunsOf(c), answered, counts, failing, unheard)
  BY <1>7, <1>11 DEF LineSays
<1> HIDE DEF failing, unheard, counts
<1>14. \E plain :
          /\ LineSays(plain, RunsOf(c), answered, counts, failing, unheard)
          /\ line.score = plain.score /\ line.passed = plain.passed /\ line.status = plain.status
          /\ line.error = IF ledger.exhausted /\ Cardinality(RunsOf(c)) = 0
                          THEN "budget_exhausted" ELSE plain.error
  BY <1>9, <1>10, <1>12, <1>13
<1> QED
  BY <1>3, <1>14 DEF line, counts, answered, failing, unheard

\* A repeat's score is the mean of what the judges gave it, so no more than the most.
LEMMA CountsFit ==
    ASSUME SuiteInv, SuiteGraded, NEW j \in DOMAIN Outcomes
    PROVE  LET c == CaseOfRun[j]
           IN  /\ Counts(c, j) = Nothing <=> j \in Successes /\ Suite[c].judged /\ Heard(j) = {}
               /\ Counts(c, j) # Nothing =>
                     /\ Counts(c, j) \in Int
                     /\ j \notin Successes => Counts(c, j) = 0
                     /\ j \in Successes => Best(j) \in Int /\ Counts(c, j) <= Best(j)
<1> DEFINE c == CaseOfRun[j]
<1>1. 0 # Nothing /\ Unit # Nothing /\ Unit \in Int /\ Unit >= 0
  BY ScoreAssumption
<1>2. CASE j \notin Successes
  BY <1>1, <1>2 DEF Counts
<1>3. CASE j \in Successes /\ ~Suite[c].judged
  BY <1>1, <1>3 DEF Counts, Best
<1>4. CASE j \in Successes /\ Suite[c].judged /\ Heard(j) = {}
  BY <1>4 DEF Counts
<1>5. CASE j \in Successes /\ Suite[c].judged /\ Heard(j) # {}
  <2> DEFINE rows == [k \in Heard(j) |-> reports[k].rows[j]]
             given == {reports[k].rows[j] : k \in Heard(j)}
  <2>1. j \in ToJudge(Outcomes, CaseOfRun)
    BY <1>5 DEF ToJudge, Passing, Successes
  <2>2. \A k \in Heard(j) : reports[k].rows[j] \in Int
    BY <2>1, GradedSuite DEF Heard, RowsFit
  <2>3. IsFiniteSet(Heard(j))
    <3>1. IsFiniteSet(DOMAIN reports)
      BY GradedSuite, CountUpTo
    <3>2. Heard(j) \subseteq DOMAIN reports
      BY DEF Heard
    <3> QED
      BY <3>1, <3>2, FS_Subset
  <2>4. rows \in [Heard(j) -> Int]
    BY <2>2
  <2>5. given \in SUBSET Int /\ given # {} /\ IsFiniteSet(given)
    <3>1. given \in SUBSET Int /\ given # {}
      BY <1>5, <2>2
    <3>2. given = {rows[k] : k \in Heard(j)}
      OBVIOUS
    <3>3. rows \in Surjection(Heard(j), given)
      BY <2>4 DEF Surjection
    <3> HIDE DEF given, rows
    <3> QED
      BY <2>3, <3>1, <3>3, FS_Surjection
  <2>6. Max(given) \in Int /\ \A x \in given : x <= Max(given)
    <3> HIDE DEF given
    <3> QED
      BY <2>5, Extremes
  <2>7. \A k \in Heard(j) : rows[k] <= Max(given)
    BY <2>6
  <2>8. Mean(rows) \in Int /\ Mean(rows) <= Max(given)
    <3> HIDE DEF rows, given
    <3> QED
      BY <1>5, <2>3, <2>4, <2>6, <2>7, MeanIsInt, MeanAtMost
  <2>9. Best(j) = Max(given) /\ Counts(c, j) = Mean(rows)
    BY <1>5 DEF Best, Counts
  <2> HIDE DEF rows, given
  <2> QED
    BY <1>1, <1>5, <2>6, <2>8, <2>9, ScoreAssumption
<1> QED
  BY <1>2, <1>3, <1>4, <1>5

\* evals/engine.py _suite_case_result: an unjudged answer is missing evidence,
\* neither a pass nor a zero; a case that did not run at all is an error.
THEOREM MissingEvidenceAlwaysShows == Spec => []MissingEvidenceShows
<1>1. SuiteInv => MissingEvidenceShows
  <2> SUFFICES ASSUME SuiteInv, SuiteGraded, NEW k \in DOMAIN result.cases
               PROVE  LET line == result.cases[k]
                          answered == RunsOf(line.id) \cap Successes
                          unheard == {j \in answered : Suite[line.id].judged /\ Heard(j) = {}}
                      IN  /\ unheard # {} => line.score = Nothing /\ line.status \in {"failed", "judge_error"}
                          /\ line.status = "judge_error" => unheard # {}
                          /\ line.status = "error" <=> answered = {}
                          /\ line.error = "budget_exhausted" <=> RunsOf(line.id) = {} /\ ledger.exhausted
    BY DEF MissingEvidenceShows
  <2> DEFINE line == result.cases[k]
             c == line.id
             answered == RunsOf(c) \cap Successes
             counts == [j \in RunsOf(c) |-> Counts(c, j)]
             failed == \E j \in answered : FailsCheck(c, j)
             unjudged == \E j \in RunsOf(c) : Counts(c, j) = Nothing
             unheard == {j \in answered : Suite[c].judged /\ Heard(j) = {}}
  <2>1. PICK plain :
          /\ LineSays(plain, RunsOf(c), answered, counts, failed, unjudged)
          /\ line.score = plain.score /\ line.passed = plain.passed /\ line.status = plain.status
          /\ line.error = IF ledger.exhausted /\ Cardinality(RunsOf(c)) = 0
                          THEN "budget_exhausted" ELSE plain.error
    BY GradedLine
  <2>2. unjudged <=> unheard # {}
    <3>1. \A j \in RunsOf(c) : j \in DOMAIN Outcomes /\ CaseOfRun[j] = c
      BY DEF RunsOf
    <3>2. \A j \in RunsOf(c) : Counts(c, j) = Nothing <=> j \in Successes /\ Suite[c].judged /\ Heard(j) = {}
      BY <3>1, CountsFit
    <3> HIDE DEF c
    <3> QED
      BY <3>2
  <2>3. unjudged <=> \E j \in DOMAIN counts : counts[j] = Nothing
    OBVIOUS
  <2>4. Cardinality(RunsOf(c)) = 0 <=> RunsOf(c) = {}
    <3>1. IsFiniteSet(RunsOf(c))
      <4>1. RunsOf(c) \subseteq DOMAIN Outcomes
        BY DEF RunsOf
      <4> QED
        BY <4>1, GradedSuite, FS_Subset
    <3> QED
      BY <3>1, FS_EmptySet
  <2> HIDE DEF counts, unjudged, unheard, failed, line, c, answered
  <2>5. unheard # {} => answered # {}
    BY DEF unheard
  <2>6. unheard # {} => line.score = Nothing /\ line.status \in {"failed", "judge_error"}
    BY <2>1, <2>2, <2>3, <2>5 DEF LineSays, CaseScore
  <2>7. /\ line.status = "judge_error" => unheard # {}
        /\ line.status = "error" <=> answered = {}
    BY <2>1, <2>2 DEF LineSays
  <2>8. line.error = "budget_exhausted" <=> RunsOf(c) = {} /\ ledger.exhausted
    BY <2>1, <2>4, ScoreAssumption DEF LineSays
  <2> QED
    BY <2>6, <2>7, <2>8 DEF line, c, answered, unheard
<1> QED
  BY <1>1, SuiteInvariant, PTL

\* docs/suites.md "Only a fully scored case can pass" and "Every repeat counts":
\* a passed case rests on answers that were all scored and checked, and on a mean,
\* failed repeats counting 0, that no choice among the scores kept under the bar.
THEOREM PassedCaseAlwaysHasEvidence == Spec => []PassedCaseHasEvidence
<1>1. SuiteInv => PassedCaseHasEvidence
  <2> SUFFICES ASSUME SuiteInv, SuiteGraded, NEW k \in DOMAIN result.cases, result.cases[k].passed
               PROVE  LET line == result.cases[k]
                          answered == RunsOf(line.id) \cap Successes
                      IN  /\ answered # {}
                          /\ \A j \in answered :
                                /\ Suite[line.id].judged => Heard(j) # {}
                                /\ \A i \in DOMAIN Suite[line.id].checks :
                                      Evaluate(Suite[line.id].checks, Outcomes[j])[i].passed
                          /\ Sum([j \in answered |-> Best(j)])
                                >= PassThreshold * Cardinality(RunsOf(line.id))
    BY DEF PassedCaseHasEvidence
  <2> DEFINE line == result.cases[k]
             c == line.id
             ran == RunsOf(c)
             answered == ran \cap Successes
             counts == [j \in ran |-> Counts(c, j)]
             most == [j \in answered |-> Best(j)]
             failed == \E j \in answered : FailsCheck(c, j)
             unjudged == \E j \in ran : Counts(c, j) = Nothing
  <2>1. PICK plain :
          /\ LineSays(plain, ran, answered, counts, failed, unjudged)
          /\ line.passed = plain.passed
    BY GradedLine
  <2>2. \A j \in ran : j \in DOMAIN Outcomes /\ CaseOfRun[j] = c
    BY DEF RunsOf
  <2>3. IsFiniteSet(ran) /\ IsFiniteSet(answered)
    <3>1. ran \subseteq DOMAIN Outcomes
      BY <2>2
    <3> QED
      BY <3>1, GradedSuite, FS_Subset
  <2>4. \A j \in ran :
           /\ Counts(c, j) = Nothing <=> j \in Successes /\ Suite[c].judged /\ Heard(j) = {}
           /\ Counts(c, j) # Nothing =>
                 /\ Counts(c, j) \in Int
                 /\ j \notin Successes => Counts(c, j) = 0
                 /\ j \in Successes => Best(j) \in Int /\ Counts(c, j) <= Best(j)
    BY <2>2, CountsFit
  <2>5. /\ plain.score = CaseScore(answered, counts)
        /\ plain.score # Nothing /\ plain.score >= PassThreshold /\ ~failed
    BY <2>1 DEF LineSays
  <2>6. answered # {} /\ \A j \in ran : counts[j] # Nothing
    BY <2>5 DEF CaseScore
  <2>7. Mean(counts) >= PassThreshold
    BY <2>5 DEF CaseScore
  <2>8. counts \in [ran -> Int] /\ most \in [answered -> Int]
    BY <2>4, <2>6
  <2>9. Sum(counts) >= PassThreshold * Cardinality(ran)
    <3>1. ran # {}
      BY <2>6
    <3> HIDE DEF counts, ran
    <3>2. /\ Sum(counts) \in Int /\ Cardinality(ran) \in Nat \ {0}
          /\ Mean(counts) = Sum(counts) \div Cardinality(ran)
      BY <2>3, <2>8, <3>1, MeanIsInt
    <3> QED
      BY <2>7, <3>2, QuotientReaches, ScoreAssumption
  <2>10. Sum(counts) <= Sum(most)
    <3> DEFINE g == [j \in ran |-> IF j \in answered THEN counts[j] ELSE 0]
               h == [j \in ran |-> IF j \in answered THEN most[j] ELSE 0]
    <3>1. \A j \in ran : counts[j] = g[j] /\ g[j] \in Int /\ h[j] \in Int /\ g[j] <= h[j]
      BY <2>4, <2>6
    <3>2. answered \in SUBSET ran /\ \A j \in ran \ answered : h[j] = 0
      OBVIOUS
    <3>3. \A j \in answered : h[j] = most[j] /\ h[j] \in Int
      BY <2>4, <2>6
    <3>4. DOMAIN counts = ran /\ DOMAIN most = answered
      OBVIOUS
    <3> HIDE DEF g, h, counts, most, ran, answered
    <3>5. Total(counts, ran) <= Total(h, ran)
      BY <2>3, <3>1, TotalGrows
    <3>6. Total(h, ran) = Total(h, answered)
      BY <2>3, <3>1, <3>2, TotalOfSupport
    <3>7. Total(h, answered) = Total(most, answered)
      BY <2>3, <3>3, TotalOfSame
    <3> QED
      BY <3>4, <3>5, <3>6, <3>7, SumIsTotal
  <2>11. Sum(most) >= PassThreshold * Cardinality(ran)
    <3>1. PassThreshold * Cardinality(ran) \in Int /\ Sum(counts) \in Int /\ Sum(most) \in Int
      <4>1. Cardinality(ran) \in Int
        BY <2>3, FS_CardinalityType
      <4>2. PassThreshold * Cardinality(ran) \in Int
        BY <4>1, ScoreAssumption
      <4> HIDE DEF counts, most, ran, answered
      <4> QED
        BY <2>3, <2>8, <4>2, SumIsTotal, TotalIsInt
    <3> QED
      BY <2>9, <2>10, <3>1
  <2>12. ASSUME NEW j \in answered
         PROVE  /\ Suite[c].judged => Heard(j) # {}
                /\ \A i \in DOMAIN Suite[c].checks : Evaluate(Suite[c].checks, Outcomes[j])[i].passed
    <3>1. Suite[c].judged => Heard(j) # {}
      BY <2>4, <2>6
    <3>2. AllPassed(Evaluate(Suite[c].checks, Outcomes[j]))
      BY <2>5 DEF FailsCheck
    <3>3. DOMAIN Evaluate(Suite[c].checks, Outcomes[j]) = DOMAIN Suite[c].checks
      BY DEF Evaluate
    <3> QED
      BY <3>1, <3>2, <3>3 DEF AllPassed
  <2> QED
    BY <2>6, <2>11, <2>12
<1> QED
  BY <1>1, SuiteInvariant, PTL

-----------------------------------------------------------------------------
(* The order of a panel *)

\* A mean is the same under other names.
LEMMA MeanRenamed ==
    ASSUME NEW S, IsFiniteSet(S), NEW p, Renames(p, S), NEW f \in [S -> Int], NEW g,
           DOMAIN g = Named(p, S), \A x \in S : f[x] = g[p[x]]
    PROVE  Mean(f) = Mean(g)
<1>1. DOMAIN f = S /\ \A x \in S : f[x] \in Int
  OBVIOUS
<1>2. Sum(f) = Sum(g)
  BY <1>1, SumIsTotal, TotalRenamed
<1> QED
  BY <1>1, <1>2, CountRenamed DEF Mean

\* The parts of a combined verdict.
ScoredBy(verdicts, j) == {k \in DOMAIN verdicts : j \in DOMAIN verdicts[k].scores}
Scored(verdicts) == UNION {DOMAIN verdicts[k].scores : k \in DOMAIN verdicts}
Given(verdicts, j) == {verdicts[k].scores[j] : k \in ScoredBy(verdicts, j)}
Gaps(verdicts) ==
    {Max(Given(verdicts, j)) - Min(Given(verdicts, j)) :
        j \in {i \in Scored(verdicts) : Cardinality(ScoredBy(verdicts, i)) > 1}}
MeanOf(verdicts, j) == Mean([k \in ScoredBy(verdicts, j) |-> verdicts[k].scores[j]])
Erred(verdicts) == UNION {verdicts[k].errors : k \in DOMAIN verdicts}

LEMMA CombinedParts ==
    ASSUME NEW verdicts
    PROVE  CombineCase(verdicts) =
              [scores |-> [j \in Scored(verdicts) |-> MeanOf(verdicts, j)],
               errors |-> Erred(verdicts) \ Scored(verdicts),
               spread |-> IF Gaps(verdicts) = {} THEN Nothing ELSE Max(Gaps(verdicts))]
<1>1. \A j : ScoredBy(verdicts, j) = {k \in DOMAIN verdicts : j \in DOMAIN verdicts[k].scores}
  BY DEF ScoredBy
<1>2. \A j : Given(verdicts, j) = {verdicts[k].scores[j] : k \in ScoredBy(verdicts, j)}
  BY DEF Given
<1> QED
  BY DEF CombineCase, ScoredBy, Scored, Given, Gaps, MeanOf, Erred

\* The judges under other names have the same verdict.
SameVerdicts(p, some, other) ==
    /\ DOMAIN other = Named(p, DOMAIN some)
    /\ Renames(p, DOMAIN some)
    /\ \A k \in DOMAIN some : some[k] = other[p[k]]

ScoresFit(verdicts) ==
    /\ IsFiniteSet(DOMAIN verdicts)
    /\ \A k \in DOMAIN verdicts : \A j \in DOMAIN verdicts[k].scores : verdicts[k].scores[j] \in Int

LEMMA CombinedUnderOtherNames ==
    ASSUME NEW some, NEW other, NEW p, SameVerdicts(p, some, other), ScoresFit(some)
    PROVE  CombineCase(some) = CombineCase(other)
<1>1. \A j : ScoredBy(other, j) = Named(p, ScoredBy(some, j))
  BY DEF SameVerdicts, ScoredBy, Named
<1>2. Scored(some) = Scored(other) /\ Erred(some) = Erred(other)
  BY DEF SameVerdicts, Scored, Erred, Named
<1>3. \A j : Renames(p, ScoredBy(some, j)) /\ IsFiniteSet(ScoredBy(some, j))
  <2> TAKE j
  <2>1. ScoredBy(some, j) \subseteq DOMAIN some
    BY DEF ScoredBy
  <2> QED
    BY <2>1, FS_Subset DEF SameVerdicts, ScoresFit, Renames
<1>4. \A j : Cardinality(ScoredBy(some, j)) = Cardinality(ScoredBy(other, j))
  BY <1>1, <1>3, CountRenamed
<1>5. \A j : Given(some, j) = Given(other, j)
  BY <1>1 DEF Given, Named, SameVerdicts, ScoredBy
<1>6. \A j : MeanOf(some, j) = MeanOf(other, j)
  <2> TAKE j
  <2> DEFINE S == ScoredBy(some, j)
             f == [k \in S |-> some[k].scores[j]]
             g == [k \in ScoredBy(other, j) |-> other[k].scores[j]]
  <2>1. f \in [S -> Int]
    BY DEF ScoresFit, ScoredBy
  <2>2. DOMAIN g = Named(p, S)
    BY <1>1
  <2>3. \A k \in S : f[k] = g[p[k]]
    BY <1>1 DEF Named, SameVerdicts, ScoredBy
  <2> HIDE DEF f, g, S
  <2>4. Mean(f) = Mean(g)
    BY <1>3, <2>1, <2>2, <2>3, MeanRenamed DEF S
  <2> QED
    BY <2>4 DEF MeanOf, f, g, S
<1>7. Gaps(some) = Gaps(other)
  BY <1>2, <1>4, <1>5 DEF Gaps
<1> QED
  BY <1>2, <1>6, <1>7, CombinedParts

\* What the combination of judgements reads of each.
JudgementFits(judgement) ==
    /\ \A c \in DOMAIN judgement.verdicts :
          \A j \in DOMAIN judgement.verdicts[c].scores : judgement.verdicts[c].scores[j] \in Int
    /\ \A c \in DOMAIN judgement.calibration :
          /\ DOMAIN judgement.calibration[c] \subseteq Probes
          /\ \A q \in DOMAIN judgement.calibration[c] :
                judgement.calibration[c][q] \in Int \cup {Nothing}
    /\ judgement.error \in BOOLEAN

LEMMA JudgementsFit ==
    ASSUME NEW toJudge, NEW caseOf, NEW report, ReportFits(report, toJudge)
    PROVE  JudgementFits(JudgeSuite(toJudge, caseOf, report))
<1> DEFINE judgement == JudgeSuite(toJudge, caseOf, report)
           rows == report.rows
           probes == report.probes
           probed == {c \in Ids : \E q \in Probes : <<c, q>> \in ProbesOf({caseOf[j] : j \in toJudge})}
<1>1. CASE toJudge = {} \/ report.raised
  <2>1. judgement = NoJudgement(TRUE)
    BY <1>1 DEF JudgeSuite
  <2>2. DOMAIN <<>> = {}
    OBVIOUS
  <2> QED
    BY <2>1, <2>2 DEF NoJudgement, JudgementFits
<1>2. CASE toJudge # {} /\ ~report.raised
  <2>1. judgement.verdicts = [c \in {caseOf[j] : j \in toJudge} |->
            [scores |-> [j \in {i \in {x \in toJudge : caseOf[x] = c} : rows[i] # Err} |-> rows[j]],
             errors |-> {j \in {x \in toJudge : caseOf[x] = c} : rows[j] = Err},
             spread |-> Nothing]]
    BY <1>2 DEF JudgeSuite
  <2>2. judgement.error = JudgeFailure(report) /\ JudgeFailure(report) \in BOOLEAN
    BY <1>2 DEF JudgeSuite, JudgeFailure
  <2>3. judgement.calibration = [c \in probed |->
            [q \in {x \in Probes : <<c, x>> \in DOMAIN probes} |->
                IF probes[<<c, q>>] = Err THEN Nothing ELSE probes[<<c, q>>]]]
    BY <1>2 DEF JudgeSuite
  <2>4. ASSUME NEW c \in DOMAIN judgement.verdicts,
               NEW j \in DOMAIN judgement.verdicts[c].scores
        PROVE  judgement.verdicts[c].scores[j] \in Int
    <3>1. judgement.verdicts[c].scores =
             [i \in {x \in {y \in toJudge : caseOf[y] = c} : rows[x] # Err} |-> rows[i]]
      BY <2>1
    <3>2. j \in toJudge /\ rows[j] # Err /\ judgement.verdicts[c].scores[j] = rows[j]
      <4> HIDE DEF judgement, rows
      <4> QED
        BY <3>1
    <3> QED
      BY <1>2, <3>2 DEF ReportFits
  <2>5. ASSUME NEW c \in DOMAIN judgement.calibration
        PROVE  /\ DOMAIN judgement.calibration[c] \subseteq Probes
               /\ \A q \in DOMAIN judgement.calibration[c] :
                     judgement.calibration[c][q] \in Int \cup {Nothing}
    <3>1. judgement.calibration[c] =
             [q \in {x \in Probes : <<c, x>> \in DOMAIN probes} |->
                 IF probes[<<c, q>>] = Err THEN Nothing ELSE probes[<<c, q>>]]
      BY <2>3
    <3>2. \A x \in DOMAIN probes : probes[x] \in Int \cup {Err}
      BY <1>2 DEF ReportFits
    <3> HIDE DEF judgement, probes
    <3> QED
      BY <3>1, <3>2
  <2> HIDE DEF judgement, rows, probes, probed
  <2>6. JudgementFits(judgement)
    BY <2>2, <2>4, <2>5 DEF JudgementFits
  <2> QED
    BY <2>6 DEF judgement
<1> QED
  BY <1>1, <1>2

\* The parts of a combined calibration.
ShownProbe(judged, c, q) ==
    {k \in DOMAIN judged : c \in DOMAIN judged[k].calibration /\ q \in DOMAIN judged[k].calibration[c]}
GaveProbe(judged, c, q) == {k \in ShownProbe(judged, c, q) : judged[k].calibration[c][q] # Nothing}
ProbeMean(judged, c, q) == Mean([k \in GaveProbe(judged, c, q) |-> judged[k].calibration[c][q]])
Calibrated(judged) == UNION {DOMAIN judged[k].calibration : k \in DOMAIN judged}

LEMMA CalibrationParts ==
    ASSUME NEW judged
    PROVE  CombineCalibration(judged) =
              [c \in Calibrated(judged) |->
                  [q \in {x \in Probes : ShownProbe(judged, c, x) # {}} |->
                      IF GaveProbe(judged, c, q) = {} THEN Nothing ELSE ProbeMean(judged, c, q)]]
BY DEF CombineCalibration, Calibrated, ShownProbe, GaveProbe, ProbeMean

\* The parts of combined judgements.
Having(judged, c) == {k \in DOMAIN judged : c \in DOMAIN judged[k].verdicts}
VerdictsOn(judged, c) == [k \in Having(judged, c) |-> judged[k].verdicts[c]]
JudgedCases(judged) == UNION {DOMAIN judged[k].verdicts : k \in DOMAIN judged}

LEMMA CombinedJudgementParts ==
    ASSUME NEW judged, Len(judged) # 1
    PROVE  CombineJudgements(judged) =
              [verdicts |-> [c \in JudgedCases(judged) |-> CombineCase(VerdictsOn(judged, c))],
               error |-> \A k \in DOMAIN judged : judged[k].error,
               calibration |-> CombineCalibration(judged)]
BY DEF CombineJudgements, JudgedCases, VerdictsOn, Having

\* A panel, in an order.
IsPanel(judged, n) ==
    /\ judged = [k \in 1..n |-> judged[k]] /\ Len(judged) = n
    /\ \A k \in 1..n : JudgementFits(judged[k])

IsOrder(p, n) == Renames(p, 1..n) /\ Named(p, 1..n) = 1..n

\* The order of the panel changes nothing.
LEMMA PanelInAnyOrder ==
    ASSUME NEW n \in Nat \ {0}, NEW judged, NEW other, IsPanel(judged, n), IsPanel(other, n),
           NEW p, IsOrder(p, n), \A k \in 1..n : judged[k] = other[p[k]]
    PROVE  CombineJudgements(judged) = CombineJudgements(other)
<1>1. DOMAIN judged = 1..n /\ DOMAIN other = 1..n /\ Named(p, 1..n) = 1..n /\ Renames(p, 1..n)
  BY DEF IsPanel, IsOrder
<1> DEFINE N == 1..n
<1>4. /\ \A k \in N : p[k] \in N /\ judged[k] = other[p[k]]
      /\ \A m \in N : \E k \in N : p[k] = m
  BY <1>1 DEF Named
<1>2. CASE n = 1
  <2>1. p[1] = 1
    BY <1>1, <1>2 DEF Named
  <2>2. judged[1] = other[1]
    BY <1>2, <2>1
  <2> QED
    BY <1>2, <2>2 DEF IsPanel, CombineJudgements
<1>3. CASE n # 1
  <2>1. Len(judged) # 1 /\ Len(other) # 1
    BY <1>3 DEF IsPanel
  <2>2. \A c : Having(other, c) = Named(p, Having(judged, c))
    <3> HIDE DEF N
    <3> TAKE c
    <3>1. Having(judged, c) = {k \in N : c \in DOMAIN judged[k].verdicts}
      BY <1>1 DEF Having, N
    <3>2. Having(other, c) = {k \in N : c \in DOMAIN other[k].verdicts}
      BY <1>1 DEF Having, N
    <3> QED
      BY <1>4, <3>1, <3>2 DEF Named
  <2>3. JudgedCases(judged) = JudgedCases(other)
    <3> HIDE DEF N
    <3>1. \A c : (\E k \in N : c \in DOMAIN judged[k].verdicts) <=> (\E k \in N : c \in DOMAIN other[k].verdicts)
      BY <1>4
    <3> QED
      BY <1>1, <3>1 DEF JudgedCases, N
  <2>4. \A c : CombineCase(VerdictsOn(judged, c)) = CombineCase(VerdictsOn(other, c))
    <3> TAKE c
    <3>1. DOMAIN VerdictsOn(judged, c) = Having(judged, c) /\ DOMAIN VerdictsOn(other, c) = Having(other, c)
      BY DEF VerdictsOn
    <3>2. Having(judged, c) \subseteq 1..n
      BY <1>1 DEF Having
    <3>3. Renames(p, Having(judged, c)) /\ IsFiniteSet(Having(judged, c))
      BY <1>1, <3>2, CountUpTo, FS_Subset DEF Renames
    <3>4. \A k \in Having(judged, c) :
             /\ p[k] \in Having(other, c)
             /\ VerdictsOn(judged, c)[k] = VerdictsOn(other, c)[p[k]]
      BY <1>1, <3>2, <2>2 DEF VerdictsOn, Named
    <3>5. SameVerdicts(p, VerdictsOn(judged, c), VerdictsOn(other, c))
      BY <2>2, <3>1, <3>3, <3>4 DEF SameVerdicts
    <3>6. ScoresFit(VerdictsOn(judged, c))
      BY <3>1, <3>2, <3>3 DEF ScoresFit, VerdictsOn, Having, IsPanel, JudgementFits
    <3> QED
      BY <3>5, <3>6, CombinedUnderOtherNames
  <2>5. (\A k \in DOMAIN judged : judged[k].error) = (\A k \in DOMAIN other : other[k].error)
    <3> HIDE DEF N
    <3>1. (\A k \in N : judged[k].error) <=> (\A k \in N : other[k].error)
      BY <1>4
    <3> QED
      BY <1>1, <3>1 DEF N
  <2>6. \A c, q : ShownProbe(other, c, q) = Named(p, ShownProbe(judged, c, q))
    <3> HIDE DEF N
    <3> TAKE c, q
    <3>1. ShownProbe(judged, c, q) =
              {k \in N : c \in DOMAIN judged[k].calibration /\ q \in DOMAIN judged[k].calibration[c]}
      BY <1>1 DEF ShownProbe, N
    <3>2. ShownProbe(other, c, q) =
              {k \in N : c \in DOMAIN other[k].calibration /\ q \in DOMAIN other[k].calibration[c]}
      BY <1>1 DEF ShownProbe, N
    <3> QED
      BY <1>4, <3>1, <3>2 DEF Named
  <2>7. \A c, q : GaveProbe(other, c, q) = Named(p, GaveProbe(judged, c, q))
    <3> HIDE DEF N
    <3> TAKE c, q
    <3>1. ShownProbe(judged, c, q) \subseteq N
      BY <1>1 DEF ShownProbe, N
    <3> QED
      BY <1>4, <2>6, <3>1 DEF GaveProbe, Named
  <2>8. \A c, q : ProbeMean(judged, c, q) = ProbeMean(other, c, q)
    <3> TAKE c, q
    <3> DEFINE S == GaveProbe(judged, c, q)
               f == [k \in S |-> judged[k].calibration[c][q]]
               g == [k \in GaveProbe(other, c, q) |-> other[k].calibration[c][q]]
    <3>1. S \subseteq 1..n
      BY <1>1 DEF GaveProbe, ShownProbe
    <3>2. Renames(p, S) /\ IsFiniteSet(S)
      BY <1>1, <3>1, CountUpTo, FS_Subset DEF Renames
    <3>3. f \in [S -> Int]
      BY <3>1 DEF GaveProbe, ShownProbe, IsPanel, JudgementFits
    <3>4. DOMAIN g = Named(p, S)
      BY <2>7
    <3>5. \A k \in S : f[k] = g[p[k]]
      BY <1>1, <2>7, <3>1 DEF Named
    <3> HIDE DEF f, g, S
    <3>6. Mean(f) = Mean(g)
      BY <3>2, <3>3, <3>4, <3>5, MeanRenamed
    <3> QED
      BY <3>6 DEF ProbeMean, f, g, S
  <2>9. CombineCalibration(judged) = CombineCalibration(other)
    <3>1. Calibrated(judged) = Calibrated(other)
      <4> HIDE DEF N
      <4>1. \A c : (\E k \in N : c \in DOMAIN judged[k].calibration)
                      <=> (\E k \in N : c \in DOMAIN other[k].calibration)
        BY <1>4
      <4> QED
        BY <1>1, <4>1 DEF Calibrated, N
    <3>2. \A S : Named(p, S) = {} <=> S = {}
      BY DEF Named
    <3>3. \A c, q : /\ (ShownProbe(judged, c, q) = {}) <=> (ShownProbe(other, c, q) = {})
                    /\ (GaveProbe(judged, c, q) = {}) <=> (GaveProbe(other, c, q) = {})
      BY <2>6, <2>7, <3>2
    <3> DEFINE of(x, c) == [q \in {y \in Probes : ShownProbe(x, c, y) # {}} |->
                              IF GaveProbe(x, c, q) = {} THEN Nothing ELSE ProbeMean(x, c, q)]
    <3>4. \A c : of(judged, c) = of(other, c)
      BY <2>8, <3>3
    <3>5. /\ CombineCalibration(judged) = [c \in Calibrated(judged) |-> of(judged, c)]
          /\ CombineCalibration(other) = [c \in Calibrated(other) |-> of(other, c)]
      BY CalibrationParts
    <3> HIDE DEF of
    <3> QED
      BY <3>1, <3>4, <3>5
  <2> DEFINE made(x) == [c \in JudgedCases(x) |-> CombineCase(VerdictsOn(x, c))]
  <2>10. made(judged) = made(other)
    BY <2>3, <2>4
  <2>11. /\ CombineJudgements(judged) =
              [verdicts |-> made(judged), error |-> \A k \in DOMAIN judged : judged[k].error,
               calibration |-> CombineCalibration(judged)]
         /\ CombineJudgements(other) =
              [verdicts |-> made(other), error |-> \A k \in DOMAIN other : other[k].error,
               calibration |-> CombineCalibration(other)]
    BY <2>1, CombinedJudgementParts
  <2> HIDE DEF made
  <2> QED
    BY <2>5, <2>9, <2>10, <2>11
<1> QED
  BY <1>2, <1>3

\* One judge's judgement, as it comes from judge_suite.
PlainVerdict(v) ==
    /\ v = [scores |-> v.scores, errors |-> v.errors, spread |-> Nothing]
    /\ v.scores = [j \in DOMAIN v.scores |-> v.scores[j]]
    /\ DOMAIN v.scores \cap v.errors = {}

PlainJudgement(J) ==
    /\ J = [verdicts |-> J.verdicts, error |-> J.error, calibration |-> J.calibration]
    /\ J.verdicts = [c \in DOMAIN J.verdicts |-> J.verdicts[c]]
    /\ \A c \in DOMAIN J.verdicts : PlainVerdict(J.verdicts[c])
    /\ J.calibration = [c \in DOMAIN J.calibration |-> J.calibration[c]]
    /\ \A c \in DOMAIN J.calibration :
          J.calibration[c] = [q \in DOMAIN J.calibration[c] |-> J.calibration[c][q]]

LEMMA JudgementsArePlain ==
    ASSUME NEW toJudge, NEW caseOf, NEW report
    PROVE  PlainJudgement(JudgeSuite(toJudge, caseOf, report))
<1> DEFINE judgement == JudgeSuite(toJudge, caseOf, report)
           rows == report.rows
           probes == report.probes
           probed == {c \in Ids : \E q \in Probes : <<c, q>> \in ProbesOf({caseOf[j] : j \in toJudge})}
           verdictOf(c) ==
               [scores |-> [j \in {i \in {x \in toJudge : caseOf[x] = c} : rows[i] # Err} |-> rows[j]],
                errors |-> {j \in {x \in toJudge : caseOf[x] = c} : rows[j] = Err},
                spread |-> Nothing]
           calibrationOf(c) ==
               [q \in {x \in Probes : <<c, x>> \in DOMAIN probes} |->
                   IF probes[<<c, q>>] = Err THEN Nothing ELSE probes[<<c, q>>]]
<1>1. CASE toJudge = {} \/ report.raised
  <2>1. judgement = NoJudgement(TRUE)
    BY <1>1 DEF JudgeSuite
  <2>2. DOMAIN <<>> = {} /\ <<>> = [c \in {} |-> <<>>[c]]
    OBVIOUS
  <2> QED
    BY <2>1, <2>2 DEF NoJudgement, PlainJudgement
<1>2. CASE toJudge # {} /\ ~report.raised
  <2>1. judgement = [verdicts |-> [c \in {caseOf[j] : j \in toJudge} |-> verdictOf(c)],
                     error |-> JudgeFailure(report),
                     calibration |-> [c \in probed |-> calibrationOf(c)]]
    BY <1>2 DEF JudgeSuite
  <2>2. \A c : PlainVerdict(verdictOf(c))
    BY DEF PlainVerdict
  <2>3. \A c : calibrationOf(c) = [q \in DOMAIN calibrationOf(c) |-> calibrationOf(c)[q]]
    OBVIOUS
  <2> HIDE DEF judgement, verdictOf, calibrationOf, probed
  <2>4. PlainJudgement(judgement)
    BY <2>1, <2>2, <2>3 DEF PlainJudgement
  <2> QED
    BY <2>4 DEF judgement
<1> QED
  BY <1>1, <1>2

LEMMA CombinedAlone ==
    ASSUME NEW v, PlainVerdict(v), NEW verdicts, DOMAIN verdicts = {1}, verdicts[1] = v,
           \A j \in DOMAIN v.scores : v.scores[j] \in Int
    PROVE  CombineCase(verdicts) = v
<1>1. Scored(verdicts) = DOMAIN v.scores /\ Erred(verdicts) = v.errors
  BY DEF Scored, Erred
<1>2. \A j : ScoredBy(verdicts, j) \subseteq {1}
  BY DEF ScoredBy
<1>3. \A j : ~(Cardinality(ScoredBy(verdicts, j)) > 1)
  <2> TAKE j
  <2>1. IsFiniteSet({1}) /\ Cardinality({1}) = 1
    BY FS_Singleton
  <2>2. Cardinality(ScoredBy(verdicts, j)) \in Nat /\ Cardinality(ScoredBy(verdicts, j)) <= 1
    BY <1>2, <2>1, FS_Subset, FS_CardinalityType
  <2> QED
    BY <2>2
<1>4. Gaps(verdicts) = {}
  BY <1>3 DEF Gaps
<1>5. \A j \in DOMAIN v.scores : MeanOf(verdicts, j) = v.scores[j]
  <2> TAKE j \in DOMAIN v.scores
  <2>1. ScoredBy(verdicts, j) = {1}
    BY DEF ScoredBy
  <2>2. [k \in ScoredBy(verdicts, j) |-> verdicts[k].scores[j]] = [k \in {1} |-> v.scores[j]]
    BY <2>1
  <2> QED
    BY <2>2, MeanOfOne DEF MeanOf
<1>6. [j \in Scored(verdicts) |-> MeanOf(verdicts, j)] = v.scores
  BY <1>1, <1>5 DEF PlainVerdict
<1>7. Erred(verdicts) \ Scored(verdicts) = v.errors
  BY <1>1 DEF PlainVerdict
<1> QED
  BY <1>4, <1>6, <1>7, CombinedParts DEF PlainVerdict

\* A judge that raised leaves no trace beside another one.
LEMMA RaisedLeavesNoTrace ==
    ASSUME NEW J, PlainJudgement(J), JudgementFits(J)
    PROVE  CombineJudgements(<<J, NoJudgement(TRUE)>>) = J
<1> DEFINE judged == <<J, NoJudgement(TRUE)>>
<1>1. /\ DOMAIN judged = {1, 2} /\ Len(judged) = 2 /\ judged[1] = J /\ judged[2] = NoJudgement(TRUE)
  OBVIOUS
<1>2. judged[2].verdicts = <<>> /\ judged[2].calibration = <<>> /\ judged[2].error = TRUE /\ DOMAIN <<>> = {}
  BY <1>1 DEF NoJudgement
<1> HIDE DEF judged
<1>3. JudgedCases(judged) = DOMAIN J.verdicts
  BY <1>1, <1>2 DEF JudgedCases
<1>4. \A c \in DOMAIN J.verdicts : CombineCase(VerdictsOn(judged, c)) = J.verdicts[c]
  <2> TAKE c \in DOMAIN J.verdicts
  <2>1. Having(judged, c) = {1}
    BY <1>1, <1>2 DEF Having
  <2>2. DOMAIN VerdictsOn(judged, c) = {1} /\ VerdictsOn(judged, c)[1] = J.verdicts[c]
    BY <1>1, <2>1 DEF VerdictsOn
  <2> QED
    BY <2>2, CombinedAlone DEF PlainJudgement, JudgementFits
<1>5. (\A k \in DOMAIN judged : judged[k].error) = J.error
  BY <1>1, <1>2 DEF JudgementFits
<1>6. Calibrated(judged) = DOMAIN J.calibration
  BY <1>1, <1>2 DEF Calibrated
<1>7. \A c \in DOMAIN J.calibration : \A q : ShownProbe(judged, c, q) = IF q \in DOMAIN J.calibration[c] THEN {1} ELSE {}
  BY <1>1, <1>2 DEF ShownProbe
<1>8. \A c \in DOMAIN J.calibration : \A q \in DOMAIN J.calibration[c] :
         J.calibration[c][q] = IF GaveProbe(judged, c, q) = {} THEN Nothing ELSE ProbeMean(judged, c, q)
  <2> TAKE c \in DOMAIN J.calibration
  <2> TAKE q \in DOMAIN J.calibration[c]
  <2> DEFINE v == J.calibration[c][q]
  <2>1. ShownProbe(judged, c, q) = {1}
    BY <1>7
  <2>2. CASE v = Nothing
    BY <1>1, <2>1, <2>2 DEF GaveProbe
  <2>3. CASE v # Nothing
    <3>1. GaveProbe(judged, c, q) = {1}
      BY <1>1, <2>1, <2>3 DEF GaveProbe
    <3>2. [k \in GaveProbe(judged, c, q) |-> judged[k].calibration[c][q]] = [k \in {1} |-> v]
      BY <1>1, <3>1
    <3>3. v \in Int
      BY <2>3 DEF JudgementFits
    <3>4. Mean([k \in {1} |-> v]) = v
      BY <3>3, MeanOfOne
    <3> HIDE DEF v
    <3> QED
      BY <3>1, <3>2, <3>4 DEF ProbeMean, v
  <2> QED
    BY <2>2, <2>3
<1>9. CombineCalibration(judged) = J.calibration
  <2> DEFINE of(c) == [q \in {x \in Probes : ShownProbe(judged, c, x) # {}} |->
                          IF GaveProbe(judged, c, q) = {} THEN Nothing ELSE ProbeMean(judged, c, q)]
  <2>1. \A c \in DOMAIN J.calibration : of(c) = J.calibration[c]
    <3> TAKE c \in DOMAIN J.calibration
    <3>1. {x \in Probes : ShownProbe(judged, c, x) # {}} = DOMAIN J.calibration[c]
      BY <1>7 DEF JudgementFits
    <3>2. J.calibration[c] = [q \in DOMAIN J.calibration[c] |-> J.calibration[c][q]]
      BY DEF PlainJudgement
    <3> QED
      BY <1>8, <3>1, <3>2
  <2>2. CombineCalibration(judged) = [c \in DOMAIN J.calibration |-> of(c)]
    BY <1>6, CalibrationParts
  <2>3. J.calibration = [c \in DOMAIN J.calibration |-> J.calibration[c]]
    BY DEF PlainJudgement
  <2> HIDE DEF of
  <2> QED
    BY <2>1, <2>2, <2>3
<1>10. [c \in JudgedCases(judged) |-> CombineCase(VerdictsOn(judged, c))] = J.verdicts
  BY <1>3, <1>4 DEF PlainJudgement
<1>11. CombineJudgements(judged) =
          [verdicts |-> [c \in JudgedCases(judged) |-> CombineCase(VerdictsOn(judged, c))],
           error |-> \A k \in DOMAIN judged : judged[k].error,
           calibration |-> CombineCalibration(judged)]
  BY <1>1, CombinedJudgementParts
<1>12. CombineJudgements(judged) = [verdicts |-> J.verdicts, error |-> J.error, calibration |-> J.calibration]
  BY <1>5, <1>9, <1>10, <1>11
<1> QED
  BY <1>12 DEF PlainJudgement, judged

\* grader.combine_judgements: the order of the panel does not matter, and a judge
\* that raised leaves no trace as long as another one answered.
LEMMA PanelStaysFair == SuiteInv => PanelIsFair
<1> SUFFICES ASSUME SuiteInv, SuiteGraded, Len(reports) = 2
             PROVE  LET judged(given) == JudgeOutcomes(Outcomes, CaseOfRun, given)
                    IN  /\ judged(<<reports[2], reports[1]>>) = judged(reports)
                        /\ reports[2].raised => judged(<<reports[1]>>) = judged(reports)
                        /\ reports[1].raised => judged(<<reports[2]>>) = judged(reports)
  BY DEF PanelIsFair
<1> DEFINE toJudge == ToJudge(Outcomes, CaseOfRun)
           first == JudgeSuite(toJudge, CaseOfRun, reports[1])
           second == JudgeSuite(toJudge, CaseOfRun, reports[2])
           outcome(given) == JudgeOutcomes(Outcomes, CaseOfRun, given)
           silent == Passing(Outcomes, LAMBDA a : a # Nothing) # {} /\ toJudge = {}
<1>1. DOMAIN reports = 1..2 /\ \A k \in 1..2 : ReportFits(reports[k], toJudge)
  BY ReportsFit
<1>2. ASSUME silent
      PROVE  \A given : outcome(given) = NoJudgement(FALSE)
  BY <1>2 DEF JudgeOutcomes
<1>3. ASSUME ~silent
      PROVE  /\ outcome(reports) = CombineJudgements(<<first, second>>)
             /\ outcome(<<reports[2], reports[1]>>) = CombineJudgements(<<second, first>>)
             /\ outcome(<<reports[1]>>) = CombineJudgements(<<first>>)
             /\ outcome(<<reports[2]>>) = CombineJudgements(<<second>>)
  <2>1. \A given : outcome(given) =
           CombineJudgements([k \in DOMAIN given |-> JudgeSuite(toJudge, CaseOfRun, given[k])])
    BY <1>3 DEF JudgeOutcomes
  <2>2. [k \in DOMAIN reports |-> JudgeSuite(toJudge, CaseOfRun, reports[k])] = <<first, second>>
    BY <1>1
  <2>3. [k \in DOMAIN <<reports[2], reports[1]>> |->
            JudgeSuite(toJudge, CaseOfRun, <<reports[2], reports[1]>>[k])] = <<second, first>>
    OBVIOUS
  <2>4. [k \in DOMAIN <<reports[1]>> |-> JudgeSuite(toJudge, CaseOfRun, <<reports[1]>>[k])] = <<first>>
    OBVIOUS
  <2>5. [k \in DOMAIN <<reports[2]>> |-> JudgeSuite(toJudge, CaseOfRun, <<reports[2]>>[k])] = <<second>>
    OBVIOUS
  <2> HIDE DEF first, second, outcome, toJudge, silent
  <2> QED
    BY <2>1, <2>2, <2>3, <2>4, <2>5
<1>4. /\ PlainJudgement(first) /\ JudgementFits(first)
      /\ PlainJudgement(second) /\ JudgementFits(second)
  BY <1>1, JudgementsArePlain, JudgementsFit
<1>5. /\ reports[1].raised => first = NoJudgement(TRUE)
      /\ reports[2].raised => second = NoJudgement(TRUE)
  BY DEF JudgeSuite
<1> HIDE DEF first, second, outcome, silent, toJudge
<1>6. CombineJudgements(<<second, first>>) = CombineJudgements(<<first, second>>)
  <2> DEFINE p == [k \in 1..2 |-> 3 - k]
  <2>1. IsPanel(<<first, second>>, 2) /\ IsPanel(<<second, first>>, 2)
    BY <1>4 DEF IsPanel
  <2>2. IsOrder(p, 2)
    <3>1. 1..2 = {1, 2} /\ p[1] = 2 /\ p[2] = 1
      OBVIOUS
    <3> QED
      BY <3>1 DEF IsOrder, Renames, Named
  <2>3. \A k \in 1..2 : <<second, first>>[k] = <<first, second>>[p[k]]
    OBVIOUS
  <2> HIDE DEF p
  <2> QED
    BY <2>1, <2>2, <2>3, PanelInAnyOrder
<1>7. CombineJudgements(<<first>>) = first /\ CombineJudgements(<<second>>) = second
  BY DEF CombineJudgements
<1>8. ASSUME reports[2].raised PROVE CombineJudgements(<<first, second>>) = first
  <2>1. second = NoJudgement(TRUE)
    BY <1>5, <1>8
  <2>2. CombineJudgements(<<first, NoJudgement(TRUE)>>) = first
    BY <1>4, RaisedLeavesNoTrace
  <2> QED
    BY <2>1, <2>2
<1>9. ASSUME reports[1].raised PROVE CombineJudgements(<<second, first>>) = second
  <2>1. first = NoJudgement(TRUE)
    BY <1>5, <1>9
  <2>2. CombineJudgements(<<second, NoJudgement(TRUE)>>) = second
    BY <1>4, RaisedLeavesNoTrace
  <2> QED
    BY <2>1, <2>2
<1>10. /\ outcome(<<reports[2], reports[1]>>) = outcome(reports)
       /\ reports[2].raised => outcome(<<reports[1]>>) = outcome(reports)
       /\ reports[1].raised => outcome(<<reports[2]>>) = outcome(reports)
  <2>1. CASE silent
    BY <1>2, <2>1
  <2>2. CASE ~silent
    <3>1. outcome(<<reports[2], reports[1]>>) = outcome(reports)
      BY <1>3, <1>6, <2>2
    <3>2. outcome(<<reports[1]>>) = first /\ outcome(<<reports[2]>>) = second
      BY <1>3, <1>7, <2>2
    <3>3. reports[2].raised => outcome(<<reports[1]>>) = outcome(reports)
      BY <1>3, <1>8, <2>2, <3>2
    <3>4. reports[1].raised => outcome(<<reports[2]>>) = outcome(reports)
      BY <1>3, <1>9, <2>2, <3>1, <3>2
    <3> QED
      BY <3>1, <3>3, <3>4
  <2> QED
    BY <2>1, <2>2
<1> QED
  BY <1>10 DEF outcome

-----------------------------------------------------------------------------
(* The reference of a determinism batch *)

\* engine._execute_batch sorts what landed: the reference is the answer that a
\* sequential batch would pick.
LEMMA ReferenceStays == SuiteInv => ReferenceIgnoresLandingOrder
<1> SUFFICES ASSUME SuiteInv, Graded, kind = "determinism"
             PROVE  result.reference = Reference(Increasing(Successes), Outcomes)
  BY DEF ReferenceIgnoresLandingOrder
<1>1. collected = Increasing(DoneRuns) /\ result = ResultOf(reports)
  BY DEF SuiteInv, Graded, CollectedInOrder, GradedFrom
<1>2. DOMAIN Outcomes = DoneRuns
  BY <1>1, DoneRunsAreSorted DEF Outcomes
<1>3. Passing(Outcomes, LAMBDA a : a # Nothing) = Successes
  BY DEF Passing, Successes
<1>4. result.reference = Reference(Keep(collected, Successes), Outcomes)
  BY <1>1, <1>3 DEF ResultOf, RunsResult, Passing, Successes
<1>5. Keep(collected, Successes) = Increasing(DoneRuns \cap Successes)
  BY <1>1, DoneRunsAreSorted, KeepOfIncreasing
<1>6. DoneRuns \cap Successes = Successes
  BY <1>2 DEF Successes
<1> QED
  BY <1>4, <1>5, <1>6

-----------------------------------------------------------------------------
(* Arms in an order *)

\* Products of integers compare as their factors do.
LEMMA TimesCompares ==
    ASSUME NEW a \in Int, NEW b \in Int, NEW c \in Nat \ {0}
    PROVE  a * c \in Int /\ b * c \in Int /\ (a * c <= b * c <=> a <= b)
<1>1. a * c \in Int /\ b * c \in Int /\ (b - a) * c = b * c - a * c
  OBVIOUS
<1>2. a <= b => (b - a) * c >= 0
  OBVIOUS
<1>3. (a - b) * c = a * c - b * c
  OBVIOUS
<1>4. a > b => (a - b) * c >= c
  <2> SUFFICES ASSUME a > b PROVE (a - b) * c >= c
    OBVIOUS
  <2>1. (a - b - 1) * c >= 0
    OBVIOUS
  <2>2. (a - b - 1) * c = (a - b) * c - c
    OBVIOUS
  <2>3. (a - b) * c \in Int
    OBVIOUS
  <2> QED
    BY <2>1, <2>2, <2>3
<1> QED
  BY <1>1, <1>2, <1>3, <1>4

\* Fractions compare as the rates they stand for.
LEMMA RatesChain ==
    ASSUME NEW a \in Int, NEW b \in Int, NEW c \in Int,
           NEW x \in Nat \ {0}, NEW y \in Nat \ {0}, NEW z \in Nat \ {0},
           a * y <= b * x, b * z <= c * y
    PROVE  a * z <= c * x
<1>1. /\ a * y \in Int /\ b * x \in Int /\ b * z \in Int /\ c * y \in Int
      /\ a * z \in Int /\ c * x \in Int
  OBVIOUS
<1>2. (a * y) * z <= (b * x) * z
  BY <1>1, TimesCompares
<1>3. (b * z) * x <= (c * y) * x
  BY <1>1, TimesCompares
<1>4. (a * y) * z = (a * z) * y /\ (b * x) * z = (b * z) * x /\ (c * y) * x = (c * x) * y
  OBVIOUS
<1>5. /\ (a * y) * z \in Int /\ (b * x) * z \in Int /\ (c * y) * x \in Int
  BY <1>1
<1>6. (a * z) * y <= (c * x) * y
  <2> DEFINE A == (a * y) * z
             B == (b * x) * z
             C == (c * y) * x
  <2>1. A \in Int /\ B \in Int /\ C \in Int /\ A <= B /\ B <= C
    BY <1>2, <1>3, <1>4, <1>5
  <2>2. A = (a * z) * y /\ C = (c * x) * y
    BY <1>4
  <2> HIDE DEF A, B, C
  <2> QED
    BY <2>1, <2>2
<1> QED
  BY <1>1, <1>6, TimesCompares

\* What the ranking reads of an arm.
Measured(arm) ==
    /\ arm.result.casesPassed \in Int /\ Len(arm.result.cases) \in Nat \ {0}
    /\ arm.result.score \in Int \cup {Nothing} /\ arm.result.cost \in Int \cup {Nothing}

LEMMA RatesOrder ==
    ASSUME NEW a, NEW b, NEW c, Measured(a), Measured(b), Measured(c)
    PROVE  LET below(x, y) == Below(PassRate(x.result), PassRate(y.result))
           IN  /\ ~(below(a, b) /\ below(b, a))
               /\ below(a, c) => below(a, b) \/ below(b, c)
<1> DEFINE p(x) == x.result.casesPassed
           n(x) == Len(x.result.cases)
           below(x, y) == Below(PassRate(x.result), PassRate(y.result))
<1>1. \A x, y : below(x, y) <=> p(x) * n(y) < p(y) * n(x)
  BY DEF Below, PassRate
<1>2. p(a) \in Int /\ p(b) \in Int /\ p(c) \in Int
      /\ n(a) \in Nat \ {0} /\ n(b) \in Nat \ {0} /\ n(c) \in Nat \ {0}
  BY DEF Measured
<1> DEFINE pa == p(a)
           pb == p(b)
           pc == p(c)
           na == n(a)
           nb == n(b)
           nc == n(c)
<1>3. /\ below(a, b) <=> pa * nb < pb * na
      /\ below(b, a) <=> pb * na < pa * nb
      /\ below(a, c) <=> pa * nc < pc * na
      /\ below(b, c) <=> pb * nc < pc * nb
  BY <1>1
<1>4. pa \in Int /\ pb \in Int /\ pc \in Int /\ na \in Nat \ {0} /\ nb \in Nat \ {0} /\ nc \in Nat \ {0}
  BY <1>2
<1> HIDE DEF pa, pb, pc, na, nb, nc
<1>5. /\ pa * nb \in Int /\ pb * na \in Int /\ pa * nc \in Int /\ pc * na \in Int
      /\ pb * nc \in Int /\ pc * nb \in Int
  BY <1>4
<1>6. pc * nb <= pb * nc /\ pb * na <= pa * nb => pc * na <= pa * nc
  BY <1>4, RatesChain
<1> HIDE DEF below
<1>7. ~(below(a, b) /\ below(b, a))
  BY <1>3, <1>5
<1>8. below(a, c) => below(a, b) \/ below(b, c)
  BY <1>3, <1>5, <1>6
<1> QED
  BY <1>7, <1>8 DEF below

\* Pass rate and then score put arms in an order, level ones aside.
LEMMA BetterOrders ==
    ASSUME NEW a, NEW b, NEW c, Measured(a), Measured(b), Measured(c)
    PROVE  /\ ~(Better(a, b) /\ Better(b, a))
           /\ Better(a, c) => Better(a, b) \/ Better(b, c)
           /\ SameQuality(a, b) <=> ~Better(a, b) /\ ~Better(b, a)
<1> DEFINE below(x, y) == Below(PassRate(x.result), PassRate(y.result))
           lower(x, y) == y.result.score # Nothing /\ (x.result.score = Nothing \/ y.result.score > x.result.score)
<1>1. Nothing \notin Int
  BY ScoreAssumption
<1>2. \A x, y : Better(x, y) <=> below(y, x) \/ (~below(x, y) /\ lower(y, x))
  BY DEF Better
<1>3. \A x, y : SameQuality(x, y) <=> ~below(x, y) /\ ~below(y, x) /\ x.result.score = y.result.score
  BY DEF SameQuality
<1>4. /\ ~(below(a, b) /\ below(b, a)) /\ ~(below(b, c) /\ below(c, b)) /\ ~(below(a, c) /\ below(c, a))
      /\ below(c, a) => below(c, b) \/ below(b, a)
      /\ below(a, c) => below(a, b) \/ below(b, c)
      /\ below(b, a) => below(b, c) \/ below(c, a)
      /\ below(c, b) => below(c, a) \/ below(a, b)
      /\ below(a, b) => below(a, c) \/ below(c, b)
      /\ below(b, c) => below(b, a) \/ below(a, c)
  BY RatesOrder
<1>5. /\ ~(lower(a, b) /\ lower(b, a))
      /\ lower(c, a) => lower(c, b) \/ lower(b, a)
      /\ a.result.score = b.result.score <=> ~lower(a, b) /\ ~lower(b, a)
  BY <1>1 DEF Measured
<1> HIDE DEF below, lower
<1> QED
  BY <1>2, <1>3, <1>4, <1>5

LEMMA CheaperOrders ==
    ASSUME NEW a, NEW b, NEW c, Measured(a), Measured(b), Measured(c)
    PROVE  /\ ~(Cheaper(a, b) /\ Cheaper(b, a))
           /\ Cheaper(a, c) => Cheaper(a, b) \/ Cheaper(b, c)
  BY ScoreAssumption DEF Measured, Cheaper

\* Arms that can be ranked.
Field(arms) ==
    /\ IsFiniteSet(Ranked(arms)) /\ Ranked(arms) \in SUBSET Int
    /\ \A k \in Ranked(arms) : Measured(arms[k])

\* One arm is ahead of another for its quality, its cost or its place.
LEMMA AheadOrders ==
    ASSUME NEW arms, Field(arms)
    PROVE  Orders(Ahead(arms), Ranked(arms))
<1> DEFINE R == Ranked(arms)
           better(x, y) == Better(arms[x], arms[y])
           level(x, y) == SameQuality(arms[x], arms[y])
           cheaper(x, y) == Cheaper(arms[x], arms[y])
<1>1. \A x, y \in R : <<x, y>> \in Ahead(arms) <=>
          \/ better(x, y)
          \/ level(x, y) /\ cheaper(x, y)
          \/ level(x, y) /\ ~cheaper(y, x) /\ x < y
  BY DEF Ahead
<1>2. \A x \in R : x \in Int /\ Measured(arms[x])
  BY DEF Field
<1>3. \A x, y, z \in R :
          /\ ~(better(x, y) /\ better(y, x))
          /\ better(x, z) => better(x, y) \/ better(y, z)
          /\ level(x, y) <=> ~better(x, y) /\ ~better(y, x)
          /\ ~(cheaper(x, y) /\ cheaper(y, x))
          /\ cheaper(x, z) => cheaper(x, y) \/ cheaper(y, z)
  BY <1>2, BetterOrders, CheaperOrders
<1> HIDE DEF R, better, level, cheaper
<1>4. \A x \in R : <<x, x>> \notin Ahead(arms)
  BY <1>1, <1>2, <1>3
<1>5. \A x, y \in R : x # y => <<x, y>> \in Ahead(arms) \/ <<y, x>> \in Ahead(arms)
  BY <1>1, <1>2, <1>3
<1>6. \A x, y, z \in R : <<x, y>> \in Ahead(arms) /\ <<y, z>> \in Ahead(arms) => <<x, z>> \in Ahead(arms)
  <2> SUFFICES ASSUME NEW x \in R, NEW y \in R, NEW z \in R,
                      <<x, y>> \in Ahead(arms), <<y, z>> \in Ahead(arms)
               PROVE  <<x, z>> \in Ahead(arms)
    OBVIOUS
  <2>1. /\ better(x, z) \/ level(x, z)
        /\ ~better(x, z) => level(x, y) /\ level(y, z)
    BY <1>1, <1>3
  <2>2. CASE better(x, z)
    BY <1>1, <2>2
  <2>3. CASE ~better(x, z)
    <3>1. level(x, z) /\ level(x, y) /\ level(y, z) /\ ~better(x, y) /\ ~better(y, z)
      BY <1>3, <2>1, <2>3
    <3>2. /\ cheaper(x, y) \/ (~cheaper(y, x) /\ x < y)
          /\ cheaper(y, z) \/ (~cheaper(z, y) /\ y < z)
      BY <1>1, <3>1
    <3>3. cheaper(x, z) \/ (~cheaper(z, x) /\ x < z)
      BY <1>2, <1>3, <3>2
    <3> QED
      BY <1>1, <3>1, <3>3
  <2> QED
    BY <2>2, <2>3
<1> QED
  BY <1>4, <1>5, <1>6 DEF Orders, R

\* The arms that no other beats.
Unbeaten(arms) == {k \in Ranked(arms) : \A m \in Ranked(arms) : ~Better(arms[m], arms[k])}

\* What the ranking leads with is unbeaten, and everything as good is.
LEMMA TopIsUnbeaten ==
    ASSUME NEW arms, Field(arms)
    PROVE  Top(arms) = Unbeaten(arms) /\ ToSet(Ranking(arms)) = Ranked(arms)
<1> DEFINE R == Ranked(arms)
           n == Cardinality(R)
           s == Ranking(arms)
           first == arms[s[1]]
<1>1. /\ n \in Nat /\ s \in [1..n -> R]
      /\ \A i, j \in 1..n : i < j => <<s[i], s[j]>> \in Ahead(arms)
      /\ \A x \in R : \E i \in 1..n : s[i] = x
  BY AheadOrders, SortedOrders DEF Field, Ranking
<1> HIDE DEF s, n
<1>2. ToSet(s) = R
  BY <1>1 DEF ToSet
<1>3. \A x \in R : Measured(arms[x])
  BY DEF Field
<1>4. CASE R = {}
  BY <1>2, <1>4 DEF Top, Unbeaten, s
<1>5. CASE R # {}
  <2>1. 1 \in 1..n /\ s[1] \in R
    BY <1>1, <1>5
  <2>2. \A x \in R : x = s[1] \/ <<s[1], x>> \in Ahead(arms)
    <3> SUFFICES ASSUME NEW x \in R PROVE x = s[1] \/ <<s[1], x>> \in Ahead(arms)
      OBVIOUS
    <3>1. PICK i \in 1..n : s[i] = x
      BY <1>1
    <3> QED
      BY <1>1, <2>1, <3>1
  <2>3. \A x \in R : ~Better(arms[x], first)
    <3> SUFFICES ASSUME NEW x \in R, Better(arms[x], first) PROVE FALSE
      OBVIOUS
    <3>1. Measured(arms[x]) /\ Measured(first)
      BY <1>3, <2>1
    <3>2. x # s[1]
      BY <3>1, BetterOrders
    <3>3. Better(first, arms[x]) \/ SameQuality(first, arms[x])
      BY <2>2, <3>2 DEF Ahead
    <3> QED
      BY <3>1, <3>3, BetterOrders
  <2>4. \A x \in R : SameQuality(arms[x], first) <=> \A m \in R : ~Better(arms[m], arms[x])
    <3> SUFFICES ASSUME NEW x \in R
                 PROVE  SameQuality(arms[x], first) <=> \A m \in R : ~Better(arms[m], arms[x])
      OBVIOUS
    <3>1. Measured(arms[x]) /\ Measured(first)
      BY <1>3, <2>1
    <3>2. ASSUME SameQuality(arms[x], first), NEW m \in R, Better(arms[m], arms[x]) PROVE FALSE
      BY <1>3, <2>3, <3>1, <3>2, BetterOrders
    <3>3. ASSUME \A m \in R : ~Better(arms[m], arms[x]) PROVE SameQuality(arms[x], first)
      <4>1. ~Better(first, arms[x]) /\ ~Better(arms[x], first)
        BY <2>1, <2>3, <3>3
      <4> QED
        BY <3>1, <4>1, BetterOrders
    <3> QED
      BY <3>2, <3>3
  <2> HIDE DEF R, first
  <2>5. {k \in R : SameQuality(arms[k], first)} = {k \in R : \A m \in R : ~Better(arms[m], arms[k])}
    BY <2>4
  <2> QED
    BY <1>2, <2>5 DEF Top, Unbeaten, R, first, s
<1> QED
  BY <1>4, <1>5

\* Arms in the order they were named.
Numbered(arms, n) == n \in Nat \ {0} /\ DOMAIN arms = 1..n /\ Len(arms) = n

\* The other way round each arm is named once, too.
LEMMA Reversed ==
    ASSUME NEW arms, NEW n, Numbered(arms, n)
    PROVE  LET back == Reverse(arms)
           IN  /\ DOMAIN back = 1..n /\ Len(back) = n
               /\ \A k \in 1..n : n + 1 - k \in 1..n /\ back[k] = arms[n + 1 - k] /\ back[n + 1 - k] = arms[k]
<1> DEFINE back == Reverse(arms)
<1>1. Len(arms) = n /\ n \in Nat
  BY DEF Numbered
<1>2. back = [k \in 1..n |-> arms[(n - k) + 1]]
  BY <1>1 DEF Reverse
<1>3. DOMAIN back = 1..n
  BY <1>2
<1>4. \A k \in 1..n : n + 1 - k \in 1..n /\ (n - k) + 1 = n + 1 - k /\ n + 1 - (n + 1 - k) = k
  BY <1>1
<1>5. Len(back) = n
  <2>1. back \in [1..n -> {back[k] : k \in 1..n}]
    BY <1>2
  <2>2. back \in Seq({back[k] : k \in 1..n})
    BY <1>1, <2>1, SeqDef
  <2> HIDE DEF back
  <2> QED
    BY <1>1, <1>3, <2>2, LenProperties
<1>6. \A k \in 1..n : back[k] = arms[n + 1 - k]
  BY <1>2, <1>4
<1>7. \A k \in 1..n : back[n + 1 - k] = arms[k]
  <2> HIDE DEF back
  <2> QED
    BY <1>4, <1>6
<1> QED
  BY <1>3, <1>4, <1>5, <1>6, <1>7

\* Who is ranked and who is unbeaten does not depend on the order.
LEMMA UnbeatenReversed ==
    ASSUME NEW arms, NEW n, Numbered(arms, n), Field(arms)
    PROVE  LET back == Reverse(arms)
           IN  /\ Field(back)
               /\ \A k \in 1..n : /\ n + 1 - k \in Ranked(back) <=> k \in Ranked(arms)
                                  /\ n + 1 - k \in Unbeaten(back) <=> k \in Unbeaten(arms)
               /\ {Label(back[k]) : k \in Unbeaten(back)} = {Label(arms[k]) : k \in Unbeaten(arms)}
<1> DEFINE back == Reverse(arms)
           at(k) == n + 1 - k
<1>1. n \in Nat /\ DOMAIN arms = 1..n /\ DOMAIN back = 1..n
  BY Reversed DEF Numbered
<1>2. \A k \in 1..n : at(k) \in 1..n /\ back[k] = arms[at(k)] /\ back[at(k)] = arms[k] /\ at(at(k)) = k
  <2>1. \A k \in 1..n : at(k) \in 1..n /\ back[k] = arms[at(k)] /\ back[at(k)] = arms[k]
    BY Reversed
  <2>2. \A k \in 1..n : at(at(k)) = k
    BY <1>1
  <2> QED
    BY <2>1, <2>2
<1> HIDE DEF back, at
<1>3. Ranked(arms) \subseteq 1..n /\ Ranked(back) \subseteq 1..n
  BY <1>1 DEF Ranked
<1>4. \A k \in 1..n : at(k) \in Ranked(back) <=> k \in Ranked(arms)
  BY <1>1, <1>2 DEF Ranked
<1>5. \A k \in Ranked(back) : at(k) \in Ranked(arms) /\ back[k] = arms[at(k)]
  BY <1>2, <1>3, <1>4
<1>6. \A k \in Ranked(arms) : at(k) \in Ranked(back) /\ back[at(k)] = arms[k]
  BY <1>2, <1>3, <1>4
<1>7. \A k \in 1..n : at(k) \in Unbeaten(back) <=> k \in Unbeaten(arms)
  <2> SUFFICES ASSUME NEW k \in 1..n PROVE at(k) \in Unbeaten(back) <=> k \in Unbeaten(arms)
    OBVIOUS
  <2>1. (\A m \in Ranked(back) : ~Better(back[m], back[at(k)]))
            <=> \A m \in Ranked(arms) : ~Better(arms[m], arms[k])
    BY <1>2, <1>5, <1>6
  <2> QED
    BY <1>4, <2>1 DEF Unbeaten
<1>8. {Label(back[k]) : k \in Unbeaten(back)} = {Label(arms[k]) : k \in Unbeaten(arms)}
  <2>1. Unbeaten(arms) \subseteq 1..n /\ Unbeaten(back) \subseteq 1..n
    BY <1>3 DEF Unbeaten
  <2>2. \A k \in Unbeaten(arms) : at(k) \in Unbeaten(back) /\ back[at(k)] = arms[k]
    BY <1>2, <1>7, <2>1
  <2>3. \A k \in Unbeaten(back) : at(k) \in Unbeaten(arms) /\ back[k] = arms[at(k)]
    BY <1>2, <1>7, <2>1
  <2> QED
    BY <2>2, <2>3
<1>9. Field(back)
  <2>1. 1..n \in SUBSET Int /\ IsFiniteSet(1..n)
    BY <1>1, CountUpTo
  <2>2. Ranked(back) \in SUBSET Int /\ IsFiniteSet(Ranked(back))
    BY <1>3, <2>1, FS_Subset
  <2>3. \A k \in Ranked(back) : Measured(back[k])
    BY <1>5 DEF Field
  <2> QED
    BY <2>2, <2>3 DEF Field
<1> QED
  BY <1>4, <1>7, <1>8, <1>9 DEF back, at

\* What an arm cost does not decide who is unbeaten.
LEMMA UnbeatenWithoutCost ==
    ASSUME NEW arms, Field(arms),
           \A k \in DOMAIN arms : {"kind", "status", "result"} \subseteq DOMAIN arms[k],
           \A k \in DOMAIN arms : arms[k].result # NoResult =>
               {"cases", "casesPassed", "score", "cost"} \subseteq DOMAIN arms[k].result
    PROVE  LET free == [k \in DOMAIN arms |-> IF arms[k].result = NoResult THEN arms[k]
                                              ELSE [arms[k] EXCEPT !.result.cost = Nothing]]
           IN  Field(free) /\ Unbeaten(free) = Unbeaten(arms)
<1> DEFINE free == [k \in DOMAIN arms |-> IF arms[k].result = NoResult THEN arms[k]
                                          ELSE [arms[k] EXCEPT !.result.cost = Nothing]]
<1>1. \A k \in DOMAIN arms : free[k].status = arms[k].status
  OBVIOUS
<1>2. \A k \in DOMAIN arms : arms[k].result = NoResult => free[k] = arms[k]
  OBVIOUS
<1>3. \A k \in DOMAIN arms : arms[k].result # NoResult =>
          free[k].result = [arms[k].result EXCEPT !.cost = Nothing]
  OBVIOUS
<1>4. \A k \in Ranked(arms) : k \in DOMAIN arms /\ arms[k].result # NoResult
  BY DEF Ranked, CasesOf, NoResult
<1>5. \A k \in Ranked(arms) :
          /\ free[k].result.cases = arms[k].result.cases
          /\ free[k].result.casesPassed = arms[k].result.casesPassed
          /\ free[k].result.score = arms[k].result.score
          /\ free[k].result.cost = Nothing
  <2> HIDE DEF free
  <2> TAKE k \in Ranked(arms)
  <2>1. {"cases", "casesPassed", "score", "cost"} \subseteq DOMAIN arms[k].result
    BY <1>4
  <2>2. free[k].result = [arms[k].result EXCEPT !.cost = Nothing]
    BY <1>3, <1>4
  <2> QED
    BY <2>1, <2>2
<1>6. \A k \in DOMAIN arms : CasesOf(free[k]) = CasesOf(arms[k])
  <2> HIDE DEF free
  <2> SUFFICES ASSUME NEW k \in DOMAIN arms PROVE CasesOf(free[k]) = CasesOf(arms[k])
    OBVIOUS
  <2>1. CASE arms[k].result = NoResult
    BY <1>2, <2>1
  <2>2. CASE arms[k].result # NoResult
    <3>1. free[k].result.cases = arms[k].result.cases /\ "cases" \in DOMAIN free[k].result
      BY <1>3, <2>2
    <3>2. free[k].result # NoResult
      BY <3>1 DEF NoResult
    <3> QED
      BY <2>2, <3>1, <3>2 DEF CasesOf
  <2> QED
    BY <2>1, <2>2
<1>7. DOMAIN free = DOMAIN arms
  OBVIOUS
<1> HIDE DEF free
<1>8. Ranked(free) = Ranked(arms)
  BY <1>1, <1>6, <1>7 DEF Ranked
<1>9. Field(free)
  <2>1. \A k \in Ranked(arms) : Measured(free[k])
    BY <1>5 DEF Field, Measured
  <2> QED
    BY <1>8, <2>1 DEF Field
<1>10. \A k, m \in Ranked(arms) : Better(free[m], free[k]) <=> Better(arms[m], arms[k])
  <2> SUFFICES ASSUME NEW k \in Ranked(arms), NEW m \in Ranked(arms)
               PROVE  Better(free[m], free[k]) <=> Better(arms[m], arms[k])
    OBVIOUS
  <2>1. /\ PassRate(free[m].result) = PassRate(arms[m].result)
        /\ PassRate(free[k].result) = PassRate(arms[k].result)
    BY <1>5 DEF PassRate
  <2> QED
    BY <1>5, <2>1 DEF Better
<1> QED
  BY <1>8, <1>9, <1>10 DEF Unbeaten, free

-----------------------------------------------------------------------------
(* The grid and the table, in any order *)

\* The place of an arm the other way round.
Mirrored(n) == [k \in 1..n |-> n + 1 - k]

\* Two orders of the same arms.
SameArms(arms, back, n, p) ==
    /\ DOMAIN arms = 1..n /\ DOMAIN back = 1..n /\ Len(arms) = n /\ Len(back) = n
    /\ \A k \in 1..n : p[k] \in 1..n /\ back[p[k]] = arms[k] /\ arms[p[k]] = back[k] /\ p[p[k]] = k

LEMMA ReversedAreTheSame ==
    ASSUME NEW arms, NEW n, Numbered(arms, n)
    PROVE  SameArms(arms, Reverse(arms), n, Mirrored(n))
<1>1. n \in Nat /\ DOMAIN arms = 1..n /\ Len(arms) = n
  BY DEF Numbered
<1>2. \A k \in 1..n : /\ Mirrored(n)[k] = n + 1 - k /\ Mirrored(n)[k] \in 1..n
                      /\ Mirrored(n)[Mirrored(n)[k]] = k
  BY <1>1 DEF Mirrored
<1>3. \A k \in 1..n : /\ Reverse(arms)[k] = arms[Mirrored(n)[k]]
                      /\ Reverse(arms)[Mirrored(n)[k]] = arms[k]
  <2> TAKE k \in 1..n
  <2>1. Mirrored(n)[k] = n + 1 - k
    BY <1>2
  <2>2. Reverse(arms)[k] = arms[n + 1 - k] /\ Reverse(arms)[n + 1 - k] = arms[k]
    BY Reversed
  <2> QED
    BY <2>1, <2>2
<1>4. DOMAIN Reverse(arms) = 1..n /\ Len(Reverse(arms)) = n
  BY Reversed
<1> QED
  BY <1>1, <1>2, <1>3, <1>4 DEF SameArms

\* A row of the table is the same.
LEMMA TableOfTheSame ==
    ASSUME NEW arms, NEW back, NEW n, NEW p, SameArms(arms, back, n, p)
    PROVE  Table(back) = Table(arms)
<1> DEFINE N == 1..n
           status(arm, c) == LET at == SelectInSeq(CasesOf(arm), LAMBDA x : x.id = c)
                             IN  IF at = 0 THEN Nothing ELSE CasesOf(arm)[at].status
<1>1. /\ DOMAIN arms = N /\ DOMAIN back = N
      /\ \A k \in N : p[k] \in N /\ back[p[k]] = arms[k] /\ arms[p[k]] = back[k]
  BY DEF SameArms
<1>2. /\ \A c : Statuses(arms, c) = [k \in N |-> status(arms[k], c)]
      /\ \A c : Statuses(back, c) = [k \in N |-> status(back[k], c)]
  BY <1>1 DEF Statuses
<1> HIDE DEF N, status
<1>3. \A c : ToSet(Statuses(arms, c)) = ToSet(Statuses(back, c))
  <2> TAKE c
  <2>1. ToSet(Statuses(arms, c)) = {status(arms[k], c) : k \in N}
    BY <1>2 DEF ToSet
  <2>2. ToSet(Statuses(back, c)) = {status(back[k], c) : k \in N}
    BY <1>2 DEF ToSet
  <2> QED
    BY <1>1, <2>1, <2>2
<1>4. \A c : Agreement(Statuses(arms, c)) = Agreement(Statuses(back, c))
  BY <1>3 DEF Agreement
<1>5. UNION {DOMAIN PassedByCase(arms[k]) : k \in N} = UNION {DOMAIN PassedByCase(back[k]) : k \in N}
  <2>1. {DOMAIN PassedByCase(arms[k]) : k \in N} = {DOMAIN PassedByCase(back[k]) : k \in N}
    BY <1>1
  <2> QED
    BY <2>1
<1> QED
  BY <1>1, <1>4, <1>5 DEF Table

\* Who lies on an axis at a value.
OnAxis(arms, x, v) == {m \in DOMAIN arms : arms[m].axes[x] = v}
PassedOn(arms, S) == [k \in S |-> arms[k].result.casesPassed]

\* The effects of an axis are the same, and whole numbers.
LEMMA EffectOfTheSame ==
    ASSUME NEW arms, NEW back, NEW n \in Nat, NEW p, SameArms(arms, back, n, p),
           \A k \in 1..n : arms[k].result.casesPassed \in Int, NEW x
    PROVE  /\ Effect(back, x) = Effect(arms, x)
           /\ Effect(arms, x) \in [AxisValues(arms, x) -> Int]
           /\ IsFiniteSet(AxisValues(arms, x))
<1> DEFINE N == 1..n
<1>1. /\ DOMAIN arms = N /\ DOMAIN back = N /\ IsFiniteSet(N)
      /\ \A k \in N : p[k] \in N /\ back[p[k]] = arms[k] /\ arms[p[k]] = back[k] /\ p[p[k]] = k
  BY CountUpTo DEF SameArms
<1>2. \A k \in N : arms[k].result.casesPassed \in Int
  OBVIOUS
<1> HIDE DEF N
<1>3. AxisValues(back, x) = AxisValues(arms, x)
  BY <1>1 DEF AxisValues
<1>4. IsFiniteSet(AxisValues(arms, x))
  <2>1. AxisValues(arms, x) = {arms[k].axes[x] : k \in N}
    BY <1>1 DEF AxisValues
  <2> DEFINE f == [k \in N |-> arms[k].axes[x]]
  <2>2. f \in Surjection(N, {f[k] : k \in N})
    BY DEF Surjection
  <2>3. {f[k] : k \in N} = AxisValues(arms, x)
    BY <2>1
  <2> HIDE DEF f
  <2> QED
    BY <1>1, <2>2, <2>3, FS_Surjection
<1>5. \A v : /\ Sum(PassedOn(arms, OnAxis(arms, x, v))) \in Int
             /\ Sum(PassedOn(back, OnAxis(back, x, v))) = Sum(PassedOn(arms, OnAxis(arms, x, v)))
  <2> TAKE v
  <2> DEFINE S == OnAxis(arms, x, v)
             T == OnAxis(back, x, v)
             g == PassedOn(arms, S)
             h == PassedOn(back, T)
  <2>1. S \subseteq N /\ IsFiniteSet(S)
    BY <1>1, FS_Subset DEF OnAxis
  <2>2. Named(p, S) = T
    BY <1>1 DEF OnAxis, Named
  <2>3. Renames(p, S)
    BY <1>1, <2>1 DEF Renames
  <2>4. DOMAIN g = S /\ DOMAIN h = T
    BY DEF PassedOn
  <2>5. \A k \in S : g[k] \in Int /\ g[k] = h[p[k]]
    <3> TAKE k \in S
    <3>1. k \in N /\ p[k] \in T /\ back[p[k]] = arms[k]
      BY <1>1, <2>1, <2>2 DEF Named
    <3> QED
      BY <1>2, <3>1 DEF PassedOn
  <2> HIDE DEF S, T, g, h
  <2>6. Total(g, S) \in Int /\ Total(g, S) = Total(h, T)
    BY <2>1, <2>2, <2>3, <2>5, TotalIsInt, TotalRenamed
  <2>7. Sum(g) \in Int /\ Sum(h) = Sum(g)
    BY <2>4, <2>6, SumIsTotal
  <2> QED
    BY <2>7 DEF g, h, S, T
<1>6. /\ Effect(arms, x) = [v \in AxisValues(arms, x) |-> Sum(PassedOn(arms, OnAxis(arms, x, v)))]
      /\ Effect(back, x) = [v \in AxisValues(back, x) |-> Sum(PassedOn(back, OnAxis(back, x, v)))]
  BY DEF Effect, OnAxis, PassedOn
<1>7. Effect(back, x) = Effect(arms, x)
  BY <1>3, <1>5, <1>6
<1> QED
  BY <1>4, <1>5, <1>6, <1>7

\* The extent of an axis is a whole number and does not depend on the order.
LEMMA SpreadOfTheSame ==
    ASSUME NEW arms, NEW back, NEW n \in Nat \ {0}, NEW p, SameArms(arms, back, n, p),
           \A k \in 1..n : arms[k].result.casesPassed \in Int, NEW x
    PROVE  Spread(back, x) = Spread(arms, x) /\ Spread(arms, x) \in Int
<1> DEFINE values == Effect(arms, x)
           V == AxisValues(arms, x)
           got == {values[v] : v \in V}
<1>1. Effect(back, x) = values /\ values \in [V -> Int] /\ IsFiniteSet(V)
  BY EffectOfTheSame
<1>2. V # {}
  <2>1. 1 \in DOMAIN arms
    BY DEF SameArms
  <2>2. arms[1].axes[x] \in V
    BY <2>1 DEF AxisValues
  <2> QED
    BY <2>2
<1> HIDE DEF values, V
<1>3. DOMAIN values = V /\ got \in SUBSET Int /\ got # {}
  BY <1>1, <1>2
<1>4. IsFiniteSet(got)
  <2>1. values \in Surjection(V, got)
    BY <1>1 DEF Surjection
  <2> QED
    BY <1>1, <2>1, FS_Surjection
<1>5. Max(got) \in Int /\ Min(got) \in Int
  <2> HIDE DEF got
  <2> QED
    BY <1>3, <1>4, Extremes
<1>6. Cardinality(V) \in Nat
  BY <1>1, FS_CardinalityType
<1>7. Spread(arms, x) = (Max(got) - Min(got)) * Cardinality(V)
  BY <1>3 DEF Spread, values
<1> HIDE DEF got
<1>8. Spread(arms, x) \in Int
  BY <1>5, <1>6, <1>7
<1> QED
  BY <1>1, <1>8 DEF Spread, values

\* A complete grid is one whatever the order.
LEMMA GridOfTheSame ==
    ASSUME NEW arms, NEW back, NEW n \in Nat \ {0}, NEW p, SameArms(arms, back, n, p)
    PROVE  /\ IsGrid(back) <=> IsGrid(arms)
           /\ IsGrid(arms) => DOMAIN back[1].axes = DOMAIN arms[1].axes
<1> DEFINE N == 1..n
           one == DOMAIN arms[1].axes
           other == DOMAIN back[1].axes
           cells == {arms[k].axes : k \in N}
<1>1. /\ DOMAIN arms = N /\ DOMAIN back = N /\ Len(arms) = n /\ Len(back) = n /\ 1 \in N
      /\ \A k \in N : p[k] \in N /\ back[p[k]] = arms[k] /\ arms[p[k]] = back[k]
  BY DEF SameArms
<1> HIDE DEF N
<1>2. \A x : AxisValues(back, x) = AxisValues(arms, x)
  <2> TAKE x
  <2>1. AxisValues(arms, x) = {arms[k].axes[x] : k \in N}
    BY <1>1 DEF AxisValues
  <2>2. AxisValues(back, x) = {back[k].axes[x] : k \in N}
    BY <1>1 DEF AxisValues
  <2> QED
    BY <1>1, <2>1, <2>2
<1>3. {back[k].axes : k \in N} = cells
  BY <1>1
<1>4. Ranked(arms) = N <=> Ranked(back) = N
  BY <1>1 DEF Ranked
<1>5. \A cell : (\E k \in N : arms[k].axes = cell) <=> (\E k \in N : back[k].axes = cell)
  BY <1>1
<1>6. ASSUME \A k \in N : DOMAIN arms[k].axes = one
      PROVE  other = one /\ \A k \in N : DOMAIN back[k].axes = one
  BY <1>1, <1>6
<1>7. ASSUME \A k \in N : DOMAIN back[k].axes = other
      PROVE  other = one /\ \A k \in N : DOMAIN arms[k].axes = other
  BY <1>1, <1>7
<1> DEFINE even(given, axes) == \A k \in N : DOMAIN given[k].axes = axes /\ axes # {}
           full(given, axes) ==
               /\ \A x \in axes : Cardinality(AxisValues(given, x)) >= 2
               /\ \A cell \in [axes -> UNION {AxisValues(given, x) : x \in axes}] :
                     (\A x \in axes : cell[x] \in AxisValues(given, x))
                         => \E k \in N : given[k].axes = cell
<1>8. IsGrid(arms) <=> /\ n >= 4 /\ Cardinality(cells) = n /\ N = Ranked(arms)
                       /\ even(arms, one) /\ full(arms, one)
  BY <1>1 DEF IsGrid
<1>9. IsGrid(back) <=> /\ n >= 4 /\ Cardinality(cells) = n /\ N = Ranked(back)
                       /\ even(back, other) /\ full(back, other)
  BY <1>1, <1>3 DEF IsGrid
<1>10. \A axes : UNION {AxisValues(back, x) : x \in axes} = UNION {AxisValues(arms, x) : x \in axes}
  BY <1>2
<1>11. full(back, one) <=> full(arms, one)
  BY <1>2, <1>5, <1>10
<1>12. (even(arms, one) <=> even(back, other)) /\ (even(arms, one) => other = one)
  <2> HIDE DEF one, other
  <2>1. 1 \in N
    BY <1>1
  <2>2. even(arms, one) => other = one /\ even(back, other)
    BY <1>6, <2>1
  <2>3. even(back, other) => other = one /\ even(arms, one)
    BY <1>7, <2>1
  <2> QED
    BY <2>2, <2>3
<1> HIDE DEF full, even, cells, one, other
<1>13. (IsGrid(back) <=> IsGrid(arms)) /\ (IsGrid(arms) => other = one)
  BY <1>4, <1>8, <1>9, <1>11, <1>12
<1> QED
  BY <1>13 DEF one, other

\* The axes that lead a grid.
Leaders(arms, axes) ==
    {x \in axes : /\ Spread(arms, x) > 0
                  /\ \A y \in axes \ {x} : 2 * Spread(arms, x) >= 3 * Spread(arms, y)}

\* The leading axis is the same, and leads alone.
LEMMA DominantOfTheSame ==
    ASSUME NEW arms, NEW back, NEW n \in Nat \ {0}, NEW p, SameArms(arms, back, n, p), Field(arms)
    PROVE  /\ Dominant(back) = Dominant(arms)
           /\ Dominant(arms) # Nothing =>
                \A x \in DOMAIN arms[1].axes \ {Dominant(arms)} :
                    Spread(arms, x) < Spread(arms, Dominant(arms))
<1> DEFINE axes == DOMAIN arms[1].axes
           tops == Leaders(arms, axes)
<1>1. /\ IsGrid(back) <=> IsGrid(arms)
      /\ IsGrid(arms) => DOMAIN back[1].axes = axes
  BY GridOfTheSame
<1>2. /\ Dominant(arms) = IF IsGrid(arms) /\ tops # {} THEN CHOOSE x \in tops : TRUE ELSE Nothing
      /\ Dominant(back) = IF IsGrid(back) /\ Leaders(back, DOMAIN back[1].axes) # {}
                          THEN CHOOSE x \in Leaders(back, DOMAIN back[1].axes) : TRUE ELSE Nothing
  BY DEF Dominant, Leaders
<1>3. CASE ~IsGrid(arms)
  BY <1>1, <1>2, <1>3
<1>4. CASE IsGrid(arms)
  <2>1. \A k \in 1..n : arms[k].result.casesPassed \in Int
    BY <1>4 DEF IsGrid, SameArms, Field, Measured
  <2>2. \A x : Spread(back, x) = Spread(arms, x) /\ Spread(arms, x) \in Int
    BY <2>1, SpreadOfTheSame
  <2>3. Leaders(back, axes) = tops
    BY <2>2 DEF Leaders
  <2>4. Dominant(back) = Dominant(arms)
    <3> DEFINE others == Leaders(back, DOMAIN back[1].axes)
    <3>1. others = tops
      BY <1>1, <1>4, <2>3
    <3>2. /\ Dominant(arms) = IF tops # {} THEN CHOOSE x \in tops : TRUE ELSE Nothing
          /\ Dominant(back) = IF others # {} THEN CHOOSE x \in others : TRUE ELSE Nothing
      BY <1>1, <1>2, <1>4
    <3> HIDE DEF others, tops
    <3> QED
      BY <3>1, <3>2
  <2>5. ASSUME Dominant(arms) # Nothing, NEW y \in axes \ {Dominant(arms)}
        PROVE  Spread(arms, y) < Spread(arms, Dominant(arms))
    <3>1. Dominant(arms) \in tops
      BY <1>2, <2>5
    <3> DEFINE a == Spread(arms, Dominant(arms))
               b == Spread(arms, y)
    <3>2. a \in Int /\ b \in Int /\ a > 0 /\ 2 * a >= 3 * b
      BY <2>2, <2>5, <3>1 DEF Leaders
    <3> HIDE DEF a, b
    <3>3. b < a
      BY <3>2
    <3> QED
      BY <3>3 DEF a, b
  <2> QED
    BY <2>4, <2>5
<1> QED
  BY <1>3, <1>4

-----------------------------------------------------------------------------
(* The stored evaluation among others *)

\* What is stored of a suite evaluation has a score and a cost that can be compared.
ScoreFits(doc) ==
    /\ {"cases", "casesPassed", "score", "cost"} \subseteq DOMAIN doc
    /\ doc.score \in Int \cup {Nothing} /\ doc.cost \in Int \cup {Nothing}

ScoreKept ==
    kind = "suite" /\ phase \in {"stored completed", "stored error"} /\ result # NoResult =>
        ScoreFits(result)

\* Arms with results that fit can be ranked.
LEMMA FittingArmsAreAField ==
    ASSUME NEW arms, NEW n, Numbered(arms, n),
           \A k \in 1..n : ArmFits(arms[k]) /\ arms[k].kind = "suite"
    PROVE  /\ Field(arms)
           /\ \A k \in DOMAIN arms : {"kind", "status", "result"} \subseteq DOMAIN arms[k]
           /\ \A k \in DOMAIN arms : arms[k].result # NoResult =>
                  {"cases", "casesPassed", "score", "cost"} \subseteq DOMAIN arms[k].result
<1>1. n \in Nat /\ DOMAIN arms = 1..n
  BY DEF Numbered
<1>2. \A k \in 1..n : /\ {"kind", "status", "result"} \subseteq DOMAIN arms[k]
                      /\ arms[k].result # NoResult => ResultFits(arms[k])
  BY DEF ArmFits
<1>3. \A k \in 1..n : arms[k].result # NoResult =>
                  {"cases", "casesPassed", "score", "cost"} \subseteq DOMAIN arms[k].result
  BY <1>2 DEF ResultFits
<1>4. Ranked(arms) \subseteq 1..n
  BY <1>1 DEF Ranked
<1>5. Ranked(arms) \in SUBSET Int /\ IsFiniteSet(Ranked(arms))
  BY <1>1, <1>4, CountUpTo, FS_Subset
<1>6. \A k \in Ranked(arms) : Measured(arms[k])
  <2> TAKE k \in Ranked(arms)
  <2> DEFINE doc == arms[k].result
             lines == doc.cases
             won == {i \in DOMAIN lines : lines[i].status = "passed"}
  <2>1. k \in 1..n /\ doc # NoResult /\ lines # <<>>
    BY <1>4 DEF Ranked, CasesOf, NoResult
  <2>2. /\ lines \in Seq(ToSet(lines)) /\ doc.casesPassed = Cardinality(won)
        /\ doc.score \in Int \cup {Nothing} /\ doc.cost \in Int \cup {Nothing}
    BY <1>2, <2>1 DEF ResultFits
  <2> HIDE DEF doc, lines
  <2>3. Len(lines) \in Nat /\ DOMAIN lines = 1..Len(lines)
    BY <2>2, LenProperties
  <2>4. Len(lines) # 0
    BY <2>1, <2>2, EmptySeq
  <2>5. IsFiniteSet(won)
    BY <2>3, CountUpTo, FS_Subset
  <2>6. Cardinality(won) \in Nat
    BY <2>5, FS_CardinalityType
  <2> QED
    BY <2>2, <2>3, <2>4, <2>6 DEF Measured, doc, lines
<1> QED
  BY <1>1, <1>2, <1>3, <1>5, <1>6 DEF Field

\* The scores that a document's score is the mean of.
ScoredLines(lines) == [k \in {i \in DOMAIN lines : lines[i].score # Nothing} |-> lines[k].score]

LEMMA DocumentScore ==
    ASSUME NEW lines, NEW outcomes, NEW judged, NEW spend
    PROVE  LET doc == SuiteDocument(lines, outcomes, judged, spend)
           IN  /\ {"cases", "casesPassed", "score", "cost"} \subseteq DOMAIN doc
               /\ doc.cases = lines
               /\ doc.score = IF DOMAIN ScoredLines(lines) = {} THEN Nothing
                              ELSE Percent(Mean(ScoredLines(lines)))
               /\ doc.cost = IF spend.runs = Nothing \/ spend.judge = Nothing THEN Nothing
                             ELSE spend.runs + spend.judge
<1> DEFINE doc == SuiteDocument(lines, outcomes, judged, spend)
           scored == ScoredLines(lines)
<1>1. {"cases", "casesPassed", "score", "cost"} \subseteq DOMAIN doc /\ doc.cases = lines
  BY DEF SuiteDocument
<1>2. doc.score = IF DOMAIN scored = {} THEN Nothing ELSE Percent(Mean(scored))
  BY DEF SuiteDocument, ScoredLines
<1>3. doc.cost = IF spend.runs = Nothing \/ spend.judge = Nothing THEN Nothing
                 ELSE spend.runs + spend.judge
  BY DEF SuiteDocument
<1> QED
  BY <1>1, <1>2, <1>3

\* A percentage is a whole number.
LEMMA PercentIsInt == ASSUME NEW mean \in Int PROVE Percent(mean) \in Int
<1>1. Unit \in Nat \ {0} /\ mean * 100 \in Int
  BY ScoreAssumption
<1>2. (mean * 100) \div Unit \in Int
  BY <1>1, Quotient
<1> QED
  BY <1>2 DEF Percent

\* Before it is stored, a suite's score is a percentage of whole numbers, or missing.
LEMMA GradedScoreFits == ASSUME SuiteInv, SuiteGraded PROVE ScoreFits(result)
<1> DEFINE spend == SpendWith(reports)
           lines == result.cases
           scored == ScoredLines(lines)
<1>1. result = SuiteResult(Outcomes, CaseOfRun, JudgeOutcomes(Outcomes, CaseOfRun, reports), spend)
  BY GradedSuite
<1>2. \E given, judged : result = SuiteDocument(given, Outcomes, judged, spend)
  BY <1>1 DEF SuiteResult
<1>3. /\ {"cases", "casesPassed", "score", "cost"} \subseteq DOMAIN result
      /\ result.score = IF DOMAIN scored = {} THEN Nothing ELSE Percent(Mean(scored))
      /\ result.cost = IF spend.runs = Nothing \/ spend.judge = Nothing THEN Nothing
                       ELSE spend.runs + spend.judge
  <2>1. PICK given, judged : result = SuiteDocument(given, Outcomes, judged, spend)
    BY <1>2
  <2> HIDE DEF spend
  <2> QED
    BY <2>1, DocumentScore
<1>4. spend.runs \in Int /\ spend.judge \in Int
  <2> DEFINE asked == {k \in DOMAIN reports : ~reports[k].raised}
  <2>1. IsFiniteSet(asked)
    BY GradedSuite, CountUpTo, FS_Subset
  <2>2. Cardinality(asked) \in Nat
    BY <2>1, FS_CardinalityType
  <2>3. ledger.spent \in Nat
    BY DEF SuiteInv, BatchInv, BatchTypes, LedgerType
  <2> QED
    BY <2>2, <2>3, PriceAssumption DEF SpendWith
<1>5. \A k \in DOMAIN lines : lines[k].score \in Int \cup {Nothing}
  <2> TAKE k \in DOMAIN lines
  <2> DEFINE c == lines[k].id
             counts == [j \in RunsOf(c) |-> Counts(c, j)]
             answered == RunsOf(c) \cap Successes
  <2>1. lines[k].score = CaseScore(answered, counts)
    BY GradedLine DEF LineSays
  <2>2. IsFiniteSet(RunsOf(c)) /\ \A j \in RunsOf(c) : j \in DOMAIN Outcomes /\ CaseOfRun[j] = c
    BY GradedSuite, FS_Subset DEF RunsOf
  <2>3. \A j \in RunsOf(c) : counts[j] \in Int \cup {Nothing}
    BY <2>2, CountsFit
  <2>4. DOMAIN counts = RunsOf(c) /\ counts = [j \in RunsOf(c) |-> counts[j]]
    OBVIOUS
  <2>5. CASE answered = {} \/ \E j \in RunsOf(c) : counts[j] = Nothing
    BY <2>1, <2>4, <2>5 DEF CaseScore
  <2>6. CASE answered # {} /\ \A j \in RunsOf(c) : counts[j] # Nothing
    <3> HIDE DEF counts
    <3>1. counts \in [RunsOf(c) -> Int]
      BY <2>3, <2>4, <2>6
    <3>2. RunsOf(c) # {}
      BY <2>6
    <3>3. Mean(counts) \in Int
      BY <2>2, <3>1, <3>2, MeanIsInt
    <3> QED
      BY <2>1, <2>4, <2>6, <3>3 DEF CaseScore
  <2> QED
    BY <2>5, <2>6
<1>6. IsFiniteSet(DOMAIN lines)
  <2>1. DocumentFits(result)
    BY DEF SuiteInv, DocumentKept, SuiteGraded, Graded
  <2>2. Len(lines) \in Nat /\ DOMAIN lines = 1..Len(lines)
    BY <2>1, LenProperties DEF DocumentFits, LinesFit
  <2> QED
    BY <2>2, CountUpTo
<1>7. DOMAIN scored # {} => Percent(Mean(scored)) \in Int
  <2>1. IsFiniteSet(DOMAIN scored)
    BY <1>6, FS_Subset DEF ScoredLines
  <2>2. scored \in [DOMAIN scored -> Int]
    BY <1>5 DEF ScoredLines
  <2> HIDE DEF scored
  <2> QED
    BY <2>1, <2>2, MeanIsInt, PercentIsInt
<1> HIDE DEF spend, scored, lines
<1>8. result.score \in Int \cup {Nothing}
  BY <1>3, <1>7
<1>9. result.cost \in Int \cup {Nothing}
  BY <1>3, <1>4
<1> QED
  BY <1>3, <1>8, <1>9 DEF ScoreFits

LEMMA ScoreStaysKept == Spec => []ScoreKept
<1>1. Init => ScoreKept
  BY DEF Init, BatchInit, ScoreKept
<1>2. SuiteInv /\ ScoreKept /\ [Next]_vars => ScoreKept'
  <2> SUFFICES ASSUME SuiteInv, ScoreKept, [Next]_vars PROVE ScoreKept'
    OBVIOUS
  <2>1. CASE UNCHANGED vars \/ Done
    BY <2>1 DEF vars, Done, ScoreKept, ScoreFits
  <2>2. CASE RunBatch
    BY <2>2, RunBatchPhases DEF ScoreKept
  <2>3. CASE GradeOutcomes
    BY <2>3 DEF GradeOutcomes, ScoreKept
  <2>4. CASE Store
    <3>1. /\ phase \in {"graded", "cancelled", "failed"} /\ kind' = kind /\ result' = result
          /\ phase = "cancelled" => phase' = "stored cancelled"
      BY <2>4 DEF Store
    <3>3. phase = "failed" => result = NoResult
      BY DEF SuiteInv, DocumentKept
    <3>2. phase = "graded" /\ kind = "suite" => ScoreFits(result)
      BY GradedScoreFits DEF SuiteGraded, Graded
    <3> QED
      BY <3>1, <3>2, <3>3 DEF ScoreKept, ScoreFits
  <2> QED
    BY <2>1, <2>2, <2>3, <2>4 DEF Next
<1> QED
  BY <1>1, <1>2, SuiteInvariant, PTL DEF Spec

\* The stored evaluation is an arm like the others.
LEMMA CandidateFits ==
    ASSUME SuiteInv, ScoreKept, SuiteStored
    PROVE  /\ ArmFits(Candidate) /\ Candidate.kind = "suite" /\ Candidate.status = Status
           /\ Candidate.result = result /\ Candidate.questions = Tag.questions
           /\ Candidate.critical = Tag.critical /\ Candidate.baseline = Tag.baseline
<1> DEFINE fields == {"kind", "status", "result", "questions", "baseline", "critical"}
<1>1. fields \subseteq DOMAIN Tag
  BY TagAssumption DEF ArmFits
<1>2. /\ Candidate.kind = kind /\ Candidate.status = Status /\ Candidate.result = result
      /\ Candidate.questions = Tag.questions /\ Candidate.critical = Tag.critical
      /\ Candidate.baseline = Tag.baseline /\ DOMAIN Candidate = DOMAIN Tag
  BY <1>1 DEF Candidate
<1>3. \A c \in DOMAIN Tag.questions : Tag.questions[c] # Nothing
  BY <1>1, TagAssumption DEF ArmFits
<1>4. kind = "suite"
  BY DEF SuiteStored
<1>5. ASSUME result # NoResult PROVE ResultFits(Candidate)
  <2> DEFINE lines == result.cases
             won == {k \in DOMAIN lines : lines[k].status = "passed"}
  <2>1. DocumentFits(result) /\ ScoreFits(result)
    BY <1>4, <1>5 DEF SuiteInv, DocumentKept, ScoreKept, SuiteStored, Stored
  <2>2. /\ Len(CaseOrder) \in Nat /\ DOMAIN CaseOrder = 1..Len(CaseOrder)
        /\ \A i, j \in DOMAIN CaseOrder : CaseOrder[i] = CaseOrder[j] => i = j
        /\ Ids = {CaseOrder[k] : k \in DOMAIN CaseOrder}
    BY OrderAssumption, LenProperties DEF Ids, ToSet
  <2>3. /\ lines \in Seq({lines[k] : k \in DOMAIN CaseOrder}) /\ Len(lines) = Len(CaseOrder)
        /\ \A k \in DOMAIN CaseOrder : lines[k].id = CaseOrder[k]
    BY <2>1 DEF DocumentFits, LinesFit, LineFits
  <2>4. result.casesPassed = Cardinality(won)
    <3>1. won = AtStatus(lines, {"passed"})
      BY DEF AtStatus
    <3> QED
      BY <2>1, <3>1 DEF DocumentFits
  <2> HIDE DEF lines, won
  <2>5. DOMAIN lines = DOMAIN CaseOrder
    BY <2>2, <2>3, LenProperties
  <2>6. lines \in Seq(ToSet(lines))
    BY <2>3, <2>5 DEF ToSet
  <2>7. \A k, m \in DOMAIN lines : lines[k].id = lines[m].id => k = m
    BY <2>2, <2>3, <2>5
  <2>8. {lines[k].id : k \in DOMAIN lines} = DOMAIN Candidate.questions
    BY <1>2, <2>2, <2>3, <2>5, TagAssumption
  <2>9. /\ {"cases", "casesPassed", "score", "cost"} \subseteq DOMAIN result
        /\ result.score \in Int \cup {Nothing} /\ result.cost \in Int \cup {Nothing}
    BY <2>1 DEF ScoreFits
  <2>10. Candidate.result = result /\ lines = result.cases
    BY <1>2 DEF lines
  <2>11. result.casesPassed = Cardinality({k \in DOMAIN lines : lines[k].status = "passed"})
    BY <2>4 DEF won
  <2> HIDE DEF Candidate
  <2> QED
    BY <2>6, <2>7, <2>8, <2>9, <2>10, <2>11 DEF ResultFits
<1> HIDE DEF fields
<1> QED
  BY <1>1, <1>2, <1>3, <1>4, <1>5 DEF ArmFits, fields

\* The evaluation and the others it is compared with.
LEMMA ComparedArmsFit ==
    ASSUME SuiteInv, ScoreKept, SuiteStored, NEW others \in Comparable
    PROVE  LET arms == <<Candidate>> \o others
               n == Len(others) + 1
           IN  /\ Numbered(arms, n) /\ arms[1] = Candidate
               /\ \A k \in 1..n : ArmFits(arms[k]) /\ arms[k].kind = "suite"
               /\ \A k \in 2..n : arms[k] = others[k - 1]
               /\ SuiteDifferences(arms) = {}
<1> DEFINE arms == <<Candidate>> \o others
           n == Len(others) + 1
<1>1. /\ others \in Seq(ToSet(others)) /\ \A k \in DOMAIN others : ArmFits(others[k])
      /\ Refusal(arms, Nothing) = Nothing
  BY OthersAssumption DEF Comparable
<1>2. Len(others) \in Nat /\ DOMAIN others = 1..Len(others)
  BY <1>1, LenProperties
<1>3. Len(<<Candidate>>) = 1 /\ <<Candidate>>[1] = Candidate
  OBVIOUS
<1>4. /\ Len(arms) = n /\ arms[1] = Candidate /\ DOMAIN arms = 1..n
      /\ \A k \in 2..n : arms[k] = others[k - 1]
  <2> DEFINE S == ToSet(others) \cup {Candidate}
  <2>1. <<Candidate>> \in Seq(S) /\ others \in Seq(S)
    <3>1. others \in [1..Len(others) -> S]
      BY <1>1, <1>2 DEF ToSet
    <3>2. others \in Seq(S)
      BY <1>2, <3>1, SeqDef
    <3>3. Candidate \in S
      OBVIOUS
    <3> HIDE DEF S, Candidate
    <3> QED
      BY <3>2, <3>3
  <2> HIDE DEF S, Candidate
  <2>2. /\ arms \in Seq(S) /\ Len(arms) = 1 + Len(others)
        /\ \A i \in 1..(1 + Len(others)) : arms[i] = IF i <= 1 THEN <<Candidate>>[i] ELSE others[i - 1]
    BY <1>3, <2>1, ConcatProperties
  <2> HIDE DEF arms
  <2> QED
    BY <1>2, <1>3, <2>2, LenProperties
<1>5. Numbered(arms, n)
  BY <1>2, <1>4 DEF Numbered
<1>6. \A r \in Refusals : r # Nothing
  BY NoneAssumption
<1> HIDE DEF arms
<1>7. \A k \in DOMAIN arms : arms[k].kind = "suite"
  BY <1>1, <1>6 DEF Refusal, Refusals
<1>8. SuiteDifferences(arms) = {}
  BY <1>1, <1>6, <1>7 DEF Refusal, Refusals
<1>9. \A k \in 1..n : ArmFits(arms[k])
  <2> TAKE k \in 1..n
  <2>1. k = 1 \/ (k \in 2..n /\ k - 1 \in DOMAIN others)
    BY <1>2
  <2> QED
    BY <1>1, <1>4, <2>1, CandidateFits
<1> QED
  BY <1>4, <1>5, <1>7, <1>8, <1>9 DEF arms

\* Repeats land, judges answer and arms are named in any order: none of it changes what
\* an evaluation scores, which arm leads or what the grid shows.
THEOREM OrderNeverDecides == Spec => []OrderNeverMatters
<1>1. ASSUME SuiteInv, ScoreKept, SuiteStored, NEW others \in Comparable
      PROVE  LET arms == <<Candidate>> \o others
                 back == Reverse(arms)
                 free == [k \in DOMAIN arms |-> IF arms[k].result = NoResult THEN arms[k]
                                                ELSE [arms[k] EXCEPT !.result.cost = Nothing]]
                 names(of, ks) == {Label(of[k]) : k \in ks}
                 axis == Dominant(arms)
             IN  /\ \A k \in Top(arms), m \in Ranked(arms) : ~Better(arms[m], arms[k])
                 /\ names(arms, Top(arms)) = names(back, Top(back))
                 /\ Top(arms) = Top(free)
                 /\ ToSet(Ranking(arms)) = Ranked(arms)
                 /\ Dominant(back) = axis
                 /\ Table(back) = Table(arms)
                 /\ axis # Nothing => \A x \in DOMAIN arms[1].axes \ {axis} :
                                          Spread(arms, x) < Spread(arms, axis)
  <2> DEFINE arms == <<Candidate>> \o others
             n == Len(others) + 1
             back == Reverse(arms)
             free == [k \in DOMAIN arms |-> IF arms[k].result = NoResult THEN arms[k]
                                            ELSE [arms[k] EXCEPT !.result.cost = Nothing]]
  <2>1. /\ Numbered(arms, n)
        /\ \A k \in 1..n : ArmFits(arms[k]) /\ arms[k].kind = "suite"
    BY <1>1, ComparedArmsFit
  <2>2. SameArms(arms, back, n, Mirrored(n))
    BY <2>1, ReversedAreTheSame
  <2> HIDE DEF arms, n
  <2>3. /\ Field(arms)
        /\ \A k \in DOMAIN arms : {"kind", "status", "result"} \subseteq DOMAIN arms[k]
        /\ \A k \in DOMAIN arms : arms[k].result # NoResult =>
               {"cases", "casesPassed", "score", "cost"} \subseteq DOMAIN arms[k].result
    BY <2>1, FittingArmsAreAField
  <2>4. Field(free) /\ Unbeaten(free) = Unbeaten(arms)
    BY <2>3, UnbeatenWithoutCost
  <2>5. /\ Field(back)
        /\ {Label(back[k]) : k \in Unbeaten(back)} = {Label(arms[k]) : k \in Unbeaten(arms)}
    BY <2>1, <2>3, UnbeatenReversed
  <2> HIDE DEF back, free
  <2>6. /\ Top(arms) = Unbeaten(arms) /\ ToSet(Ranking(arms)) = Ranked(arms)
        /\ Top(back) = Unbeaten(back) /\ Top(free) = Unbeaten(free)
    BY <2>3, <2>4, <2>5, TopIsUnbeaten
  <2>7. \A k \in Top(arms), m \in Ranked(arms) : ~Better(arms[m], arms[k])
    BY <2>6 DEF Unbeaten
  <2>8. n \in Nat \ {0}
    BY <2>1 DEF Numbered
  <2>9. /\ Dominant(back) = Dominant(arms)
        /\ Dominant(arms) # Nothing =>
             \A x \in DOMAIN arms[1].axes \ {Dominant(arms)} :
                 Spread(arms, x) < Spread(arms, Dominant(arms))
        /\ Table(back) = Table(arms)
    BY <2>2, <2>3, <2>8, DominantOfTheSame, TableOfTheSame
  <2>10. /\ {Label(arms[k]) : k \in Top(arms)} = {Label(back[k]) : k \in Top(back)}
         /\ Top(arms) = Top(free)
    BY <2>4, <2>5, <2>6
  <2> QED
    BY <2>6, <2>7, <2>9, <2>10 DEF arms, back, free
<1>2. SuiteInv /\ ScoreKept => RankingIsFair
  BY <1>1 DEF RankingIsFair
<1>3. SuiteInv /\ ScoreKept => GridIsFair
  BY <1>1 DEF GridIsFair
<1>4. SuiteInv /\ ScoreKept => OrderNeverMatters
  BY <1>2, <1>3, PanelStaysFair, ReferenceStays DEF OrderNeverMatters
<1> QED
  BY <1>4, SuiteInvariant, ScoreStaysKept, PTL

-----------------------------------------------------------------------------
(* The bound on a regression rate *)

\* A power unfolds at its exponent.
LEMMA PowerUnfolds ==
    ASSUME NEW base
    PROVE  /\ Power(base, 0) = 1
           /\ \A n \in Nat : n # 0 => Power(base, n) = base * Power(base, n - 1)
<1> DEFINE h == [n \in Nat |-> base]
           F == CHOOSE f : f = [n \in Nat |-> IF n = 0 THEN 1 ELSE base * f[n - 1]]
<1>1. \A n : Power(base, n) = F[n]
  BY DEF Power
<1>2. \A f : Multiplies(f, h, Nat) <=> f = [n \in Nat |-> IF n = 0 THEN 1 ELSE base * f[n - 1]]
  BY DEF Multiplies
<1>3. F = [n \in Nat |-> IF n = 0 THEN 1 ELSE base * F[n - 1]]
  <2>1. \E f : f = [n \in Nat |-> IF n = 0 THEN 1 ELSE base * f[n - 1]]
    BY <1>2, ProductsExist
  <2> QED
    BY <2>1
<1> HIDE DEF F
<1>4. \A n \in Nat : F[n] = IF n = 0 THEN 1 ELSE base * F[n - 1]
  BY <1>3
<1> QED
  BY <1>1, <1>4

\* A power is a natural number, 0 only for the base 0.
LEMMA PowerIsNatural ==
    ASSUME NEW base \in Nat, NEW n \in Nat
    PROVE  /\ Power(base, n) \in Nat
           /\ base # 0 => Power(base, n) # 0
           /\ base = 0 /\ n # 0 => Power(base, n) = 0
<1> DEFINE fits(m) == Power(base, m) \in Nat /\ (base # 0 => Power(base, m) # 0)
           Good == {m \in Nat : fits(m)}
<1>1. 0 \in Good
  BY PowerUnfolds
<1>2. ASSUME NEW m \in Good PROVE m + 1 \in Good
  <2>1. m \in Nat /\ fits(m) /\ m + 1 \in Nat /\ m + 1 # 0 /\ (m + 1) - 1 = m
    OBVIOUS
  <2>2. Power(base, m + 1) = base * Power(base, m)
    BY <2>1, PowerUnfolds
  <2> DEFINE p == Power(base, m)
             q == Power(base, m + 1)
  <2>3. p \in Nat /\ (base # 0 => p # 0) /\ q = base * p
    BY <2>1, <2>2
  <2> HIDE DEF p, q
  <2>4. q \in Nat /\ (base # 0 => q # 0)
    BY <2>3
  <2> QED
    BY <2>1, <2>4 DEF q
<1>3. Good = Nat
  <2> HIDE DEF Good
  <2>1. Good \in SUBSET Nat
    BY DEF Good
  <2> QED
    BY <1>1, <1>2, <2>1, CountingUp
<1>4. fits(n)
  BY <1>3
<1>5. CASE base = 0 /\ n # 0
  <2>1. Power(base, n) = 0 * Power(base, n - 1) /\ n - 1 \in Nat
    BY <1>5, PowerUnfolds
  <2>2. n - 1 \in Good
    BY <1>3, <2>1
  <2>3. Power(base, n - 1) \in Nat
    BY <2>2
  <2> QED
    BY <1>4, <1>5, <2>1, <2>3
<1> QED
  BY <1>4, <1>5

\* The terms of the binomial weight, as a function.
Weights(n, rate) ==
    [i \in 0..n |-> choose(n, i) * Power(rate, i) * Power(RateUnit - rate, n - i)]

LEMMA WeightIsTotal ==
    ASSUME NEW k, NEW n, NEW rate
    PROVE  BinomialWeight(k, n, rate) = Total(Weights(n, rate), 0..k)
BY DEF BinomialWeight, Total, Weights

\* Each term is a natural number, the first is the chance of no regression at all,
\* and at a rate of 1 only the last is not 0.
LEMMA WeightsFit ==
    ASSUME NEW n \in Nat, NEW rate \in 0..RateUnit
    PROVE  /\ \A i \in 0..n : Weights(n, rate)[i] \in Nat
           /\ Weights(n, rate)[0] = Power(RateUnit - rate, n)
           /\ rate = RateUnit => \A i \in 0..n : i # n => Weights(n, rate)[i] = 0
<1>0. RateUnit \in Nat /\ rate \in Nat /\ RateUnit - rate \in Nat
  BY RateAssumption
<1>1. ASSUME NEW i \in 0..n
      PROVE  /\ Weights(n, rate)[i] \in Nat
             /\ rate = RateUnit /\ i # n => Weights(n, rate)[i] = 0
  <2> DEFINE a == choose(n, i)
             b == Power(rate, i)
             c == Power(RateUnit - rate, n - i)
  <2>1. a \in Nat
    BY ChoosingIsNatural
  <2>2. i \in Nat /\ n - i \in Nat
    OBVIOUS
  <2>3. b \in Nat
    BY <1>0, <2>2, PowerIsNatural
  <2>4. c \in Nat /\ (RateUnit - rate = 0 /\ n - i # 0 => c = 0)
    BY <1>0, <2>2, PowerIsNatural
  <2>5. Weights(n, rate)[i] = a * b * c
    BY DEF Weights
  <2>6. rate = RateUnit /\ i # n => RateUnit - rate = 0 /\ n - i # 0
    BY <1>0, <2>2
  <2> HIDE DEF a, b, c
  <2>7. a * b \in Nat
    BY <2>1, <2>3
  <2>8. (a * b) * c \in Nat /\ (c = 0 => (a * b) * c = 0)
    BY <2>4, <2>7
  <2> QED
    BY <2>4, <2>5, <2>6, <2>8
<1>2. Weights(n, rate)[0] = Power(RateUnit - rate, n)
  <2>1. Weights(n, rate)[0] = choose(n, 0) * Power(rate, 0) * Power(RateUnit - rate, n - 0)
    BY DEF Weights
  <2>2. choose(n, 0) = 1 /\ Power(rate, 0) = 1 /\ n - 0 = n
    BY ChoosingIsNatural, PowerUnfolds
  <2>3. Power(RateUnit - rate, n) \in Nat
    BY <1>0, PowerIsNatural
  <2> QED
    BY <2>1, <2>2, <2>3
<1> QED
  BY <1>1, <1>2

\* The more regressions are seen, the higher the bound: it never comes back under.
LEMMA BoundGrows ==
    ASSUME NEW n \in Nat, NEW m \in 0..n, NEW k \in 0..m, NEW rate \in 0..RateUnit,
           BoundOver(k, n, rate)
    PROVE  BoundOver(m, n, rate)
<1> DEFINE W == Weights(n, rate)
<1>1. CASE (n <= 0 \/ k >= n) /\ rate < RateUnit
  BY <1>1 DEF BoundOver
<1>2. CASE n > 0 /\ k < n /\ 20 * BinomialWeight(k, n, rate) > Power(RateUnit, n)
  <2>1. IsFiniteSet(0..m) /\ 0..k \in SUBSET (0..m) /\ IsFiniteSet(0..k)
    BY FS_Interval
  <2>2. \A i \in 0..m : W[i] \in Nat
    BY WeightsFit
  <2>3. Total(W, 0..k) <= Total(W, 0..m)
    BY <2>1, <2>2, TotalGrows
  <2>4. Total(W, 0..k) \in Int /\ Total(W, 0..m) \in Int
    BY <2>1, <2>2, TotalIsInt
  <2>5. Power(RateUnit, n) \in Nat
    BY RateAssumption, PowerIsNatural
  <2>6. CASE m < n
    BY <1>2, <2>3, <2>4, <2>5, <2>6, WeightIsTotal DEF BoundOver
  <2>7. CASE m = n /\ rate < RateUnit
    BY <2>7 DEF BoundOver
  <2>8. CASE rate = RateUnit
    <3>1. \A i \in 0..k : W[i] = 0 /\ W[i] \in Int
      BY <1>2, <2>8, WeightsFit
    <3>2. Total(W, 0..k) = Total(W, {})
      BY <2>1, <3>1, TotalOfSupport
    <3>3. Total(W, 0..k) = 0
      BY <3>2, TotalOfNone
    <3> QED
      BY <1>2, <2>5, <3>3, WeightIsTotal
  <2> QED
    BY <2>6, <2>7, <2>8, RateAssumption
<1> QED
  BY <1>1, <1>2 DEF BoundOver

\* (1 + r/b)^n >= 1 + n r/b, for r >= 1 and b = base.
LEMMA PowersGrowApart ==
    ASSUME NEW base \in Nat \ {0}, NEW unit \in Nat, base < unit, NEW n \in Nat
    PROVE  base * Power(unit, n) >= Power(base, n) * (base + n)
<1> DEFINE fits(m) == base * Power(unit, m) >= Power(base, m) * (base + m)
           Good == {m \in Nat : fits(m)}
<1>1. 0 \in Good
  BY PowerUnfolds
<1>2. ASSUME NEW m \in Good PROVE m + 1 \in Good
  <2>1. m \in Nat /\ fits(m) /\ m + 1 \in Nat /\ m + 1 # 0 /\ (m + 1) - 1 = m
    OBVIOUS
  <2> DEFINE p == Power(base, m)
             q == Power(unit, m)
  <2>2. Power(base, m + 1) = base * p /\ Power(unit, m + 1) = unit * q
    BY <2>1, PowerUnfolds
  <2>3. p \in Nat /\ q \in Nat /\ base * q >= p * (base + m)
    BY <2>1, PowerIsNatural
  <2> HIDE DEF p, q
  <2>4. (base + 1) * (base * q) <= unit * (base * q)
    BY <2>3, TimesMonotone
  <2>5. (p * (base + m)) * (base + 1) <= (base * q) * (base + 1)
    BY <2>1, <2>3, TimesMonotone
  <2>6. (p * (base + m)) * (base + 1) = (base * p) * (base + (m + 1)) + p * m
    BY <2>1, <2>3
  <2>7. p * m >= 0
    BY <2>1, <2>3
  <2>8. unit * (base * q) = base * (unit * q) /\ (base + 1) * (base * q) = (base * q) * (base + 1)
    BY <2>3
  <2>9. base * (unit * q) >= (base * p) * (base + (m + 1))
    <3> DEFINE u == base * (unit * q)
               v == (base * p) * (base + (m + 1))
               w == p * m
               x == (base * q) * (base + 1)
               y == (p * (base + m)) * (base + 1)
    <3>1. u \in Int /\ v \in Int /\ w \in Int /\ x \in Int /\ y \in Int
      BY <2>1, <2>3
    <3>2. x <= u /\ y <= x /\ y = v + w /\ w >= 0
      BY <2>4, <2>5, <2>6, <2>7, <2>8
    <3> HIDE DEF u, v, w, x, y
    <3>3. v <= u
      BY <3>1, <3>2
    <3> QED
      BY <3>1, <3>3 DEF u, v
  <2> QED
    BY <2>1, <2>2, <2>9
<1>3. Good = Nat
  <2> HIDE DEF Good
  <2>1. Good \in SUBSET Nat
    BY DEF Good
  <2> QED
    BY <1>1, <1>2, <2>1, CountingUp
<1> QED
  BY <1>3

\* Every rate above 0 can be certified by a finite suite.
LEMMA SomeNumberCertifies ==
    ASSUME NEW rate \in 1..(RateUnit - 1)
    PROVE  19 * RateUnit \in Nat \ {0} /\ Certifies(19 * RateUnit, rate)
<1> DEFINE n == 19 * RateUnit
           b == RateUnit - rate
           p == Power(b, n)
           q == Power(RateUnit, n)
<1>1. RateUnit \in Nat \ {0} /\ n \in Nat \ {0} /\ b \in Nat \ {0} /\ b < RateUnit /\ n >= 19 * b
  BY RateAssumption
<1>2. b * q >= p * (b + n)
  BY <1>1, PowersGrowApart
<1>3. p \in Nat /\ q \in Nat
  BY <1>1, PowerIsNatural
<1>4. Certifies(n, rate) <=> 20 * p <= q
  BY DEF Certifies
<1> HIDE DEF n, b, p, q
<1>5. (20 * b) * p <= (b + n) * p
  BY <1>1, <1>3, TimesMonotone
<1>6. b * (20 * p) <= b * q
  <2>1. (20 * b) * p = b * (20 * p) /\ (b + n) * p = p * (b + n)
    BY <1>1, <1>3
  <2> QED
    BY <1>1, <1>2, <1>3, <1>5, <2>1
<1>7. 20 * p <= q
  <2>1. SUFFICES ASSUME q + 1 <= 20 * p PROVE FALSE
    BY <1>1, <1>3
  <2>2. (q + 1) * b <= (20 * p) * b
    BY <1>1, <1>3, <2>1, TimesMonotone
  <2>3. (q + 1) * b = b * q + b /\ (20 * p) * b = b * (20 * p)
    BY <1>1, <1>3
  <2> DEFINE x == b * q
             y == b * (20 * p)
  <2>4. x \in Int /\ y \in Int
    BY <1>1, <1>3
  <2>5. y <= x /\ x + b <= y
    BY <1>6, <2>2, <2>3
  <2> HIDE DEF x, y
  <2> QED
    BY <1>1, <2>4, <2>5
<1> QED
  BY <1>1, <1>4, <1>7 DEF n

\* A bound that holds up is one that enough cases certify.
LEMMA NotOverNeedsCases ==
    ASSUME NEW n \in Nat, NEW k \in 0..n, NEW rate \in 0..RateUnit, n # 0,
           ~BoundOver(k, n, rate)
    PROVE  n >= CasesNeeded(rate)
<1>0. RateUnit \in Nat \ {0} /\ RateUnit - rate \in Nat
  BY RateAssumption
<1>1. Certifies(n, rate)
  <2>1. ~BoundOver(0, n, rate)
    BY BoundGrows
  <2>2. ~(20 * BinomialWeight(0, n, rate) > Power(RateUnit, n))
    BY <2>1 DEF BoundOver
  <2>3. BinomialWeight(0, n, rate) = Power(RateUnit - rate, n)
    <3> DEFINE W == Weights(n, rate)
    <3>1. 0..0 = {} \cup {0} /\ 0 \notin {} /\ IsFiniteSet({})
      BY FS_EmptySet
    <3>2. W[0] \in Nat /\ W[0] = Power(RateUnit - rate, n)
      BY WeightsFit
    <3>3. BinomialWeight(0, n, rate) = Total(W, 0..0)
      BY WeightIsTotal
    <3> HIDE DEF W
    <3>4. \A x \in {} \cup {0} : W[x] \in Int
      BY <3>2
    <3>5. Total(W, {} \cup {0}) = W[0] + Total(W, {})
      BY <3>1, <3>4, TotalAdds
    <3>6. Total(W, 0..0) = W[0] + 0
      BY <3>1, <3>5, TotalOfNone
    <3> QED
      BY <3>2, <3>3, <3>6
  <2>4. Power(RateUnit, n) \in Nat /\ Power(RateUnit - rate, n) \in Nat
    BY <1>0, PowerIsNatural
  <2> QED
    BY <2>2, <2>3, <2>4 DEF Certifies
<1>2. rate # 0
  <2>1. SUFFICES ASSUME rate = 0 PROVE FALSE
    OBVIOUS
  <2>2. RateUnit - rate = RateUnit
    BY <1>0, <2>1
  <2>3. Power(RateUnit, n) \in Nat /\ Power(RateUnit, n) # 0
    BY <1>0, PowerIsNatural
  <2>4. 20 * Power(RateUnit, n) <= Power(RateUnit, n)
    BY <1>1, <2>2 DEF Certifies
  <2> QED
    BY <2>3, <2>4
<1>3. CASE rate = RateUnit
  BY <1>3, RateAssumption DEF CasesNeeded
<1>4. CASE rate # RateUnit
  <2> DEFINE N == 19 * RateUnit
             enough == {m \in 1..N : Certifies(m, rate)}
             first(m) == Certifies(m, rate) /\ \A l \in 1..(m - 1) : ~Certifies(l, rate)
  <2>1. rate \in 1..(RateUnit - 1)
    BY <1>2, <1>4, RateAssumption
  <2>2. N \in Nat \ {0} /\ Certifies(N, rate)
    BY <2>1, SomeNumberCertifies
  <2>3. CasesNeeded(rate) = CHOOSE m \in 1..N : first(m)
    BY <2>1, RateAssumption DEF CasesNeeded
  <2> HIDE DEF N
  <2>4. enough \in SUBSET Int /\ IsFiniteSet(enough) /\ enough # {}
    <3>1. N \in enough
      BY <2>2
    <3>2. IsFiniteSet(1..N) /\ enough \in SUBSET (1..N)
      BY <2>2, FS_Interval
    <3> QED
      BY <3>1, <3>2, FS_Subset
  <2>5. Min(enough) \in enough /\ \A x \in enough : Min(enough) <= x
    BY <2>4, Extremes
  <2>6. first(Min(enough)) /\ Min(enough) \in 1..N
    BY <2>2, <2>5
  <2>7. \E m \in 1..N : first(m)
    BY <2>6
  <2> DEFINE c == CHOOSE m \in 1..N : first(m)
  <2>8. c \in 1..N /\ first(c)
    <3> HIDE DEF first
    <3> QED
      BY <2>7
  <2> HIDE DEF c
  <2>9. n >= c
    BY <1>1, <2>2, <2>8
  <2> QED
    BY <2>3, <2>9 DEF c
<1> QED
  BY <1>3, <1>4

-----------------------------------------------------------------------------
(* A candidate against the baseline *)

Won(verdicts) == {c \in DOMAIN verdicts : verdicts[c]}

\* Case verdicts of a finite suite.
Judged(verdicts) == verdicts \in [DOMAIN verdicts -> BOOLEAN] /\ IsFiniteSet(DOMAIN verdicts)

\* The population of a regression is what the baseline passes, whoever the candidate is.
LEMMA PairCounts ==
    ASSUME NEW base, NEW cand, Judged(base), Judged(cand)
    PROVE  /\ Pair(base, cand).regressions = Won(base) \ Won(cand)
           /\ Pair(base, cand).improvements = Won(cand) \ Won(base)
           /\ BaselinePassed(Pair(base, cand)) = Cardinality(Won(base))
           /\ IsFiniteSet(Won(base)) /\ Cardinality(Won(base)) \in Nat
           /\ Cardinality(Won(base) \ Won(cand)) \in 0..Cardinality(Won(base))
<1> DEFINE ids == DOMAIN base \cup DOMAIN cand
           where(b, c) == {i \in ids : Verdict(base, i) = b /\ Verdict(cand, i) = c}
<1>1. \A i \in ids : (Verdict(base, i) <=> i \in Won(base)) /\ (Verdict(cand, i) <=> i \in Won(cand))
  BY DEF Verdict, Won, Judged
<1>2. \A i \in ids : Verdict(base, i) \in BOOLEAN /\ Verdict(cand, i) \in BOOLEAN
  BY DEF Verdict, Judged
<1>3. Won(base) \subseteq ids /\ Won(cand) \subseteq ids
  BY DEF Won
<1> HIDE DEF ids
<1>4. /\ where(TRUE, FALSE) = Won(base) \ Won(cand)
      /\ where(FALSE, TRUE) = Won(cand) \ Won(base)
      /\ where(TRUE, TRUE) = Won(base) \cap Won(cand)
  BY <1>1, <1>2, <1>3
<1>5. /\ Pair(base, cand).regressions = where(TRUE, FALSE)
      /\ Pair(base, cand).improvements = where(FALSE, TRUE)
      /\ Pair(base, cand).bothPass = Cardinality(where(TRUE, TRUE))
  BY DEF Pair, ids
<1> HIDE DEF where
<1>6. IsFiniteSet(Won(base))
  BY FS_Subset DEF Won, Judged
<1>7. IsFiniteSet(Won(base) \ Won(cand)) /\ IsFiniteSet(Won(base) \cap Won(cand))
  BY <1>6, FS_Subset
<1>8. Cardinality(Won(base)) = Cardinality(Won(base) \ Won(cand)) + Cardinality(Won(base) \cap Won(cand))
  <2>1. (Won(base) \ Won(cand)) \cap (Won(base) \cap Won(cand)) = {}
    OBVIOUS
  <2>2. (Won(base) \ Won(cand)) \cup (Won(base) \cap Won(cand)) = Won(base)
    OBVIOUS
  <2>3. Cardinality((Won(base) \ Won(cand)) \cup (Won(base) \cap Won(cand)))
            = Cardinality(Won(base) \ Won(cand)) + Cardinality(Won(base) \cap Won(cand))
    BY <1>7, <2>1, CountDisjoint
  <2> QED
    BY <2>2, <2>3
<1>9. /\ Cardinality(Won(base)) \in Nat /\ Cardinality(Won(base) \ Won(cand)) \in Nat
      /\ Cardinality(Won(base) \cap Won(cand)) \in Nat
  BY <1>6, <1>7, FS_CardinalityType
<1>10. BaselinePassed(Pair(base, cand))
          = Cardinality(Won(base) \ Won(cand)) + Cardinality(Won(base) \cap Won(cand))
  BY <1>4, <1>5 DEF BaselinePassed
<1>11. Cardinality(Won(base) \ Won(cand)) \in 0..Cardinality(Won(base))
  BY <1>8, <1>9
<1> QED
  BY <1>4, <1>5, <1>6, <1>8, <1>9, <1>10, <1>11

\* More regressions leave a verdict where it is or worse, whatever is critical.
LEMMA MoreRegressionsNeverHelp ==
    ASSUME NEW some, NEW more, NEW n \in Nat, NEW bar, NEW completed \in BOOLEAN, NEW critical,
           bar.rate \in 0..RateUnit,
           BaselinePassed(some) = n, BaselinePassed(more) = n,
           some.regressions \subseteq more.regressions, IsFiniteSet(more.regressions),
           Cardinality(more.regressions) <= n
    PROVE  VerdictRank(Assess(more, bar, completed, critical, Unset, Unset).status)
               <= VerdictRank(Assess(some, bar, completed, critical, Unset, Unset).status)
<1> DEFINE k == Cardinality(some.regressions)
           m == Cardinality(more.regressions)
           fails(paired) ==
               \/ ~completed
               \/ paired.regressions \cap critical # {}
               \/ n > 0 /\ Cardinality(paired.regressions) * RateUnit > bar.rate * n
           unknown(paired) ==
               \/ bar.latency # Unset \/ bar.cost # Unset \/ n = 0
               \/ BoundOver(Cardinality(paired.regressions), n, bar.rate)
           status(paired) == CASE fails(paired) -> "not_ready"
                               [] ~fails(paired) /\ unknown(paired) -> "inconclusive"
                               [] OTHER -> "ready"
<1>1. /\ Assess(some, bar, completed, critical, Unset, Unset).status = status(some)
      /\ Assess(more, bar, completed, critical, Unset, Unset).status = status(more)
  BY DEF Assess, OverLimit
<1>2. k \in Nat /\ m \in Nat /\ k <= m
  BY FS_Subset, FS_CardinalityType
<1>3. fails(some) => fails(more)
  <2>1. some.regressions \cap critical # {} => more.regressions \cap critical # {}
    OBVIOUS
  <2>2. k * RateUnit <= m * RateUnit
    BY <1>2, RateAssumption, TimesMonotone
  <2>3. k * RateUnit \in Int /\ m * RateUnit \in Int /\ bar.rate * n \in Int
    BY <1>2, RateAssumption
  <2> HIDE DEF k, m
  <2>4. k * RateUnit > bar.rate * n => m * RateUnit > bar.rate * n
    BY <2>2, <2>3
  <2> QED
    BY <2>1, <2>4 DEF k, m
<1>4. unknown(some) => unknown(more)
  <2>1. BoundOver(k, n, bar.rate) => BoundOver(m, n, bar.rate)
    BY <1>2, BoundGrows
  <2> QED
    BY <2>1
<1> HIDE DEF fails, unknown
<1>5. VerdictRank(status(more)) <= VerdictRank(status(some))
  BY <1>3, <1>4 DEF VerdictRank
<1> QED
  BY <1>1, <1>5

\* What the verdicts of a stored suite say, case by case.
StatusOf(arm, c) ==
    LET at == SelectInSeq(CasesOf(arm), LAMBDA x : x.id = c)
    IN  IF at = 0 THEN Nothing ELSE CasesOf(arm)[at].status

LEMMA VerdictsFit ==
    ASSUME NEW arm, ArmFits(arm), arm.kind = "suite"
    PROVE  /\ Judged(PassedByCase(arm))
           /\ arm.result # NoResult => DOMAIN PassedByCase(arm) = DOMAIN arm.questions
           /\ \A c : StatusOf(arm, c) \in Decided =>
                  /\ c \in DOMAIN PassedByCase(arm)
                  /\ PassedByCase(arm)[c] <=> StatusOf(arm, c) = "passed"
<1> DEFINE lines == CasesOf(arm)
           passed == PassedByCase(arm)
           at(c) == SelectInSeq(lines, LAMBDA x : x.id = c)
<1>1. CASE arm.result = NoResult
  <2>1. lines = <<>>
    BY <1>1 DEF CasesOf
  <2>2. DOMAIN lines = {} /\ Len(lines) = 0
    BY <2>1
  <2>3. DOMAIN passed = {} /\ passed \in [DOMAIN passed -> BOOLEAN]
    BY <2>2 DEF PassedByCase
  <2>4. \A c : at(c) = 0
    BY <2>2 DEF SelectInSeq
  <2>5. \A c : StatusOf(arm, c) = Nothing
    BY <2>4 DEF StatusOf
  <2> HIDE DEF passed, lines, at
  <2>6. \A c : StatusOf(arm, c) \notin Decided
    BY <2>5, NoneAssumption
  <2>7. Judged(passed)
    BY <2>3, FS_EmptySet DEF Judged
  <2> QED
    BY <1>1, <2>6, <2>7 DEF passed
<1>2. CASE arm.result # NoResult
  <2>1. /\ lines = arm.result.cases /\ ResultFits(arm)
    BY <1>2 DEF ArmFits, CasesOf
  <2>2. /\ lines \in Seq(ToSet(lines))
        /\ \A k, m \in DOMAIN lines : lines[k].id = lines[m].id => k = m
        /\ {lines[k].id : k \in DOMAIN lines} = DOMAIN arm.questions
    BY <2>1 DEF ResultFits
  <2>3. /\ passed = [c \in {lines[k].id : k \in DOMAIN lines} |->
                        \E k \in DOMAIN lines : lines[k].id = c /\ lines[k].status = "passed"]
    BY DEF PassedByCase
  <2>4. \A c : StatusOf(arm, c) = IF at(c) = 0 THEN Nothing ELSE lines[at(c)].status
    BY DEF StatusOf
  <2> DEFINE found(c) == {i \in 1..Len(lines) : lines[i].id = c}
  <2>5. \A c : at(c) = IF found(c) = {} THEN 0 ELSE Min(found(c))
    BY DEF SelectInSeq
  <2> HIDE DEF lines, passed, at
  <2>6. Len(lines) \in Nat /\ DOMAIN lines = 1..Len(lines) /\ IsFiniteSet(DOMAIN lines)
    BY <2>2, LenProperties, CountUpTo
  <2>7. DOMAIN passed = {lines[k].id : k \in DOMAIN lines} /\ passed \in [DOMAIN passed -> BOOLEAN]
    BY <2>3
  <2>8. IsFiniteSet({lines[k].id : k \in DOMAIN lines})
    <3> DEFINE f == [k \in DOMAIN lines |-> lines[k].id]
    <3>1. IsFiniteSet({f[k] : k \in DOMAIN lines})
      BY <2>6, ImageIsFinite
    <3> QED
      BY <3>1
  <2>9. ASSUME NEW c, StatusOf(arm, c) \in Decided
        PROVE  c \in DOMAIN passed /\ (passed[c] <=> StatusOf(arm, c) = "passed")
    <3>1. StatusOf(arm, c) # Nothing
      BY <2>9, NoneAssumption
    <3>2. found(c) # {} /\ at(c) = Min(found(c))
      BY <2>4, <2>5, <3>1
    <3>3. found(c) \in SUBSET Int /\ IsFiniteSet(found(c))
      <4>1. found(c) \subseteq 1..Len(lines) /\ IsFiniteSet(1..Len(lines))
        BY <2>6
      <4> QED
        BY <4>1, FS_Subset
    <3>4. at(c) \in found(c)
      BY <3>2, <3>3, Extremes
    <3>5. at(c) \in DOMAIN lines /\ lines[at(c)].id = c /\ StatusOf(arm, c) = lines[at(c)].status
      BY <2>4, <2>6, <3>1, <3>4
    <3>6. passed[c] <=> \E k \in DOMAIN lines : lines[k].id = c /\ lines[k].status = "passed"
      BY <2>3, <3>5
    <3> QED
      BY <2>2, <2>7, <3>5, <3>6
  <2>10. Judged(passed)
    BY <2>7, <2>8 DEF Judged
  <2> QED
    BY <2>2, <2>7, <2>9, <2>10 DEF passed
<1> QED
  BY <1>1, <1>2

\* Losing one more case never improves a verdict.
LEMMA LosingOneCase ==
    ASSUME NEW base, NEW now, Judged(base), Judged(now),
           NEW c \in DOMAIN now, NEW bar, bar.rate \in 0..RateUnit,
           NEW completed \in BOOLEAN, NEW critical
    PROVE  VerdictRank(Assess(Pair(base, [now EXCEPT ![c] = FALSE]), bar, completed, critical,
                              Unset, Unset).status)
               <= VerdictRank(Assess(Pair(base, now), bar, completed, critical, Unset, Unset).status)
<1> DEFINE less == [now EXCEPT ![c] = FALSE]
           some == Pair(base, now)
           more == Pair(base, less)
           n == Cardinality(Won(base))
<1>1. Judged(less) /\ Won(less) \subseteq Won(now)
  BY DEF Judged, Won
<1> HIDE DEF less
<1>2. /\ some.regressions = Won(base) \ Won(now) /\ BaselinePassed(some) = n
      /\ n \in Nat /\ IsFiniteSet(Won(base))
  BY PairCounts
<1>3. /\ more.regressions = Won(base) \ Won(less) /\ BaselinePassed(more) = n
      /\ Cardinality(Won(base) \ Won(less)) \in 0..n
  BY <1>1, PairCounts
<1>4. IsFiniteSet(Won(base) \ Won(less))
  BY <1>2, FS_Subset
<1> HIDE DEF some, more, n
<1>5. some.regressions \subseteq more.regressions
  BY <1>1, <1>2, <1>3
<1>6. Cardinality(more.regressions) <= n /\ IsFiniteSet(more.regressions)
  BY <1>2, <1>3, <1>4
<1>7. VerdictRank(Assess(more, bar, completed, critical, Unset, Unset).status)
          <= VerdictRank(Assess(some, bar, completed, critical, Unset, Unset).status)
  BY <1>2, <1>3, <1>5, <1>6, MoreRegressionsNeverHelp
<1> QED
  BY <1>7 DEF more, some, less

\* Losing one more case never improves the verdict on an evaluation.
THEOREM LosingOneMoreNeverHelps == Spec => []LosingNeverHelps
<1>1. ASSUME SuiteInv, ScoreKept, SuiteStored, NEW others \in Comparable, NEW bar \in Bars,
             NEW critical \in SUBSET Ids, NEW c \in DOMAIN PassedByCase(Candidate)
      PROVE  VerdictRank(Assess(Pair(PassedByCase(others[1]),
                                     [PassedByCase(Candidate) EXCEPT ![c] = FALSE]),
                                bar, Status = "completed", critical, Unset, Unset).status)
               <= VerdictRank(Assess(Pair(PassedByCase(others[1]), PassedByCase(Candidate)),
                                     bar, Status = "completed", critical, Unset, Unset).status)
  <2> DEFINE arms == <<Candidate>> \o others
             n == Len(others) + 1
  <2>1. /\ Numbered(arms, n) /\ arms[1] = Candidate
        /\ \A k \in 1..n : ArmFits(arms[k]) /\ arms[k].kind = "suite"
        /\ \A k \in 2..n : arms[k] = others[k - 1]
    BY <1>1, ComparedArmsFit
  <2>2. 1 \in 1..n /\ 2 \in 1..n /\ 2 \in 2..n
    <3>1. others \in Seq(ToSet(others)) /\ others # <<>>
      BY <1>1, OthersAssumption DEF Comparable
    <3>2. Len(others) \in Nat /\ Len(others) # 0
      BY <3>1, EmptySeq, LenProperties
    <3> QED
      BY <3>2
  <2> HIDE DEF arms, n
  <2>3. arms[2] = others[1]
    BY <2>1, <2>2
  <2>4. Judged(PassedByCase(others[1])) /\ Judged(PassedByCase(Candidate))
    BY <2>1, <2>2, <2>3, VerdictsFit
  <2>5. bar.rate \in 0..RateUnit /\ (Status = "completed") \in BOOLEAN
    BY BarsAssumption
  <2> QED
    BY <1>1, <2>4, <2>5, LosingOneCase
<1>2. SuiteInv /\ ScoreKept => LosingNeverHelps
  BY <1>1 DEF LosingNeverHelps
<1> QED
  BY <1>2, SuiteInvariant, ScoreStaysKept, PTL

-----------------------------------------------------------------------------
(* A comparison and its parts *)

\* Two suites that ask nothing differently ask the same cases.
LEMMA SameQuestions ==
    ASSUME NEW arms, NEW n, Numbered(arms, n), \A k \in 1..n : ArmFits(arms[k]),
           SuiteDifferences(arms) = {}, NEW k \in 1..n, NEW m \in 1..n
    PROVE  DOMAIN arms[k].questions \subseteq DOMAIN arms[m].questions
<1> DEFINE asked(i, c) == IF c \in DOMAIN arms[i].questions THEN arms[i].questions[c] ELSE Nothing
           answers(c) == {asked(i, c) : i \in DOMAIN arms}
<1>0. SuiteDifferences(arms) =
        {c \in UNION {DOMAIN arms[i].questions : i \in DOMAIN arms} : Cardinality(answers(c)) > 1}
  BY DEF SuiteDifferences
<1>1. n \in Nat /\ DOMAIN arms = 1..n /\ IsFiniteSet(DOMAIN arms)
  BY CountUpTo DEF Numbered
<1> SUFFICES ASSUME NEW c \in DOMAIN arms[k].questions, c \notin DOMAIN arms[m].questions
             PROVE  FALSE
  OBVIOUS
<1>2. asked(k, c) # Nothing /\ asked(m, c) = Nothing
  BY DEF ArmFits
<1>3. IsFiniteSet(answers(c))
  <2> DEFINE g == [i \in DOMAIN arms |-> asked(i, c)]
  <2>1. IsFiniteSet({g[i] : i \in DOMAIN arms})
    BY <1>1, ImageIsFinite
  <2> QED
    BY <2>1
<1>4. {asked(k, c), asked(m, c)} \subseteq answers(c)
  BY <1>1
<1>5. Cardinality(answers(c)) \in Nat
  BY <1>3, FS_CardinalityType
<1> HIDE DEF asked, answers
<1>6. Cardinality({asked(k, c), asked(m, c)}) = 2
  <2> DEFINE x == asked(k, c)
             y == asked(m, c)
  <2>1. x # y
    BY <1>2
  <2> HIDE DEF x, y
  <2>2. {x, y} = {y} \cup {x}
    OBVIOUS
  <2>3. x \notin {y} /\ IsFiniteSet({y}) /\ Cardinality({y}) = 1
    BY <2>1, FS_Singleton
  <2>4. Cardinality({y} \cup {x}) = Cardinality({y}) + 1
    BY <2>3, FS_AddElement
  <2> QED
    BY <2>2, <2>3, <2>4 DEF x, y
<1>7. Cardinality({asked(k, c), asked(m, c)}) <= Cardinality(answers(c))
  BY <1>3, <1>4, FS_Subset
<1>8. c \in UNION {DOMAIN arms[i].questions : i \in DOMAIN arms}
  BY <1>1
<1> QED
  BY <1>0, <1>5, <1>6, <1>7, <1>8

\* A row of the table tells whether two arms split on a case.
LEMMA RowTells ==
    ASSUME NEW arms, Numbered(arms, 2), \A k \in 1..2 : ArmFits(arms[k]) /\ arms[k].kind = "suite",
           NEW c, NEW moved,
           moved = (Won(PassedByCase(arms[2])) \ Won(PassedByCase(arms[1])))
                      \cup (Won(PassedByCase(arms[1])) \ Won(PassedByCase(arms[2])))
    PROVE  /\ Agreement(Statuses(arms, c)) = "split" => c \in moved
           /\ Agreement(Statuses(arms, c)) \in {"all_passed", "all_failed"} => c \notin moved
<1> DEFINE s1 == StatusOf(arms[1], c)
           s2 == StatusOf(arms[2], c)
<1>1. DOMAIN arms = {1, 2}
  BY DEF Numbered
<1>2. ToSet(Statuses(arms, c)) = {s1, s2}
  <2>1. Statuses(arms, c) = [k \in {1, 2} |-> StatusOf(arms[k], c)]
    BY <1>1 DEF Statuses, StatusOf
  <2> HIDE DEF s1, s2
  <2>2. ToSet(Statuses(arms, c)) = {StatusOf(arms[k], c) : k \in {1, 2}}
    BY <2>1 DEF ToSet
  <2> QED
    BY <2>2 DEF s1, s2
<1>3. /\ s1 \in Decided => c \in DOMAIN PassedByCase(arms[1]) /\ (PassedByCase(arms[1])[c] <=> s1 = "passed")
      /\ s2 \in Decided => c \in DOMAIN PassedByCase(arms[2]) /\ (PassedByCase(arms[2])[c] <=> s2 = "passed")
  BY VerdictsFit
<1>4. /\ s1 \in Decided => (c \in Won(PassedByCase(arms[1])) <=> s1 = "passed")
      /\ s2 \in Decided => (c \in Won(PassedByCase(arms[2])) <=> s2 = "passed")
  BY <1>3 DEF Won
<1> HIDE DEF s1, s2
<1>5. CASE ~({s1, s2} \subseteq Decided)
  <2>1. Agreement(Statuses(arms, c)) = "incomplete"
    BY <1>2, <1>5 DEF Agreement, Decided
  <2> QED
    BY <2>1
<1>6. CASE s1 \in Decided /\ s2 \in Decided
  <2>1. s1 = s2 => Agreement(Statuses(arms, c)) \in {"all_passed", "all_failed"}
    BY <1>2, <1>6 DEF Agreement, Decided
  <2>2. s1 # s2 => Agreement(Statuses(arms, c)) = "split"
    BY <1>2, <1>6 DEF Agreement, Decided
  <2>3. s1 = s2 => c \notin moved
    BY <1>4, <1>6
  <2>4. s1 # s2 => c \in moved
    BY <1>4, <1>6 DEF Decided
  <2> QED
    BY <2>1, <2>2, <2>3, <2>4
<1> QED
  BY <1>5, <1>6

\* A verdict is ready only for a finished evaluation that lost nothing critical, against a
\* baseline that passes as many cases as the rate needs.
LEMMA ReadyNeeds ==
    ASSUME NEW paired, NEW bar, NEW completed \in BOOLEAN, NEW critical, NEW latency, NEW cost,
           NEW n \in Nat, BaselinePassed(paired) = n, bar.rate \in 0..RateUnit,
           Cardinality(paired.regressions) \in 0..n,
           Assess(paired, bar, completed, critical, latency, cost).status = "ready"
    PROVE  /\ completed /\ paired.regressions \cap critical = {}
           /\ n >= CasesNeeded(bar.rate)
<1>1. /\ completed /\ paired.regressions \cap critical = {}
      /\ n # 0 /\ ~BoundOver(Cardinality(paired.regressions), n, bar.rate)
  BY DEF Assess
<1> QED
  BY <1>1, NotOverNeedsCases

\* Arms that may be compared ran the same cases, and what a comparison says of a case, in its
\* table, its pairing with the baseline and its verdict, is one and the same.
THEOREM ComparisonsAreCoherent == Spec => []ComparisonIsCoherent
<1>1. ASSUME SuiteInv, ScoreKept, SuiteStored, NEW others \in Comparable
      PROVE  LET arms == <<Candidate>> \o others
             IN  \A k, m \in DOMAIN arms : arms[k].result # NoResult /\ arms[m].result # NoResult =>
                     DOMAIN PassedByCase(arms[k]) = DOMAIN PassedByCase(arms[m])
  <2> DEFINE arms == <<Candidate>> \o others
             n == Len(others) + 1
  <2>1. /\ Numbered(arms, n) /\ SuiteDifferences(arms) = {}
        /\ \A k \in 1..n : ArmFits(arms[k]) /\ arms[k].kind = "suite"
    BY <1>1, ComparedArmsFit
  <2> HIDE DEF arms, n
  <2>2. ASSUME NEW k \in DOMAIN arms, NEW m \in DOMAIN arms,
               arms[k].result # NoResult, arms[m].result # NoResult
        PROVE  DOMAIN PassedByCase(arms[k]) = DOMAIN PassedByCase(arms[m])
    <3>1. k \in 1..n /\ m \in 1..n
      BY <2>1 DEF Numbered
    <3>2. DOMAIN arms[k].questions = DOMAIN arms[m].questions
      <4>1. DOMAIN arms[k].questions \subseteq DOMAIN arms[m].questions
        BY <2>1, <3>1, SameQuestions
      <4>2. DOMAIN arms[m].questions \subseteq DOMAIN arms[k].questions
        BY <2>1, <3>1, SameQuestions
      <4> QED
        BY <4>1, <4>2
    <3>3. /\ DOMAIN PassedByCase(arms[k]) = DOMAIN arms[k].questions
          /\ DOMAIN PassedByCase(arms[m]) = DOMAIN arms[m].questions
      BY <2>1, <2>2, <3>1, VerdictsFit
    <3> QED
      BY <3>2, <3>3
  <2> QED
    BY <2>2 DEF arms
<1>2. ASSUME SuiteInv, ScoreKept, SuiteStored, NEW others \in Comparable, Len(others) = 1,
             NEW bar \in Bars
      PROVE  LET comparison == Compare(<<Candidate>> \o others, Nothing, bar)
             IN  comparison.baseline = 2 /\ comparison.verdicts[1] # Nothing =>
                   LET verdict == comparison.verdicts[1]
                       moved == verdict.regressions \cup verdict.improvements
                   IN  /\ \A c \in DOMAIN comparison.agreement :
                             /\ comparison.agreement[c] = "split" => c \in moved
                             /\ comparison.agreement[c] \in {"all_passed", "all_failed"} =>
                                    c \notin moved
                       /\ verdict.status = "ready" =>
                             /\ Status = "completed"
                             /\ verdict.regressions \cap {c \in Ids : Suite[c].critical} = {}
                             /\ verdict.baselinePassed >= CasesNeeded(bar.rate)
  <2> DEFINE arms == <<Candidate>> \o others
             comparison == Compare(arms, Nothing, bar)
             verdict == comparison.verdicts[1]
             moved == verdict.regressions \cup verdict.improvements
             base == PassedByCase(arms[2])
             own == PassedByCase(arms[1])
             critical == arms[2].critical \cup arms[1].critical
             latency == Ratio(P95(arms[1]), P95(arms[2]))
             cost == Ratio(CostOfArm(arms[1]), CostOfArm(arms[2]))
             completed == arms[1].status = "completed"
             judged == Assess(Pair(base, own), bar, completed, critical, latency, cost)
  <2>1. /\ Numbered(arms, 2) /\ arms[1] = Candidate
        /\ \A k \in 1..2 : ArmFits(arms[k]) /\ arms[k].kind = "suite"
    <3>1. /\ Numbered(arms, Len(others) + 1) /\ arms[1] = Candidate
          /\ \A k \in 1..(Len(others) + 1) : ArmFits(arms[k]) /\ arms[k].kind = "suite"
      BY <1>2, ComparedArmsFit
    <3>2. Len(others) + 1 = 2
      BY <1>2
    <3> HIDE DEF arms
    <3> QED
      BY <3>1, <3>2
  <2> SUFFICES ASSUME comparison.baseline = 2, verdict # Nothing
               PROVE  /\ \A c \in DOMAIN comparison.agreement :
                             /\ comparison.agreement[c] = "split" => c \in moved
                             /\ comparison.agreement[c] \in {"all_passed", "all_failed"} =>
                                    c \notin moved
                      /\ verdict.status = "ready" =>
                             /\ Status = "completed"
                             /\ verdict.regressions \cap {c \in Ids : Suite[c].critical} = {}
                             /\ verdict.baselinePassed >= CasesNeeded(bar.rate)
    OBVIOUS
  <2>2. /\ bar # Nothing /\ bar.rate \in 0..RateUnit
        /\ Candidate.critical = {c \in Ids : Suite[c].critical} /\ Candidate.status = Status
    BY <1>2, BarsAssumption, TagAssumption, CandidateFits
  <2> HIDE DEF arms
  <2>3. DOMAIN arms = {1, 2} /\ 1 \in 1..2 /\ 2 \in 1..2
    BY <2>1 DEF Numbered
  <2>4. /\ comparison.baseline = ResolveBaseline(arms, Nothing)
        /\ comparison.agreement = Table(arms)
        /\ comparison.verdicts = [k \in IF ResolveBaseline(arms, Nothing) = 0 THEN {}
                                         ELSE DOMAIN arms \ {ResolveBaseline(arms, Nothing)} |->
                AgainstBaseline(arms[ResolveBaseline(arms, Nothing)], arms[k],
                                ResolveBar(arms, ResolveBaseline(arms, Nothing), bar))]
    BY DEF Compare
  <2>5. ResolveBar(arms, 2, bar) = bar
    BY <2>2 DEF ResolveBar
  <2>6. verdict = AgainstBaseline(arms[2], arms[1], bar)
    BY <2>3, <2>4, <2>5
  <2>7. verdict = judged
    BY <2>6 DEF AgainstBaseline
  <2>8. Judged(base) /\ Judged(own)
    BY <2>1, <2>3, VerdictsFit
  <2>9. completed \in BOOLEAN
    OBVIOUS
  <2> DEFINE paired == Pair(base, own)
  <2>10. /\ judged.regressions = paired.regressions /\ judged.improvements = paired.improvements
         /\ judged.baselinePassed = BaselinePassed(paired)
    BY DEF Assess
  <2> HIDE DEF base, own, comparison, verdict, critical, latency, cost, completed
  <2>11. /\ paired.regressions = Won(base) \ Won(own) /\ paired.improvements = Won(own) \ Won(base)
         /\ BaselinePassed(paired) = Cardinality(Won(base)) /\ Cardinality(Won(base)) \in Nat
         /\ Cardinality(Won(base) \ Won(own)) \in 0..Cardinality(Won(base))
    BY <2>8, PairCounts
  <2> HIDE DEF paired
  <2>12. ASSUME judged.status = "ready"
         PROVE  /\ completed /\ paired.regressions \cap critical = {}
                /\ BaselinePassed(paired) >= CasesNeeded(bar.rate)
    <3> DEFINE n == BaselinePassed(paired)
    <3>1. n \in Nat /\ Cardinality(paired.regressions) \in 0..n
      BY <2>11
    <3>2. judged = Assess(paired, bar, completed, critical, latency, cost)
      BY DEF paired
    <3> HIDE DEF judged
    <3>3. Assess(paired, bar, completed, critical, latency, cost).status = "ready"
      BY <2>12, <3>2
    <3>4. BaselinePassed(paired) = n
      OBVIOUS
    <3> HIDE DEF n
    <3>5. completed /\ paired.regressions \cap critical = {} /\ n >= CasesNeeded(bar.rate)
      BY <2>2, <2>9, <3>1, <3>3, <3>4, ReadyNeeds
    <3> QED
      BY <3>4, <3>5
  <2> HIDE DEF judged
  <2>13. moved = (Won(base) \ Won(own)) \cup (Won(own) \ Won(base))
    BY <2>7, <2>10, <2>11
  <2> HIDE DEF moved
  <2>14. \A c : /\ Agreement(Statuses(arms, c)) = "split" => c \in moved
                /\ Agreement(Statuses(arms, c)) \in {"all_passed", "all_failed"} => c \notin moved
    BY <2>1, <2>13, RowTells DEF base, own
  <2>15. \A c \in DOMAIN Table(arms) : Table(arms)[c] = Agreement(Statuses(arms, c))
    BY DEF Table
  <2>16. /\ completed => Status = "completed"
         /\ {c \in Ids : Suite[c].critical} \subseteq critical
    BY <2>1, <2>2 DEF completed, critical
  <2> QED
    BY <2>4, <2>7, <2>10, <2>12, <2>14, <2>15, <2>16
<1>3. SuiteInv /\ ScoreKept => ComparedArmsRanTheSame
  BY <1>1 DEF ComparedArmsRanTheSame
<1>4. SuiteInv /\ ScoreKept => TableMatchesVerdict
  BY <1>2 DEF TableMatchesVerdict
<1>5. SuiteInv /\ ScoreKept => ComparisonIsCoherent
  BY <1>3, <1>4 DEF ComparisonIsCoherent
<1> QED
  BY <1>5, SuiteInvariant, ScoreStaysKept, PTL

-----------------------------------------------------------------------------
(* The fallback plan: its inductive invariant *)

FilesFit ==
    /\ suiteFile = Nothing \/ FileFits(suiteFile)
    /\ promoting = Nothing \/ promoting.read = Nothing \/ FileFits(promoting.read)

\* What an evaluation took of the request it ran.
Ran(e, request) ==
    /\ e.cases = request.cases /\ e.name = request.name /\ e.bar = request.bar
    /\ e.model = request.config.model /\ e.prompt = Setting(request.config, "prompt")

\* A completed evaluation has results that can be ranked.
EvaluationFits(e) == e.status = "completed" => CasesOf(e) # <<>> /\ Measured(e)

HistoryOf(es) ==
    /\ es \in Seq(ToSet(es)) /\ Len(es) <= Len(EvaluationIds)
    /\ \A k \in DOMAIN es : es[k].id = EvaluationIds[k] /\ EvaluationFits(es[k])

\* What a command goes by, once it has read the suite file.
ReadFor(invocation, file) ==
    /\ invocation \in Invocations /\ Invocable(invocation)
    /\ file # Nothing /\ FileFits(file)
    /\ Accepted(file, Overlay(file.config, invocation.flags))

CommandOf(c, es) ==
    /\ c.pc \in {"idle", "prepared", "arms"}
    /\ c.pc # "idle" => ReadFor(c.invocation, c.file)
    /\ c.pc = "arms" =>
          LET asked == Requests(c.invocation, c.file, c.texts)
          IN  /\ {"pc", "invocation", "file", "texts", "ran"} \subseteq DOMAIN c
              /\ Buildable(c.invocation, c.file, c.texts)
              /\ c.ran \in Nat /\ c.ran <= Len(asked) /\ c.ran <= Len(es)
              /\ \A k \in 1..c.ran : Ran(es[Len(es) - c.ran + k], asked[k])

\* What a plan is made of: arms, compared.
Requestable == {Nothing} \cup {invocation.baseline : invocation \in Invocations}
PlanMadeOf(arms, made, from) ==
    /\ Numbered(arms, Len(from.ids))
    /\ \E requested \in Requestable :
          LET comparison == Compare(arms, requested, Nothing)
          IN  /\ comparison.baseline # 0
              /\ made = PlanFor(arms[1].cases, comparison, arms, made.maxAge)
              /\ from.exit = ExitOf(comparison,
                                    IF from.file = Nothing THEN "ok" ELSE FirstFailure(arms),
                                    from.requireReady)
    /\ from.all =>
          \E invocation \in Invocations :
              /\ invocation.all /\ ReadFor(invocation, from.file)
              /\ Buildable(invocation, from.file, from.texts)
              /\ Len(Requests(invocation, from.file, from.texts)) = Len(from.ids)
              /\ \A k \in DOMAIN arms : Ran(arms[k], Requests(invocation, from.file, from.texts)[k])

\* The evaluations a plan was made of, as they are stored.
Find(es, id) == es[SelectInSeq(es, LAMBDA e : e.id = id)]
ComparedIn(es, ids) == [k \in DOMAIN ids |-> Find(es, ids[k])]

PlanOf(made, from, es) ==
    made # Nothing =>
        /\ Numbered(from.ids, Len(from.ids))
        /\ \A k \in DOMAIN from.ids : \E j \in DOMAIN es : from.ids[k] = es[j].id
        /\ PlanMadeOf(ComparedIn(es, from.ids), made, from)

PlanInv ==
    /\ FilesFit
    /\ HistoryOf(evaluations)
    /\ CommandOf(command, evaluations)
    /\ PlanOf(plan, origin, evaluations)

-----------------------------------------------------------------------------
(* Requests *)

\* A setting is the override's, else the one below, also where `inference` is merged.
LEMMA Settings ==
    ASSUME NEW base, NEW over, NEW name \in {"model", "prompt"}
    PROVE  LET value == IF name \in DOMAIN over THEN over[name] ELSE Setting(base, name)
           IN  /\ Setting(Merged(base, over), name) = value
               /\ Setting(Overlay(base, over), name) = value
               /\ name \in DOMAIN Overlay(base, over) <=> name \in DOMAIN base \cup DOMAIN over
               /\ name \in DOMAIN Overlay(base, over) => Overlay(base, over)[name] = value
<1> DEFINE M == Merged(base, over)
           E == [M EXCEPT !.inference = Merged(base.inference, over.inference)]
<1>1. /\ DOMAIN M = DOMAIN base \cup DOMAIN over
      /\ \A s \in DOMAIN M : M[s] = IF s \in DOMAIN over THEN over[s] ELSE base[s]
  BY DEF Merged
<1> HIDE DEF M
<1>2. DOMAIN E = DOMAIN M /\ (name \in DOMAIN M => E[name] = M[name])
  OBVIOUS
<1>3. Overlay(base, over) = M \/ Overlay(base, over) = E
  BY DEF Overlay, M
<1> HIDE DEF E
<1>4. /\ DOMAIN Overlay(base, over) = DOMAIN M
      /\ name \in DOMAIN M => Overlay(base, over)[name] = M[name]
  BY <1>2, <1>3
<1> QED
  BY <1>1, <1>4 DEF Setting, M

\* What the file's arms keep of it when the baseline is chosen.
LEMMA BaselineChosen ==
    ASSUME NEW arms, NEW asked, \A k \in DOMAIN arms : {"name", "overrides", "baseline"} \subseteq DOMAIN arms[k]
    PROVE  LET chosen == WithBaseline(arms, asked)
           IN  /\ DOMAIN chosen = DOMAIN arms
               /\ \A k \in DOMAIN arms : /\ chosen[k].name = arms[k].name
                                         /\ chosen[k].overrides = arms[k].overrides
                                         /\ {"name", "overrides", "baseline"} \subseteq DOMAIN chosen[k]
<1> DEFINE name == CASE asked # Nothing -> asked
                     [] asked = Nothing /\ SelectInSeq(arms, LAMBDA a : a.baseline) # 0 ->
                            arms[SelectInSeq(arms, LAMBDA a : a.baseline)].name
                     [] OTHER -> arms[1].name
<1>1. WithBaseline(arms, asked) = [k \in DOMAIN arms |-> [arms[k] EXCEPT !.baseline = arms[k].name = name]]
  BY DEF WithBaseline
<1> HIDE DEF name
<1> QED
  BY <1>1

\* How many arms a file lists, and that each has a name.
LEMMA ListedArms ==
    ASSUME NEW file, FileFits(file), Declares(file), NEW texts, Usable(file, texts)
    PROVE  LET arms == Listed(file, texts)
           IN  /\ Len(arms) \in Nat \ {0} /\ DOMAIN arms = 1..Len(arms)
               /\ \A k \in DOMAIN arms : /\ {"name", "overrides", "baseline"} \subseteq DOMAIN arms[k]
                                         /\ arms[k].name # Nothing
<1>1. CASE file.arms # Nothing
  <2> DEFINE arms == FromList(file.arms, texts)
  <2>1. Listed(file, texts) = arms
    BY <1>1 DEF Listed
  <2>2. /\ Len(file.arms) \in Nat /\ DOMAIN file.arms = 1..Len(file.arms)
        /\ \A k \in DOMAIN file.arms : file.arms[k].name # Nothing
    BY <1>1, LenProperties DEF FileFits
  <2>3. /\ DOMAIN arms = 1..Len(file.arms)
        /\ \A k \in DOMAIN arms : /\ {"name", "overrides", "baseline"} \subseteq DOMAIN arms[k]
                                  /\ arms[k].name # Nothing
    BY <2>2 DEF FromList
  <2>4. arms \in [1..Len(file.arms) -> {arms[k] : k \in 1..Len(file.arms)}]
    BY <2>2 DEF FromList
  <2> HIDE DEF arms
  <2>5. arms \in Seq({arms[k] : k \in 1..Len(file.arms)})
    BY <2>2, <2>4, SeqDef
  <2>6. Len(arms) = Len(file.arms)
    BY <2>2, <2>3, <2>5, LenProperties
  <2>7. Len(arms) # 0
    BY <2>1 DEF Usable
  <2> QED
    BY <2>1, <2>2, <2>3, <2>6, <2>7
<1>2. CASE file.arms = Nothing
  <2> DEFINE models == file.matrix.models
             prompts == file.matrix.prompts
             m == Len(models)
             p == Len(prompts)
             arms == FromMatrix(models, prompts, texts)
             arm(k) == LET model == models[((k - 1) \div p) + 1]
                           prompt == prompts[((k - 1) % p) + 1]
                       IN  [name |-> model.name \o "/" \o prompt.name,
                            overrides |-> Merged(Overrides(model, texts), Overrides(prompt, texts)),
                            baseline |-> FALSE,
                            axes |-> [model |-> model.name, prompt |-> prompt.name]]
  <2>1. Listed(file, texts) = arms
    BY <1>2 DEF Listed
  <2>2. file.matrix # Nothing /\ m > 1 /\ p > 1
    BY <1>2 DEF Usable, Declares
  <2>3. /\ models \in Seq(ToSet(models)) /\ prompts \in Seq(ToSet(prompts))
        /\ \A model \in ToSet(models), prompt \in ToSet(prompts) :
              model.name \o "/" \o prompt.name # Nothing
    BY <2>2 DEF FileFits
  <2>4. arms = [k \in 1..(m * p) |-> arm(k)]
    BY DEF FromMatrix
  <2> HIDE DEF arms, models, prompts
  <2>5. m \in Nat /\ p \in Nat /\ DOMAIN models = 1..m /\ DOMAIN prompts = 1..p
    BY <2>3, LenProperties
  <2>6. m * p \in Nat
    BY <2>5
  <2>7. \A k \in 1..(m * p) : arm(k).name # Nothing
    <3> TAKE k \in 1..(m * p)
    <3> DEFINE i == (k - 1) \div p
               j == (k - 1) % p
    <3>1. i \in 0..(m - 1) /\ j \in 0..(p - 1)
      <4>1. k - 1 \in Nat /\ k - 1 < m * p /\ p \in Nat \ {0}
        BY <2>2, <2>5
      <4>2. j \in 0..(p - 1) /\ i \in Nat /\ k - 1 = p * i + j
        BY <4>1
      <4> HIDE DEF i, j
      <4>3. i < m
        <5>1. SUFFICES ASSUME m <= i PROVE FALSE
          BY <2>5, <4>2
        <5>2. m * p <= i * p
          BY <2>5, <4>2, <5>1, TimesMonotone
        <5>3. i * p = p * i
          BY <2>5, <4>2
        <5> DEFINE x == m * p
                   y == p * i
        <5>4. x \in Int /\ y \in Int /\ x <= y /\ k - 1 < x /\ k - 1 = y + j
          BY <2>5, <2>6, <4>1, <4>2, <5>2, <5>3
        <5> HIDE DEF x, y
        <5> QED
          BY <4>2, <5>4
      <4> QED
        BY <2>5, <4>2, <4>3
    <3>2. models[i + 1] \in ToSet(models) /\ prompts[j + 1] \in ToSet(prompts)
      BY <2>5, <3>1 DEF ToSet
    <3>3. arm(k).name = models[i + 1].name \o "/" \o prompts[j + 1].name
      OBVIOUS
    <3> HIDE DEF i, j, arm
    <3> QED
      BY <2>3, <3>2, <3>3
  <2>8. \A k \in 1..(m * p) : {"name", "overrides", "baseline"} \subseteq DOMAIN arm(k)
    OBVIOUS
  <2> HIDE DEF arm
  <2>9. arms \in Seq({arm(k) : k \in 1..(m * p)}) /\ DOMAIN arms = 1..(m * p)
    <3>1. arms \in [1..(m * p) -> {arm(k) : k \in 1..(m * p)}]
      BY <2>4
    <3> QED
      BY <2>6, <3>1, SeqDef
  <2>10. Len(arms) = m * p
    BY <2>6, <2>9, LenProperties
  <2>11. Len(arms) # 0
    BY <1>2, <2>1 DEF Usable
  <2>12. \A k \in DOMAIN arms : arms[k] = arm(k)
    BY <2>4
  <2> QED
    BY <2>1, <2>6, <2>7, <2>8, <2>9, <2>10, <2>11, <2>12
<1> QED
  BY <1>1, <1>2

\* The requests of a command that raises nothing: one for each arm, of the file that was read.
LEMMA RequestsFit ==
    ASSUME NEW invocation, NEW file, NEW texts,
           ReadFor(invocation, file), Buildable(invocation, file, texts)
    PROVE  LET asked == Requests(invocation, file, texts)
           IN  /\ Len(asked) \in Nat \ {0} /\ DOMAIN asked = 1..Len(asked)
               /\ \A k \in DOMAIN asked : /\ asked[k].cases = file.cases /\ asked[k].bar = file.bar
                                          /\ {"cases", "name", "bar", "config"} \subseteq DOMAIN asked[k]
<1> DEFINE arms == ArmsOf(invocation, file, texts)
           asked == Requests(invocation, file, texts)
           request(k) == ArmRequest(file, arms[k], invocation.flags)
<1>1. \E n \in Nat \ {0} : DOMAIN arms = 1..n
  <2>1. CASE invocation.all
    <3>1. Declares(file) /\ Usable(file, texts) /\ FileFits(file)
      BY <2>1 DEF Buildable, ReadFor
    <3>2. /\ Len(Listed(file, texts)) \in Nat \ {0}
          /\ DOMAIN Listed(file, texts) = 1..Len(Listed(file, texts))
          /\ \A k \in DOMAIN Listed(file, texts) :
                {"name", "overrides", "baseline"} \subseteq DOMAIN Listed(file, texts)[k]
      BY <3>1, ListedArms
    <3>3. /\ DOMAIN Expand(file, texts) = DOMAIN Listed(file, texts)
          /\ \A k \in DOMAIN Expand(file, texts) :
                {"name", "overrides", "baseline"} \subseteq DOMAIN Expand(file, texts)[k]
      BY <3>2, BaselineChosen DEF Expand
    <3>4. DOMAIN WithBaseline(Expand(file, texts), invocation.baseline) = DOMAIN Expand(file, texts)
      BY <3>3, BaselineChosen
    <3>5. DOMAIN arms = DOMAIN Expand(file, texts)
      BY <2>1, <3>4 DEF ArmsOf
    <3> QED
      BY <3>2, <3>3, <3>5
  <2>2. CASE ~invocation.all
    <3>1. invocation.arms \in Seq(ToSet(invocation.arms)) /\ invocation.arms # <<>>
      BY <2>2, InvocationsAssumption DEF ReadFor, Invocable
    <3>2. DOMAIN arms = DOMAIN invocation.arms
      BY <2>2 DEF ArmsOf
    <3>3. Len(invocation.arms) \in Nat /\ DOMAIN invocation.arms = 1..Len(invocation.arms)
          /\ Len(invocation.arms) # 0
      BY <3>1, LenProperties, EmptySeq
    <3> QED
      BY <3>2, <3>3
  <2> QED
    BY <2>1, <2>2
<1>2. asked = [k \in DOMAIN arms |-> request(k)]
  BY DEF Requests
<1>3. \A k \in DOMAIN arms : /\ request(k).cases = file.cases /\ request(k).bar = file.bar
                             /\ {"cases", "name", "bar", "config"} \subseteq DOMAIN request(k)
  BY DEF ArmRequest
<1> HIDE DEF arms, asked, request
<1>4. PICK n \in Nat \ {0} : DOMAIN arms = 1..n
  BY <1>1
<1>5. DOMAIN asked = 1..n /\ asked \in Seq({request(k) : k \in 1..n})
  <2>1. asked \in [1..n -> {request(k) : k \in 1..n}]
    BY <1>2, <1>4
  <2> QED
    BY <1>4, <2>1, SeqDef
<1>6. Len(asked) = n
  BY <1>5, LenProperties
<1> QED
  BY <1>2, <1>3, <1>4, <1>5, <1>6 DEF asked

\* An arm of the file keeps its name in the request, and gets the settings it is identified by.
LEMMA DeclaredRequest ==
    ASSUME NEW invocation, NEW file, NEW texts, invocation.all, FileFits(file),
           Declares(file), Usable(file, texts),
           "model" \in DOMAIN file.config,
           "model" \notin DOMAIN invocation.flags, "prompt" \notin DOMAIN invocation.flags
    PROVE  LET asked == Requests(invocation, file, texts)
               arms == Expand(file, texts)
           IN  /\ DOMAIN asked = DOMAIN arms
               /\ \A k \in DOMAIN arms :
                     /\ arms[k].name = Listed(file, texts)[k].name
                     /\ asked[k].name = arms[k].name /\ arms[k].name # Nothing
                     /\ <<asked[k].config.model, Setting(asked[k].config, "prompt")>>
                            = Identity(file, arms[k])
<1> DEFINE listed == Listed(file, texts)
           arms == Expand(file, texts)
           own == ArmsOf(invocation, file, texts)
           asked == Requests(invocation, file, texts)
           config(k) == Overlay(Overlay(file.config, own[k].overrides), invocation.flags)
<1>1. \A k \in DOMAIN listed : /\ {"name", "overrides", "baseline"} \subseteq DOMAIN listed[k]
                               /\ listed[k].name # Nothing
  BY ListedArms
<1>2. /\ DOMAIN arms = DOMAIN listed
      /\ \A k \in DOMAIN listed : /\ arms[k].name = listed[k].name
                                  /\ {"name", "overrides", "baseline"} \subseteq DOMAIN arms[k]
  BY <1>1, BaselineChosen DEF Expand
<1> HIDE DEF arms, listed
<1>3. /\ DOMAIN WithBaseline(arms, invocation.baseline) = DOMAIN arms
      /\ \A k \in DOMAIN arms :
            /\ WithBaseline(arms, invocation.baseline)[k].name = arms[k].name
            /\ WithBaseline(arms, invocation.baseline)[k].overrides = arms[k].overrides
  BY <1>2, BaselineChosen
<1>4. own = arms \/ own = WithBaseline(arms, invocation.baseline)
  BY DEF ArmsOf, arms
<1>5. /\ DOMAIN own = DOMAIN arms
      /\ \A k \in DOMAIN arms : own[k].name = arms[k].name /\ own[k].overrides = arms[k].overrides
  BY <1>3, <1>4
<1>6. /\ DOMAIN asked = DOMAIN own
      /\ \A k \in DOMAIN own : asked[k].name = own[k].name /\ asked[k].config = config(k)
  BY DEF Requests, ArmRequest
<1> HIDE DEF own, asked
<1>7. \A k \in DOMAIN arms :
          <<config(k).model, Setting(config(k), "prompt")>> = Identity(file, arms[k])
  <2> TAKE k \in DOMAIN arms
  <2> DEFINE over == own[k].overrides
             mid == Overlay(file.config, over)
  <2>1. over = arms[k].overrides /\ config(k) = Overlay(mid, invocation.flags)
    BY <1>5
  <2>2. Identity(file, arms[k]) = <<Setting(Merged(file.config, over), "model"),
                                    Setting(Merged(file.config, over), "prompt")>>
    BY <2>1 DEF Identity
  <2> HIDE DEF over, config
  <2>3. /\ Setting(mid, "model") = Setting(Merged(file.config, over), "model")
        /\ Setting(mid, "prompt") = Setting(Merged(file.config, over), "prompt")
        /\ "model" \in DOMAIN mid
    BY Settings
  <2> HIDE DEF mid
  <2>4. /\ "model" \in DOMAIN Overlay(mid, invocation.flags)
        /\ Overlay(mid, invocation.flags)["model"] = Setting(mid, "model")
        /\ Setting(Overlay(mid, invocation.flags), "prompt") = Setting(mid, "prompt")
    BY <2>3, Settings
  <2> QED
    BY <2>1, <2>2, <2>3, <2>4
<1> QED
  BY <1>1, <1>2, <1>5, <1>6, <1>7 DEF arms, listed, asked

\* As many names as arms: no two arms share one.
LEMMA NamesDiffer ==
    ASSUME NEW arms, NEW n \in Nat, DOMAIN arms = 1..n, Cardinality(ArmNames(arms)) = n,
           NEW i \in 1..n, NEW j \in 1..n, arms[i].name = arms[j].name
    PROVE  i = j
<1> DEFINE f == [k \in 1..n |-> arms[k].name]
           T == {arms[k].name : k \in 1..n}
<1>1. f \in Surjection(1..n, T)
  BY DEF Surjection
<1>2. IsFiniteSet(1..n) /\ Cardinality(1..n) = n
  BY CountUpTo
<1>3. ArmNames(arms) = T
  BY DEF ArmNames
<1>4. f[i] = f[j]
  OBVIOUS
<1> HIDE DEF f, T
<1>5. f \in Injection(1..n, T)
  BY <1>1, <1>2, <1>3, FS_Surjection
<1> QED
  BY <1>4, <1>5 DEF Injection, IsInjective

\* The first that fits, or 0.
LEMMA FirstThatFits ==
    ASSUME NEW s, NEW n \in Nat, Len(s) = n, NEW fits
    PROVE  LET at == IF {i \in 1..n : fits[i]} # {} THEN Min({i \in 1..n : fits[i]}) ELSE 0
           IN  /\ at = 0 <=> \A i \in 1..n : ~fits[i]
               /\ at # 0 => at \in 1..n /\ fits[at]
<1> DEFINE I == {i \in 1..n : fits[i]}
<1>1. I \in SUBSET Int /\ IsFiniteSet(I)
  <2>1. I \subseteq 1..n /\ IsFiniteSet(1..n)
    BY CountUpTo
  <2> QED
    BY <2>1, FS_Subset
<1>2. I # {} => Min(I) \in I
  BY <1>1, Extremes
<1> QED
  BY <1>2

-----------------------------------------------------------------------------
(* The history *)

\* Evaluations with ids of their own.
IdsOf(es, n) ==
    /\ n \in Nat /\ Len(es) = n /\ DOMAIN es = 1..n
    /\ \A j, k \in 1..n : es[j].id = es[k].id => j = k

\* What is found by an id is the evaluation that has it.
LEMMA FoundById ==
    ASSUME NEW es, NEW n, IdsOf(es, n), NEW k \in 1..n
    PROVE  Find(es, es[k].id) = es[k]
<1> DEFINE fits == [i \in 1..n |-> es[i].id = es[k].id]
           at == SelectInSeq(es, LAMBDA e : e.id = es[k].id)
<1>1. n \in Nat /\ Len(es) = n /\ DOMAIN es = 1..n
  BY DEF IdsOf
<1>2. at = IF {i \in 1..n : fits[i]} # {} THEN Min({i \in 1..n : fits[i]}) ELSE 0
  <2>1. {i \in 1..Len(es) : es[i].id = es[k].id} = {i \in 1..n : fits[i]}
    BY <1>1
  <2> HIDE DEF fits
  <2> QED
    BY <2>1 DEF SelectInSeq
<1>3. fits[k]
  OBVIOUS
<1>4. at # 0 /\ at \in 1..n /\ fits[at]
  <2> HIDE DEF fits, at
  <2> QED
    BY <1>1, <1>2, <1>3, FirstThatFits
<1> HIDE DEF at
<1>5. es[at] = es[k]
  BY <1>4 DEF IdsOf
<1> QED
  BY <1>5 DEF at, Find

\* The history is such a list.
LEMMA HistoryIds ==
    ASSUME NEW es, HistoryOf(es)
    PROVE  IdsOf(es, Len(es))
<1>1. Len(es) \in Nat /\ DOMAIN es = 1..Len(es)
  BY LenProperties DEF HistoryOf
<1>2. Len(EvaluationIds) \in Nat /\ DOMAIN EvaluationIds = 1..Len(EvaluationIds)
  BY IdsAssumption, LenProperties
<1>3. \A k \in DOMAIN es : k \in DOMAIN EvaluationIds /\ es[k].id = EvaluationIds[k]
  BY <1>1, <1>2 DEF HistoryOf
<1> QED
  BY <1>1, <1>3, IdsAssumption DEF IdsOf

\* An arm that has run is found by its id.
LEMMA StoredArm ==
    ASSUME NEW es, HistoryOf(es), NEW k \in DOMAIN es
    PROVE  Find(es, es[k].id) = es[k]
<1>1. IdsOf(es, Len(es)) /\ k \in 1..Len(es)
  BY HistoryIds DEF IdsOf
<1> QED
  BY <1>1, FoundById

\* A longer history has what was in it, and a plan made of it stays made of it.
Extends(es, more) ==
    /\ DOMAIN es \subseteq DOMAIN more
    /\ \A k \in DOMAIN es : more[k] = es[k]

LEMMA PlanKept ==
    ASSUME NEW es, NEW more, NEW made, NEW from,
           HistoryOf(es), HistoryOf(more), Extends(es, more), PlanOf(made, from, es)
    PROVE  PlanOf(made, from, more)
<1> SUFFICES ASSUME made # Nothing
             PROVE  /\ Numbered(from.ids, Len(from.ids))
                    /\ \A k \in DOMAIN from.ids : \E j \in DOMAIN more : from.ids[k] = more[j].id
                    /\ PlanMadeOf(ComparedIn(more, from.ids), made, from)
  BY DEF PlanOf
<1>1. /\ Numbered(from.ids, Len(from.ids)) /\ PlanMadeOf(ComparedIn(es, from.ids), made, from)
      /\ \A k \in DOMAIN from.ids : \E j \in DOMAIN es : from.ids[k] = es[j].id
  BY DEF PlanOf
<1>2. \A k \in DOMAIN from.ids :
         /\ \E j \in DOMAIN more : from.ids[k] = more[j].id
         /\ Find(es, from.ids[k]) = Find(more, from.ids[k])
  <2> TAKE k \in DOMAIN from.ids
  <2>1. PICK j \in DOMAIN es : from.ids[k] = es[j].id
    BY <1>1
  <2>2. j \in DOMAIN more /\ more[j] = es[j]
    BY DEF Extends
  <2>3. Find(es, es[j].id) = es[j] /\ Find(more, more[j].id) = more[j]
    BY <2>2, StoredArm
  <2> QED
    BY <2>1, <2>2, <2>3
<1>3. ComparedIn(more, from.ids) = ComparedIn(es, from.ids)
  BY <1>2 DEF ComparedIn
<1> QED
  BY <1>1, <1>2, <1>3

-----------------------------------------------------------------------------
(* Every step keeps it *)

LEMMA PlanInitInv == PlanInit => PlanInv
<1> SUFFICES ASSUME PlanInit PROVE PlanInv
  OBVIOUS
<1>1. FilesFit
  BY FilesAssumption DEF PlanInit, FilesFit
<1>2. evaluations = <<>> /\ command = IdleCommand /\ plan = Nothing
  BY DEF PlanInit
<1>3. HistoryOf(<<>>)
  <2>1. <<>> \in Seq(ToSet(<<>>)) /\ Len(<<>>) = 0 /\ DOMAIN <<>> = {}
    OBVIOUS
  <2>2. Len(EvaluationIds) \in Nat
    BY IdsAssumption, LenProperties
  <2> QED
    BY <2>1, <2>2 DEF HistoryOf
<1>4. CommandOf(IdleCommand, <<>>)
  BY DEF CommandOf, IdleCommand
<1>5. PlanOf(Nothing, origin, <<>>)
  BY DEF PlanOf
<1> QED
  BY <1>1, <1>2, <1>3, <1>4, <1>5 DEF PlanInv

\* A list with one more.
LEMMA OneMore ==
    ASSUME NEW s, s \in Seq(ToSet(s)), NEW x
    PROVE  LET t == Append(s, x)
           IN  /\ t \in Seq(ToSet(t)) /\ Len(s) \in Nat /\ Len(t) = Len(s) + 1
               /\ DOMAIN s = 1..Len(s) /\ DOMAIN t = 1..(Len(s) + 1)
               /\ t[Len(s) + 1] = x /\ \A k \in 1..Len(s) : t[k] = s[k]
<1> DEFINE S == ToSet(s) \cup {x}
           t == Append(s, x)
           n == Len(s)
<1>1. s \in Seq(S) /\ n \in Nat /\ DOMAIN s = 1..n
  BY SeqDef, LenProperties
<1> HIDE DEF S
<1>2. x \in S
  BY DEF S
<1>3. /\ t \in Seq(S) /\ Len(t) = n + 1
      /\ t[n + 1] = x /\ \A k \in 1..n : t[k] = s[k]
  BY <1>1, <1>2, AppendProperties
<1> HIDE DEF t, n
<1>4. DOMAIN t = 1..(n + 1) /\ t \in [1..(n + 1) -> S]
  BY <1>1, <1>3, LenProperties
<1>5. t \in [1..(n + 1) -> ToSet(t)]
  BY <1>4 DEF ToSet
<1>6. t \in Seq(ToSet(t))
  BY <1>1, <1>5, SeqDef
<1> QED
  BY <1>1, <1>3, <1>4, <1>6 DEF t, n

\* A file stays one when a case is added to it.
LEMMA PromotedFits ==
    ASSUME NEW file, file = Nothing \/ FileFits(file), Promoted(file) # Nothing
    PROVE  FileFits(Promoted(file))
<1>1. CASE file = Nothing
  BY <1>1, FilesAssumption DEF Promoted
<1>2. CASE file # Nothing
  <2> DEFINE more == [file EXCEPT !.cases = Append(@, PromotedCase)]
  <2>1. FileFits(file) /\ Promoted(file) = more
    BY <1>2 DEF Promoted
  <2>2. /\ DOMAIN more = DOMAIN file
        /\ more.cases = Append(file.cases, PromotedCase)
        /\ more.arms = file.arms /\ more.matrix = file.matrix
    BY <2>1 DEF FileFits
  <2> HIDE DEF more
  <2>3. more.cases \in Seq(ToSet(more.cases))
    BY <2>1, <2>2, OneMore DEF FileFits
  <2> QED
    BY <2>1, <2>2, <2>3 DEF FileFits
<1> QED
  BY <1>1, <1>2

\* What a step leaves alone stays as it was.
LEMMA RestKept ==
    ASSUME PlanInv, FilesFit', UNCHANGED <<evaluations, command, plan, origin>>
    PROVE  PlanInv'
  BY DEF PlanInv

LEMMA FilesUntouched ==
    ASSUME FilesFit, UNCHANGED <<suiteFile, promoting>>
    PROVE  FilesFit'
  BY DEF FilesFit

\* Files are edited.
LEMMA EditsKeepInv ==
    ASSUME PlanInv,
           Edit \/ PromoteRead \/ Promote \/ (\E force \in BOOLEAN : WriteStarter(force)) \/ NextDay
    PROVE  PlanInv'
<1>0. FilesFit
  BY DEF PlanInv
<1>1. CASE Edit
  <2>1. FilesFit'
    BY <1>0, <1>1, FilesAssumption DEF Edit, FilesFit
  <2> QED
    BY <1>1, <2>1, RestKept DEF Edit
<1>2. CASE PromoteRead
  <2>1. promoting' = [read |-> suiteFile] /\ suiteFile' = suiteFile
    BY <1>2 DEF PromoteRead
  <2>2. FilesFit'
    BY <1>0, <2>1 DEF FilesFit
  <2> QED
    BY <1>2, <2>2, RestKept DEF PromoteRead
<1>3. CASE Promote
  <2>1. suiteFile' = Promoted(promoting.read) \/ suiteFile' = suiteFile
    BY <1>3 DEF Promote
  <2>2. promoting # Nothing /\ promoting' = Nothing
    BY <1>3 DEF Promote
  <2>3. promoting.read = Nothing \/ FileFits(promoting.read)
    BY <1>0, <2>2 DEF FilesFit
  <2>4. suiteFile' = Nothing \/ FileFits(suiteFile')
    BY <1>0, <2>1, <2>3, PromotedFits DEF FilesFit
  <2>5. FilesFit'
    BY <2>2, <2>4 DEF FilesFit
  <2> QED
    BY <1>3, <2>5, RestKept DEF Promote
<1>4. CASE \E force \in BOOLEAN : WriteStarter(force)
  <2>1. suiteFile' = StarterSuite /\ promoting' = promoting
    BY <1>4 DEF WriteStarter
  <2>2. FilesFit'
    BY <1>0, <2>1, FilesAssumption DEF FilesFit
  <2> QED
    BY <1>4, <2>2, RestKept DEF WriteStarter
<1>5. CASE NextDay
  BY <1>0, <1>5, FilesUntouched, RestKept DEF NextDay
<1> QED
  BY <1>1, <1>2, <1>3, <1>4, <1>5

\* A command starts, builds its requests or is interrupted.
LEMMA CommandsKeepInv ==
    ASSUME PlanInv, (\E invocation \in Accepting : Prepare(invocation)) \/ BuildRequests \/ Interrupt
    PROVE  PlanInv'
<1>0. /\ UNCHANGED <<suiteFile, promoting, evaluations, plan, origin>>
      /\ FilesFit /\ HistoryOf(evaluations)
      /\ CommandOf(command, evaluations) /\ PlanOf(plan, origin, evaluations)
  BY DEF PlanInv, Prepare, BuildRequests, Interrupt
<1>1. CommandOf(IdleCommand, evaluations)
  BY DEF CommandOf, IdleCommand
<1> SUFFICES CommandOf(command', evaluations)
  BY <1>0, FilesUntouched DEF PlanInv
<1>2. CASE \E invocation \in Accepting : Prepare(invocation)
  <2>1. PICK invocation \in Accepting : Prepare(invocation)
    BY <1>2
  <2>2. command' = [pc |-> "prepared", invocation |-> invocation, file |-> suiteFile]
    BY <2>1 DEF Prepare
  <2>3. ReadFor(invocation, suiteFile)
    BY <1>0 DEF Accepting, ReadFor, FilesFit
  <2> QED
    BY <2>2, <2>3 DEF CommandOf
<1>3. CASE BuildRequests
  <2>1. ReadFor(command.invocation, command.file)
    BY <1>0, <1>3 DEF BuildRequests, CommandOf
  <2> DEFINE next == [pc |-> "arms", invocation |-> command.invocation, file |-> command.file,
                      texts |-> promptFiles, ran |-> 0]
  <2>2. \/ command' = IdleCommand
        \/ /\ command' = next
           /\ Buildable(command.invocation, command.file, promptFiles)
    BY <1>3 DEF BuildRequests
  <2>3. ASSUME Buildable(command.invocation, command.file, promptFiles)
        PROVE  CommandOf(next, evaluations)
    <3> DEFINE asked == Requests(command.invocation, command.file, promptFiles)
    <3>1. Len(asked) \in Nat
      BY <2>1, <2>3, RequestsFit
    <3>2. Len(evaluations) \in Nat
      BY <1>0, LenProperties DEF HistoryOf
    <3> HIDE DEF asked
    <3>3. \A k \in 1..0 : Ran(evaluations[Len(evaluations) - 0 + k], asked[k])
      OBVIOUS
    <3> QED
      BY <2>1, <2>3, <3>1, <3>2, <3>3 DEF CommandOf, asked
  <2> HIDE DEF next
  <2>4. CommandOf(command', evaluations)
    BY <1>1, <2>2, <2>3
  <2> QED
    BY <2>4
<1>4. CASE Interrupt
  BY <1>1, <1>4 DEF Interrupt
<1> QED
  BY <1>2, <1>3, <1>4

\* An arm's evaluation is one that can be compared.
LEMMA EvaluationFitsRequest ==
    ASSUME NEW request, NEW outcome, NEW id,
           {"cases", "name", "bar", "config"} \subseteq DOMAIN request,
           request.cases \in Seq(ToSet(request.cases)), request.cases # <<>>
    PROVE  LET e == ArmEvaluation(request, outcome, id)
           IN  e.id = id /\ Ran(e, request) /\ EvaluationFits(e)
<1> DEFINE e == ArmEvaluation(request, outcome, id)
           lines == [k \in DOMAIN request.cases |->
                        CaseLine(request.cases[k], request.cases[k].id \in outcome.passed)]
           r == ArmResult(request, outcome)
<1>1. e.id = id /\ Ran(e, request) /\ e.result = r /\ e.status = outcome.status
  BY DEF ArmEvaluation, Ran
<1>2. ASSUME outcome.status = "completed"
      PROVE  /\ r.cases = lines /\ r.score = Nothing /\ r.cost = Nothing /\ r # NoResult
             /\ r.casesPassed = Cardinality({k \in DOMAIN lines : lines[k].passed})
  <2>1. r = [cases |-> lines, score |-> Nothing, cost |-> Nothing, latency |-> Nothing,
             casesPassed |-> Cardinality({k \in DOMAIN lines : lines[k].passed})]
    BY <1>2 DEF ArmResult
  <2> HIDE DEF r, lines
  <2>2. DOMAIN r # {}
    BY <2>1
  <2>3. r # NoResult
    BY <2>2 DEF NoResult
  <2> QED
    BY <2>1, <2>3
<1>3. /\ Len(request.cases) \in Nat \ {0}
      /\ DOMAIN lines = 1..Len(request.cases) /\ IsFiniteSet(DOMAIN lines)
  <2>1. Len(request.cases) \in Nat /\ DOMAIN request.cases = 1..Len(request.cases)
    BY LenProperties
  <2>2. Len(request.cases) # 0
    BY EmptySeq
  <2>3. IsFiniteSet(1..Len(request.cases))
    BY <2>1, CountUpTo
  <2> QED
    BY <2>1, <2>2, <2>3
<1>4. Len(lines) = Len(request.cases)
  <2> DEFINE n == Len(request.cases)
  <2>1. lines \in [1..n -> {lines[k] : k \in 1..n}]
    BY <1>3
  <2> HIDE DEF lines
  <2>2. lines \in Seq({lines[k] : k \in 1..n})
    BY <1>3, <2>1, SeqDef
  <2> QED
    BY <1>3, <2>2, LenProperties
<1> HIDE DEF lines, r, e
<1>5. Cardinality({k \in DOMAIN lines : lines[k].passed}) \in Int
  <2>1. IsFiniteSet({k \in DOMAIN lines : lines[k].passed})
    BY <1>3, FS_Subset
  <2> QED
    BY <2>1, FS_CardinalityType
<1>6. EvaluationFits(e)
  <2> SUFFICES ASSUME e.status = "completed"
               PROVE  CasesOf(e) # <<>> /\ Measured(e)
    BY DEF EvaluationFits
  <2>1. CasesOf(e) = lines /\ e.result.cases = lines
    BY <1>1, <1>2 DEF CasesOf
  <2>2. lines # <<>>
    BY <1>3
  <2>3. Measured(e)
    BY <1>1, <1>2, <1>3, <1>4, <1>5, <2>1 DEF Measured
  <2> QED
    BY <2>1, <2>2, <2>3
<1> QED
  BY <1>1, <1>6 DEF e

LEMMA RunArmKeepsInv ==
    ASSUME PlanInv, NEW outcome \in ArmResults, RunArm(outcome)
    PROVE  PlanInv'
<1> DEFINE n == Len(evaluations)
           ran == command.ran
           asked == Requests(command.invocation, command.file, command.texts)
           e == ArmEvaluation(asked[ran + 1], outcome, EvaluationIds[n + 1])
<1>1. /\ FilesFit /\ HistoryOf(evaluations)
      /\ CommandOf(command, evaluations) /\ PlanOf(plan, origin, evaluations)
  BY DEF PlanInv
<1>2. /\ evaluations' = Append(evaluations, e) /\ command' = [command EXCEPT !.ran = ran + 1]
      /\ command.pc = "arms" /\ ran < Len(asked) /\ n < Len(EvaluationIds)
      /\ UNCHANGED <<suiteFile, promoting, plan, origin>>
  BY DEF RunArm, ToRun
<1>3. /\ ReadFor(command.invocation, command.file)
      /\ {"pc", "invocation", "file", "texts", "ran"} \subseteq DOMAIN command
      /\ Buildable(command.invocation, command.file, command.texts)
      /\ ran \in Nat /\ ran <= n
      /\ \A k \in 1..ran : Ran(evaluations[n - ran + k], asked[k])
  BY <1>1, <1>2 DEF CommandOf
<1>4. /\ Len(asked) \in Nat \ {0} /\ DOMAIN asked = 1..Len(asked)
      /\ \A k \in DOMAIN asked : /\ asked[k].cases = command.file.cases
                                 /\ {"cases", "name", "bar", "config"} \subseteq DOMAIN asked[k]
  BY <1>3, RequestsFit
<1>5. e.id = EvaluationIds[n + 1] /\ Ran(e, asked[ran + 1]) /\ EvaluationFits(e)
  <2>1. ran + 1 \in DOMAIN asked
    BY <1>2, <1>3, <1>4
  <2>2. command.file.cases \in Seq(ToSet(command.file.cases)) /\ command.file.cases # <<>>
    BY <1>3 DEF ReadFor, FileFits, Accepted, CasesAccepted
  <2> HIDE DEF asked
  <2> QED
    BY <1>4, <2>1, <2>2, EvaluationFitsRequest
<1> HIDE DEF e, asked
<1>6. /\ n \in Nat /\ Len(evaluations') = n + 1 /\ evaluations' \in Seq(ToSet(evaluations'))
      /\ DOMAIN evaluations = 1..n /\ DOMAIN evaluations' = 1..(n + 1)
      /\ evaluations'[n + 1] = e /\ \A k \in 1..n : evaluations'[k] = evaluations[k]
  BY <1>1, <1>2, OneMore DEF HistoryOf
<1>7. HistoryOf(evaluations')
  <2>1. Len(EvaluationIds) \in Nat
    BY IdsAssumption, LenProperties
  <2>2. \A k \in DOMAIN evaluations' :
           evaluations'[k].id = EvaluationIds[k] /\ EvaluationFits(evaluations'[k])
    <3> TAKE k \in DOMAIN evaluations'
    <3>1. CASE k \in 1..n
      BY <1>1, <1>6, <3>1 DEF HistoryOf
    <3>2. CASE k = n + 1
      BY <1>5, <1>6, <3>2
    <3> QED
      BY <1>6, <3>1, <3>2
  <2> QED
    BY <1>2, <1>6, <2>1, <2>2 DEF HistoryOf
<1>8. CommandOf(command', evaluations')
  <2>1. /\ DOMAIN command' = DOMAIN command /\ command'.ran = ran + 1 /\ command'.pc = "arms"
        /\ command'.invocation = command.invocation /\ command'.file = command.file
        /\ command'.texts = command.texts
    BY <1>2, <1>3
  <2>2. \A k \in 1..(ran + 1) : Ran(evaluations'[Len(evaluations') - (ran + 1) + k], asked[k])
    <3> TAKE k \in 1..(ran + 1)
    <3>1. Len(evaluations') - (ran + 1) + k = n - ran + k
      BY <1>3, <1>6
    <3>2. CASE k \in 1..ran
      <4>1. n - ran + k \in 1..n
        BY <1>3, <1>6, <3>2
      <4> QED
        BY <1>3, <1>6, <3>1, <3>2, <4>1
    <3>3. CASE k = ran + 1
      <4>1. n - ran + k = n + 1
        BY <1>3, <1>6, <3>3
      <4> QED
        BY <1>5, <1>6, <3>1, <3>3, <4>1
    <3> QED
      BY <1>3, <3>2, <3>3
  <2>3. ran + 1 \in Nat /\ ran + 1 <= Len(asked) /\ ran + 1 <= Len(evaluations')
    BY <1>2, <1>3, <1>4, <1>6
  <2> QED
    BY <1>3, <2>1, <2>2, <2>3 DEF CommandOf, asked
<1>9. Extends(evaluations, evaluations')
  BY <1>6 DEF Extends
<1>10. PlanOf(plan', origin', evaluations')
  BY <1>1, <1>2, <1>7, <1>9, PlanKept
<1> QED
  BY <1>1, <1>2, <1>7, <1>8, <1>10, FilesUntouched DEF PlanInv

\* What a plan is saved with, of arms that are in the history.
LEMMA SavedPlan ==
    ASSUME NEW es, HistoryOf(es), NEW arms, NEW n, Numbered(arms, n),
           arms = [k \in 1..n |-> arms[k]], \A k \in 1..n : \E j \in DOMAIN es : arms[k] = es[j],
           NEW asked \in Requestable, NEW files, NEW invocation, NEW code,
           code = IF files.file = Nothing THEN "ok" ELSE FirstFailure(arms),
           Compare(arms, asked, Nothing).baseline # 0,
           files.all =>
               \E own \in Invocations :
                  /\ own.all /\ ReadFor(own, files.file)
                  /\ Buildable(own, files.file, files.texts)
                  /\ Len(Requests(own, files.file, files.texts)) = n
                  /\ \A k \in 1..n : Ran(arms[k], Requests(own, files.file, files.texts)[k])
    PROVE  PlanOf(BuildPlan(Compare(arms, asked, Nothing), arms, invocation.maxAge),
                  [all |-> files.all, file |-> files.file, texts |-> files.texts,
                   ids |-> [k \in DOMAIN arms |-> arms[k].id],
                   requireReady |-> invocation.requireReady,
                   exit |-> ExitOf(Compare(arms, asked, Nothing), code, invocation.requireReady)],
                  es)
<1> DEFINE comparison == Compare(arms, asked, Nothing)
           made == BuildPlan(comparison, arms, invocation.maxAge)
           ids == [k \in DOMAIN arms |-> arms[k].id]
           from == [all |-> files.all, file |-> files.file, texts |-> files.texts, ids |-> ids,
                    requireReady |-> invocation.requireReady,
                    exit |-> ExitOf(comparison, code, invocation.requireReady)]
<1>1. n \in Nat \ {0} /\ DOMAIN arms = 1..n /\ Len(arms) = n
  BY DEF Numbered
<1>2. DOMAIN ids = 1..n /\ Len(ids) = n /\ \A k \in 1..n : ids[k] = arms[k].id
  <2>1. DOMAIN ids = 1..n /\ \A k \in 1..n : ids[k] = arms[k].id
    BY <1>1
  <2>2. ids \in [1..n -> {ids[k] : k \in 1..n}]
    BY <1>1
  <2> HIDE DEF ids
  <2>3. ids \in Seq({ids[k] : k \in 1..n})
    BY <1>1, <2>2, SeqDef
  <2>4. Len(ids) = n
    BY <1>1, <2>1, <2>3, LenProperties
  <2> QED
    BY <2>1, <2>4
<1> HIDE DEF ids
<1>3. Numbered(ids, Len(ids)) /\ Numbered(arms, Len(ids))
  BY <1>1, <1>2 DEF Numbered
<1>4. \A k \in DOMAIN ids : /\ \E j \in DOMAIN es : ids[k] = es[j].id
                            /\ Find(es, ids[k]) = arms[k]
  <2> TAKE k \in DOMAIN ids
  <2>1. PICK j \in DOMAIN es : arms[k] = es[j]
    BY <1>2
  <2>2. ids[k] = es[j].id
    BY <1>2, <2>1
  <2> QED
    BY <2>1, <2>2, StoredArm
<1>5. ComparedIn(es, ids) = arms
  <2>1. ComparedIn(es, ids) = [k \in 1..n |-> arms[k]]
    BY <1>2, <1>4 DEF ComparedIn
  <2> QED
    BY <2>1
<1>6. made = PlanFor(arms[1].cases, comparison, arms, made.maxAge)
  BY DEF BuildPlan, PlanFor
<1>7. /\ from.ids = ids /\ from.all = files.all /\ from.file = files.file /\ from.texts = files.texts
      /\ from.exit = ExitOf(comparison, code, from.requireReady)
  OBVIOUS
<1> HIDE DEF made, from, comparison
<1>8. PlanMadeOf(arms, made, from)
  <2>1. Numbered(arms, Len(from.ids))
    BY <1>3, <1>7
  <2>2. \E requested \in Requestable :
          LET compared == Compare(arms, requested, Nothing)
          IN  /\ compared.baseline # 0
              /\ made = PlanFor(arms[1].cases, compared, arms, made.maxAge)
              /\ from.exit = ExitOf(compared,
                                    IF from.file = Nothing THEN "ok" ELSE FirstFailure(arms),
                                    from.requireReady)
    <3>1. /\ Compare(arms, asked, Nothing).baseline # 0
          /\ made = PlanFor(arms[1].cases, Compare(arms, asked, Nothing), arms, made.maxAge)
          /\ from.exit = ExitOf(Compare(arms, asked, Nothing),
                                IF from.file = Nothing THEN "ok" ELSE FirstFailure(arms),
                                from.requireReady)
      BY <1>6, <1>7 DEF comparison
    <3> QED
      BY <3>1
  <2>3. ASSUME from.all
        PROVE  \E own \in Invocations :
                  /\ own.all /\ ReadFor(own, from.file)
                  /\ Buildable(own, from.file, from.texts)
                  /\ Len(Requests(own, from.file, from.texts)) = Len(from.ids)
                  /\ \A k \in DOMAIN arms : Ran(arms[k], Requests(own, from.file, from.texts)[k])
    BY <1>1, <1>2, <1>7, <2>3
  <2> QED
    BY <2>1, <2>2, <2>3 DEF PlanMadeOf
<1>9. PlanOf(made, from, es)
  BY <1>3, <1>4, <1>5, <1>7, <1>8 DEF PlanOf
<1> QED
  BY <1>9 DEF made, from, comparison, ids

\* A comparison that is presented leaves the plan that was there, or its own.
LEMMA PresentKeepsPlan ==
    ASSUME HistoryOf(evaluations), PlanOf(plan, origin, evaluations), UNCHANGED evaluations,
           NEW arms, NEW n, Numbered(arms, n),
           arms = [k \in 1..n |-> arms[k]],
           \A k \in 1..n : \E j \in DOMAIN evaluations : arms[k] = evaluations[j],
           NEW asked \in Requestable, NEW files, NEW invocation, NEW code,
           code = IF files.file = Nothing THEN "ok" ELSE FirstFailure(arms),
           files.all =>
               \E own \in Invocations :
                  /\ own.all /\ ReadFor(own, files.file)
                  /\ Buildable(own, files.file, files.texts)
                  /\ Len(Requests(own, files.file, files.texts)) = n
                  /\ \A k \in 1..n : Ran(arms[k], Requests(own, files.file, files.texts)[k]),
           Present(Compare(arms, asked, Nothing), arms, invocation, code, files)
    PROVE  PlanOf(plan', origin', evaluations')
<1> DEFINE comparison == Compare(arms, asked, Nothing)
<1>1. CASE ~invocation.save \/ comparison.baseline = 0
  <2>1. UNCHANGED <<plan, origin>>
    BY <1>1 DEF Present
  <2> QED
    BY <2>1
<1>2. CASE ~(~invocation.save \/ comparison.baseline = 0)
  <2>1. /\ plan' = BuildPlan(comparison, arms, invocation.maxAge)
        /\ origin' = [all |-> files.all, file |-> files.file, texts |-> files.texts,
                      ids |-> [k \in DOMAIN arms |-> arms[k].id],
                      requireReady |-> invocation.requireReady,
                      exit |-> ExitOf(comparison, code, invocation.requireReady)]
    BY <1>2 DEF Present
  <2>2. comparison.baseline # 0
    BY <1>2
  <2> QED
    BY <2>1, <2>2, SavedPlan
<1> QED
  BY <1>1, <1>2

\* The arms of a command are the last of the history.
LEMMA LastOfHistory ==
    ASSUME NEW es, es \in Seq(ToSet(es)), NEW n \in Nat \ {0}, n <= Len(es)
    PROVE  LET made == SubSeq(es, Len(es) - n + 1, Len(es))
           IN  /\ Numbered(made, n) /\ made = [k \in 1..n |-> made[k]]
               /\ \A k \in 1..n : made[k] = es[Len(es) - n + k] /\ Len(es) - n + k \in DOMAIN es
<1> DEFINE m == Len(es)
           S == ToSet(es)
           made == SubSeq(es, m - n + 1, m)
<1>1. m \in Nat /\ DOMAIN es = 1..m
  BY LenProperties
<1> HIDE DEF m
<1>2. m - n + 1 \in 1..(m + 1) /\ m \in (m - n + 1) - 1..m /\ m - n + 1 \in 1..m
  BY <1>1 DEF m
<1> HIDE DEF S
<1>3. /\ made \in Seq(S) /\ Len(made) = m - (m - n + 1) + 1
      /\ \A k \in 1..(m - (m - n + 1) + 1) : made[k] = es[(m - n + 1) + k - 1]
  BY <1>1, <1>2, SubSeqProperties DEF m, S
<1>4. m - (m - n + 1) + 1 = n /\ \A k \in 1..n : (m - n + 1) + k - 1 = m - n + k /\ m - n + k \in 1..m
  BY <1>1, <1>2
<1> HIDE DEF made
<1>5. Len(made) = n /\ DOMAIN made = 1..n
  BY <1>3, <1>4, LenProperties
<1>6. made = [k \in 1..n |-> made[k]]
  BY <1>3, <1>5, LenProperties
<1>7. \A k \in 1..n : made[k] = es[m - n + k] /\ m - n + k \in DOMAIN es
  BY <1>1, <1>3, <1>4
<1> QED
  BY <1>5, <1>6, <1>7 DEF made, m, Numbered

LEMMA CompareArmsKeepsInv == ASSUME PlanInv, CompareArms PROVE PlanInv'
<1> DEFINE n == command.ran
           invocation == command.invocation
           made == SubSeq(evaluations, Len(evaluations) - n + 1, Len(evaluations))
           asked == Requests(invocation, command.file, command.texts)
           requested == IF invocation.all THEN Nothing ELSE invocation.baseline
           files == [all |-> invocation.all, file |-> command.file, texts |-> command.texts]
<1>1. /\ FilesFit /\ HistoryOf(evaluations)
      /\ CommandOf(command, evaluations) /\ PlanOf(plan, origin, evaluations)
  BY DEF PlanInv
<1>2. /\ command.pc = "arms" /\ n = Len(asked) /\ command' = IdleCommand
      /\ UNCHANGED <<suiteFile, promoting, evaluations>>
      /\ Present(Compare(made, requested, Nothing), made, invocation, FirstFailure(made), files)
  BY DEF CompareArms, ToRun
<1>3. /\ ReadFor(invocation, command.file) /\ Buildable(invocation, command.file, command.texts)
      /\ n \in Nat /\ n <= Len(evaluations)
      /\ \A k \in 1..n : Ran(evaluations[Len(evaluations) - n + k], asked[k])
  BY <1>1, <1>2 DEF CommandOf
<1>4. n \in Nat \ {0}
  <2>1. Len(asked) \in Nat \ {0}
    BY <1>3, RequestsFit
  <2> QED
    BY <1>2, <2>1
<1>5. /\ Numbered(made, n) /\ made = [k \in 1..n |-> made[k]]
      /\ \A k \in 1..n : /\ made[k] = evaluations[Len(evaluations) - n + k]
                         /\ Len(evaluations) - n + k \in DOMAIN evaluations
  BY <1>1, <1>3, <1>4, LastOfHistory DEF HistoryOf
<1>6. requested \in Requestable
  BY <1>3 DEF ReadFor, Requestable
<1>7. /\ files.all = invocation.all /\ files.file = command.file /\ files.texts = command.texts
      /\ files.file # Nothing
  BY <1>3 DEF ReadFor
<1> HIDE DEF made, requested, files
<1>8. \A k \in 1..n : \E j \in DOMAIN evaluations : made[k] = evaluations[j]
  BY <1>5
<1>9. files.all =>
        \E own \in Invocations :
           /\ own.all /\ ReadFor(own, files.file)
           /\ Buildable(own, files.file, files.texts)
           /\ Len(Requests(own, files.file, files.texts)) = n
           /\ \A k \in 1..n : Ran(made[k], Requests(own, files.file, files.texts)[k])
  <2> SUFFICES ASSUME files.all
               PROVE  /\ invocation \in Invocations
                      /\ invocation.all /\ ReadFor(invocation, files.file)
                      /\ Buildable(invocation, files.file, files.texts)
                      /\ Len(Requests(invocation, files.file, files.texts)) = n
                      /\ \A k \in 1..n :
                            Ran(made[k], Requests(invocation, files.file, files.texts)[k])
    OBVIOUS
  <2>1. invocation \in Invocations
    BY <1>3 DEF ReadFor
  <2>2. Len(Requests(invocation, files.file, files.texts)) = n
    BY <1>2, <1>7
  <2>3. \A k \in 1..n : Ran(made[k], Requests(invocation, files.file, files.texts)[k])
    BY <1>3, <1>5, <1>7
  <2> QED
    BY <1>3, <1>7, <2>1, <2>2, <2>3
<1>10. FirstFailure(made) = IF files.file = Nothing THEN "ok" ELSE FirstFailure(made)
  BY <1>7
<1>11. PlanOf(plan', origin', evaluations')
  BY <1>1, <1>2, <1>5, <1>6, <1>8, <1>9, <1>10, PresentKeepsPlan
<1>12. CommandOf(command', evaluations')
  BY <1>2 DEF CommandOf, IdleCommand
<1> QED
  BY <1>1, <1>2, <1>11, <1>12, FilesUntouched DEF PlanInv

LEMMA CompareStoredKeepsInv ==
    ASSUME PlanInv, NEW invocation \in Invocations,
           NEW a \in ToSet(evaluations), NEW b \in ToSet(evaluations),
           CompareStored(<<a, b>>, invocation)
    PROVE  PlanInv'
<1> DEFINE arms == <<a, b>>
           files == [all |-> FALSE, file |-> Nothing, texts |-> Nothing]
<1>1. /\ FilesFit /\ HistoryOf(evaluations)
      /\ CommandOf(command, evaluations) /\ PlanOf(plan, origin, evaluations)
  BY DEF PlanInv
<1>2. /\ UNCHANGED <<suiteFile, promoting, evaluations, command>>
      /\ Present(Compare(arms, invocation.baseline, Nothing), arms, invocation, "ok", files)
  BY DEF CompareStored
<1>3. Numbered(arms, 2) /\ arms = [k \in 1..2 |-> arms[k]]
  BY DEF Numbered
<1>4. \A k \in 1..2 : \E j \in DOMAIN evaluations : arms[k] = evaluations[j]
  <2>1. PICK i \in DOMAIN evaluations : a = evaluations[i]
    BY DEF ToSet
  <2>2. PICK j \in DOMAIN evaluations : b = evaluations[j]
    BY DEF ToSet
  <2> QED
    BY <2>1, <2>2
<1>5. files.file = Nothing /\ ~files.all /\ invocation.baseline \in Requestable
  BY DEF Requestable
<1> HIDE DEF arms, files
<1>6. PlanOf(plan', origin', evaluations')
  BY <1>1, <1>2, <1>3, <1>4, <1>5, PresentKeepsPlan
<1> QED
  BY <1>1, <1>2, <1>6, FilesUntouched DEF PlanInv

LEMMA PlanStepInv == PlanInv /\ [PlanStep]_planVars => PlanInv'
<1> SUFFICES ASSUME PlanInv, [PlanStep]_planVars PROVE PlanInv'
  OBVIOUS
<1>1. CASE (\E invocation \in Accepting : Prepare(invocation)) \/ BuildRequests \/ Interrupt
  BY <1>1, CommandsKeepInv
<1>2. CASE \E invocation \in Invocations, a, b \in ToSet(evaluations) :
              a # b /\ CompareStored(<<a, b>>, invocation)
  BY <1>2, CompareStoredKeepsInv
<1>3. CASE \E outcome \in ArmResults : RunArm(outcome)
  BY <1>3, RunArmKeepsInv
<1>4. CASE CompareArms
  BY <1>4, CompareArmsKeepsInv
<1>5. CASE Edit \/ PromoteRead \/ Promote \/ (\E force \in BOOLEAN : WriteStarter(force)) \/ NextDay
  BY <1>5, EditsKeepInv
<1>6. CASE UNCHANGED planVars
  <2>1. FilesFit'
    BY <1>6, FilesUntouched DEF PlanInv, planVars
  <2> QED
    BY <1>6, <2>1, RestKept DEF planVars
<1> QED
  BY <1>1, <1>2, <1>3, <1>4, <1>5, <1>6 DEF PlanStep

LEMMA PlanInvariant == PlanSpec => []PlanInv
<1> QED
  BY PlanInitInv, PlanStepInv, PTL DEF PlanSpec

-----------------------------------------------------------------------------
(* What the plan is, and what became of it *)

AgeFits == age \in Int /\ (plan # Nothing => plan.maxAge \in Int)

LEMMA PresentedAge ==
    ASSUME AgeFits, NEW comparison, NEW arms, NEW invocation \in Invocations, NEW code, NEW files,
           Present(comparison, arms, invocation, code, files)
    PROVE  AgeFits'
<1>1. CASE ~invocation.save \/ comparison.baseline = 0
  <2>1. UNCHANGED <<plan, age>>
    BY <1>1 DEF Present
  <2> QED
    BY <2>1 DEF AgeFits
<1>2. CASE ~(~invocation.save \/ comparison.baseline = 0)
  <2>1. age' = 0 /\ plan' = BuildPlan(comparison, arms, invocation.maxAge)
    BY <1>2 DEF Present
  <2>2. BuildPlan(comparison, arms, invocation.maxAge).maxAge = invocation.maxAge
    BY DEF BuildPlan, PlanFor
  <2>3. invocation.maxAge \in Int
    BY InvocationsAssumption
  <2> QED
    BY <2>1, <2>2, <2>3 DEF AgeFits
<1> QED
  BY <1>1, <1>2

LEMMA AgeStepInv == PlanInv /\ AgeFits /\ [PlanStep]_planVars => AgeFits'
<1> SUFFICES ASSUME PlanInv, AgeFits, [PlanStep]_planVars PROVE AgeFits'
  OBVIOUS
<1>1. CASE UNCHANGED <<plan, age>>
  BY <1>1 DEF AgeFits
<1>2. CASE \E invocation \in Invocations, a, b \in ToSet(evaluations) :
              a # b /\ CompareStored(<<a, b>>, invocation)
  <2>1. PICK invocation \in Invocations, a, b \in ToSet(evaluations) : CompareStored(<<a, b>>, invocation)
    BY <1>2
  <2>2. \E arms, comparison, code, files : Present(comparison, arms, invocation, code, files)
    BY <2>1 DEF CompareStored
  <2> QED
    BY <2>2, PresentedAge
<1>3. CASE CompareArms
  <2>1. \E arms, comparison, code, files : Present(comparison, arms, command.invocation, code, files)
    BY <1>3 DEF CompareArms
  <2>2. command.invocation \in Invocations
    BY <1>3 DEF CompareArms, PlanInv, CommandOf, ReadFor
  <2> QED
    BY <2>1, <2>2, PresentedAge
<1>4. CASE NextDay
  BY <1>4 DEF NextDay, AgeFits
<1>5. CASE \/ \E invocation \in Accepting : Prepare(invocation)
           \/ BuildRequests \/ (\E outcome \in ArmResults : RunArm(outcome)) \/ Interrupt
           \/ Edit \/ PromoteRead \/ Promote \/ (\E force \in BOOLEAN : WriteStarter(force))
  <2>1. UNCHANGED <<plan, age>>
    BY <1>5 DEF Prepare, BuildRequests, RunArm, Interrupt, Edit, PromoteRead, Promote, WriteStarter
  <2> QED
    BY <1>1, <2>1
<1>6. CASE UNCHANGED planVars
  BY <1>1, <1>6 DEF planVars
<1> QED
  BY <1>2, <1>3, <1>4, <1>5, <1>6 DEF PlanStep

LEMMA AgeInvariant == PlanSpec => []AgeFits
<1>1. PlanInit => AgeFits
  BY DEF PlanInit, AgeFits
<1> QED
  BY <1>1, AgeStepInv, PlanInvariant, PTL DEF PlanSpec

\* The arms a plan was made of.
PlanArms == ComparedIn(evaluations, origin.ids)

LEMMA ArmsOfPlan ==
    ASSUME PlanInv, plan # Nothing
    PROVE  LET n == Len(origin.ids)
           IN  /\ Numbered(PlanArms, n) /\ DOMAIN origin.ids = 1..n
               /\ PlanMadeOf(PlanArms, plan, origin)
               /\ \A k \in 1..n : /\ StoredAs(origin.ids[k]) = PlanArms[k]
                                  /\ StoredAs(PlanArms[k].id) = PlanArms[k]
                                  /\ EvaluationFits(PlanArms[k])
<1> DEFINE n == Len(origin.ids)
<1>1. HistoryOf(evaluations) /\ PlanOf(plan, origin, evaluations)
  BY DEF PlanInv
<1>2. /\ PlanMadeOf(PlanArms, plan, origin) /\ DOMAIN origin.ids = 1..n
      /\ \A k \in 1..n : \E j \in DOMAIN evaluations : origin.ids[k] = evaluations[j].id
  BY <1>1 DEF PlanOf, PlanArms, Numbered
<1>3. Numbered(PlanArms, n)
  BY <1>2 DEF PlanMadeOf
<1>4. ASSUME NEW k \in 1..n
      PROVE  /\ StoredAs(origin.ids[k]) = PlanArms[k]
             /\ StoredAs(PlanArms[k].id) = PlanArms[k]
             /\ EvaluationFits(PlanArms[k])
  <2>1. PICK j \in DOMAIN evaluations : origin.ids[k] = evaluations[j].id
    BY <1>2
  <2>2. Find(evaluations, evaluations[j].id) = evaluations[j]
    BY <1>1, StoredArm
  <2>3. PlanArms[k] = Find(evaluations, origin.ids[k])
    BY <1>2 DEF PlanArms, ComparedIn
  <2>4. PlanArms[k] = evaluations[j]
    BY <2>1, <2>2, <2>3
  <2>5. EvaluationFits(evaluations[j])
    BY <1>1 DEF HistoryOf
  <2>6. \A id : StoredAs(id) = Find(evaluations, id)
    BY DEF StoredAs, Find
  <2> QED
    BY <2>1, <2>2, <2>4, <2>5, <2>6
<1> QED
  BY <1>2, <1>3, <1>4

\* What a comparison with a baseline says.
LEMMA ComparedWithBaseline ==
    ASSUME NEW arms, NEW n, Numbered(arms, n), NEW asked, Compare(arms, asked, Nothing).baseline # 0
    PROVE  LET comparison == Compare(arms, asked, Nothing)
               base == comparison.baseline
               bar == ResolveBar(arms, base, Nothing)
           IN  /\ base \in 1..n /\ comparison.ranking = Ranking(arms)
               /\ DOMAIN comparison.verdicts = 1..n \ {base}
               /\ \A m \in 1..n \ {base} :
                     comparison.verdicts[m] = AgainstBaseline(arms[base], arms[m], bar)
<1> DEFINE comparison == Compare(arms, asked, Nothing)
           base == ResolveBaseline(arms, asked)
           bar == ResolveBar(arms, base, Nothing)
<1>1. /\ comparison.baseline = base /\ comparison.ranking = Ranking(arms)
      /\ comparison.verdicts = [k \in IF base = 0 THEN {} ELSE DOMAIN arms \ {base} |->
                                   AgainstBaseline(arms[base], arms[k], bar)]
  BY DEF Compare
<1>2. n \in Nat \ {0} /\ DOMAIN arms = 1..n /\ Len(arms) = n
  BY DEF Numbered
<1>3. base \in {0} \cup 1..n
  <2> DEFINE fits == [i \in 1..n |-> IF asked = Nothing THEN arms[i].baseline
                                     ELSE asked \in {Label(arms[i]), arms[i].id}]
  <2>1. base = IF {i \in 1..n : fits[i]} # {} THEN Min({i \in 1..n : fits[i]}) ELSE 0
    <3>1. base = SelectInSeq(arms, LAMBDA a : IF asked = Nothing THEN a.baseline
                                              ELSE asked \in {Label(a), a.id})
      BY DEF ResolveBaseline
    <3>2. {i \in 1..Len(arms) : IF asked = Nothing THEN arms[i].baseline
                                ELSE asked \in {Label(arms[i]), arms[i].id}} = {i \in 1..n : fits[i]}
      BY <1>2
    <3> HIDE DEF fits, base
    <3> QED
      BY <3>1, <3>2 DEF SelectInSeq
  <2> HIDE DEF fits, base
  <2> QED
    BY <1>2, <2>1, FirstThatFits
<1> HIDE DEF base, bar, comparison
<1> QED
  BY <1>1, <1>2, <1>3 DEF base, bar, comparison

ReadyOf(comparison) == {m \in DOMAIN comparison.verdicts : Ready(comparison, m)}

\* The fallbacks are the ready candidates, as many as there are.
LEMMA FallbacksAreReady ==
    ASSUME NEW arms, NEW n, Numbered(arms, n), \A k \in 1..n : EvaluationFits(arms[k]),
           NEW asked, Compare(arms, asked, Nothing).baseline # 0, NEW cases, NEW maxAge
    PROVE  LET comparison == Compare(arms, asked, Nothing)
               made == PlanFor(cases, comparison, arms, maxAge)
               base == comparison.baseline
               ready == ReadyOf(comparison)
           IN  /\ ready \subseteq 1..n \ {base} /\ Len(made.fallbacks) = Cardinality(ready)
               /\ \A i \in DOMAIN made.fallbacks : \E m \in ready : made.fallbacks[i] = Pin(arms[m])
<1> DEFINE comparison == Compare(arms, asked, Nothing)
           made == PlanFor(cases, comparison, arms, maxAge)
           base == comparison.baseline
           ready == ReadyOf(comparison)
           bar == ResolveBar(arms, base, Nothing)
           R == Ranked(arms)
           N == Cardinality(R)
           s == Ranking(arms)
           kept == Keep(s, ready)
<1>1. n \in Nat \ {0} /\ DOMAIN arms = 1..n
  BY DEF Numbered
<1>2. /\ base \in 1..n /\ comparison.ranking = s /\ DOMAIN comparison.verdicts = 1..n \ {base}
      /\ \A m \in 1..n \ {base} : comparison.verdicts[m] = AgainstBaseline(arms[base], arms[m], bar)
  BY ComparedWithBaseline
<1>3. made.fallbacks = [i \in DOMAIN kept |-> Pin(arms[kept[i]])]
  <2>1. made.fallbacks = LET r == Keep(comparison.ranking, ready) IN [i \in DOMAIN r |-> Pin(arms[r[i]])]
    BY DEF PlanFor, ReadyOf
  <2> HIDE DEF made, ready, comparison
  <2> QED
    BY <1>2, <2>1
<1>4. ready \subseteq 1..n \ {base} /\ \A m \in ready : m \in R
  <2>1. ready \subseteq 1..n \ {base}
    BY <1>2 DEF ReadyOf
  <2>2. ASSUME NEW m \in ready PROVE m \in R
    <3> DEFINE verdict == AgainstBaseline(arms[base], arms[m], bar)
    <3>1. verdict # Nothing /\ verdict.status = "ready" /\ m \in 1..n
      <4>1. comparison.verdicts[m] # Nothing /\ comparison.verdicts[m].status = "ready"
        BY DEF Ready, ReadyOf
      <4> HIDE DEF comparison, bar, base
      <4> QED
        BY <1>2, <2>1, <4>1
    <3>2. arms[m].status = "completed"
      <4>1. \E paired, critical, latency, cost :
               verdict = Assess(paired, bar, arms[m].status = "completed", critical, latency, cost)
        BY <3>1 DEF AgainstBaseline
      <4> HIDE DEF verdict, bar, base, comparison
      <4>2. PICK paired, critical, latency, cost :
               verdict = Assess(paired, bar, arms[m].status = "completed", critical, latency, cost)
        BY <4>1
      <4>3. Assess(paired, bar, arms[m].status = "completed", critical, latency, cost).status = "ready"
        BY <3>1, <4>2
      <4> QED
        BY <4>3 DEF Assess
    <3> QED
      BY <1>1, <3>1, <3>2 DEF Ranked, EvaluationFits
  <2> HIDE DEF ready
  <2> QED
    BY <2>1, <2>2
<1>5. Field(arms)
  <2>1. R \subseteq 1..n
    BY <1>1 DEF Ranked
  <2>2. IsFiniteSet(R)
    BY <1>1, <2>1, CountUpTo, FS_Subset
  <2>3. \A k \in R : Measured(arms[k])
    BY <1>1, <2>1 DEF Ranked, EvaluationFits
  <2> QED
    BY <2>1, <2>2, <2>3 DEF Field
<1>6. /\ N \in Nat /\ s \in [1..N -> R]
      /\ \A i, j \in 1..N : i < j => <<s[i], s[j]>> \in Ahead(arms)
      /\ \A x \in R : \E i \in 1..N : s[i] = x
  BY <1>5, AheadOrders, SortedOrders DEF Field, Ranking
<1>7. \A i, j \in 1..N : s[i] = s[j] => i = j
  <2>1. \A x \in R : <<x, x>> \notin Ahead(arms)
    BY <1>5, AheadOrders DEF Orders
  <2> HIDE DEF N, s, R
  <2> TAKE i \in 1..N, j \in 1..N
  <2>2. i \in Int /\ j \in Int /\ s[i] \in R
    BY <1>6
  <2>3. i < j => s[i] # s[j]
    BY <1>6, <2>1, <2>2
  <2>4. j < i => s[i] # s[j]
    BY <1>6, <2>1, <2>2
  <2> QED
    BY <2>2, <2>3, <2>4
<1> HIDE DEF R, N, s, ready
<1>8. PICK k \in Nat : \E at \in [1..k -> 1..N] : KeptAt(s, N, ready, k, at)
  BY <1>6, KeepsInOrder
<1>81. PICK at \in [1..k -> 1..N] : KeptAt(s, N, ready, k, at)
  BY <1>8
<1>9. /\ DOMAIN kept = 1..k
      /\ \A i \in 1..k : kept[i] = s[at[i]] /\ kept[i] \in ready
      /\ \A i, j \in 1..k : i < j => at[i] < at[j]
      /\ \A i \in 1..N : s[i] \in ready => \E j \in 1..k : at[j] = i
  BY <1>81 DEF KeptAt
<1> HIDE DEF kept
<1>10. kept \in Bijection(1..k, ready)
  <2>1. kept = [i \in 1..k |-> s[at[i]]]
    BY <1>81 DEF KeptAt, Keep, kept
  <2>2. kept \in [1..k -> ready]
    BY <1>9, <2>1
  <2>3. \A i, j \in 1..k : kept[i] = kept[j] => i = j
    <3> TAKE i \in 1..k, j \in 1..k
    <3>1. at[i] \in 1..N /\ at[j] \in 1..N /\ i \in Int /\ j \in Int
      BY <1>81
    <3>2. kept[i] = kept[j] => at[i] = at[j]
      BY <1>7, <1>9, <3>1
    <3>3. at[i] \in Int /\ at[j] \in Int
      BY <3>1
    <3> QED
      BY <1>9, <3>1, <3>2, <3>3
  <2>4. \A m \in ready : \E i \in 1..k : kept[i] = m
    BY <1>4, <1>6, <1>9
  <2> QED
    BY <2>2, <2>3, <2>4 DEF Bijection, Injection, Surjection, IsInjective
<1>11. Cardinality(ready) = k
  <2>1. IsFiniteSet(1..k) /\ Cardinality(1..k) = k
    BY CountUpTo
  <2>2. ExistsBijection(1..k, ready)
    BY <1>10 DEF ExistsBijection
  <2> QED
    BY <2>1, <2>2, FS_Bijection
<1>12. Len(made.fallbacks) = k /\ DOMAIN made.fallbacks = 1..k
       /\ \A i \in 1..k : made.fallbacks[i] = Pin(arms[kept[i]])
  <2> DEFINE fallbacks == [i \in 1..k |-> Pin(arms[kept[i]])]
  <2>1. made.fallbacks = fallbacks
    BY <1>3, <1>9
  <2>2. fallbacks \in [1..k -> {fallbacks[i] : i \in 1..k}]
    OBVIOUS
  <2>3. DOMAIN fallbacks = 1..k /\ \A i \in 1..k : fallbacks[i] = Pin(arms[kept[i]])
    OBVIOUS
  <2> HIDE DEF fallbacks, made
  <2>4. fallbacks \in Seq({fallbacks[i] : i \in 1..k})
    BY <2>2, SeqDef
  <2>5. Len(fallbacks) = k
    BY <2>3, <2>4, LenProperties
  <2> QED
    BY <2>1, <2>3, <2>5
<1> HIDE DEF made
<1>13. \A i \in DOMAIN made.fallbacks : \E m \in ready : made.fallbacks[i] = Pin(arms[m])
  BY <1>9, <1>12
<1> QED
  BY <1>4, <1>11, <1>12, <1>13 DEF made, ready

-----------------------------------------------------------------------------
(* Checking a plan *)

\* What a check that passes has seen, and what makes one pass.
Current(file, texts) ==
    /\ file # Nothing /\ age <= plan.maxAge
    /\ file.cases = plan.cases /\ BarOf(file) = plan.bar
    /\ Declares(file) => \A entry \in Pinned(plan) : ~ArmChanged(entry, file, Expand(file, texts))

LEMMA CheckSays ==
    ASSUME AgeFits, plan # Nothing
    PROVE  CheckExit = "ok" <=>
              /\ Current(suiteFile, promptFiles)
              /\ Accepted(suiteFile, suiteFile.config) /\ Usable(suiteFile, promptFiles)
<1> DEFINE when(holds, code, stale) == IF holds THEN {<<code, stale>>} ELSE {}
           changed == \E entry \in Pinned(plan) :
                         ArmChanged(entry, suiteFile, Expand(suiteFile, promptFiles))
           old == age > plan.maxAge
           none == plan.fallbacks = <<>>
           other == suiteFile.cases # plan.cases
           bar == BarOf(suiteFile) # plan.bar
           found == Findings(plan, suiteFile, promptFiles)
           stale == \E f \in found : f[2]
<1>1. found = when(old, "expired", TRUE) \cup when(none, "no_fallback", FALSE)
              \cup IF suiteFile = Nothing THEN {<<"unverifiable", TRUE>>}
                   ELSE when(other, "suite_changed", TRUE) \cup when(bar, "bar_changed", TRUE)
                        \cup IF ~Declares(suiteFile) THEN {<<"unverifiable", FALSE>>}
                             ELSE when(changed, "arm_changed", TRUE)
  BY DEF Findings
<1>2. old <=> ~(age <= plan.maxAge)
  BY DEF AgeFits
<1>3. Current(suiteFile, promptFiles) <=>
        /\ suiteFile # Nothing /\ ~old /\ ~other /\ ~bar
        /\ Declares(suiteFile) => ~changed
  BY <1>2 DEF Current
<1> HIDE DEF changed, old, none, other, bar, found
<1>4. \A f \in found : \/ f = <<"expired", TRUE>> /\ old
                       \/ f = <<"no_fallback", FALSE>>
                       \/ f = <<"unverifiable", TRUE>> /\ suiteFile = Nothing
                       \/ f = <<"suite_changed", TRUE>> /\ suiteFile # Nothing /\ other
                       \/ f = <<"bar_changed", TRUE>> /\ suiteFile # Nothing /\ bar
                       \/ f = <<"unverifiable", FALSE>>
                       \/ f = <<"arm_changed", TRUE>> /\ suiteFile # Nothing /\ Declares(suiteFile) /\ changed
  BY <1>1
<1>5. /\ old => <<"expired", TRUE>> \in found
      /\ suiteFile = Nothing => <<"unverifiable", TRUE>> \in found
      /\ suiteFile # Nothing /\ other => <<"suite_changed", TRUE>> \in found
      /\ suiteFile # Nothing /\ bar => <<"bar_changed", TRUE>> \in found
      /\ suiteFile # Nothing /\ Declares(suiteFile) /\ changed => <<"arm_changed", TRUE>> \in found
  BY <1>1
<1>6. stale <=> ~Current(suiteFile, promptFiles)
  <2>1. ASSUME Current(suiteFile, promptFiles) PROVE ~stale
    <3>1. \A f \in found : f = <<"no_fallback", FALSE>> \/ f = <<"unverifiable", FALSE>>
      BY <1>3, <1>4, <2>1
    <3>2. <<"no_fallback", FALSE>>[2] = FALSE /\ <<"unverifiable", FALSE>>[2] = FALSE
      OBVIOUS
    <3> QED
      BY <3>1, <3>2
  <2>2. ASSUME ~Current(suiteFile, promptFiles) PROVE stale
    <3>1. \E code : <<code, TRUE>> \in found
      BY <1>3, <1>5, <2>2
    <3>2. PICK code : <<code, TRUE>> \in found
      BY <3>1
    <3>3. <<code, TRUE>>[2]
      OBVIOUS
    <3> QED
      BY <3>2, <3>3
  <2> QED
    BY <2>1, <2>2
<1>7. CheckExit = IF suiteFile # Nothing /\ ~(Accepted(suiteFile, suiteFile.config)
                                              /\ Usable(suiteFile, promptFiles)) THEN "failed"
                  ELSE IF stale THEN "gate" ELSE "ok"
  BY DEF CheckExit, found
<1> HIDE DEF stale
<1> QED
  BY <1>3, <1>6, <1>7

\* Every arm of a file has one request, of its name.
LEMMA RunsOne ==
    ASSUME suiteFile # Nothing, FileFits(suiteFile), Accepted(suiteFile, suiteFile.config),
           Declares(suiteFile), Usable(suiteFile, promptFiles),
           NEW label, NEW identity,
           NEW k \in DOMAIN Expand(suiteFile, promptFiles),
           Expand(suiteFile, promptFiles)[k].name = label,
           Identity(suiteFile, Expand(suiteFile, promptFiles)[k]) = identity
    PROVE  RunsNow(label) = {identity}
<1> DEFINE asking == [all |-> TRUE, baseline |-> Nothing, flags |-> NoAxes]
           asked == Requests(asking, suiteFile, promptFiles)
           arms == Expand(suiteFile, promptFiles)
           listed == Listed(suiteFile, promptFiles)
           n == Len(listed)
           runs(m) == <<asked[m].config.model, Setting(asked[m].config, "prompt")>>
<1>1. asking.all /\ asking.flags = NoAxes /\ DOMAIN NoAxes = {}
  BY DEF NoAxes
<1>2. "model" \in DOMAIN suiteFile.config
  BY DEF Accepted, Setting
<1>3. /\ DOMAIN asked = DOMAIN arms
      /\ \A m \in DOMAIN arms : /\ arms[m].name = listed[m].name
                                /\ asked[m].name = arms[m].name
                                /\ runs(m) = Identity(suiteFile, arms[m])
  <2> HIDE DEF asking
  <2>1. "model" \notin DOMAIN asking.flags /\ "prompt" \notin DOMAIN asking.flags
    BY <1>1
  <2>2. /\ DOMAIN asked = DOMAIN arms
        /\ \A m \in DOMAIN arms :
              /\ arms[m].name = listed[m].name
              /\ asked[m].name = arms[m].name /\ arms[m].name # Nothing
              /\ <<asked[m].config.model, Setting(asked[m].config, "prompt")>>
                     = Identity(suiteFile, arms[m])
    BY <1>1, <1>2, <2>1, DeclaredRequest
  <2> QED
    BY <2>2
<1>4. n \in Nat \ {0} /\ DOMAIN listed = 1..n /\ DOMAIN arms = 1..n
  <2>1. /\ n \in Nat \ {0} /\ DOMAIN listed = 1..n
        /\ \A m \in DOMAIN listed : {"name", "overrides", "baseline"} \subseteq DOMAIN listed[m]
    BY ListedArms
  <2>2. DOMAIN arms = DOMAIN listed
    BY <2>1, BaselineChosen DEF Expand
  <2> QED
    BY <2>1, <2>2
<1>5. Cardinality(ArmNames(listed)) = n
  BY DEF Usable
<1>6. RunsNow(label) = {runs(m) : m \in {i \in DOMAIN asked : asked[i].name = label}}
  BY DEF RunsNow
<1> HIDE DEF asked, arms, listed, n, asking
<1>7. \A m \in DOMAIN asked : asked[m].name = label <=> m = k
  <2> TAKE m \in DOMAIN asked
  <2>1. m \in 1..n /\ k \in 1..n /\ asked[m].name = listed[m].name /\ listed[k].name = label
    BY <1>3, <1>4 DEF arms
  <2>2. listed[m].name = listed[k].name => m = k
    BY <1>4, <1>5, <2>1, NamesDiffer
  <2> QED
    BY <2>1, <2>2
<1>8. {i \in DOMAIN asked : asked[i].name = label} = {k}
  BY <1>3, <1>4, <1>7 DEF arms
<1>9. runs(k) = identity
  BY <1>3 DEF arms
<1> HIDE DEF runs
<1> QED
  BY <1>6, <1>8, <1>9

\* What a plan's parts are, of the arms it was made of.
LEMMA PlanParts ==
    ASSUME PlanInv, plan # Nothing
    PROVE  LET n == Len(origin.ids)
           IN  \E base \in 1..n :
                  /\ plan.cases = PlanArms[1].cases
                  /\ plan.bar = ResolveBar(PlanArms, base, Nothing)
                  /\ plan.baseline = Pin(PlanArms[base])
                  /\ \A pin \in ToSet(plan.fallbacks) :
                        \E m \in 1..n :
                           /\ pin = Pin(PlanArms[m])
                           /\ AgainstBaseline(PlanArms[base], PlanArms[m], plan.bar).status = "ready"
<1> DEFINE n == Len(origin.ids)
           arms == PlanArms
<1>1. /\ Numbered(arms, n) /\ PlanMadeOf(arms, plan, origin)
      /\ \A k \in 1..n : EvaluationFits(arms[k])
  BY ArmsOfPlan
<1> HIDE DEF n, arms
<1>2. PICK asked \in Requestable :
         /\ Compare(arms, asked, Nothing).baseline # 0
         /\ plan = PlanFor(arms[1].cases, Compare(arms, asked, Nothing), arms, plan.maxAge)
  BY <1>1 DEF PlanMadeOf
<1> DEFINE comparison == Compare(arms, asked, Nothing)
           base == comparison.baseline
           ready == ReadyOf(comparison)
           made == PlanFor(arms[1].cases, comparison, arms, plan.maxAge)
<1>3. /\ base \in 1..n /\ DOMAIN comparison.verdicts = 1..n \ {base}
      /\ \A m \in 1..n \ {base} :
            comparison.verdicts[m] = AgainstBaseline(arms[base], arms[m], ResolveBar(arms, base, Nothing))
  BY <1>1, <1>2, ComparedWithBaseline
<1>4. /\ ready \subseteq 1..n \ {base}
      /\ \A i \in DOMAIN made.fallbacks : \E m \in ready : made.fallbacks[i] = Pin(arms[m])
  BY <1>1, <1>2, FallbacksAreReady
<1>5. /\ made.cases = arms[1].cases /\ made.bar = ResolveBar(arms, base, Nothing)
      /\ made.baseline = Pin(arms[base])
  BY DEF PlanFor
<1>6. plan = made
  BY <1>2
<1> HIDE DEF made, base, comparison
<1>7. \A m \in ready : comparison.verdicts[m].status = "ready"
  BY DEF Ready, ReadyOf
<1>8. \A pin \in ToSet(plan.fallbacks) :
         \E m \in 1..n : /\ pin = Pin(arms[m])
                         /\ AgainstBaseline(arms[base], arms[m], plan.bar).status = "ready"
  <2> TAKE pin \in ToSet(plan.fallbacks)
  <2>1. PICK m \in ready : pin = Pin(arms[m])
    BY <1>4, <1>6 DEF ToSet
  <2>2. m \in 1..n \ {base} /\ comparison.verdicts[m].status = "ready"
    BY <1>4, <1>7
  <2> HIDE DEF ready
  <2>3. AgainstBaseline(arms[base], arms[m], plan.bar) = comparison.verdicts[m]
    BY <1>3, <1>5, <1>6, <2>2
  <2> QED
    BY <2>1, <2>2, <2>3
<1> QED
  BY <1>3, <1>5, <1>6, <1>8 DEF n, arms

-----------------------------------------------------------------------------
(* The plan is trusted *)

LEMMA TrustedPlan == ASSUME PlanInv, AgeFits PROVE TrustedPlanHolds
<1> SUFFICES ASSUME plan # Nothing, OneSuite, CheckExit = "ok"
             PROVE  /\ age <= plan.maxAge
                    /\ \A pin \in ToSet(plan.fallbacks) :
                          LET ran == StoredAs(pin.evaluation)
                          IN  /\ ran.cases = suiteFile.cases
                              /\ AgainstBaseline(StoredAs(plan.baseline.evaluation), ran,
                                                 BarOf(suiteFile)).status = "ready"
                              /\ Declares(suiteFile) => RunsNow(pin.label) = {<<ran.model, ran.prompt>>}
  BY DEF TrustedPlanHolds
<1> DEFINE n == Len(origin.ids)
           arms == PlanArms
<1>1. /\ Current(suiteFile, promptFiles)
      /\ Accepted(suiteFile, suiteFile.config) /\ Usable(suiteFile, promptFiles)
  BY CheckSays
<1>2. /\ suiteFile # Nothing /\ age <= plan.maxAge
      /\ suiteFile.cases = plan.cases /\ BarOf(suiteFile) = plan.bar
      /\ Declares(suiteFile) => \A entry \in Pinned(plan) :
                                   ~ArmChanged(entry, suiteFile, Expand(suiteFile, promptFiles))
  BY <1>1 DEF Current
<1>3. /\ n \in Nat \ {0} /\ DOMAIN origin.ids = 1..n
      /\ \A k \in 1..n : /\ StoredAs(origin.ids[k]) = arms[k]
                         /\ StoredAs(arms[k].id) = arms[k]
  BY ArmsOfPlan DEF Numbered
<1>4. PICK base \in 1..n :
         /\ plan.cases = arms[1].cases /\ plan.baseline = Pin(arms[base])
         /\ \A pin \in ToSet(plan.fallbacks) :
               \E m \in 1..n :
                  /\ pin = Pin(arms[m])
                  /\ AgainstBaseline(arms[base], arms[m], plan.bar).status = "ready"
  BY PlanParts
<1>5. \A k \in 1..n : arms[k].cases = suiteFile.cases
  <2>1. \A k \in 1..n : arms[k].cases = arms[1].cases
    BY <1>3 DEF OneSuite
  <2> QED
    BY <1>2, <1>4, <2>1
<1>6. FileFits(suiteFile)
  BY <1>2 DEF PlanInv, FilesFit
<1>7. StoredAs(plan.baseline.evaluation) = arms[base]
  <2>1. plan.baseline.evaluation = arms[base].id
    BY <1>4 DEF Pin
  <2> QED
    BY <1>3, <2>1
<1> HIDE DEF arms, n
<1>8. ASSUME NEW pin \in ToSet(plan.fallbacks)
      PROVE  LET ran == StoredAs(pin.evaluation)
             IN  /\ ran.cases = suiteFile.cases
                 /\ AgainstBaseline(StoredAs(plan.baseline.evaluation), ran,
                                    BarOf(suiteFile)).status = "ready"
                 /\ Declares(suiteFile) => RunsNow(pin.label) = {<<ran.model, ran.prompt>>}
  <2>1. PICK m \in 1..n :
           /\ pin = Pin(arms[m])
           /\ AgainstBaseline(arms[base], arms[m], plan.bar).status = "ready"
    BY <1>4
  <2>2. /\ pin.evaluation = arms[m].id /\ pin.model = arms[m].model /\ pin.prompt = arms[m].prompt
    BY <2>1 DEF Pin
  <2>3. StoredAs(pin.evaluation) = arms[m]
    BY <1>3, <2>2
  <2>4. ASSUME Declares(suiteFile)
        PROVE  RunsNow(pin.label) = {<<arms[m].model, arms[m].prompt>>}
    <3> DEFINE declared == Expand(suiteFile, promptFiles)
    <3>1. ~ArmChanged(pin, suiteFile, declared)
      BY <1>2, <2>4 DEF Pinned
    <3>2. PICK k \in DOMAIN declared : /\ declared[k].name = pin.label
                                       /\ Identity(suiteFile, declared[k]) = <<pin.model, pin.prompt>>
      BY <3>1 DEF ArmChanged
    <3>3. RunsNow(pin.label) = {<<pin.model, pin.prompt>>}
      BY <1>1, <1>2, <1>6, <2>4, <3>2, RunsOne
    <3> QED
      BY <2>2, <3>3
  <2> QED
    BY <1>2, <1>5, <1>7, <2>1, <2>3, <2>4
<1> QED
  BY <1>2, <1>8

\* The bar of arms that all state the same one.
LEMMA OneBar ==
    ASSUME NEW arms, NEW n, Numbered(arms, n), NEW base \in 1..n, NEW bar,
           \A k \in 1..n : arms[k].bar = bar
    PROVE  ResolveBar(arms, base, Nothing) = IF bar = Nothing THEN DefaultBar ELSE bar
<1> DEFINE S == {arms[k] : k \in 1..n}
           ordered == <<arms[base]>> \o arms
           first == SelectInSeq(ordered, LAMBDA a : a.bar # Nothing)
<1>1. n \in Nat \ {0} /\ DOMAIN arms = 1..n /\ Len(arms) = n
  BY DEF Numbered
<1>2. Len(ordered) = n + 1 /\ \A i \in 1..(n + 1) : ordered[i].bar = bar
  <2>1. /\ \A i \in 1..(n + 1) : ordered[i] = IF i = 1 THEN arms[base] ELSE arms[i - 1]
        /\ Len(ordered) = n + 1
    BY <1>1
  <2> HIDE DEF ordered
  <2>2. \A i \in 1..(n + 1) : i = 1 \/ i - 1 \in 1..n
    BY <1>1
  <2> QED
    BY <2>1, <2>2
<1>3. ResolveBar(arms, base, Nothing) = IF first # 0 THEN ordered[first].bar ELSE DefaultBar
  <2>1. base # 0
    BY <1>1
  <2> QED
    BY <2>1 DEF ResolveBar
<1> HIDE DEF ordered
<1>4. /\ first = 0 <=> \A i \in 1..(n + 1) : ~(ordered[i].bar # Nothing)
      /\ first # 0 => first \in 1..(n + 1)
  <2> DEFINE fits == [i \in 1..(n + 1) |-> ordered[i].bar # Nothing]
  <2>1. {i \in 1..Len(ordered) : ordered[i].bar # Nothing} = {i \in 1..(n + 1) : fits[i]}
    BY <1>2
  <2>2. \A i \in 1..(n + 1) : fits[i] <=> ordered[i].bar # Nothing
    OBVIOUS
  <2> HIDE DEF fits
  <2>3. first = IF {i \in 1..(n + 1) : fits[i]} # {} THEN Min({i \in 1..(n + 1) : fits[i]}) ELSE 0
    BY <2>1 DEF SelectInSeq
  <2> HIDE DEF first
  <2>4. n + 1 \in Nat /\ Len(ordered) = n + 1
    BY <1>1, <1>2
  <2> QED
    BY <2>2, <2>3, <2>4, FirstThatFits
<1> HIDE DEF first
<1>5. 1 \in 1..(n + 1)
  BY <1>1
<1> QED
  BY <1>2, <1>3, <1>4, <1>5

LEMMA FreshPlan == ASSUME PlanInv, AgeFits PROVE FreshPlanIsCurrent
<1> SUFFICES ASSUME plan # Nothing, origin.all, suiteFile = origin.file, promptFiles = origin.texts,
                    age <= plan.maxAge
             PROVE  CheckExit = "ok"
  BY DEF FreshPlanIsCurrent
<1> DEFINE n == Len(origin.ids)
           arms == PlanArms
           declared == Expand(suiteFile, promptFiles)
           listed == Listed(suiteFile, promptFiles)
<1>1. Numbered(arms, n) /\ n \in Nat \ {0} /\ DOMAIN arms = 1..n /\ PlanMadeOf(arms, plan, origin)
  BY ArmsOfPlan DEF Numbered
<1>2. PICK own \in Invocations :
         /\ own.all /\ ReadFor(own, suiteFile)
         /\ Buildable(own, suiteFile, promptFiles)
         /\ Len(Requests(own, suiteFile, promptFiles)) = n
         /\ \A k \in DOMAIN arms : Ran(arms[k], Requests(own, suiteFile, promptFiles)[k])
  BY <1>1 DEF PlanMadeOf
<1> DEFINE asked == Requests(own, suiteFile, promptFiles)
<1>3. /\ suiteFile # Nothing /\ FileFits(suiteFile)
      /\ Accepted(suiteFile, Overlay(suiteFile.config, own.flags))
      /\ Declares(suiteFile) /\ Usable(suiteFile, promptFiles)
      /\ "model" \notin DOMAIN own.flags /\ "prompt" \notin DOMAIN own.flags
  BY <1>2 DEF ReadFor, Buildable, Invocable
<1>4. Accepted(suiteFile, suiteFile.config) /\ "model" \in DOMAIN suiteFile.config
  <2> DEFINE config == suiteFile.config
             over == Overlay(config, own.flags)
  <2>1. /\ Setting(over, "model") = Setting(config, "model")
        /\ "model" \in DOMAIN over <=> "model" \in DOMAIN config
        /\ "model" \in DOMAIN over => over.model = Setting(config, "model")
    BY <1>3, Settings
  <2> HIDE DEF over, config
  <2>2. Setting(over, "model") # Nothing
    BY <1>3 DEF Accepted, over, config
  <2>3. "model" \in DOMAIN config /\ "model" \in DOMAIN over /\ config.model = over.model
    BY <2>1, <2>2 DEF Setting
  <2>4. Setting(config, "model") # Nothing
    BY <2>1, <2>2
  <2> QED
    BY <1>3, <2>3, <2>4 DEF Accepted, over, config
<1>5. /\ DOMAIN asked = 1..n
      /\ \A k \in 1..n : asked[k].cases = suiteFile.cases /\ asked[k].bar = suiteFile.bar
  BY <1>2, RequestsFit
<1>6. /\ DOMAIN asked = DOMAIN declared
      /\ \A k \in DOMAIN declared :
            /\ declared[k].name = listed[k].name
            /\ asked[k].name = declared[k].name /\ declared[k].name # Nothing
            /\ <<asked[k].config.model, Setting(asked[k].config, "prompt")>>
                   = Identity(suiteFile, declared[k])
  BY <1>2, <1>3, <1>4, DeclaredRequest
<1>7. \A k \in 1..n :
         /\ arms[k].cases = asked[k].cases /\ arms[k].name = asked[k].name /\ arms[k].bar = asked[k].bar
         /\ arms[k].model = asked[k].config.model /\ arms[k].prompt = Setting(asked[k].config, "prompt")
  BY <1>1, <1>2 DEF Ran
<1> HIDE DEF arms, declared, listed, asked, n
<1>8. PICK base \in 1..n :
         /\ plan.cases = arms[1].cases /\ plan.baseline = Pin(arms[base])
         /\ plan.bar = ResolveBar(arms, base, Nothing)
         /\ \A pin \in ToSet(plan.fallbacks) : \E m \in 1..n : pin = Pin(arms[m])
  BY PlanParts DEF arms, n
<1>9. suiteFile.cases = plan.cases
  BY <1>1, <1>5, <1>7, <1>8
<1>10. BarOf(suiteFile) = plan.bar
  <2>1. \A k \in 1..n : arms[k].bar = suiteFile.bar
    BY <1>5, <1>7
  <2>2. ResolveBar(arms, base, Nothing) = IF suiteFile.bar = Nothing THEN DefaultBar ELSE suiteFile.bar
    <3> DEFINE bar == suiteFile.bar
    <3>1. \A k \in 1..n : arms[k].bar = bar
      BY <2>1
    <3> HIDE DEF bar
    <3>2. ResolveBar(arms, base, Nothing) = IF bar = Nothing THEN DefaultBar ELSE bar
      <4>1. Numbered(arms, n) /\ base \in 1..n
        BY <1>1
      <4> QED
        BY <3>1, <4>1, OneBar
    <3> QED
      BY <3>2 DEF bar
  <2> QED
    BY <1>8, <2>2 DEF BarOf
<1>11. \A entry \in Pinned(plan) : ~ArmChanged(entry, suiteFile, declared)
  <2> TAKE entry \in Pinned(plan)
  <2>1. PICK m \in 1..n : entry = Pin(arms[m])
    BY <1>8 DEF Pinned
  <2>2. arms[m].name = declared[m].name /\ declared[m].name # Nothing /\ m \in DOMAIN declared
    BY <1>5, <1>6, <1>7
  <2>3. entry.label = declared[m].name /\ entry.model = arms[m].model /\ entry.prompt = arms[m].prompt
    BY <2>1, <2>2 DEF Pin, Label
  <2>4. Identity(suiteFile, declared[m]) = <<entry.model, entry.prompt>>
    BY <1>6, <1>7, <2>2, <2>3
  <2> QED
    BY <2>2, <2>3, <2>4 DEF ArmChanged
<1>12. Current(suiteFile, promptFiles)
  BY <1>3, <1>9, <1>10, <1>11 DEF Current, declared
<1> QED
  BY <1>3, <1>4, <1>12, CheckSays

LEMMA HonestExit == ASSUME PlanInv PROVE RequireReadyIsHonest
<1> SUFFICES ASSUME plan # Nothing, origin.requireReady
             PROVE  origin.exit = "ok" <=>
                       /\ Len(plan.fallbacks) = Len(origin.ids) - 1
                       /\ origin.file # Nothing =>
                             \A k \in DOMAIN origin.ids : StoredAs(origin.ids[k]).status = "completed"
  BY DEF RequireReadyIsHonest
<1> DEFINE n == Len(origin.ids)
           arms == PlanArms
<1>1. /\ Numbered(arms, n) /\ n \in Nat \ {0} /\ DOMAIN arms = 1..n /\ Len(arms) = n
      /\ DOMAIN origin.ids = 1..n /\ PlanMadeOf(arms, plan, origin)
      /\ \A k \in 1..n : StoredAs(origin.ids[k]) = arms[k] /\ EvaluationFits(arms[k])
  BY ArmsOfPlan DEF Numbered
<1> HIDE DEF n, arms
<1>2. PICK asked \in Requestable :
         /\ Compare(arms, asked, Nothing).baseline # 0
         /\ plan = PlanFor(arms[1].cases, Compare(arms, asked, Nothing), arms, plan.maxAge)
         /\ origin.exit = ExitOf(Compare(arms, asked, Nothing),
                                 IF origin.file = Nothing THEN "ok" ELSE FirstFailure(arms),
                                 origin.requireReady)
  BY <1>1 DEF PlanMadeOf, n
<1> DEFINE comparison == Compare(arms, asked, Nothing)
           base == comparison.baseline
           made == PlanFor(arms[1].cases, comparison, arms, plan.maxAge)
           ready == ReadyOf(comparison)
           code == IF origin.file = Nothing THEN "ok" ELSE FirstFailure(arms)
<1>3. base \in 1..n /\ DOMAIN comparison.verdicts = 1..n \ {base}
  BY <1>1, <1>2, ComparedWithBaseline
<1>4. ready \subseteq 1..n \ {base} /\ Len(made.fallbacks) = Cardinality(ready)
  BY <1>1, <1>2, FallbacksAreReady
<1>5. plan = made
  BY <1>2
<1>6. Unready(comparison) = (1..n \ {base}) \ ready
  BY <1>3 DEF Unready, ReadyOf
<1>7. origin.exit = "ok" <=> code = "ok" /\ Unready(comparison) = {}
  BY <1>2 DEF ExitOf
<1>8. FirstFailure(arms) = "ok" <=> \A k \in 1..n : arms[k].status = "completed"
  <2> DEFINE failed == SelectInSeq(arms, LAMBDA a : a.status # "completed")
             fails == [i \in 1..n |-> arms[i].status # "completed"]
  <2>1. failed = IF {i \in 1..n : fails[i]} # {} THEN Min({i \in 1..n : fails[i]}) ELSE 0
    <3>1. {i \in 1..Len(arms) : arms[i].status # "completed"} = {i \in 1..n : fails[i]}
      BY <1>1
    <3> HIDE DEF fails
    <3> QED
      BY <3>1 DEF SelectInSeq
  <2>2. \A i \in 1..n : fails[i] <=> arms[i].status # "completed"
    OBVIOUS
  <2>3. FirstFailure(arms) = "ok" <=> failed = 0
    BY DEF FirstFailure
  <2> HIDE DEF failed, fails
  <2>4. failed = 0 <=> \A i \in 1..n : ~fails[i]
    BY <1>1, <2>1, FirstThatFits
  <2> QED
    BY <2>2, <2>3, <2>4
<1> HIDE DEF made, base, comparison, ready
<1>9. Cardinality(ready) = n - 1 <=> (1..n \ {base}) \ ready = {}
  <2> DEFINE T == 1..n \ {base}
  <2>1. IsFiniteSet(T) /\ Cardinality(T) = n - 1
    <3>1. IsFiniteSet(1..n) /\ Cardinality(1..n) = n
      BY <1>1, CountUpTo
    <3> QED
      BY <1>3, <3>1, FS_RemoveElement
  <2> HIDE DEF T
  <2>2. ready \subseteq T
    BY <1>4 DEF T
  <2>3. T \ ready = {} => ready = T
    BY <2>2
  <2>4. Cardinality(ready) = n - 1 => ready = T
    BY <2>1, <2>2, FS_Subset
  <2> QED
    BY <2>1, <2>2, <2>3, <2>4 DEF T
<1> HIDE DEF code
<1>10. code = "ok" <=> (origin.file # Nothing => \A k \in 1..n : StoredAs(origin.ids[k]).status = "completed")
  BY <1>1, <1>8 DEF code
<1> QED
  BY <1>1, <1>4, <1>5, <1>6, <1>7, <1>9, <1>10 DEF n

\* plan.py, docs/suites.md and docs/cli.md: whatever the files, edits, commands and
\* evaluations, a plan that checks out has every fallback judged ready on the cases, by
\* the bar and with the arm the files hold now; a plan just saved checks out; and
\* --require-ready passes exactly when every other arm became a fallback.
THEOREM PlansAreTrusted == PlanSpec => []PlanIsTrusted
<1>1. PlanInv /\ AgeFits => PlanIsTrusted
  BY TrustedPlan, FreshPlan, HonestExit DEF PlanIsTrusted
<1> QED
  BY <1>1, PlanInvariant, AgeInvariant, PTL
=============================================================================
