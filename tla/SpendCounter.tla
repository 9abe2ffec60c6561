----------------------------- MODULE SpendCounter -----------------------------
(***************************************************************************)
(* The spend counter of one user, and the requests that are counted on it.  *)
(*                                                                          *)
(* A request is admitted by adding its estimate to the counter of the       *)
(* current window and only then looking at the new total (spend.reserve).   *)
(* What was reserved is replaced by the real cost when the work ends        *)
(* (spend.settle): by the stream of a direct run, by the engine for an      *)
(* evaluation of either lane, or by the router with a cost of zero when the *)
(* evaluation could not be started.  Every add is atomic; between two adds  *)
(* any other request may run, in this server or another one, and the window *)
(* may change.                                                              *)
(*                                                                          *)
(* Amounts are small numbers instead of micro-dollars.  What a run costs is *)
(* what the model reports; tokens that no report ever names are outside.    *)
(***************************************************************************)
EXTENDS Integers, FiniteSets, FiniteSetsExt

CONSTANTS
    Requests,         \* the requests the user makes
    Estimates,        \* the pre-flight estimates of one run
    MaxJobs,          \* bound on the jobs of an evaluation
    Costs,            \* what one report of usage may amount to
    MaxSpent,         \* bound on what one request spends
    Limit,            \* spend_limit_usd
    LastWindow,       \* how often the window changes
    MaxFaults,        \* failed calls of the counter store or of the invoke
    AmbiguousInvoke   \* TRUE when a failed invoke may have queued the event

ASSUME SpendAssumption ==
    /\ Estimates \subseteq Nat /\ Costs \subseteq Nat \ {0}
    /\ MaxSpent \in Nat /\ MaxJobs \in Nat \ {0} /\ Limit \in Nat /\ LastWindow \in Nat /\ MaxFaults \in Nat
    /\ AmbiguousInvoke \in BOOLEAN

Windows == 0..LastWindow
Lanes == {"direct", "local", "cloud"}

VARIABLES
    counter,   \* SPEND#user / WINDOW#w, or the row of spendcounter
    today,     \* the window the clock is in
    door,      \* where each request stands at the router
    work,      \* where its work stands
    lane,      \* how it is executed
    principal, \* the window and the amount reserved, carried with the request
    total,     \* what its reserving add returned
    spent,     \* what its runs have cost
    faults

vars == <<counter, today, door, work, lane, principal, total, spent, faults>>

Init ==
    /\ counter = [w \in Windows |-> 0]
    /\ today = 0
    /\ door = [r \in Requests |-> "new"]
    /\ work = [r \in Requests |-> "none"]
    /\ lane \in [Requests -> Lanes]
    /\ principal = [r \in Requests |-> [window |-> 0, reserved |-> 0]]
    /\ total = [r \in Requests |-> 0]
    /\ spent = [r \in Requests |-> 0]
    /\ faults = 0

Door(r, label) == door' = [door EXCEPT ![r] = label]
Work(r, label) == work' = [work EXCEPT ![r] = label]
Fail == faults < MaxFaults /\ faults' = faults + 1

-----------------------------------------------------------------------------
(* The counter *)

\* SpendStore.add: one atomic increment.
Count(window, amount) == counter' = [counter EXCEPT ![window] = @ + amount]

\* Mutants of Settle: the difference goes to the window the clock is in; the
\* reservation is not taken out.
SettleToday(r, actual) == Count(today, actual - principal[r].reserved)
SettleOnTop(r, actual) == Count(principal[r].window, actual)

\* spend.settle: replace the reservation by the real cost, in the window the
\* reservation went into.
Settle(r, actual) ==
    Count(principal[r].window, actual - principal[r].reserved)

-----------------------------------------------------------------------------
(* Admission: spend.reserve *)

\* What travels with an admitted request.
Carried(estimate) == [window |-> today, reserved |-> estimate]

\* The estimate is added first.  An add that raises is a 500 for the caller,
\* whether or not it has landed.
Reserve(r, estimate) ==
    \/ /\ Count(today, estimate)
       /\ principal' = [principal EXCEPT ![r] = Carried(estimate)]
       /\ total' = [total EXCEPT ![r] = counter'[today]]
       /\ Door(r, "look")
       /\ UNCHANGED faults
    \/ /\ Fail
       /\ Count(today, estimate) \/ UNCHANGED counter
       /\ Door(r, "broken")
       /\ UNCHANGED <<principal, total>>

\* No verified identity: the request goes on, and nothing of it is counted.
Unattributed(r) ==
    /\ Door(r, "uncounted")
    /\ UNCHANGED <<counter, principal, total, faults>>

\* A limit needs a price, and the model has none: 400, before the reservation.
Unpriced(r) ==
    /\ Door(r, "refused")
    /\ UNCHANGED <<counter, principal, total, faults>>

\* The estimate of an evaluation: that of a run, times its jobs; the judge is
\* left out of it.
EstimatedCost(perRun, jobs) == perRun * jobs

\* admission.admit: POST /evaluations, all jobs at once.
Admit(r) ==
    /\ door[r] = "new"
    /\ lane[r] \in {"local", "cloud"}
    /\ \/ Unattributed(r)
       \/ Unpriced(r)
       \/ \E estimate \in {EstimatedCost(e, jobs) : e \in Estimates, jobs \in 1..MaxJobs} :
             Reserve(r, estimate)
    /\ UNCHANGED <<today, work, lane, spent>>

\* admission.admit_run: POST /runs.  A model without a price has the estimate 0
\* when there is no limit.
AdmitRun(r) ==
    /\ door[r] = "new"
    /\ lane[r] = "direct"
    /\ \/ Unattributed(r)
       \/ Unpriced(r)
       \/ \E estimate \in Estimates : Reserve(r, estimate)
    /\ UNCHANGED <<today, work, lane, spent>>

\* Mutant of OverLimit: it is the spend before this request that is compared.
OverLimitBefore(r) == total[r] - principal[r].reserved > Limit

OverLimit(r) == total[r] > Limit

\* Look at the total the add returned; past the limit the estimate is taken
\* straight back out.
Look(r) ==
    /\ door[r] = "look"
    /\ \/ /\ ~OverLimit(r)
          /\ Door(r, "admitted")
          /\ UNCHANGED <<counter, faults>>
       \/ /\ OverLimit(r)
          /\ Count(principal[r].window, -principal[r].reserved)
          /\ Door(r, "refused")
          /\ UNCHANGED faults
       \/ /\ OverLimit(r)
          /\ Fail
          /\ Door(r, "broken")
          /\ UNCHANGED counter
    /\ UNCHANGED <<today, work, lane, principal, total, spent>>

\* create_run: the engine's generator is primed for its first event, inside the
\* stream that settles.  A run the engine refuses has cost nothing and is
\* settled by that stream's finally (the work is then over before it started).
CreateRun(r) ==
    /\ door[r] = "admitted"
    /\ lane[r] = "direct"
    /\ Door(r, "accepted")
    /\ Work(r, "running")
    /\ UNCHANGED <<counter, today, lane, principal, total, spent, faults>>

\* create_evaluation hands the admitted evaluation to its lane.  A local one
\* may be turned down there (no local lane, an unknown run); a cloud one when
\* the row cannot be written or the event cannot be queued.
StartEvaluation(r) ==
    /\ door[r] = "admitted"
    /\ lane[r] # "direct"
    /\ \/ /\ Door(r, "accepted")
          /\ Work(r, IF lane[r] = "cloud" THEN "queued" ELSE "running")
          /\ UNCHANGED faults
       \/ /\ lane[r] = "local"
          /\ Door(r, "release")
          /\ UNCHANGED <<work, faults>>
       \/ /\ lane[r] = "cloud"
          /\ Fail
          /\ Door(r, "release")
          /\ \E label \in {"none"} \cup (IF AmbiguousInvoke THEN {"queued"} ELSE {}) :
                Work(r, label)
    /\ UNCHANGED <<counter, today, lane, principal, total, spent>>

\* admission.release.
GiveBack(r) == Settle(r, 0)

\* The except clause of create_evaluation: whatever was raised, the evaluation
\* never started, so the reservation goes back.
CreateEvaluationFails(r) ==
    /\ door[r] = "release"
    /\ \/ GiveBack(r) /\ Door(r, "released") /\ UNCHANGED faults
       \/ Fail /\ Door(r, "broken") /\ UNCHANGED counter
    /\ UNCHANGED <<today, work, lane, principal, total, spent>>

\* POST /evaluations, once it is admitted.
CreateEvaluation(r) == StartEvaluation(r) \/ CreateEvaluationFails(r)

-----------------------------------------------------------------------------
(* The work *)

\* The worker owns the evaluation and starts its engine; one that finds the
\* cancel flag first settles the row and never starts it.
Claim(r) ==
    /\ work[r] = "queued"
    /\ Work(r, "running") \/ Work(r, "skipped")
    /\ UNCHANGED <<counter, today, door, lane, principal, total, spent, faults>>

Spends(r) ==
    /\ \E c \in Costs :
          /\ spent[r] + c <= MaxSpent
          /\ spent' = [spent EXCEPT ![r] = @ + c]
    /\ UNCHANGED <<counter, today, door, work, lane, principal, total, faults>>

\* The metrics of a run: what a direct run's stream and an evaluation's ledger
\* count.
ReportRun(r) == work[r] \in {"running", "leaking"} /\ Spends(r)

\* The meter around the judges of an evaluation sees the usage of each answer.
ReportJudge(r) == work[r] = "running" /\ lane[r] # "direct" /\ Spends(r)

\* The finally of the work replaces the reservation by what was spent, and
\* swallows a failure of the counter.
SettleQuietly(r, label) ==
    \/ Settle(r, spent[r]) /\ Work(r, label) /\ UNCHANGED faults
    \/ Fail /\ Work(r, "unsettled") /\ UNCHANGED counter

\* settle_stream: the stream of a direct run ends, is left by its client, or
\* breaks.
EndStream(r) ==
    /\ work[r] = "running"
    /\ lane[r] = "direct"
    /\ SettleQuietly(r, "ended")
    /\ UNCHANGED <<today, door, lane, principal, total, spent>>

\* _settle_spend: an evaluation ends, however it ends.  An engine whose gather
\* raised leaves its other repeats running.
EndEvaluation(r) ==
    /\ work[r] = "running"
    /\ lane[r] # "direct"
    /\ \/ SettleQuietly(r, "ended")
       \/ lane[r] = "local" /\ SettleQuietly(r, "leaking")
    /\ UNCHANGED <<today, door, lane, principal, total, spent>>

\* The worker, or every delivery of the event, dies.
Die(r) ==
    /\ lane[r] = "cloud"
    /\ work[r] \in {"queued", "running"}
    /\ Fail
    /\ Work(r, "dead")
    /\ UNCHANGED <<counter, today, door, lane, principal, total, spent>>

Midnight ==
    /\ today < LastWindow
    /\ today' = today + 1
    /\ UNCHANGED <<counter, door, work, lane, principal, total, spent, faults>>

Next ==
    \/ Midnight
    \/ \E r \in Requests :
          \/ Admit(r) \/ AdmitRun(r) \/ Look(r)
          \/ CreateRun(r) \/ CreateEvaluation(r)
          \/ Claim(r) \/ ReportRun(r) \/ ReportJudge(r)
          \/ EndStream(r) \/ EndEvaluation(r) \/ Die(r)

Spec == Init /\ [][Next]_vars

-----------------------------------------------------------------------------
\* The requests whose reservation went into this window.
CountedIn(w) == {r \in Requests : door[r] # "new" /\ principal[r].window = w}
SpentBy(S) == MapThenSumSet(LAMBDA r : spent[r], S)

\* "Never toward overspending": whatever fails or dies, and whatever else is
\* being reserved, the counter shows at least what the requests that have
\* settled did spend, in the window they were admitted in.  (What a repeat goes
\* on to spend after its engine has settled is not counted by any code.)
NeverUndercounts ==
    \A w \in Windows :
        counter[w] >= SpentBy({r \in CountedIn(w) : work[r] = "ended"})

\* Nothing of r is under way, and neither the counter nor the worker failed it.
AtRest(r) ==
    /\ door[r] \in {"new", "uncounted", "refused", "accepted", "released"}
    /\ work[r] \in {"none", "ended"}

\* The counter converges on real spend: once everything has come to rest it is
\* exactly what was spent; refused and released requests have cost nothing.
ConvergesOnSpend ==
    (\A r \in Requests : AtRest(r)) =>
        \A w \in Windows : counter[w] = SpentBy(CountedIn(w))

\* What an admitted request may still cost, or has cost.
Owed(r) == IF work[r] = "ended" THEN spent[r] ELSE principal[r].reserved

\* Two requests racing for the last dollars cannot both win: as long as nothing
\* costs more than its estimate, what was admitted in a window never passes the
\* limit.
WithinLimit ==
    (\A r \in Requests : spent[r] <= principal[r].reserved) =>
        \A w \in Windows :
            MapThenSumSet(Owed, {r \in CountedIn(w) :
                                    /\ door[r] \in {"admitted", "accepted"}
                                    /\ work[r] # "leaking"}) <= Limit
==============================================================================
