----------------------------- MODULE CloudWorker -----------------------------
(***************************************************************************)
(* One invocation of the evaluation worker, from the moment it owns the     *)
(* evaluation to the moment it returns.                                     *)
(*                                                                          *)
(* Three pieces of code run here and meet in the DynamoDB table:            *)
(*   - lambda_app.execute, which races the engine against the invocation's  *)
(*     deadline and makes sure that the row is settled;                     *)
(*   - the evaluation engine, a coroutine with one child per repeat;        *)
(*   - DynamoEvalStore, the engine's emitter and store, which holds a       *)
(*     terminal status back until eval_complete is durable.                 *)
(* The server's DELETE handler, the clock and the table's failures are the  *)
(* environment.                                                             *)
(*                                                                          *)
(* The worker is single-threaded and its table calls block, so the code     *)
(* between two awaits is one synchronous section.  A section is the         *)
(* sequence `todo` of store calls still to be made, on behalf of `frame`;   *)
(* the scheduler picks another coroutine only when `todo` is empty.  Each   *)
(* store call is a step of its own: other readers of the table see the      *)
(* states in between, and each call may fail.                               *)
(***************************************************************************)
EXTENDS Naturals, Sequences, FiniteSets

CONSTANTS
    NRuns,           \* repeats the evaluation makes
    MaxConcurrent,   \* MAX_CONCURRENT_RUNS
    EvalKinds,       \* kinds of evaluation: "grade" loads its runs, the others
                     \* execute them
    Budgeted,        \* TRUE when max_cost_usd is set, so admission may refuse
    MaxClock,        \* 0: time to spare; 1: inside the margin; 2: hard bound hit
    Faulty,          \* the kinds of table call that may fail
    MaxFaults,       \* how many of them do
    Ambiguous,       \* TRUE when a failed write may have landed all the same
    CanDie           \* TRUE when the invocation may be killed at any point

Kinds == {"meta", "put", "run", "flip", "cancel", "load", "local"}

ASSUME WorkerAssumption ==
    /\ NRuns \in Nat /\ MaxConcurrent \in Nat \ {0} /\ MaxFaults \in Nat
    /\ EvalKinds \subseteq {"determinism", "grade"} /\ Budgeted \in BOOLEAN
    /\ Ambiguous \in BOOLEAN /\ CanDie \in BOOLEAN
    /\ MaxClock \in 0..2 /\ Faulty \subseteq Kinds

Runs == 1..NRuns
TerminalStatus == {"completed", "error", "cancelled"}

VARIABLES
    meta,         \* EVAL#/META: status, error, run_ids and seq_count
    log,          \* the EVENT# items, by seq
    runItems,     \* the runs that have a RUN#/META item
    kind,         \* the kind of the evaluation
    cancelFlag,   \* whether the CANCEL item exists
    canceller,    \* the DELETE handler: where it stands
    st,           \* the DynamoEvalStore object; unread is a history of the runs
                  \* whose local row could not be read
    exec,         \* execute(): where it stands
    engine,       \* the engine coroutine: where it stands
    child,        \* the coroutine of each repeat
    collected,    \* the repeats in the engine's `outcomes`
    good,         \* those of them that succeeded
    exhausted,    \* CostLedger.exhausted
    batchFailed,  \* an exception has left a child, so gather will raise it
    outcome,      \* what the engine returned
    reported,     \* what execute() returns
    todo,         \* store calls left in the current synchronous section
    frame,        \* whose section it is
    clock, tripped, faults,
    late          \* history: runs announced as started after the cancel flag

tableVars == <<meta, log, runItems>>
taskVars == <<exec, engine, child, batchFailed, outcome, reported, frame>>
dataVars == <<collected, good, exhausted>>
timeVars == <<clock, tripped>>
userVars == <<kind, cancelFlag, canceller>>
vars == <<tableVars, userVars, st, taskVars, dataVars, todo, timeVars, faults, late>>

-----------------------------------------------------------------------------
(* Events and store calls *)

Event(type, run, status) == [type |-> type, run |-> run, status |-> status]
EvalComplete(status) == Event("eval_complete", 0, status)

\* An optional run_ids argument: {} is not given, {S} is the runs S.
NotGiven == {}
Given(S) == {S}

Save(status, error, ids) ==
    [op |-> "save", status |-> status, error |-> error, ids |-> ids]
Settle(status, error, ids) ==
    [op |-> "settle", status |-> status, error |-> error, ids |-> ids]
Emit(event) == [op |-> "emit", event |-> event]
SaveRun(r) == [op |-> "run", run |-> r]
Finalize == [op |-> "finalize"]
Flip == [op |-> "flip"]

\* store.complete(...): a terminal save_evaluation followed by finalize.
Complete(status, error, ids) == <<Save(status, error, ids), Finalize>>

NoPending == [status |-> "none", error |-> "none", ids |-> NotGiven]
NoOutcome == [status |-> "none", error |-> "none"]

Init ==
    /\ meta = [status |-> "running", error |-> "none", runs |-> {}, seqCount |-> 0]
    /\ log = <<>>
    /\ kind \in EvalKinds
    /\ runItems = IF kind = "grade" THEN Runs ELSE {}
    /\ cancelFlag = FALSE
    /\ canceller = "idle"
    /\ st = [seq |-> 0, saved |-> {}, emitted |-> FALSE, terminal |-> FALSE,
             pending |-> NoPending, finalizing |-> FALSE, latched |-> FALSE,
             armed |-> "none", unread |-> {}]
    /\ exec = "early"
    /\ engine = "start"
    /\ child = [r \in Runs |-> "unborn"]
    /\ collected = {}
    /\ good = {}
    /\ exhausted = FALSE
    /\ batchFailed = FALSE
    /\ outcome = NoOutcome
    /\ reported = "none"
    /\ todo = <<>>
    /\ frame = [of |-> "execute", run |-> 0]
    /\ clock = 0
    /\ tripped = FALSE
    /\ faults = 0
    /\ late = {}

-----------------------------------------------------------------------------
(* Control: how a section starts, goes on, and is left by an exception *)

Owner(name) == [of |-> name, run |-> 0]
Child(r) == [of |-> "child", run |-> r]

\* `name` takes the processor and will make these store calls.
Begin(who, calls) ==
    /\ todo' = calls
    /\ frame' = who

\* The current call is done; `more` are the calls it expands to.
Proceed(more) ==
    /\ todo' = more \o Tail(todo)
    /\ UNCHANGED taskVars

\* The engine's `except Exception`: settle error, announce it, return.
EngineExcept ==
    /\ Begin(Owner("handler"),
             <<Save("error", "internal", NotGiven), Emit(EvalComplete("error"))>>)
    /\ engine' = "done"
    /\ outcome' = [status |-> "error", error |-> "internal"]

\* A child's exception reaches gather while the engine still awaits it; the
\* other children are not cancelled by it.
ChildRaises(r) ==
    /\ child' = [child EXCEPT ![r] = "done"]
    /\ batchFailed' = (batchFailed \/ engine = "batch")

\* An exception leaves the current store call.
Raise ==
    \/ /\ frame.of = "engine"
       /\ EngineExcept
       /\ UNCHANGED <<exec, child, batchFailed, reported>>
    \/ /\ frame.of = "handler"          \* out of the engine, into its task
       /\ todo' = <<>>
       /\ engine' = "raised"
       /\ UNCHANGED <<exec, child, batchFailed, outcome, reported, frame>>
    \/ /\ frame.of = "child"
       /\ todo' = <<>>
       /\ ChildRaises(frame.run)
       /\ UNCHANGED <<exec, engine, outcome, reported, frame>>
    \/ /\ frame.of = "execute"          \* execute's own `except Exception`
       /\ Begin(Owner("quiet"), <<Settle("error", "internal", NotGiven)>>)
       /\ reported' = "error"
       /\ UNCHANGED <<exec, engine, child, batchFailed, outcome>>
    \/ /\ frame.of = "quiet"            \* _finalize_quietly swallows it
       /\ todo' = <<>>
       /\ UNCHANGED taskVars

\* A table call of this kind fails; `landed` says whether it took effect.
Fault(call) ==
    /\ call \in Faulty
    /\ faults < MaxFaults
    /\ faults' = faults + 1

Landings == IF Ambiguous THEN {TRUE, FALSE} ELSE {FALSE}

Calling(op) == todo # <<>> /\ Head(todo).op = op

-----------------------------------------------------------------------------
(* DynamoEvalStore *)

\* Mutant of Translated: the armed reason is ignored.
NeverTranslated(status) == FALSE

\* A deadline's stop reaches the store as a cancellation; the armed reason
\* turns it back into an error.
Translated(status) == status = "cancelled" /\ st.armed # "none"

Translate(status) == IF Translated(status) THEN "error" ELSE status

\* A non-terminal partial update of META.
WriteFields(o) ==
    [meta EXCEPT !.status = IF o.status = "none" THEN @ ELSE o.status,
                 !.runs = IF o.ids = NotGiven THEN @ ELSE UNION o.ids]

\* save_evaluation: terminal statuses are buffered, not written.
SaveEvaluation ==
    /\ Calling("save")
    /\ LET o == Head(todo)
           status == Translate(o.status)
           error == IF Translated(o.status) THEN st.armed ELSE o.error
       IN \/ /\ st.terminal
             /\ Raise
             /\ UNCHANGED <<st, meta, faults>>
          \/ /\ ~st.terminal
             /\ status \in TerminalStatus
             /\ st' = [st EXCEPT !.pending = [status |-> status, error |-> error,
                                              ids |-> o.ids]]
             /\ Proceed(<<>>)
             /\ UNCHANGED <<meta, faults>>
          \/ /\ ~st.terminal
             /\ status \notin TerminalStatus
             /\ meta' = WriteFields(o)
             /\ Proceed(<<>>)
             /\ UNCHANGED <<st, faults>>
          \/ /\ ~st.terminal
             /\ status \notin TerminalStatus
             /\ Fault("meta")
             /\ \E landed \in Landings :
                   meta' = IF landed THEN WriteFields(o) ELSE meta
             /\ Raise
             /\ UNCHANGED st
    /\ UNCHANGED <<log, runItems, userVars, dataVars, timeVars, late>>

\* put_item of EVENT#seq: it replaces whatever that key holds.
PutEvent(seq, event) ==
    IF seq < Len(log) THEN [log EXCEPT ![seq + 1] = event] ELSE Append(log, event)

\* emit: the put, then the best-effort seq_count update, whose failure is
\* swallowed.  An eval_complete that lands flushes the buffered status.
EmitEvent ==
    /\ Calling("emit")
    /\ LET given == Head(todo).event
           event == IF given.type = "eval_complete"
                    THEN [given EXCEPT !.status = Translate(@)] ELSE given
           emitted == st.emitted \/ event.type = "eval_complete"
       IN \/ /\ st.terminal
             /\ Raise
             /\ UNCHANGED <<st, meta, log, faults, late>>
          \/ /\ ~st.terminal
             /\ log' = PutEvent(st.seq, event)
             /\ st' = [st EXCEPT !.seq = @ + 1, !.emitted = emitted]
             /\ \/ meta' = [meta EXCEPT !.seqCount = st.seq + 1] /\ UNCHANGED faults
                \/ Fault("meta") /\ UNCHANGED meta
             /\ late' = IF event.type = "run_started" /\ cancelFlag
                        THEN late \cup {event.run} ELSE late
             /\ Proceed(IF emitted /\ st.pending # NoPending
                        THEN <<Finalize>> ELSE <<>>)
          \/ /\ ~st.terminal
             /\ Fault("put")
             /\ \E landed \in Landings :
                   log' = IF landed THEN PutEvent(st.seq, event) ELSE log
             /\ Raise
             /\ UNCHANGED <<st, meta, late>>
    /\ UNCHANGED <<runItems, userVars, dataVars, timeVars>>

\* Mutants of FinalizeCalls: the row is flipped before the log is closed; the
\* eval_complete is synthesized although the engine has emitted one.
FlipFirst ==
    IF st.emitted THEN <<Flip>>
    ELSE <<Flip, Emit(EvalComplete(st.pending.status))>>
AlwaysSynthesize == <<Emit(EvalComplete(st.pending.status)), Flip>>

\* What finalize() still has to do: nothing when it is re-entered or has
\* nothing buffered; the synthesized eval_complete goes before the flip.
FinalizeCalls ==
    IF st.emitted THEN <<Flip>>
    ELSE <<Emit(EvalComplete(st.pending.status)), Flip>>

CanFinalize == ~st.terminal /\ ~st.finalizing /\ st.pending # NoPending

FinalizeEvaluation ==
    /\ Calling("finalize")
    /\ IF CanFinalize
       THEN /\ st' = [st EXCEPT !.finalizing = TRUE]
            /\ Proceed(FinalizeCalls)
       ELSE /\ Proceed(<<>>)
            /\ UNCHANGED st
    /\ UNCHANGED <<tableVars, userVars, dataVars, timeVars, faults, late>>

\* Mutant of Flipped: a settle that names no runs writes none.
FlippedBare ==
    LET p == st.pending
    IN [status |-> p.status, error |-> p.error, seqCount |-> st.seq,
        runs |-> UNION p.ids]

\* The one UpdateItem that makes the row terminal, with everything it carries.
Flipped ==
    LET p == st.pending
    IN [status |-> p.status, error |-> p.error, seqCount |-> st.seq,
        runs |-> IF p.ids = NotGiven THEN st.saved ELSE UNION p.ids]

FlipStatus ==
    /\ Calling("flip")
    /\ \/ /\ meta' = Flipped
          /\ st' = [st EXCEPT !.pending = NoPending, !.finalizing = FALSE,
                              !.terminal = TRUE]
          /\ Proceed(<<>>)
          /\ UNCHANGED faults
       \/ /\ Fault("flip")
          /\ \E landed \in Landings : meta' = IF landed THEN Flipped ELSE meta
          /\ Raise
          /\ UNCHANGED st
    /\ UNCHANGED <<log, runItems, userVars, dataVars, timeVars, late>>

\* Mutant of SettleEvaluation: it trusts that something has been buffered.
SettleBuffered ==
    /\ Calling("settle")
    /\ Proceed(IF CanFinalize THEN <<Finalize>> ELSE <<>>)
    /\ UNCHANGED <<st, tableVars, userVars, dataVars, timeVars, faults, late>>

\* `if is_terminal or finalize(): return`, else complete(): the shape of
\* _settle, of _finalize_quietly and of execute's own result handling.
SettleEvaluation ==
    /\ Calling("settle")
    /\ LET o == Head(todo)
       IN Proceed(IF st.terminal THEN <<>>
                  ELSE IF CanFinalize THEN <<Finalize>>
                  ELSE Complete(o.status, o.error, o.ids))
    /\ UNCHANGED <<st, tableVars, userVars, dataVars, timeVars, faults, late>>

\* put_run: the run's row as RUN#/META, and then its place in the store's list.
PutRun(r) ==
    \/ /\ runItems' = runItems \cup {r}
       /\ st' = [st EXCEPT !.saved = @ \cup {r}]
       /\ Proceed(<<>>)
       /\ UNCHANGED faults
    \/ /\ Fault("run")
       /\ \E landed \in Landings :
             runItems' = IF landed THEN runItems \cup {r} ELSE runItems
       /\ Raise
       /\ UNCHANGED st

\* A lookup of the local row that fails reads as no local row: such a run is
\* taken for one that came from the table, and nothing is mirrored.
LookupFails(r) ==
    /\ Fault("local")
    /\ st' = [st EXCEPT !.unread = @ \cup {r}]
    /\ Proceed(<<>>)
    /\ UNCHANGED runItems

\* save_run: mirror the local row of the run.
SaveRunItem ==
    /\ Calling("run")
    /\ PutRun(Head(todo).run) \/ LookupFails(Head(todo).run)
    /\ UNCHANGED <<meta, log, userVars, dataVars, timeVars, late>>

StoreCall ==
    \/ SaveEvaluation \/ EmitEvent \/ FinalizeEvaluation
    \/ FlipStatus \/ SettleEvaluation \/ SaveRunItem

\* Mutant of CancelRequested: the flag is not read consistently.
CancelRequestedStale(seen) ==
    /\ seen \in {st.latched, st.latched \/ cancelFlag}
    /\ st' = [st EXCEPT !.latched = seen]
    /\ UNCHANGED faults

\* cancel_requested(): latched, read consistently, FALSE when the read fails.
\* `seen` is what it returns.
CancelRequested(seen) ==
    \/ /\ seen = (st.latched \/ cancelFlag)
       /\ st' = [st EXCEPT !.latched = seen]
       /\ UNCHANGED faults
    \/ /\ ~st.latched /\ cancelFlag
       /\ Fault("cancel")
       /\ ~seen
       /\ UNCHANGED st

\* stop_with: a later reason replaces an earlier one.
StopWith(reason) == st' = [st EXCEPT !.armed = reason]

\* The stop condition the engine polls: the user's cancel first, then the
\* deadline, which arms its reason as it trips.
Poll(stop) ==
    \/ /\ CancelRequested(TRUE)
       /\ stop
       /\ UNCHANGED tripped
    \/ /\ CancelRequested(FALSE) /\ ~stop
       /\ ~tripped /\ clock = 0
       /\ UNCHANGED tripped
    \/ /\ ~st.latched
       /\ \/ ~cancelFlag /\ UNCHANGED faults
          \/ cancelFlag /\ Fault("cancel")
       /\ tripped \/ clock >= 1
       /\ stop
       /\ tripped' = TRUE
       /\ StopWith("boundary")

-----------------------------------------------------------------------------
(* execute() *)

Idle == todo = <<>>
Running == exec \in {"waiting", "hardstop"}

\* A cancel that landed between the POST and this check settles at once;
\* otherwise the engine is started.
ExecStart ==
    /\ exec = "early"
    /\ \/ /\ CancelRequested(TRUE)
          /\ Begin(Owner("execute"), Complete("cancelled", "none", Given({})))
          /\ exec' = "settling"
          /\ reported' = "cancelled"
       \/ /\ CancelRequested(FALSE)
          /\ exec' = "waiting"
          /\ UNCHANGED <<todo, frame, reported>>
    /\ UNCHANGED <<tableVars, userVars, engine, child, batchFailed, outcome,
                   dataVars, timeVars, late>>

\* The hard bound: the engine is inside a run or inside grading.  A user's
\* cancel that the engine never saw still settles as cancelled; otherwise the
\* reason is armed before the engine is cancelled.  The CancelledError reaches
\* the engine at its await, and its children with it unless gather is done.
HardStop ==
    /\ exec = "waiting" /\ Idle
    /\ engine \in {"batch", "judging"}
    /\ clock = 2
    /\ \/ /\ CancelRequested(TRUE)
          /\ reported' = "cancelled"
       \/ /\ ~st.latched
          /\ \/ ~cancelFlag /\ UNCHANGED faults
             \/ cancelFlag /\ Fault("cancel")
          /\ StopWith("inflight")
          /\ reported' = "error"
    /\ exec' = "hardstop"
    /\ engine' = "stopped"
    /\ child' = IF batchFailed THEN child ELSE [r \in Runs |-> "done"]
    /\ Begin(Owner("handler"),
             <<Save("cancelled", "none", Given(good)), Emit(EvalComplete("cancelled"))>>)
    /\ UNCHANGED <<tableVars, userVars, batchFailed, outcome, dataVars, timeVars, late>>

\* The engine settled its cancellation; make sure the row is written.
AfterHardStop ==
    /\ exec = "hardstop" /\ Idle
    /\ engine = "stopped"
    /\ exec' = "settling"
    /\ Begin(Owner("execute"),
             <<Settle(reported, IF reported = "error" THEN "inflight" ELSE "none",
                      NotGiven)>>)
    /\ UNCHANGED <<tableVars, userVars, st, engine, child, batchFailed, outcome,
                   reported, dataVars, timeVars, faults, late>>

\* The engine returned.
AfterEngine ==
    /\ exec = "waiting" /\ Idle
    /\ engine = "done"
    /\ exec' = "settling"
    /\ LET atDeadline == outcome.status = "cancelled" /\ tripped
       IN /\ reported' = IF atDeadline THEN "error" ELSE outcome.status
          /\ Begin(Owner("execute"),
                   IF atDeadline
                   THEN <<Settle("error", "boundary", NotGiven)>>
                   ELSE <<Settle(outcome.status, outcome.error, Given(good))>>)
    /\ UNCHANGED <<tableVars, userVars, st, engine, child, batchFailed, outcome,
                   dataVars, timeVars, faults, late>>

\* Mutant of AfterEngineRaised: the failure is reported but not settled.
AfterEngineRaisedUnsettled ==
    /\ Running /\ Idle
    /\ engine = "raised"
    /\ exec' = "settling"
    /\ reported' = "error"
    /\ UNCHANGED <<tableVars, userVars, st, engine, child, batchFailed, outcome,
                   frame, todo, dataVars, timeVars, faults, late>>

\* The engine's task ended with an exception of its own.
AfterEngineRaised ==
    /\ Running /\ Idle
    /\ engine = "raised"
    /\ exec' = "settling"
    /\ reported' = "error"
    /\ Begin(Owner("quiet"), <<Settle("error", "internal", NotGiven)>>)
    /\ UNCHANGED <<tableVars, userVars, st, engine, child, batchFailed, outcome,
                   dataVars, timeVars, faults, late>>

\* execute() returns and asyncio.run drops whatever coroutine is left.
ExecReturn ==
    /\ exec = "settling" /\ Idle
    /\ exec' = "returned"
    /\ child' = [r \in Runs |-> "done"]
    /\ UNCHANGED <<tableVars, userVars, st, engine, batchFailed, outcome, reported,
                   frame, todo, dataVars, timeVars, faults, late>>

ExecStep ==
    \/ ExecStart \/ HardStop \/ AfterHardStop
    \/ AfterEngine \/ AfterEngineRaised \/ ExecReturn

-----------------------------------------------------------------------------
(* The evaluation engine *)

\* load_run looks in the local store and then in the table; a run that is in
\* neither, or did not complete, is a failed outcome.
Loadable == SUBSET Runs

\* kind="grade": one line per stored run, in order, with no run saved again.
LoadedCalls(ok) ==
    [r \in Runs |-> Emit(Event(IF r \in ok THEN "run_completed" ELSE "run_failed",
                               r, "none"))]

\* running, eval_start, and then either the batch or the stored runs.
EngineStart ==
    /\ exec = "waiting" /\ Idle
    /\ engine = "start"
    /\ LET opening == <<Save("running", "none", NotGiven),
                        Emit(Event("eval_start", 0, "none"))>>
       IN \/ /\ kind # "grade"
             /\ Begin(Owner("engine"), opening)
             /\ engine' = "batch"
             /\ child' = [r \in Runs |-> "waiting"]
             /\ UNCHANGED dataVars
          \/ /\ kind = "grade"
             /\ engine' = "loaded"
             /\ good' \in Loadable
             /\ collected' = Runs
             /\ Begin(Owner("engine"), opening \o LoadedCalls(good'))
             /\ UNCHANGED <<child, exhausted>>
    /\ UNCHANGED <<tableVars, userVars, st, exec, batchFailed, outcome, reported,
                   timeVars, faults, late>>

\* An unusable request body, or an engine that cannot be imported.
EngineUnavailable ==
    /\ exec = "waiting" /\ Idle
    /\ engine = "start"
    /\ engine' = "raised"
    /\ UNCHANGED <<tableVars, userVars, st, exec, child, batchFailed, outcome, reported,
                   frame, todo, dataVars, timeVars, faults, late>>

Slots == Cardinality({r \in Runs : child[r] = "running"})

\* Children go on after gather has raised, until execute() returns.
Scheduled == Running /\ Idle /\ (engine = "batch" \/ batchFailed)

\* A repeat gets its slot: poll, then budget, then run_started.
ChildStart(r) ==
    /\ Scheduled
    /\ child[r] = "waiting"
    /\ Slots < MaxConcurrent
    /\ \/ /\ Poll(TRUE)
          /\ child' = [child EXCEPT ![r] = "done"]
          /\ UNCHANGED <<todo, frame, exhausted>>
       \/ /\ Poll(FALSE)
          /\ exhausted \/ Budgeted          \* the ledger refuses, for good
          /\ exhausted' = TRUE
          /\ child' = [child EXCEPT ![r] = "done"]
          /\ UNCHANGED <<todo, frame>>
       \/ /\ Poll(FALSE)
          /\ ~exhausted
          /\ child' = [child EXCEPT ![r] = "running"]
          /\ Begin(Child(r), <<Emit(Event("run_started", r, "none"))>>)
          /\ UNCHANGED exhausted
    /\ UNCHANGED <<tableVars, userVars, exec, engine, batchFailed, outcome, reported,
                   collected, good, clock, late>>

\* Mutant of PublishCalls: the run is announced before it is stored.
PublishFirst(r, ok, recorded) ==
    <<Emit(Event(IF ok THEN "run_completed" ELSE "run_failed", r, "none"))>>
    \o (IF recorded THEN <<SaveRun(r)>> ELSE <<>>)

\* What _publish_run makes known of a finished repeat, in this order.
PublishCalls(r, ok, recorded) ==
    (IF recorded THEN <<SaveRun(r)>> ELSE <<>>)
    \o <<Emit(Event(IF ok THEN "run_completed" ELSE "run_failed", r, "none"))>>

\* The repeat's model calls are over, retries included.
ChildFinish(r) ==
    /\ Scheduled
    /\ child[r] = "running"
    /\ \/ \E ok, recorded \in BOOLEAN :
             /\ ok => recorded
             /\ collected' = collected \cup {r}
             /\ good' = IF ok THEN good \cup {r} ELSE good
             /\ child' = [child EXCEPT ![r] = "done"]
             /\ Begin(Child(r), PublishCalls(r, ok, recorded))
             /\ UNCHANGED <<batchFailed, faults>>
       \/ /\ Fault("load")                  \* load_run raises
          /\ ChildRaises(r)
          /\ UNCHANGED <<todo, frame, collected, good>>
    /\ UNCHANGED <<tableVars, userVars, st, exec, engine, outcome, reported,
                   exhausted, timeVars, late>>

\* gather re-raises the first exception of a child in the engine.
BatchRaises ==
    /\ exec = "waiting" /\ Idle
    /\ engine = "batch" /\ batchFailed
    /\ EngineExcept
    /\ UNCHANGED <<tableVars, userVars, st, exec, child, batchFailed, reported,
                   dataVars, timeVars, faults, late>>

\* Every repeat is over: record the successes.
BatchDone ==
    /\ exec = "waiting" /\ Idle
    /\ \/ engine = "batch" /\ ~batchFailed /\ \A r \in Runs : child[r] = "done"
       \/ engine = "loaded"
    /\ engine' = "progress"
    /\ Begin(Owner("engine"), <<Save("none", "none", Given(good))>>)
    /\ UNCHANGED <<tableVars, userVars, st, exec, child, batchFailed, outcome, reported,
                   dataVars, timeVars, faults, late>>

\* The last poll, before grading.
BeforeGrading ==
    /\ exec = "waiting" /\ Idle
    /\ engine = "progress"
    /\ \/ /\ Poll(TRUE)
          /\ engine' = "done"
          /\ outcome' = [status |-> "cancelled", error |-> "none"]
          /\ Begin(Owner("handler"),
                   <<Save("cancelled", "none", Given(good)),
                     Emit(EvalComplete("cancelled"))>>)
       \/ /\ Poll(FALSE)
          /\ engine' = "judging"
          /\ Begin(Owner("engine"), <<Emit(Event("grading_started", 0, "none"))>>)
          /\ UNCHANGED outcome
    /\ UNCHANGED <<tableVars, userVars, exec, child, batchFailed, reported,
                   dataVars, clock, late>>

\* The judge has answered: publish the result, settle, announce.
Graded ==
    /\ exec = "waiting" /\ Idle
    /\ engine = "judging"
    /\ engine' = "done"
    /\ LET end == IF good # {} THEN [status |-> "completed", error |-> "none"]
                  ELSE [status |-> "error", error |-> "no_runs"]
       IN /\ outcome' = end
          /\ Begin(Owner("engine"),
                   <<Emit(Event("grading_completed", 0, "none")),
                     Save(end.status, end.error, NotGiven),
                     Emit(EvalComplete(end.status))>>)
    /\ UNCHANGED <<tableVars, userVars, st, exec, child, batchFailed, reported,
                   dataVars, timeVars, faults, late>>

EngineStep ==
    \/ EngineStart \/ EngineUnavailable \/ BatchRaises \/ BatchDone \/ BeforeGrading \/ Graded
    \/ \E r \in Runs : ChildStart(r) \/ ChildFinish(r)

-----------------------------------------------------------------------------
(* The environment *)

workerVars == <<tableVars, st, taskVars, dataVars, todo, tripped, faults, late>>

Alive == exec \notin {"returned", "killed"}

\* Time runs down.
Tick ==
    /\ Alive
    /\ clock < MaxClock
    /\ clock' = clock + 1
    /\ UNCHANGED <<workerVars, userVars>>

\* DELETE /evaluations/{id} of a server whose history does not have the row (one that
\* has it writes the row itself, DeleteStep of CloudStream, and never puts the flag):
\* read META, refuse a finished one with a 409 ...
CancelCheck ==
    /\ canceller = "idle"
    /\ canceller' = IF meta.status \in TerminalStatus THEN "conflict" ELSE "checked"
    /\ UNCHANGED <<workerVars, clock, kind, cancelFlag>>

\* ... and then put the flag, whatever happened in between.
CancelPut ==
    /\ canceller = "checked"
    /\ canceller' = "done"
    /\ cancelFlag' = TRUE
    /\ UNCHANGED <<workerVars, clock, kind>>

\* Lambda kills the invocation.
Kill ==
    /\ CanDie
    /\ Alive
    /\ exec' = "killed"
    /\ todo' = <<>>
    /\ UNCHANGED <<tableVars, userVars, st, engine, child, batchFailed, outcome,
                   reported, frame, dataVars, timeVars, faults, late>>

WorkerStep == StoreCall \/ ExecStep \/ EngineStep

Next == WorkerStep \/ Tick \/ CancelCheck \/ CancelPut \/ Kill

Spec == Init /\ [][Next]_vars

\* asyncio always runs a ready coroutine, and run_timeout_seconds ends every
\* model call: an invocation that is not killed goes on until it returns.
FairSpec == Spec /\ WF_vars(WorkerStep)

-----------------------------------------------------------------------------
(* Properties of the code *)

Positions(type) == {i \in 1..Len(log) : log[i].type = type}
Announced(type) == {log[i].run : i \in Positions(type)}
RunLines == UNION {Positions(t) : t \in {"run_started", "run_completed", "run_failed"}}

\* The status the log is closed with.
Closing == IF Positions("eval_complete") = {} THEN "none" ELSE log[Len(log)].status

\* The reader's contract: a row that reads terminal has its eval_complete in
\* the log already, as the last line and with the row's own status, and its
\* seq_count is the length of that log.
TerminalRowIsClosed ==
    meta.status \in TerminalStatus =>
        /\ log # <<>>
        /\ log[Len(log)].type = "eval_complete"
        /\ log[Len(log)].status = meta.status
        /\ meta.seqCount = Len(log)

\* The writer rule for runs: whoever reacts to run_completed by fetching the
\* run finds it, unless the worker could not read its own row of it.
AnnouncedRunIsStored == Announced("run_completed") \subseteq runItems \cup st.unread

\* "Completed runs are preserved": however the evaluation ended, a run it
\* stored and announced as completed is among the run ids of the settled row.
SettledRowListsRuns ==
    kind # "grade" /\ meta.status \in TerminalStatus =>
        Announced("run_completed") \subseteq meta.runs \cup st.unread

\* A deadline is not a cancellation: only a user's request makes a row
\* cancelled, and a deadline that nobody cancelled names itself as the error.
CancelledOnlyOnRequest ==
    /\ meta.status = "cancelled" => cancelFlag
    /\ meta.error \in {"boundary", "inflight"} => meta.status = "error" /\ clock > 0

\* Nothing is announced out of turn: eval_complete comes last and once, no run
\* line follows the start of grading, and a run that has ended was started.
LogInOrder ==
    /\ \A i \in Positions("eval_complete") : i = Len(log)
    /\ \A i \in RunLines, g \in Positions("grading_started") : i < g
    /\ kind # "grade" => \A i \in RunLines : log[i].type # "run_started" =>
            \E j \in 1..(i - 1) : log[j] = Event("run_started", log[i].run, "none")

\* After the DELETE has put the flag at most one more run starts: the one
\* whose poll had been answered before the flag landed.  A read of the flag
\* that fails counts as "not cancelled" and lets one more through.
FewLateStarts == Cardinality(late) <= 1 + faults

\* The row is settled when the invocation returns.
ReturnedIsSettled == exec = "returned" => meta.status \in TerminalStatus

\* What a reader of the table sees of this evaluation.
Lifecycle == INSTANCE EvalLifecycle WITH
    status <- meta.status, closing <- Closing, Open <- "none"

\* The worker implements the lifecycle readers are promised: the log is closed
\* once, then the row takes the status of the closing line, then nothing
\* changes; and an invocation that is not killed gets there.
SettlesLikeLifecycle ==
    Lifecycle!Spec /\ ([](exec # "killed") => Lifecycle!Fairness)
==============================================================================
