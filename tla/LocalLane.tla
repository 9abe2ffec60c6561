------------------------------ MODULE LocalLane ------------------------------
(***************************************************************************)
(* An evaluation in the local lane: one asyncio task in the server, the     *)
(* job's in-memory event log with its subscribers, the evaluation's row,    *)
(* and the HTTP handlers that create, follow and cancel it.                 *)
(*                                                                          *)
(* What runs on the event loop is atomic between two awaits, and the        *)
(* engine's emits and saves of one such section are one action here.  The   *)
(* handler that opens an event stream runs in a thread instead, so it looks *)
(* at the registry and at the row in between, in two steps.                 *)
(***************************************************************************)
EXTENDS Naturals, Sequences, FiniteSets, SequencesExt

CONSTANTS
    NRuns,          \* repeats the evaluation makes
    MaxConcurrent,  \* MAX_CONCURRENT_RUNS
    Clients,        \* clients that open GET /evaluations/{id}/events
    MaxFaults,      \* failed updates of the row
    CanCrash        \* TRUE when the server process may die and come back

ASSUME LaneAssumption ==
    /\ NRuns \in Nat /\ MaxConcurrent \in Nat \ {0} /\ MaxFaults \in Nat
    /\ CanCrash \in BOOLEAN

Runs == 1..NRuns
TerminalStatus == {"completed", "error", "cancelled"}

VARIABLES
    row,         \* the evaluation's status in the history store
    registered,  \* whether jobs._jobs has the job
    log,         \* EvalJob.log
    finished,    \* EvalJob.finished
    cancelled,   \* EvalJob.cancelled, and task.cancel() with it
    task,        \* run_evaluation: where the engine stands
    child,       \* the coroutine of each repeat
    batchFailed, \* a repeat has raised, so gather has too
    client,      \* each stream: where it stands, what it has sent, its queue
    deleter,     \* the DELETE handler
    faults

jobVars == <<registered, log, finished>>
engineVars == <<task, child, batchFailed>>
vars == <<row, jobVars, cancelled, engineVars, client, deleter, faults>>

Line(type, run, status) == [type |-> type, run |-> run, status |-> status]
EvalComplete(status) == Line("eval_complete", 0, status)
EOF == Line("eof", 0, "none")    \* the None that ends a subscriber's queue

Init ==
    /\ row = "absent"
    /\ registered = FALSE
    /\ log = <<>>
    /\ finished = FALSE
    /\ cancelled = FALSE
    /\ task = "none"
    /\ child = [r \in Runs |-> "unborn"]
    /\ batchFailed = FALSE
    /\ client = [c \in Clients |-> [at |-> "idle", lines |-> <<>>, queue |-> <<>>]]
    /\ deleter = "idle"
    /\ faults = 0

-----------------------------------------------------------------------------
(* EvalJob *)

Fail == faults < MaxFaults /\ faults' = faults + 1

\* emit_entry: append to the log and to every subscriber's queue.
Emit(entries) ==
    /\ log' = log \o entries
    /\ client' = [c \in Clients |->
                    IF client[c].at = "live"
                    THEN [client[c] EXCEPT !.queue = @ \o entries] ELSE client[c]]
    /\ UNCHANGED <<registered, finished>>

\* Mutant of Close: the subscribers are dropped without the sentinel.
CloseSilently(entries) ==
    /\ log' = log \o entries
    /\ client' = [c \in Clients |->
                    IF client[c].at = "live"
                    THEN [client[c] EXCEPT !.queue = @ \o entries] ELSE client[c]]
    /\ finished' = TRUE
    /\ UNCHANGED registered

\* The last emits of the engine, then close(): the job is finished and every
\* queue gets its sentinel.
Close(entries) ==
    /\ log' = log \o entries
    /\ client' = [c \in Clients |->
                    IF client[c].at = "live"
                    THEN [client[c] EXCEPT !.at = "drain",
                                           !.queue = @ \o entries \o <<EOF>>]
                    ELSE client[c]]
    /\ finished' = TRUE
    /\ UNCHANGED registered

-----------------------------------------------------------------------------
(* POST /evaluations *)

\* create_evaluation writes the pending row ...
CreateRow ==
    /\ row = "absent"
    /\ row' = "pending"
    /\ UNCHANGED <<jobVars, cancelled, engineVars, client, deleter, faults>>

\* ... and engine.start registers the job and creates its task.
Register ==
    /\ row = "pending" /\ task = "none"
    /\ registered' = TRUE
    /\ task' = "start"
    /\ UNCHANGED <<row, log, finished, cancelled, child, batchFailed, client, deleter, faults>>

-----------------------------------------------------------------------------
(* The engine's task: run_evaluation around execute_evaluation_with_seam *)

\* The `except Exception` after `entries` have been emitted: settle error and
\* announce it.  If that save raises as well the job is closed all the same.
EngineExcept(entries, used) ==
    /\ task' = "done"
    /\ \/ /\ row' = "error"
          /\ Close(entries \o <<EvalComplete("error")>>)
          /\ faults' = used
       \/ /\ used < MaxFaults
          /\ faults' = used + 1
          /\ Close(entries)
          /\ UNCHANGED row

\* Mutants of SettleCancelled: the cancellation is settled as any other
\* exception; it is saved but not announced.
SettleCancelledAsError ==
    /\ task' = "done"
    /\ row' = "error"
    /\ Close(<<EvalComplete("error")>>)
    /\ UNCHANGED faults
SettleCancelledMute ==
    /\ task' = "done"
    /\ row' = "cancelled"
    /\ Close(<<>>)
    /\ UNCHANGED faults

\* _settle_cancelled, in an except clause of its own: nothing catches what it
\* raises.
SettleCancelled ==
    /\ task' = "done"
    /\ \/ row' = "cancelled" /\ Close(<<EvalComplete("cancelled")>>) /\ UNCHANGED faults
       \/ Fail /\ Close(<<>>) /\ UNCHANGED row


EngineStart ==
    /\ task = "start"
    /\ \/ /\ row' = "running"
          /\ Emit(<<Line("eval_start", 0, "none")>>)
          /\ task' = "batch"
          /\ child' = [r \in Runs |-> "waiting"]
          /\ UNCHANGED faults
       \/ /\ faults < MaxFaults
          /\ EngineExcept(<<>>, faults + 1)
          /\ UNCHANGED child
    /\ UNCHANGED <<cancelled, batchFailed, deleter>>

\* The repeats whose gather has raised run on by themselves.
Scheduled == batchFailed \/ (task = "batch" /\ ~cancelled)

ChildStart(r) ==
    /\ Scheduled
    /\ child[r] = "waiting"
    /\ Cardinality({q \in Runs : child[q] = "running"}) < MaxConcurrent
    /\ \/ /\ cancelled
          /\ child' = [child EXCEPT ![r] = "done"]
          /\ UNCHANGED <<jobVars, client>>
       \/ /\ ~cancelled
          /\ child' = [child EXCEPT ![r] = "running"]
          /\ Emit(<<Line("run_started", r, "none")>>)
    /\ UNCHANGED <<row, cancelled, task, batchFailed, deleter, faults>>

\* The repeat is over; or its run has been deleted meanwhile and load_run
\* raises, which gather passes on without stopping the others.
ChildFinish(r) ==
    /\ Scheduled
    /\ child[r] = "running"
    /\ child' = [child EXCEPT ![r] = "done"]
    /\ \/ /\ \E type \in {"run_completed", "run_failed"} : Emit(<<Line(type, r, "none")>>)
          /\ UNCHANGED batchFailed
       \/ /\ batchFailed' = (batchFailed \/ task = "batch")
          /\ UNCHANGED <<jobVars, client>>
    /\ UNCHANGED <<row, cancelled, task, deleter, faults>>

BatchRaises ==
    /\ task = "batch" /\ batchFailed /\ ~cancelled
    /\ EngineExcept(<<>>, faults)
    /\ UNCHANGED <<cancelled, child, batchFailed, deleter>>

\* Every repeat is over: record them and go on to the judge.
BatchDone ==
    /\ task = "batch" /\ ~batchFailed /\ ~cancelled
    /\ \A r \in Runs : child[r] = "done"
    /\ \/ /\ task' = "judging"
          /\ Emit(<<Line("grading_started", 0, "none")>>)
          /\ UNCHANGED <<row, faults>>
       \/ /\ faults < MaxFaults
          /\ EngineExcept(<<>>, faults + 1)
    /\ UNCHANGED <<cancelled, child, batchFailed, deleter>>

Graded ==
    /\ task = "judging" /\ ~cancelled
    /\ LET graded == <<Line("grading_completed", 0, "none")>>
       IN \/ \E status \in {"completed", "error"} :
                /\ row' = status
                /\ Close(graded \o <<EvalComplete(status)>>)
                /\ task' = "done"
                /\ UNCHANGED faults
          \/ /\ faults < MaxFaults
             /\ EngineExcept(graded, faults + 1)
    /\ UNCHANGED <<cancelled, child, batchFailed, deleter>>

\* task.cancel() was called: whatever the task awaits, it wakes up with a
\* CancelledError.  gather passes it on to the repeats, unless it is over.
CancelDelivered ==
    /\ task \in {"batch", "judging"} /\ cancelled
    /\ child' = IF batchFailed THEN child ELSE [r \in Runs |-> "done"]
    /\ SettleCancelled
    /\ UNCHANGED <<cancelled, batchFailed, deleter>>

EngineStep ==
    \/ EngineStart \/ BatchRaises \/ BatchDone \/ Graded \/ CancelDelivered
    \/ \E r \in Runs : ChildStart(r) \/ ChildFinish(r)

-----------------------------------------------------------------------------
(* GET /evaluations/{id}/events *)

Goto(c, at) == client' = [client EXCEPT ![c].at = at]

\* In a thread: is there a job?  If not, what does the row say?
Lookup(c) ==
    /\ client[c].at = "idle"
    /\ Goto(c, IF registered THEN "follow" ELSE "row")
    /\ UNCHANGED <<row, jobVars, cancelled, engineVars, deleter, faults>>

\* _replay_finished: one synthetic line made from the row.
ReplayFinished(c) ==
    /\ client[c].at = "row"
    /\ \/ /\ row = "absent"
          /\ Goto(c, "notfound")
       \/ /\ row # "absent"
          /\ client' = [client EXCEPT
                ![c].at = "told",
                ![c].lines = <<EvalComplete(IF row \in {"completed", "cancelled"}
                                            THEN row ELSE "error")>>]
    /\ UNCHANGED <<row, jobVars, cancelled, engineVars, deleter, faults>>

\* Mutant of Replay: a subscriber starts with the live events.
ReplayNothing == <<>>

\* What a new subscriber replays.
Replay == log

\* subscribe(): snapshot the log and register the queue in one step.
Subscribe(c) ==
    /\ client[c].at = "follow"
    /\ client' = [client EXCEPT
            ![c].at = IF finished THEN "replay" ELSE "live",
            ![c].queue = IF finished THEN Replay \o <<EOF>> ELSE Replay]
    /\ UNCHANGED <<row, jobVars, cancelled, engineVars, deleter, faults>>

\* follow() yields the next entry, or ends at the sentinel.
Deliver(c) ==
    /\ client[c].at \in {"live", "drain", "replay"}
    /\ client[c].queue # <<>>
    /\ LET entry == Head(client[c].queue)
       IN client' = [client EXCEPT
            ![c].queue = Tail(@),
            ![c].lines = IF entry = EOF THEN @ ELSE Append(@, entry),
            ![c].at = IF entry # EOF THEN @
                      ELSE IF @ = "replay" THEN "replayed" ELSE "ended"]
    /\ UNCHANGED <<row, jobVars, cancelled, engineVars, deleter, faults>>

\* The client disconnects; the generator's finally unsubscribes it.
Disconnect(c) ==
    /\ client[c].at \in {"live", "drain", "replay"}
    /\ client' = [client EXCEPT ![c] = [at |-> "gone", lines |-> <<>>, queue |-> <<>>]]
    /\ UNCHANGED <<row, jobVars, cancelled, engineVars, deleter, faults>>

ClientStep(c) == Lookup(c) \/ ReplayFinished(c) \/ Subscribe(c) \/ Deliver(c)

-----------------------------------------------------------------------------
(* DELETE /evaluations/{id}, and the end of the process *)

\* Mutant of Orphaned: any row without a running job is settled.
OrphanedAny == row # "absent"

\* A row that still reads unfinished although no job runs it.
Orphaned == row \in {"pending", "running"}

\* The id is known only after POST has answered, by which time the task has
\* started.
Delete ==
    /\ deleter = "idle"
    /\ row # "absent" /\ task \notin {"none", "start"}
    /\ \/ /\ registered /\ ~finished
          /\ cancelled' = TRUE
          /\ deleter' = "waiting"
          /\ UNCHANGED <<row, faults>>
       \/ /\ ~(registered /\ ~finished)
          /\ Orphaned
          /\ \/ row' = "cancelled" /\ deleter' = "settled" /\ UNCHANGED faults
             \/ Fail /\ deleter' = "failed" /\ UNCHANGED row
          /\ UNCHANGED cancelled
       \/ /\ ~(registered /\ ~finished)
          /\ ~Orphaned
          /\ deleter' = "conflict"
          /\ UNCHANGED <<row, cancelled, faults>>
    /\ UNCHANGED <<jobVars, engineVars, client>>

\* jobs.cancel has waited for the task, or for its 30 seconds.
DeleteReturns ==
    /\ deleter = "waiting"
    /\ deleter' = IF task = "done" THEN "done" ELSE "timeout"
    /\ UNCHANGED <<row, jobVars, cancelled, engineVars, client, faults>>

\* _prune, when another evaluation is registered: the job is forgotten, though
\* not by those who follow it.
Prune ==
    /\ registered /\ finished
    /\ registered' = FALSE
    /\ UNCHANGED <<row, log, finished, cancelled, engineVars, client, deleter, faults>>

\* The process dies with everything it holds in memory, and comes back.
Crash ==
    /\ CanCrash
    /\ task \notin {"none", "dead"}
    /\ registered' = FALSE
    /\ task' = "dead"
    /\ child' = [r \in Runs |-> "done"]
    /\ client' = [c \in Clients |->
                    IF client[c].at \in {"follow", "live", "drain", "replay"}
                    THEN [at |-> "gone", lines |-> <<>>, queue |-> <<>>] ELSE client[c]]
    /\ deleter' = IF deleter = "waiting" THEN "failed" ELSE deleter
    /\ UNCHANGED <<row, log, finished, cancelled, batchFailed, faults>>

Next ==
    \/ CreateRow \/ Register \/ EngineStep
    \/ \E c \in Clients : ClientStep(c) \/ Disconnect(c)
    \/ Delete \/ DeleteReturns \/ Prune \/ Crash

Spec == Init /\ [][Next]_vars

\* The loop runs what is ready, run_timeout_seconds ends every model call, and
\* a connected client is sent what its queue holds.
FairSpec ==
    /\ Spec
    /\ WF_vars(EngineStep)
    /\ \A c \in Clients : WF_vars(ClientStep(c))

-----------------------------------------------------------------------------
Lines == [type : {"eval_start", "run_started", "run_completed", "run_failed",
                  "grading_started", "grading_completed", "eval_complete", "eof"},
          run : 0..NRuns, status : TerminalStatus \cup {"none"}]

Completes(s) == {i \in 1..Len(s) : s[i].type = "eval_complete"}

\* A subscriber can neither miss an event nor see one twice: what it was sent
\* and what waits in its queue is the log, all of it while the job runs.
SubscriberSeesTheLog ==
    \A c \in Clients :
        LET seen == client[c].lines \o client[c].queue
        IN /\ client[c].at = "live" => seen = log
           /\ client[c].at = "ended" => IsPrefix(client[c].lines, log)

\* A stream that has come to its end as the job closed ends on eval_complete,
\* with the status of the row; a replay has that line too, and once.
EndedStreamIsComplete ==
    \A c \in Clients :
        client[c].at \in {"ended", "replayed"} /\ faults = 0 =>
            LET lines == client[c].lines
            IN /\ Cardinality(Completes(lines)) = 1
               /\ \A i \in Completes(lines) :
                    /\ lines[i].status = row
                    /\ client[c].at = "ended" => i = Len(lines)

\* A DELETE that has waited for the job answers only once the row reads
\* cancelled and the final event says so.
DeleteMeansCancelled ==
    deleter = "done" /\ faults = 0 =>
        /\ row = "cancelled"
        /\ \E i \in 1..Len(log) : log[i] = EvalComplete("cancelled")

\* Neither the engine, its leftover repeats nor a DELETE of an orphan changes a
\* status once it is terminal.
SettledRowStands == [][(row \in TerminalStatus) => UNCHANGED row]_row

\* Whoever follows an evaluation sees its stream end.
StreamsEnd ==
    \A c \in Clients :
        client[c].at \in {"live", "drain", "replay"}
            ~> client[c].at \in {"ended", "replayed", "gone"}
==============================================================================
