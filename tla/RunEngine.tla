------------------------------ MODULE RunEngine ------------------------------
(***************************************************************************)
(* One run through the engine (engine/runner.py) and the row it leaves in  *)
(* the history, with the other users of the table: deletes, evaluations'   *)
(* updates and a client's walk through a listing.                          *)
(*                                                                         *)
(* `execute_run` is an async generator: it stops at every yield until its  *)
(* consumer asks for the next event or leaves, and it awaits the agent     *)
(* between raw events.  Those are the points where the consumer's          *)
(* disconnect (GeneratorExit) or the task's cancellation (CancelledError)  *)
(* can strike.  Tools run beside the generator: a hook records each one    *)
(* that finishes, and the generator drains the record after a raw event.   *)
(* A run that names a saved MCP server reads its definition first, while   *)
(* it may be changed.                                                      *)
(***************************************************************************)
EXTENDS McpStore, Sequences

CONSTANTS
    NewRuns,   \* the runs this process makes; the others are from before
    Tools,     \* the tool calls an agent may make
    Raws,      \* the kinds of raw agent events that come up
    Scenes     \* bound: what goes on at once, see Scene

\* the rows an earlier process left, the runs and evaluations that are made
\* now, how many raw events (max_tool_iterations turns) and which tool calls a
\* run has, which evaluations a client deletes, whether one walks a listing, and
\* who edits the saved MCP server, which the runs then use
Scene == [old : SUBSET (RunIds \ NewRuns), runs : SUBSET NewRuns, evals : SUBSET EvalIds,
          deleted : SUBSET EvalIds, raws : Nat, tools : SUBSET Tools, walks : BOOLEAN,
          editors : SUBSET Writers]


VARIABLES
    run,     \* per run: the generator's locals and what its consumer heard
    job,     \* per evaluation: how far its job is, "none", "pending", "running", "over"
    delete,  \* per evaluation: a DELETE of it
    scene

laneVars == <<job, delete>>
vars == <<storeVars, mcpVars, run, laneVars, scene>>

(***************************************************************************)
(* engine/mapper.py: a raw agent event is one event of ours or none.       *)
(***************************************************************************)
ChunkEvent == [toolStart |-> "tool_use_start", text |-> "text_delta",
               toolInput |-> "tool_input_delta", reasoning |-> "reasoning_delta",
               signature |-> "none", structural |-> "none", unknownChunk |-> "none"]
MetadataEvent == [guardrail |-> "guardrail_trace", usage |-> "none"]
ResultEvent   == [result |-> "metrics", bareResult |-> "none"]
AgentEvent    == [message |-> "message", control |-> "none", duplicate |-> "none",
                  unknown |-> "none"]

EventOf(raw) ==
    CASE raw \in DOMAIN ChunkEvent    -> ChunkEvent[raw]
      [] raw \in DOMAIN MetadataEvent -> MetadataEvent[raw]
      [] raw \in DOMAIN ResultEvent   -> ResultEvent[raw]
      [] raw \in DOMAIN AgentEvent    -> AgentEvent[raw]

(***************************************************************************)
(* What a run accumulates, and what its consumer has heard of it.          *)
(***************************************************************************)
\* output as the number of text deltas joined; the assessments as their number
EmptyBody == [text |-> 0, tools |-> <<>>, metrics |-> FALSE, guard |-> 0, error |-> FALSE]
NothingHeard == [text |-> 0, tools |-> <<>>, metrics |-> FALSE, guard |-> 0, end |-> "none"]

IdleRun == [pc |-> "idle", server |-> Absent, raws |-> 0, final |-> FALSE, finished |-> {},
            pending |-> <<>>, drained |-> <<>>, body |-> EmptyBody,
            status |-> "completed", left |-> "no", heard |-> NothingHeard]

Accumulate(body, event) ==
    CASE event = "text_delta"      -> [body EXCEPT !.text = @ + 1]
      [] event = "metrics"         -> [body EXCEPT !.metrics = TRUE]
      [] event = "guardrail_trace" -> [body EXCEPT !.guard = @ + 1]
      [] OTHER                     -> body

Hear(heard, event) ==
    CASE event = "text_delta"      -> [heard EXCEPT !.text = @ + 1]
      [] event = "metrics"         -> [heard EXCEPT !.metrics = TRUE]
      [] event = "guardrail_trace" -> [heard EXCEPT !.guard = @ + 1]
      [] OTHER                     -> heard

\* the next drained record goes on the transcript, then out
YieldTool(x, queue) ==
    [x EXCEPT !.pc = "tool", !.drained = Tail(queue),
              !.body.tools = Append(@, Head(queue)),
              !.heard.tools = Append(@, Head(queue))]

\* a mutant: drain() hands the list out and keeps it
DrainKeeping(x) ==
    IF x.pending # <<>> THEN YieldTool(x, x.pending)
    ELSE [x EXCEPT !.pc = IF x.final THEN "persist" ELSE "agent"]

\* drain() swaps the list of finished tools for a new one; with nothing
\* drained the generator goes on to the next raw event, or to the end
Drain(x) ==
    IF x.pending # <<>> THEN YieldTool([x EXCEPT !.pending = <<>>], x.pending)
    ELSE [x EXCEPT !.pc = IF x.final THEN "persist" ELSE "agent"]

OldRow == [ts : Times, status : {"completed", "error"}, body : {EmptyBody}]

\* an evaluation's row; it has no transcript
EvaluationRow == [ts : Times, status : {"pending", "running"} \cup Terminal, body : {EmptyBody}]

\* a DELETE of an evaluation has checked its row, then read the item it puts back
NoDelete == [pc |-> "none", row |-> Absent]

ASSUME EngineAssumption ==
    /\ NewRuns \subseteq RunIds /\ Scenes \subseteq Scene
    /\ Absent \notin EvaluationRow

Init ==
    /\ backend \in Backends
    /\ scene \in Scenes
    /\ \E old \in [scene.old -> OldRow] :
          rows = [i \in Ids |-> IF i \in scene.old THEN old[i] ELSE Absent]
    /\ inFlight = [i \in Ids |-> Absent]
    /\ past = [i \in Ids |-> {}]
    /\ gone = {}
    /\ walk = Absent
    /\ run = [r \in NewRuns |-> IdleRun]
    /\ job = [e \in EvalIds |-> "none"]
    /\ delete = [e \in EvalIds |-> NoDelete]
    /\ McpInit

UsesServer == scene.editors # {}

Stay == UNCHANGED storeVars
Become(r, x) == run' = [run EXCEPT ![r] = x] /\ UNCHANGED <<mcpVars, laneVars, scene>>
Beside == UNCHANGED <<mcpVars, run, laneVars, scene>>
BesideLane == UNCHANGED <<mcpVars, run, scene>>

(***************************************************************************)
(* Setup: POST /runs, or one run of an evaluation.                         *)
(***************************************************************************)
\* an unknown toolset or MCP server, or a server whose parameter is missing:
\* an ordinary 400 or 503, no row
Refuse(r) ==
    /\ \/ run[r].pc = "idle" /\ (UsesServer => Absent \in Read)
       \/ run[r].pc = "secret" /\ SavedHeaders(run[r].server) = Absent
    /\ Become(r, [run[r] EXCEPT !.pc = "refused"])
    /\ Stay

\* resolve: store.get of the server the run names, the item and then the secret
ResolveItem(r) ==
    /\ run[r].pc = "idle" /\ UsesServer
    /\ \E read \in Read \ {Absent} :
          Become(r, [run[r] EXCEPT !.pc = "secret", !.server = read])
    /\ Stay

ResolveSecret(r) ==
    /\ run[r].pc = "secret"
    /\ LET headers == SavedHeaders(run[r].server)
       IN  /\ headers # Absent
           /\ Become(r, [run[r] EXCEPT !.pc = "resolved", !.server =
                            [url |-> @.url, headers |-> headers]])
    /\ Stay

\* the row is created running and run_start is out: the generator is primed
CreateRun(r, ts) ==
    /\ run[r].pc = IF UsesServer THEN "resolved" ELSE "idle"
    /\ InsertRow(r, ts, "running", EmptyBody) \/ PutRow(r, ts, "running", EmptyBody)
    /\ Become(r, [run[r] EXCEPT !.pc = "start"])

\* the consumer leaves at the first yield, which is before the try
LeaveAtStart(r) ==
    /\ run[r].pc = "start"
    /\ Become(r, [run[r] EXCEPT !.pc = "ended", !.left = "start"])
    /\ Stay

(***************************************************************************)
(* The stream.                                                             *)
(***************************************************************************)
\* the generator is resumed and starts the agent
Begin(r) ==
    /\ run[r].pc = "start"
    /\ Become(r, [run[r] EXCEPT !.pc = "agent"])
    /\ Stay

\* the agent is built only once its MCP server has been connected to
Connected(r) == run[r].server # Absent => Reachable(run[r].server.url)

\* AfterToolCallEvent: the hook, whatever the generator is at
ToolFinishes(r, t) ==
    /\ run[r].pc \in {"agent", "event", "tool"} /\ Connected(r)
    /\ ~run[r].final
    /\ t \in scene.tools \ run[r].finished
    /\ Become(r, [run[r] EXCEPT !.pending = Append(@, t), !.finished = @ \cup {t}])
    /\ Stay

\* the result, which carries the metrics, is the agent's last event
RawEvent(r, raw) ==
    /\ run[r].pc = "agent" /\ Connected(r)
    /\ run[r].raws < scene.raws
    /\ ~run[r].body.metrics
    /\ LET event == EventOf(raw)
           x == [run[r] EXCEPT !.raws = @ + 1]
       IN  Become(r, IF event = "none" THEN Drain(x)
                     ELSE [x EXCEPT !.pc = "event",
                                    !.body = Accumulate(@, event),
                                    !.heard = Hear(@, event)])
    /\ Stay

\* the consumer comes back for the next event
AfterEvent(r) ==
    /\ run[r].pc = "event"
    /\ Become(r, Drain(run[r]))
    /\ Stay

NextTool(r) ==
    /\ run[r].pc = "tool"
    /\ Become(r, IF run[r].drained # <<>> THEN YieldTool(run[r], run[r].drained)
                 ELSE [run[r] EXCEPT !.pc = IF run[r].final THEN "persist" ELSE "agent"])
    /\ Stay

\* the agent's stream is over: a last drain
StreamEnds(r) ==
    /\ run[r].pc = "agent" /\ Connected(r)
    /\ Become(r, Drain([run[r] EXCEPT !.final = TRUE]))
    /\ Stay

(***************************************************************************)
(* Failing and leaving: what is still pending goes on the transcript.      *)
(***************************************************************************)
\* a mutant: the failure leaves the generator
FailOut(r) ==
    /\ run[r].pc = "agent"
    /\ Become(r, [run[r] EXCEPT !.pc = "broken"])
    /\ Stay

\* the model, the agent or a MCP server raises
Fail(r) ==
    /\ run[r].pc = "agent"
    /\ Become(r, [run[r] EXCEPT !.pc = "persist", !.status = "error", !.pending = <<>>,
                                !.body.error = TRUE, !.body.tools = @ \o run[r].pending])
    /\ Stay

\* CancelledError at the await or GeneratorExit at a yield
Cancel(r) ==
    /\ run[r].pc \in {"agent", "event", "tool"}
    /\ Become(r, [run[r] EXCEPT !.pc = "persist", !.status = "cancelled", !.left = "body",
                                !.pending = <<>>, !.body.tools = @ \o run[r].pending])
    /\ Stay

(***************************************************************************)
(* _persist, and what is yielded after it.                                 *)
(***************************************************************************)
Persisted(x) ==
    CASE x.status = "cancelled" -> [x EXCEPT !.pc = "ended"]
      [] x.status = "error"     -> [x EXCEPT !.pc = "error", !.heard.end = "error"]
      [] x.status = "completed" -> [x EXCEPT !.pc = "complete", !.heard.end = "complete"]

\* a mutant: run_complete goes out before the row is written
PersistLate(r) ==
    /\ run[r].pc = "persist"
    /\ Become(r, Persisted(run[r]))
    /\ Stay

\* one transaction on SQLite, the second half of the update on DynamoDB
Persist(r) ==
    /\ run[r].pc = "persist"
    /\ \/ UpdateSqlite(r, run[r].status, run[r].body)
       \/ UpdatePut(r, run[r].status, run[r].body)
    /\ Become(r, Persisted(run[r]))

PersistRead(r) ==
    /\ run[r].pc = "persist"
    /\ UpdateRead(r)
    /\ Beside

\* the run was deleted under the engine: NotFoundError out of the generator
PersistMissing(r) ==
    /\ run[r].pc = "persist"
    /\ UpdateMissing(r)
    /\ Become(r, [run[r] EXCEPT !.pc = "broken"])

\* the error event is out; the consumer comes back for run_complete
AfterError(r) ==
    /\ run[r].pc = "error"
    /\ Become(r, [run[r] EXCEPT !.pc = "complete", !.heard.end = "complete"])
    /\ Stay

\* a mutant: leaving at one of the last yields is a cancellation as well
FinishCancelling(r) ==
    /\ run[r].pc \in {"error", "complete"}
    /\ UpdateSqlite(r, "cancelled", run[r].body)
    /\ Become(r, [run[r] EXCEPT !.pc = "ended"])

\* the generator is exhausted, or is left at one of the yields after the try
Finish(r) ==
    /\ run[r].pc \in {"error", "complete"}
    /\ Become(r, [run[r] EXCEPT !.pc = "ended"])
    /\ Stay

EngineStep(r) ==
    \/ LeaveAtStart(r) \/ Begin(r)
    \/ \E raw \in Raws : RawEvent(r, raw)
    \/ AfterEvent(r) \/ NextTool(r) \/ StreamEnds(r)
    \/ Fail(r) \/ Cancel(r)
    \/ Persist(r) \/ PersistRead(r) \/ PersistMissing(r)
    \/ AfterError(r) \/ Finish(r)

(***************************************************************************)
(* The other users of the table.                                           *)
(***************************************************************************)
\* an evaluation is made, by the local lane or the cloud's, and its job ...
Stage(e, stage) == job' = [job EXCEPT ![e] = stage] /\ UNCHANGED delete /\ BesideLane

InsertEvaluation(e, ts) ==
    /\ e \in scene.evals
    /\ InsertRow(e, ts, "pending", EmptyBody)
    /\ Stage(e, "pending")

PutEvaluation(e, ts) ==
    /\ e \in scene.evals
    /\ PutRow(e, ts, "pending", EmptyBody)
    /\ Stage(e, "pending")

\* ... saves that it runs and how it ended, whatever the row says by then
Saves == [none |-> {}, pending |-> {"running", "error", "cancelled"},
          running |-> Terminal, over |-> {}]
StageOf(status) == IF status = "running" THEN "running" ELSE "over"

UpdateEvaluation(e) ==
    \E s \in Saves[job[e]] :
        /\ UpdateSqlite(e, s, rows[e].body)
        /\ Stage(e, StageOf(s))

ReadEvaluation(e) ==
    /\ Saves[job[e]] # {}
    /\ UpdateRead(e)
    /\ Beside

PutUpdatedEvaluation(e) ==
    \E s \in Saves[job[e]] :
        /\ UpdatePut(e, s, inFlight[e].body)
        /\ Stage(e, StageOf(s))

\* DELETE of an evaluation whose job is not this process's: the row it reads must
\* be unfinished ...
Deleting(e, pc, version) ==
    delete' = [delete EXCEPT ![e] = [pc |-> pc, row |-> version]] /\ UNCHANGED job /\ BesideLane

ReadBy(e) == IF backend = "sqlite" THEN {rows[e]} \ {Absent} ELSE Versions(e)

CheckEvaluation(e) ==
    /\ e \in scene.deleted /\ delete[e].pc = "none"
    /\ \E version \in ReadBy(e) : version.status \in {"pending", "running"}
    /\ Deleting(e, "checked", Absent)
    /\ Stay

\* ... and is settled by a second writer: one transaction on SQLite
CancelEvaluation(e) ==
    /\ delete[e].pc = "checked"
    /\ UpdateSqlite(e, "cancelled", rows[e].body)
    /\ Deleting(e, "over", Absent)

\* a read and a put of its own on DynamoDB
ReadDeleted(e) ==
    /\ backend = "dynamo"
    /\ delete[e].pc = "checked" /\ delete[e].row = Absent
    /\ \E version \in Versions(e) : Deleting(e, "checked", version)
    /\ Stay

PutDeleted(e) ==
    /\ delete[e].row # Absent
    /\ SetRow(e, Assigned(delete[e].row, "cancelled", delete[e].row.body))
    /\ Deleting(e, "over", Absent)
    /\ UNCHANGED <<backend, inFlight, gone>>

DeleteEvaluation(e) ==
    CheckEvaluation(e) \/ CancelEvaluation(e) \/ ReadDeleted(e) \/ PutDeleted(e)

Delete(r) == DeleteRun(r) /\ Beside

Walk ==
    /\ scene.walks
    /\ \/ \E part \in {"RUN", "EVAL"}, want \in {AnyStatus, "running", "completed"},
             mode \in {"list", "export"} : StartWalk(part, want, mode)
       \/ ReadPage
    /\ Beside

EditServer == (\E w \in scene.editors : McpStep(w)) /\ UNCHANGED <<storeVars, run, laneVars, scene>>

Next ==
    \/ \E r \in scene.runs : Refuse(r) \/ ResolveItem(r) \/ ResolveSecret(r)
                             \/ \E ts \in Times : CreateRun(r, ts)
    \/ \E r \in NewRuns : (\E t \in Tools : ToolFinishes(r, t)) \/ EngineStep(r)
    \/ \E r \in RunIds : Delete(r)
    \/ \E e \in EvalIds :
          \/ \E ts \in Times : InsertEvaluation(e, ts) \/ PutEvaluation(e, ts)
          \/ UpdateEvaluation(e) \/ ReadEvaluation(e) \/ PutUpdatedEvaluation(e)
          \/ DeleteEvaluation(e)
    \/ Walk \/ EditServer

Spec == Init /\ [][Next]_vars

\* The server either asks the generator for the next event or closes it, the
\* agent stops after max_tool_iterations turns, and the client of a walk asks
\* for every page it is told of.
FairSpec ==
    /\ Spec
    /\ \A r \in NewRuns : WF_vars(EngineStep(r))
    /\ WF_vars(ReadPage /\ Beside)

(***************************************************************************)
(* Properties.                                                             *)
(***************************************************************************)
\* the generator is through with its try and its row was not deleted
Settled(r) == /\ run[r].pc \in {"error", "complete", "ended"} /\ run[r].left # "start"
              /\ rows[r] # Absent

\* "The run row is fully updated before run_complete is emitted": whoever
\* asks for the run once an error or run_complete event is out reads its
\* terminal row, with every tool that finished and the error if there was one.
RowBeforeComplete ==
    \A r \in NewRuns : Settled(r) /\ run[r].heard.end # "none" =>
        /\ rows[r].status = run[r].status /\ rows[r].status # "cancelled"
        /\ rows[r].body.error = (rows[r].status = "error")
        /\ {rows[r].body.tools[k] : k \in DOMAIN rows[r].body.tools} = run[r].finished

\* However the run ended, what its consumer heard of it is on the row: the
\* same text, metrics and guardrail assessments, and the tool results in the
\* order they went out.
HeardIsOnTheRow ==
    \A r \in NewRuns : Settled(r) =>
        /\ rows[r].status \in Terminal
        /\ rows[r].body.text = run[r].heard.text
        /\ rows[r].body.metrics = run[r].heard.metrics
        /\ rows[r].body.guard = run[r].heard.guard
        /\ Len(run[r].heard.tools) <= Len(rows[r].body.tools)
        /\ SubSeq(rows[r].body.tools, 1, Len(run[r].heard.tools)) = run[r].heard.tools

\* What a consumer heard and what anyone reads of the row are one story.
RowTellsTheStream == RowBeforeComplete /\ HeardIsOnTheRow

\* No tool call is on a row twice, whether it was yielded or swept up at the end.
ToolsOnTheRowOnce ==
    \A r \in RunIds : rows[r] # Absent =>
        Cardinality({rows[r].body.tools[k] : k \in DOMAIN rows[r].body.tools})
            = Len(rows[r].body.tools)

\* A run whose agent was started ends with a terminal row, or was deleted.
RunsSettle ==
    \A r \in NewRuns :
        run[r].pc = "agent" ~> rows[r] = Absent \/ rows[r].status \in Terminal

\* engine/runner.py: "Tools that finished but whose result never got yielded
\* still belong on the row".
FinishedToolsAreStored ==
    \A r \in NewRuns : Settled(r) /\ rows[r].status = "cancelled" =>
        {rows[r].body.tools[k] : k \in DOMAIN rows[r].body.tools} = run[r].finished
=============================================================================
