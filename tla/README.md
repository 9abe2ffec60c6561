# Formal models of the evaluation harness

TLA+ models of the parts of this repository whose correctness depends on
ordering, failure, concurrency, stale data or arithmetic at a boundary: how an
evaluation is admitted, claimed, executed, paid for, settled, followed and
cancelled, in the cloud lane (AWS Lambda and DynamoDB) and in the local lane
(one asyncio process); how one run is streamed and stored; how a suite is
scored, compared and gated; how arms are planned from a file that is edited
meanwhile; and how a saved MCP server is kept as one definition across two
stores. TLC checks small instances; TLAPS proves what matters most for every
value of the constants.

Paths below are relative to `src/`; `nimbus/` stands for `server/nimbus/`.

## 1. Inventory

### The system

A FastAPI server (`nimbus/main.py`, `nimbus/routers/`) runs LLM agents once
("runs"), or several times and grades the result ("evaluations"). An evaluation
is executed by one engine (`nimbus/evals/engine.py`) in one of two lanes:

- **local lane**: an asyncio task of the server. Events go to an in-memory log
  (`nimbus/evals/jobs.py`), the row to the history store.
- **cloud lane**: the server writes a `pending` META item to DynamoDB and
  invokes a Lambda function asynchronously (`nimbus/evals/cloud.py`). The worker
  (`nimbus/worker/lambda_app.py`) claims the row and runs the same engine with
  `DynamoEvalStore` (`nimbus/worker/ddb.py`) as emitter and store. The server
  reads the table to serve rows and event streams.

The router asks the history first and the cloud lane's table only when the
history raises NotFoundError. A server with a history of its own (SQLite beside
`NIMBUS_EVAL_TABLE`, `README.md:241`) therefore follows the worker's event log
and cancels through the CANCEL item. On the deployed stack
(`infra/template.yaml:436-438`) the history *is* that table: the row is found,
`GET .../events` answers with one synthetic `eval_complete`, and DELETE writes
the row itself. Both are modelled.

A command line (`nimbus/cli/`) submits evaluations to a deployed stack and
follows them, or evaluates on one machine, compares arms and keeps a fallback
plan. A browser application (`app/`) shows the same interface.

| Component | State it keeps | Operations | Interacts with |
|---|---|---|---|
| Worker store `nimbus/worker/ddb.py` | META, EVENT#n, CANCEL and RUN# items; in memory: next seq, buffered terminal update, saved run ids, latches | begin, mark_running, save_evaluation, emit, save_run, load_run, complete, finalize, cancel_requested, stop_with | engine and `execute()` call it; the server reads its items |
| Worker entry `nimbus/worker/lambda_app.py` | deadline, engine task | handler, execute, stop condition, hard stop, settle paths | Lambda delivers events; store; engine |
| Evaluation engine `nimbus/evals/engine.py`, `events.py` | outcomes, ledger, children | batch of repeats under a semaphore, grading, settling, spend settlement | emitter/store seam, `cancelled()` callback, run engine, judge |
| Budget `nimbus/evals/budget.py` | spent, finished, in_flight, exhausted | admit, settle | engine |
| Suite scoring `nimbus/evals/{assertions,grader,metrics,compare,readiness}.py`, `nimbus/cli/gating.py` | none | checks, judging, panels, results, comparison, readiness, gates | engine, router, command line |
| Cloud lane, server side `nimbus/evals/cloud.py`, `ddb_reader.py` | none (DynamoDB) | submit, abandon, cancel, stream_events, reads | worker through the table; Lambda's invoke |
| Local lane `nimbus/evals/jobs.py`, `nimbus/routers/runs.py` | job registry, event log, subscriber queues, task | create, follow, cancel, prune | engine; HTTP clients |
| Spend accounting `nimbus/spend.py`, `nimbus/evals/admission.py` | per-user, per-window counter | reserve, settle, release | router, engine, run streams |
| Run engine `nimbus/engine/` | one run's transcript and row | run, map events, persist | history store, model SDK, MCP servers |
| History store `nimbus/store/` | runs and evaluations (SQLite or DynamoDB) | create, update, delete, list (keyset pages), export | everything |
| MCP servers `nimbus/mcp/` | an item (or row) and a parameter of secrets | create, update, delete, resolve | router, run engine |
| Arms, plan, editing `nimbus/{arms,plan,suite_edit}.py` | the suite file, its prompt files, the plan file | expand, build, check, promote, init | command line, users editing files |
| Command line `nimbus/cli/` | one evaluation's progress; credentials | eval, compare, plan check, promote, init | server; files |
| Front-end stores `app/src/stores/` | view state | async actions whose answers arrive in any order | HTTP interface |
| Others: judges, providers, guardrails, tools, configuration, UI, infrastructure | settings and tables | adapters, rendering | |

### What is hard here

- **Ordering of two writes.** A cloud evaluation ends with two items, the
  `eval_complete` event and the terminal META; a reader that stops on the one
  must not miss the other. A run's row must exist before `run_completed`. An MCP
  server is an item and a parameter.
- **Partial failure.** Every table call may fail, with or without having taken
  effect, and the settling path has four layers (engine, engine's `except`,
  `execute`'s own handling, `_finalize_quietly`) that must not undo each other.
  A judge of several may raise, one answer of many may not be graded.
- **Timeouts against late answers.** The invocation's deadline stops the engine
  first cooperatively, then hard, while it may be half way through settling; a
  deadline must not read as the user's cancel, and a cancel must not read as a
  deadline.
- **Delivery.** Lambda delivers an event at least once and again after a failed
  invocation; the claim's answer may be lost; a client's connection breaks.
- **Interleaving.** Repeats run concurrently and survive an exception of a
  sibling (`asyncio.gather` does not cancel them); tools finish beside a
  generator that may be left at any yield; subscribers join while events are
  emitted; DELETE reads and then writes; requests race for one spend limit.
- **Staleness.** The server's reads of the table are eventually consistent; a
  listing is paged while it changes; a file is edited while it is evaluated.
- **Arithmetic at a boundary.** Budgets are admitted from a mean; a verdict
  turns on a few cases; nothing measured is not the same as zero.

### What makes each component correct

- Worker: a row that reads terminal is closed by its own `eval_complete`, is
  never written again, and keeps the runs the log announced; an invocation that
  returns has settled its row; only a user's request makes it `cancelled`.
- Stream and command: every line once, in order, `eval_complete` last, whatever
  connection breaks; it ends, and the exit code is true, whoever deletes the
  evaluation.
- Claim: one owner at most, no row left running by a delivery that stood down,
  no queued event whose row is never claimed, a terminal status that stays.
- Spend: the limit holds among concurrent requests; the counter never shows less
  than what was spent and converges on it.
- Budget: the overshoot of a cost limit is bounded by the runs in flight and
  those that an exception took.
- Local lane: a subscriber sees the log without gap or duplicate and reaches its
  end; the answer to a DELETE is true; a settled row stands.
- Run engine: what a consumer has heard is on the row, and the row is final
  before `run_complete`, wherever the consumer leaves.
- History store: a walk through a listing shows every row it owes once; a run's
  final row stands. (An evaluation's has two writers and does not.)
- MCP servers: whatever the store vouches for is one definition.
- Suite scoring: no case passes without evidence; the order in which runs land,
  judges answer or arms are named decides nothing; gates, tables and verdicts
  agree with one another.
- Plan: a plan that still checks out describes what was judged and what would run.

`PROJECT.json` lists every component with its status, every hazard at its line
with the properties that cover it, and for every definition the lines it models.

## 2. Modules

| Module | Models | Builds on |
|---|---|---|
| `EvalLifecycle` | abstract specification: what a reader of one cloud evaluation is promised | |
| `CloudWorker` | one invocation: `execute()`, the engine and its repeats, `DynamoEvalStore`, the user's DELETE, clock, failures, kill | implements `EvalLifecycle` |
| `CloudStream` | the server's answers about that evaluation, from a history of its own or from the worker's table: the stream of its events through lagging reads, and a DELETE of the row | extends `CloudWorker` |
| `StackCommand` | `nimbus eval` on a stack: submit, follow or be answered by a replay, reconnect, Ctrl-C, read, exit | extends `CloudStream` |
| `WorkerClaim` | POST to ownership: submit, abandon, deliveries, claim, read-back, redelivery | |
| `SpendCounter` | one user's spend counter and the requests counted on it | |
| `LocalLane` | the local lane: row, job, engine task, streams, DELETE, eviction, restart | |
| `HistoryStore` | runs and evaluations on either backend; listings and exports | |
| `McpStore` | one saved MCP server: item, parameter, requests that fail half-way | extends `HistoryStore` (the choice of backend) |
| `RunEngine` | one run's generator, its row, and the other users of the table | extends `McpStore` |
| `EvalBatch` | the batch of runs under the ledger and the semaphore | |
| `Assertions`, `SuiteScoring`, `Readiness`, `ArmComparison` | pure: checks; results; the readiness verdict; comparison and gates | each extends the ones before it that it uses |
| `SuitePipeline` | an evaluation from its first run to the stored document and its readers | extends `EvalBatch`, `ArmComparison` |
| `FallbackPlan` | a suite file, the commands that compare its arms, the plan, editing | extends `ArmComparison` |
| `Sorting`, `DataLemmas` | `sorted()` and filters by their results; lemmas about sums, orders, products | |
| `*Proofs` | theorems about the module of that name; `SuitePipelineProofs` also about `EvalBatch`, the scoring modules and `FallbackPlan`, `RunEngineProofs` also about `HistoryStore` and `McpStore` | |
| `MC*` | small instances for TLC | |

Definitions whose comment begins "a mutant" or "Mutant of" are plausible bugs:
each stands in for the definition after it when a property is tested for its
power to find one. No specification uses them.

### `EvalLifecycle`
Two variables: the row's `status` and the status the log is `closing` with.
`Close` appends `eval_complete`, `Settle` flips the row to that status, nothing
follows. It is the writer rule of `docs/cloud-evals.md` ("Writer rules").

### `CloudWorker`
The worker is single-threaded and its boto3 calls block, so the code between two
awaits is one synchronous section: the sequence `todo` of store calls still to be
made, on behalf of `frame`. The scheduler (an action of `execute()`, of the engine
or of a repeat) starts a section only when `todo` is empty. Each store call is a
step of its own, because other readers see the table in between and because each
may fail: `SaveEvaluation`, `EmitEvent`, `FinalizeEvaluation`, `FlipStatus`,
`SaveRunItem`, and `SettleEvaluation` for the shape "terminal or finalize, else
complete" that `_settle`, `_finalize_quietly` and `execute()` share.

`Raise` is what an exception out of a store call does, by whose section it is:
the engine's own `except Exception`; out of that handler into the task; a repeat's
exception into `gather`; `execute()`'s `except`; swallowed by `_finalize_quietly`.
`SaveRunItem` is `PutRun`, or `LookupFails` when the worker cannot read its own
local row of the run: the code takes that for no row, and mirrors nothing. The
history field `st.unread` names the runs it happened to.

| Code | Model |
|---|---|
| META item; EVENT# items; RUN# items; CANCEL item | `meta`; `log`; `runItems`; `cancelFlag` |
| `DynamoEvalStore` attributes | record `st` (`seq`, `saved`, `emitted`, `terminal`, `pending`, `finalizing`, `latched`, `armed`) |
| `execute()` up to `asyncio.wait`; hard stop; result handling | `ExecStart`; `HardStop`, `AfterHardStop`; `AfterEngine`, `AfterEngineRaised`, `ExecReturn` |
| `execute_evaluation_with_seam` | `EngineStart`, `EngineUnavailable`, `BatchRaises`, `BatchDone`, `BeforeGrading`, `Graded`, `EngineExcept` |
| `_execute_batch`'s `one(job)` | `ChildStart`, `ChildFinish` with `PublishCalls` |
| `_stop_condition` | `Poll` |
| `cancel_evaluation` of `evals/cloud.py`, which the router reaches when the history has no row | `CancelCheck`, `CancelPut` |

Abstracted: run ids are the repeats' indices, results and error texts are their
codes, a repeat's model calls with retries are its duration (`EvalBatch` has
them), the clock has three values (time to spare, inside the margin, hard bound).

### `CloudStream` and `StackCommand`
`history` says where the server keeps its history, and so who answers:

| Request | `"own"`: a history of its own | `"table"`: the deployed stack |
|---|---|---|
| `GET .../events` | `stream_events`: `ReadMeta`, `ReadEvents` | `Replay`: one `Synthetic` line from the row, `error` unless it reads completed or cancelled |
| `DELETE` | `CancelCheck`, `CancelPut` of `CloudWorker`: the worker sees the flag | `DeleteCheck`, `DeletePut`: the row is read, read again and put back as cancelled; the worker sees nothing, goes on and writes its own status over it |
| `GET /evaluations/{id}` | META | META |

On `"table"` a read that misses the row, which was put a moment ago, raises
NotFoundError and falls through to the first column (`FallsThrough`, `Stream`).
The worker never reads META's status: `meta` stays what it has written, and `row`
is the status readers find, which both write (`RowFollows`, `DeletePut`).

`stream_events` reads META and then the events after its cursor. No META counts
as a terminal one (`cloud.py:508`), which costs a grace poll that is not given
back; `missed` records that it happened. With `Stale`, a read returns any state
not older than what the previous sleep made visible: `recent` are the statuses a
read of the row may still find, `settledLen` the events that every read finds.
That is the assumption made on DynamoDB's eventual consistency.
`TerminalGracePolls` is `TERMINAL_GRACE_POLLS`.

The command (`cli/commands.py`, `cli/remote.py`, `cli/main.py`) checks its
arguments, submits, opens the stream, and hands on what it has not shown yet;
`Break` drops a connection with whatever was under way, and the next one replays
the log from its start. It gives up after `MaxReconnects` attempts that brought
nothing new. Ctrl-C asks the server for a cancellation; a DELETE may as well come
from any other client, at any time. What a token's refresh and a server's answers
may be is chosen at every request. `replayed` records that the last entry is the
synthetic one.

### `WorkerClaim`
The server's `submit` with `_abandon`, and each delivery's `begin`,
`mark_running`, `_resolve_claim` and the writes of its execution that others can
see. Every table call may fail with its effect unknown; a delivery may be killed
anywhere. `AmbiguousInvoke` says whether a failed `lambda:Invoke` may have queued
the event all the same.

### `SpendCounter`
`Admit` (an evaluation of several jobs) and `AdmitRun` (a direct run) go through
`Unattributed` (no user to count on), `Unpriced` (a limit, and a model without a
price) or `Reserve` (the atomic add), then `Look` (compare with the limit, and
take back). `CreateRun`, `CreateEvaluation` (which starts it, or gives back what
was reserved) are the router; `Claim`, `ReportRun`, `ReportJudge`, `EndStream`,
`EndEvaluation`, `Die` the work of a direct run or of either lane; `Midnight`
moves to the next window.

### `LocalLane`
On the event loop everything between two awaits is atomic, so the engine's emits
and saves of one section are one action. The stream handler is a plain `def` and
runs in a thread: `Lookup` and `ReplayFinished` are separate steps. `Crash` loses
registry, log, task and streams and keeps the row.

### `HistoryStore`, `McpStore`, `RunEngine`
A row is a time, a status and a body. Each backend's page is an operator
(`SqlitePage`, `DynamoPage` with `Narrowed` for the filters that DynamoDB applies
after it has cut the page, `SqliteExport`); `walk` is one client's walk, with the
rows it is `due`. An update is one step on SQLite (`UpdateSqlite`) and two on
DynamoDB (`UpdateRead`, `UpdatePut`), with whatever happens in between; the read
is eventually consistent (`ddb_history.py:92`) and returns any of the `Versions`,
the item and all it has been before (`past`), of a deleted row as well.

`McpStore` has, per writer, the program counter of the request it is at: POST and
PUT put the parameter before the item, DELETE removes it before the item, and
each of these calls may fail, the writes after they took effect. `PutItemFails`
leads to the consistent `ReadBack` that decides between success, restoring the
old parameter, and giving up. `doubt` is a history variable: the store cannot
vouch for the pair (a failed or overlapping write) until a later request goes
through alone.

`RunEngine` is the async generator `execute_run`: an action per stretch between
two yields or awaits. `ToolFinishes` is the hook, which runs beside it; `Drain`
hands out what it recorded; `Cancel` is GeneratorExit or CancelledError; `heard`
is what its consumer received. A run that names a saved MCP server reads its
definition first (`ResolveItem`, `ResolveSecret`), while it may be changed. An
evaluation's row has two writers: its job, whose saves name a status whatever the
row says (`Saves`), and `DELETE /evaluations/{id}`, which checks the row it reads
and settles it by an update of its own (`CheckEvaluation`, then `CancelEvaluation`
on SQLite, `ReadDeleted` and `PutDeleted` on DynamoDB). Either may write over the
other's terminal status, so nothing is claimed of an evaluation's final row here;
what readers may still rely on is the subject of `StackCommand` for the cloud lane
and `LocalLane` for a job of the same process. (SQLite is shared by the server and
a command that owns the job in its own process.)

### `EvalBatch`, the scoring modules, `SuitePipeline`
`EvalBatch` has one task per planned job, the semaphore's first-come order, the
cancel poll, the ledger's admission from the mean of what has finished, and
retries that hold their slot and keep their cost. `RunRaises` is an exception out
of a task between its admission and its settlement: `gather` fails the evaluation
(`"failed"`) and the other tasks go on; one out of the saves that follow the
settlement is in `Land`. `CancelTask` is `CancelledError`, which reaches every task.
A run that either takes is `"lost"`: its slot is free, and the ledger keeps it in
flight and never has its cost. `Assertions` to `ArmComparison`
are pure operators: how a check is normalised and judged, what judges' rows and
their calibration probes make of a case, the result document, the readiness bar
with its binomial bound, ranking, the grid's effects, and the gates of the
command line. Scores are whole parts of `Unit` and rates are fractions, chosen so
that the rounding of the code changes nothing. `SuitePipeline` runs the batch,
chooses what judges report, stores the result and then forgets everything but
the document: its last properties are about readers of stored evaluations.

### `FallbackPlan`
The suite file, its prompt files and the plan file are variables. `Prepare` reads
the file, `BuildRequests` the prompts once more, `RunArm` makes one evaluation
after the other, `CompareArms` compares and saves; `CompareStored` is `compare`
on earlier evaluations; `CheckExit` is `plan check`, an operator because it
writes nothing. `Edit`, `PromoteRead`, `Promote` and `WriteStarter` change the
files at any time. A YAML or JSON text is what it parses to, and whether a case
can be appended to it.

## 3. Runs

| Run | Question | Instance |
|---|---|---|
| `worker` | Is a settled row closed, final and true to the log, and does an invocation that is not killed settle it as `EvalLifecycle` promises, whatever two failures, the deadline and a cancel do? | 2 repeats at once, both kinds, a budget, 2 faults of any call outside the settling path, each possibly landed, kill anywhere |
| `stream` | Does a command show every line once, in order, and end with a true exit code, on either kind of server and whoever deletes the evaluation? | 1 repeat, both histories, lagging reads, 1 DELETE, 1 reconnect, the combinations of arguments, Ctrl-C |
| `claim` | One owner, no stranded row, a queued event gets claimed? | 3 deliveries, 2 faults |
| `spend` | Does the limit hold, does the counter converge? | 3 requests, any lane, up to 2 jobs, a limit of one estimate, 2 windows, 1 fault |
| `local_lane` | Are streams exact, does DELETE tell the truth, does a settled row stand? | 2 repeats, 1 stream, 1 DELETE, 2 faults, restart |
| `run_store` | Is what was heard on the row, does a walk show every row once, is a saved server one definition? | five scenes on either backend, see below |
| `suite` | Is overshoot bounded, does no case pass without evidence, do scoring, gates and comparisons agree, may a plan be trusted? | 2 cases twice under a budget, 2 judges; and a scene of suite files, arms and a plan |

Violations (each is a finding in `PROJECT.json`, with the quoted line):

| Run | What TLC finds |
|---|---|
| `worker_stuck` | One failure of the terminal `update_item` leaves `_finalizing` set; every retry of the settling path then does nothing and the row stays `running`. |
| `cli_exit` | On the deployed stack the stream of a running evaluation is one synthetic `eval_complete`; the command reads the row, which still says `running`, and exits 1 for an evaluation that completes. |
| `claim_abandoned` | An invoke that raised but queued the event: the server settles `error`, the worker writes `running` over it and executes. |
| `run_tools_lost` | A consumer that leaves while one of several drained tool results is yielded takes the others off the row. |
| `suite_judge_errors` | One evaluator error among graded rows is averaged in as a score of 0. |

### Bounds, and why they are enough
- Two repeats with two slots give every interleaving of two children, a sibling
  that outlives an exception, and a cancel between two polls; a third repeats one
  of these. Two faults let one failure meet the handler of another. The terminal
  update is excluded from the faults of `worker` because its failure is the
  subject of `worker_stuck`.
- `stream` has one repeat and no faults of the worker: the log still has five
  lines, more than the two grace polls can hide. `MaxClock` is 0: without a deadline.
  `MCInvocations` drops the arguments that end like others: of those that reach
  the stack, the ones that do not gate (a bar that is met) and `--remote` beside a
  login. One DELETE is made of an evaluation: a second one reads and writes what
  the first did. Every stream starts with `settledLen` at 0, as far behind as the
  first one may be. `cli_exit` has the deployed history and reads that do not lag: the
  violation does not need them.
- `claim` has three deliveries because `MaximumRetryAttempts` is 2, and two
  faults, fewer than the deliveries: with as many, no delivery need succeed.
- `spend` has a limit of one estimate so that two requests conflict, and a third
  so that a refused reservation can be seen by another request. It uses the
  symmetry of the requests, and states no temporal property.
- `local_lane` has one stream: streams share only the log and do not affect one
  another (`LocalLaneProofs` is about any number). `faults = 0` in two of its
  properties restricts them to executions without failed row updates.
- `run_store` bounds what goes on at once by `Scenes`: a run with two tools and two
  raw events whose row may be deleted; a walk through three runs that share
  timestamps while one is made between them; a walk through two evaluations that
  settle, one of which is deleted; two writers of one server with two saves; a run
  that resolves the server one writer is editing. Reads may find an older item of
  the run that is made and of the evaluation that is deleted (`Lagging`): nobody
  updates the old runs, and the other evaluation has its job as the only writer.
  Components of different scenes share no state but the table, and the walks of the
  third component see every change to it. Pages hold one row and exports two, so
  that every boundary between pages is crossed.
- `suite` has the smallest batch in which a slot is contended, a mean exists and a
  repeat can fail alone; `Unit` is 12 so that every mean of two judges and two
  repeats is whole. Each judge may raise, give each answer a score or an error,
  and pass or fail the probes. A stored result is compared with one to three
  others, chosen for each refusal and verdict. In the plan's scene the file has
  two arms, a matrix of four, or none; `MaxEdits` is 1, and history holds two
  evaluations: an edit before, between or after the steps of one command.
- Deadlock checking is off where the system really ends (an invocation returns, a
  stream ends, a command exits) and its remaining state is a stutter; the `suite`
  runs check it.

### Fairness
- `CloudWorker`: weak fairness of the worker's step. asyncio runs a ready
  coroutine, `run_timeout_seconds` bounds every model call, and the judge call is
  bounded by the hard stop. `SettlesLikeLifecycle` claims progress only for an
  invocation that is not killed.
- `StackCommand`: the same worker, and the command's next step: the server polls
  while the response is open, and a client reads what it is sent. A DELETE is not
  fair.
- `WorkerClaim`: every started delivery goes on unless killed, and Lambda
  redelivers while all deliveries so far have failed. The server's own steps are
  not fair: it may die between the row and the invoke.
- `LocalLane`: the event loop runs the engine task, and a connected client is
  sent what its queue holds.
- `RunEngine`: the server either asks the generator for the next event or closes
  it, the agent stops after `max_tool_iterations`, and a walking client asks for
  the next page. Deletes, tools and other writers are not fair.

## 4. Proofs

TLC settles the small instances; the theorems below hold for every value of the
constants that the named assumptions allow.

| Module | Theorem | Statement |
|---|---|---|
| `WorkerClaimProofs` | `TypeCorrect` | `Spec => []TypeOK` |
| | `OneOwner` | `Spec => []AtMostOneOwner` |
| | `ExecutorHoldsClaim` | `Spec => []OwnerHoldsClaim` |
| | `NoRowLeftRunning` | `Spec => []RunningHasExecutor` |
| | `TerminalRowStands` | `~AmbiguousInvoke => (Spec => TerminalIsForever)` |
| | `FirstEventIsKept` | `~AmbiguousInvoke => (Spec => FirstEventStands)` |
| `SuitePipelineProofs` | `OvershootStaysBounded` | `BatchSpec => []OvershootBounded` |
| | `LedgerIsExact` | `BatchSpec => []LedgerMatchesTasks` |
| | `ConcurrencyIsLimited` | `BatchSpec => []SlotsRespected` |
| | `RefusalStands` | `BatchSpec => RefusalIsPermanent` |
| | `PassedCaseAlwaysHasEvidence` | `Spec => []PassedCaseHasEvidence` |
| | `MissingEvidenceAlwaysShows` | `Spec => []MissingEvidenceShows` |
| | `GatesAlwaysAgree` | `Spec => []GatesAgree` |
| | `OrderNeverDecides` | `Spec => []OrderNeverMatters` |
| | `LosingOneMoreNeverHelps` | `Spec => []LosingNeverHelps` |
| | `ComparisonsAreCoherent` | `Spec => []ComparisonIsCoherent` |
| | `PlansAreTrusted` | `PlanSpec => []PlanIsTrusted` |
| `LocalLaneProofs` | `SubscribersSeeTheLog` | `Spec => []SubscriberSeesTheLog` |
| | `SettledRowsStand` | `Spec => SettledRowStands` |
| | `DeletesMeanCancelled` | `Spec => []DeleteMeansCancelled` |
| | `EndedStreamsAreComplete` | `Spec => []EndedStreamIsComplete` |
| `SpendCounterProofs` | `SpendTypesHold` | `NothingQueued => (Spec => []Types)` |
| | `SpendNeverUndercounts` | `NothingQueued => (Spec => []NeverUndercounts)` |
| | `SpendConverges` | `NothingQueued => (Spec => []ConvergesOnSpend)` |
| | `SpendWithinLimit` | `NothingQueued => (Spec => []WithinLimit)` |
| `RunEngineProofs` | `FinalRowsStay` | `Spec => FinalRowsStand` |
| | `ServersAreOneDefinition` | `Spec => []ServerIsOneDefinition` |
| | `RowsTellTheStream` | `Spec => []RowTellsTheStream` |
| | `NoToolIsOnTheRowTwice` | `Spec => []ToolsOnTheRowOnce` |
| | `WalksAreExact` | `Spec => WalkIsExact` |
| `CloudWorkerProofs` | `OnlyRequestsCancel` | `Spec => []CancelledOnlyOnRequest` |
| | `AnnouncedRunsAreStored` | `Spec => []AnnouncedRunIsStored` |
| | `RowIsClosed` | `CleanFlip => (Spec => []TerminalRowIsClosed)` |
| | `ReturnSettles` | `SettlingWorks => (Spec => []ReturnedIsSettled)` |
| | `ImplementsLifecycle` | `SettlingWorks => (Spec => Lifecycle!Spec)` |
| | `FewRunsStartLate` | `Spec => []FewLateStarts` |
| | `NothingOutOfTurn` | `SettlingWorks => (Spec => []LogInOrder)` |
| | `SettledRowsListTheirRuns` | `SettlingWorks => (Spec => []SettledRowListsRuns)` |
| `StackCommandProofs` | `CommandsSeeTheLog` | `SettlingWorks => (StackSpec => []CommandSeesTheLog)` |
| | `StreamsEndOnComplete` | `SettlingWorks => (StackSpec => []StreamEndsOnComplete)` |
| | `CodesAreTrue` | `SettlingWorks => (StackSpec => []CodeIsTrue)` |

Every constant's assumption is named in the module that declares it and is
evaluated by TLC in the runs: `ClaimAssumption`, `SuiteAssumption`,
`LimitAssumption`, `SpendAssumption`, `LaneAssumption`, `HistoryAssumption`,
`McpAssumption`, `EngineAssumption`, `WorkerAssumption`, `StreamAssumption`, and
those of the scoring and the plan listed with their theorems below. They
give types and signs, say that the marker of an absent row is no row, no cursor
and no position, and that row ids (uuids) are finitely many. The hypotheses `CleanFlip`, `SettlingWorks` and `NothingQueued` are named operators over
the constants, explained below; the passing runs satisfy them, and no step of the
model is excluded by them but the failure they name.

**`WorkerClaimProofs`**, for any deliveries, faults and kills. `AtMostOneOwner` is
not inductive: it says nothing of a delivery whose claim landed but which has not
read its answer yet. `ClaimInv` adds that an owner's token is on the row, that the
row of an owner can no longer be claimed (its status is past `pending`), that
whoever executes is an owner, and that the token of a running row belongs to a
delivery that has not given up. Two owners then carry the same token, so they are
the same delivery. For the last two theorems `HandoverInv` adds what the server
and the owner exclude of each other when a failed invoke queues nothing: an event
that was queued was accepted, so no server is abandoning, and a row is not
terminal while its owner still has writes to make. Assumption: `ClaimAssumption`.

**`SuitePipelineProofs`**, for any suite, panel, budget, prices, retries, slots,
other evaluations, suite files and edits. It has three inductive invariants, each
on top of the one before it in the code.

*The batch.* The bound on overshoot is not inductive: admission looks at the
projection from the mean, and a run admitted early may cost more than that.
`BatchInv` adds the types, that each task's cost so far is within its attempts
(`CostsBounded`), that at most `MaxConcurrent` tasks hold a slot (`SlotsRespected`)
and that the ledger has those in flight, with the runs that an exception or a
cancellation took (`LedgerMatchesTasks`). A lost run gives its slot to another, so
it adds a full run of its own to the bound (`LosingKeepsInv`). A run that starts
had room under the budget, so afterwards what is spent plus a full run for each
slot is under the bound; landing trades a full run for a cost that is at most one.

*The evaluation.* A gate, a table or a comparison speaks of the stored document,
which has forgotten the batch. `SuiteInv` therefore says what graders were handed
(`CollectedInOrder`: every outcome that landed, in the order of the jobs), what the
document was made of (`GradedFrom`) and that a stored one has a line for each case
with counts that fit (`DocumentKept`); `ScoreKept` adds the types of its scores and
costs. What is left are facts about the operators:
- evidence: a panel's answer is scored or names its error, a mean of bounded scores
  is bounded, and failed repeats count 0;
- order: sums, counts, majorities and sorted lists do not depend on the order they
  are taken in; the arms' ranking is a strict total order up to names, so it has
  one first; the axis that dominates is chosen by its effect;
- the verdict: with one case more lost, regressions do not fall, an upper
  bound that was over the bar stays over it (`BoundOver`: the binomial tail grows with
  the count), nothing that was not ready becomes ready; and `CasesNeeded` is reached, by Bernoulli's inequality, within
  19 `RateUnit` cases for every rate above 0;
- a comparison's baseline, pairing, table and verdict are read off the same
  documents, whose case sets agree once no refusal was due.

*The plan.* `PlanIsTrusted` speaks of a plan, the files as they are now and the
evaluations in history; between them lies a command that read the files earlier.
`PlanInv` says that the files parse to what the schema leaves (`FilesFit`), that
history has the ids in order and ranks only measured results (`HistoryOf`), that a
command under way holds accepted files and has stored exactly the arms it has run
so far, each as it was requested (`CommandOf`), and that a plan was made of arms
that are still in history, by the comparison that gave the command its exit code
(`PlanOf`). Editing the files disturbs none of these, because each speaks of what
was read. A plan that checks out pins the cases, the bar and every fallback's
model and prompt to the files of now, so the readiness it records is of what would
run (`TrustedPlan`); one just saved, from files still in force, has nothing to
drift from (`FreshPlan`); and an exit code 0 under `--require-ready` needs every other arm
among the fallbacks (`HonestExit`).

Assumptions, and why the code justifies them: `SuiteAssumption`, `LimitAssumption`
(sizes and prices are not negative; `MaxConcurrent` and the attempts at least 1);
`SameSuite`, `TagAssumption`, `OrderAssumption` (one suite, whose ids are unique:
the request's validators); `ScoreAssumption`, `PanelAssumption`, `ProbeAssumption`,
`PriceAssumption`, `RateAssumption` (scores and probes are numbers or an error, a
panel has a judge, judging costs nothing or more); `BarsAssumption`
(`ReadinessBar` has `ge=0, le=1`); `OthersAssumption` (a comparison has at least two
arms, `min_length=2` in `nimbus/routers/runs.py`, and a stored suite result has a
line for each of its cases, which `DocumentKept` proves of the evaluation that is
modelled); `NoneAssumption` (Python's None is none of the other values);
`FilesAssumption` (what the suite file's schema leaves of YAML),
`InvocationsAssumption` (`--arm` may repeat, `--max-age-days` is an int, 30 when it is
not given) and
`IdsAssumption` (evaluation ids are not reused).

**`DataLemmas`** holds what several components need of finite data. The library has
no theorem about its folds that these provers can instantiate, so the equation
of `MapThenSumSet` and `FoldFunction` is proved here for an arbitrary function, by
induction over the subsets of a finite set (from the library's fact that strict
inclusion is well founded), and with it that sums split, grow and can be renamed.
The same induction gives products, factorials and binomial coefficients, the
ranks of a finite order, and largest and smallest elements. `Sorting` states
`sorted()` and a filtering comprehension by their results, as functions of the rank:
tlapm cannot expand `SortSeq` and `SelectSeq`, and with ranks one lemma
(`SortedIsTheOne`) says that a list with the right elements in order is the sorted one.

**`LocalLaneProofs`**, for any repeats, streams, failed row updates and a process
that may die. What a stream has been sent and what waits in its queue must
together be the log; that is inductive only with the position of each stream:
`StreamInv` says for every stream that the lines are the log from its start
(`SentIsLog`), that the queue goes on where they end (`QueueIsNext`) and, while
the job is live, that nothing is missing (`QueueIsAll`). A stream that is not
told of a new entry (it has not subscribed, or has left) still follows a log that
grows. `RowInv` is about the row and the DELETE: a task that has not settled has
an unfinished row and a registered job (`Unsettled`), so no second task settles
it; a DELETE waits only for a task that had started when it was cancelled
(`Waited`), and such a task ends by saving and announcing `cancelled`, unless a
save failed. `CompleteInv` is about the end: the log has no `eval_complete` until
the job is closed and then exactly one, last, with the row's status (`OneWord`);
every stream that ends, live or as a replay, has come as far as that line, because
the sentinel was put behind it in each queue. Assumption: `LaneAssumption`.

**`SpendCounterProofs`**, for any requests, windows, limit, races, failures and
deaths, as long as a failed invoke queues nothing (`NothingQueued`). What is
counted is a sum over requests, whose lemmas (one summand changes, a summand
joins, a sum of smaller terms) are in `DataLemmas`. The invariant gives every request what
it holds of the counter (`Held`: the reservation until it is settled, then the
spend, nothing when refused), and says that the counter of a window is at least
the sum of that, and is the sum when no settlement was lost. For the limit it adds
that of any set of requests still standing the one that reserved last has looked
at a counter that held them all. The hypothesis is needed: a request that was
released while its event was queued is settled a second time by the worker
(section 5). Assumptions: `SpendAssumption`, `NothingQueued`.

**`RunEngineProofs`**, for any runs, evaluations, tools, pages, backends, writers
and scenes. `HistoryInv` ties each row to the program counter of the run that
writes it: a generator that has its final write before it has a running row or,
deleted, none, and is the only one to write that row; whatever item of it a read
may find is as unfinished (`RunRows`, with `past`); a run that was deleted for good
has no update in flight and no generator that still owes one (`RunUpdates`,
`GoneRows`). `Lane` says of the other writers what the walks and tools need: an
evaluation has one job, which only goes on, and one DELETE; they write evaluations'
rows and no run's. `McpInv` has three parts.
`Solo`: a request that believes itself alone is, and one that is not has put the
pair in doubt. `Held`: how far a request that is alone has brought the item and
the parameter, and what its undo would bring back. `Vouched`: with nothing under
way and no doubt, the parameter is the one the item calls for. The steps that
carry the weight are those of a write that failed after it took effect: the
`ReadBack` sees the new item (success), the old one (restore the old parameter)
or something else (doubt). The exclusion of one spelling twice (`Sound`) is
inductive because a patch goes through `ApplyHeaders`. `StoryInv` is about a run's
own story: each finished tool is in exactly one of the hook's list, the queue that
was drained, and the transcript, once; what the consumer heard is what was
accumulated while the agent works, and the beginning of it afterwards; and the row
of a run that is over has its status and its body, whatever read-then-put of
another writer was under way.

That a walk is exact says nothing of the table between two of its pages. `WalkInv`
adds that no row that was shown is after the cursor, *nor would be if an update that
has read it put it back* (`Passed`), and that every row still owed is after it
(`Ahead`). For that a row must keep its time for as long as it, an item it has had, or one
that an update or a DELETE is going to put back, is there (`DatesInv`); and an id that was shown must not be given to a new
row with another time, which is where the walk needs to know that no run goes back
to having no row (`Onward`). A page is the rows of the lowest ranks in the listing's
order, its last row the one with the highest (`PagesCut`); the four kinds of page
(list and export, each backend) then all leave the cursor between what they show
and what they leave (`EveryPage`), also where DynamoDB filters a page that has been
cut. Assumptions: `HistoryAssumption`, `McpAssumption`, `EngineAssumption`.

**`CloudWorkerProofs`**, for any repeats, kinds, clock, faults of any call and a
kill anywhere. The worker's state is dominated by `todo`, the rest of a
synchronous section; `Section` says it has one of a few shapes: plain (lines and
runs of the batch, at most one write of `running` in front), settling (a terminal
save with `eval_complete`, `finalize` or `complete` behind it), announcing, or
inside `finalize`. `Grounds` gives every cancellation and every deadline in the
invocation's locals, the buffered update and the row its cause: a latched request
and an unarmed store for `cancelled`, an armed reason and a clock past the margin
for a deadline. `StartsUnsettled` and `Speaking` keep the shapes apart in time:
`running` is written only to an unsettled row, and the engine says nothing after
`eval_complete` while it works. Together these are `CauseInv`; six invariants about
the row, the log and the runs rest on it. Assumption: `WorkerAssumption`.

- `StoredInv`: a line that announces a completed run has its run stored, or is the
  second call of a section whose first call stores it (`Backed`); if that call
  raises, the section is dropped.
- `LogInv`: the log has as many lines as the store has counted, or one more, when
  a put's answer was lost (the next put overwrites it); once `eval_complete` is
  durable the next call is `finalize` or the flip, so a row that reads terminal
  has `eval_complete` with its status at the end of the log. `CleanFlip` excludes
  a flip that fails after it has taken effect: the section is then dropped with
  the row already terminal, and a surviving repeat may still write its line.
- `SettleInv`: there is one `eval_complete` at most, at the end; inside
  `finalize` the rest of it is still to come (`InFinalize`); and while `execute()`
  is settling, what is left of its section settles (`StillSettles`), so it
  returns with a terminal row. `SettlingWorks` excludes failures of the event
  puts and of the terminal update: with one of the latter the conclusion is
  false, which is what the run `worker_stuck` shows.

- `LateInv`: a call that starts a run is alone in its section (`StartIsAlone`). While
  such a start is due the bound has room for it: the answer before it was given
  before the flag was put, or its read failed and was counted.
- `OrderInv`: a section tells of one run at most, or rewrites stored ones when
  grading (`RunSection`); a repeat that runs has been announced; once grading has
  begun nobody is left who would tell of a run.
- `ListInv`: a status is buffered only in a section that goes on to the flip
  (`AwaitsFlip`); a settlement that names runs names the good ones; a run that is
  announced as completed is good and is mirrored in the store, so the row lists it
  whichever of the two lists it takes. Without `SettlingWorks` the buffered list
  may be older than the run: a put of `eval_complete` that fails leaves it, and
  the surviving repeats go on.

Last, the refinement: the emission of `eval_complete` maps to `Close`, the flip to
`Settle` (which needs the log closed with the buffered status), every other step
to a stutter. `SettlesLikeLifecycle`, which the run `worker` checks, is this safety
part with the lifecycle's progress.

**`StackCommandProofs`** composes: every step of the stack is a step or a stutter of
the worker, so the worker's invariants hold. What its readers use of them is
`TableGrows`: the log only grows, a closed log and a settled status do not change.
`RowInv` is about the status the table has, which two write: with a history of the
server's own it is the worker's; on the deployed stack a terminal one, read now or
late, is the one the worker has closed the log with, or the `cancelled` of a DELETE
that was made (`TrueOfTable`). `StreamInv` says that as long as no read of this
stream has missed the row, once a poll of a terminal row has come back empty every
later read sees the whole of a closed log, so the second grace poll cannot end the
stream short. `ShownInv` says that the command has shown a beginning of the log at
least as long as this connection has brought, and no `eval_complete` while it
follows, but for the synthetic one that ends a replay; that is why a replay's
unseen entries are one stretch and nothing is shown twice (`HandsOnTheNext`,
`ReplayAddsOne`). `CodeInv` ties each exit code to the status that was read, and
that to `RowInv`. Assumptions: `WorkerAssumption`, `StreamAssumption`,
`SettlingWorks` (an event put that fails after it took effect is overwritten, and a
reader may have seen the line by then).

### Only model-checked

Every invariant and action property that a passing run checks is stated by a
theorem. What stays with TLC:
- Liveness: the progress in `SettlesLikeLifecycle` (its safety part is
  `ImplementsLifecycle`), `CommandEnds`, `QueuedIsClaimed`, `StreamsEnd`, `RunsSettle`.
  The proof system has no rules for fairness and `ENABLED` here.
- What the worker, the command and the counter do when an event put, the terminal
  update or an invoke fails with its effect unknown: the hypotheses above. With some
  of these failures the conclusions are false (`worker_stuck`, `claim_abandoned`,
  section 5).

## 5. Divergences and remarks without a run

Met while modelling; the model does what the code does.

*Cloud lane.*
- On the deployed stack a DELETE writes `cancelled` into the row and puts no CANCEL
  item (`routers/runs.py:507`), although `docs/cli.md:354` says that Ctrl-C cancels
  the evaluation on the server: the worker runs and pays to its end and writes its
  own status over it. The put also takes back what the worker has added to the
  item since it was read (run ids, `seq_count`, the result); the model keeps the
  status only. `ddb_history.py:31` says that a cloud evaluation's row is written by
  the worker alone. What is said of the row in `CloudWorker` (`CancelledOnlyOnRequest`,
  `TerminalRowIsClosed`, `SettledRowListsRuns`, `SettlesLikeLifecycle`) and in
  `WorkerClaim` is about the server and worker of the lane itself, without that
  writer; `StackCommand` has it.
- A poll of `stream_events` that does not find the row it was just asked about
  counts as terminal (`cloud.py:508`); two of them end the stream of an evaluation
  that runs, which `StreamEndsOnComplete` excludes by name (`missed`). The command
  then connects again.
- The docstring of `stream_events` (`nimbus/evals/cloud.py`) says `eval_complete` "is
  written after the terminal status"; the worker writes it before. The order is
  right for readers of the stream; a command that reads the row at once may find it
  unfinished (`cli/commands.py:855`), on a server that follows the log.
- `docs/cloud-evals.md:66` says that `eval_complete` is the last line. A repeat that
  survives an exception of its sibling writes its lines behind it when the terminal
  update has failed.
- `docs/cloud-evals.md:115` says that the emitter and the store are the only
  difference in behaviour; a terminal update without run ids (an error, a cancel)
  also sets the row's ids to those of the runs mirrored so far.
- When the worker cannot read its own row of a run, `save_run` takes that for no
  row (`ddb.py`, `docs/cloud-evals.md:60`); `SettledRowListsRuns` and
  `AnnouncedRunIsStored` exclude those runs by name (`st.unread`).
- The deadline's reason, once armed by a poll, stays armed: a later cancel by the
  user is then reported as the deadline's error. And `execute()` can report
  `cancelled` to the Lambda log for a row that the deadline settled as `error`.
- An evaluation cancelled before its engine starts settles no spend
  (`docs/serverless-deploy.md:156` says what was not spent is given back);
  `ConvergesOnSpend` excludes that end. Spend settled on a cancel ignores the
  cost of the calls in flight. `settle_stream` counts metrics events only.
- The router releases the reservation of a submit that raised although the event
  may be queued, and the worker settles it again (`AmbiguousInvoke`).
- A server that dies between the row and the invoke leaves a pending row.

*Command line.*
- `compare A B --require-ready` without a baseline exits 0 and prints that every
  candidate is ready; only `eval` refuses that combination.
- `docs/cli.md` says it gives up after repeated failures to connect; the code counts
  every connection that brought no new entry. Giving up, and Ctrl-C during the
  submission, leave the evaluation running.
- A logout and a token's refresh in two processes may leave the credentials of
  either.

*Suites and plans.*
- `docs/suites.md:487` says every repeat counts; a repeat refused by the budget does
  not. `docs/suites.md:616` describes a projection that `prior_per_run` replaced.
- `build_comparison` takes the fingerprint of the first evaluation only, and
  `suite_differences` compares ids and inputs: a rubric or a check that differs in
  another arm is not seen. Evidence drops arms without a comparison against the
  baseline. `TrustedPlanHolds` is about evaluations of one suite (`OneSuite`).
- Inference settings, tools, rubric and threshold are not pinned by a plan, although
  `plan.py` says that its check lists every way it has drifted. Its date is that
  of saving. `promote` reads and writes the file in two steps and loses an edit in
  between; prompt files are read at two times. `TrustedPlanHolds` speaks of what is
  pinned, and `FreshPlanIsCurrent` of files not edited since the command read them.

*Runs, history, MCP servers, local lane.*
- "Secret first, so an item that names headers never points at a parameter that was
  not written": removing the last header, and a delete, take the parameter away
  before the item changes. A put of the parameter that failed after it took effect
  is not undone. Two requests at once may mix a pair, and a run reads item and
  parameter at two times. These are the `doubt` of `ServerIsOneDefinition`.
- A generator closed at its first yield leaves a run's row `running` (`RunStart` is
  yielded before the `try`), and so does a server that dies.
- A DELETE of a run in progress makes the generator raise NotFoundError at its end;
  on DynamoDB an update that has read the item, or reads it late, puts it back
  after the delete (`gone` has the runs that were deleted for good).
- An evaluation's row is not final: its job and a DELETE of a process that does not
  have the job both write it, each over the other. On DynamoDB each puts back the
  whole item it has read, the result and run ids of then included; the model keeps
  no body of an evaluation.
- The exception that ends a batch leaves its sibling tasks running, and the runs
  that it or a cancellation takes stay in the ledger's `in_flight`. What they
  cost is never in `spent`, nor in the spend that is settled from it.
- A page of DynamoDB that is exactly full is followed by an empty one.
- The transcript lists tools in the order in which they completed.
- A stream request may look for a job before it is registered and be answered from
  the row; MCP clients may be released while one of them is still connecting.

*Front end, by reading.* The answer of a create that has been superseded still takes
over the active evaluation; the catch of an aborted run marks the run that replaced
it as cancelled; two list requests may be answered in the other order.

## 6. Not modelled

- **Front-end stores and stream parser.** One tab's view state; nothing else reads it.
  The three orders above are what a model of it would be about.
- **Judges, providers, guardrails, tools, configuration, user interface.** Adapters
  around vendor SDKs and rendering: no state whose order matters beyond what a
  judge may answer, which `SuitePipeline` chooses freely. Authentication is a
  library's verification of a token.
- **Lambda, DynamoDB, SSM** are not in the repository. Assumed: an event is
  delivered at least once and a failed invocation again, up to the configured
  attempts; one item is written atomically and conditionally; an eventually
  consistent read lags by no more than a sleep where a stream polls, and by any time
  in the history's updates, except that a row made before a model was called is
  found. Expiry by TTL, the size limits of items and payloads, and the lag of
  secondary indexes are left out.
- **Within modelled components:** a failure of the store between the end of a batch
  and the stored result (`CloudWorker` and `LocalLane` have it; `SuitePipeline` has
  no such failure while it grades), and of `_persist` other than NotFoundError; the
  wording of texts and errors, encodings, the estimate's arithmetic and prices, the
  sign test of a comparison, tool prefixes, the connection test and the pinned
  transport of MCP clients, the login, and commands that only read and print.

## 7. What could come next

1. The stack's commands under failures of an event put: what a reader may be shown
   that the log does not keep.
2. Requests of the front end as messages that overtake one another, composed with
   the server's answers.
3. The stored evaluations of other users in `Others` as results of the pipeline
   itself, which would turn `OthersAssumption` into a lemma.
