---------------------------- MODULE StackCommand ----------------------------
(***************************************************************************)
(* `nimbus eval` on a deployed stack: the command checks its arguments,    *)
(* submits the evaluation, follows its events through connections that     *)
(* break, reads the row once eval_complete has come, and exits.  The       *)
(* server's side of the requests is CloudStream, the worker is CloudWorker. *)
(*                                                                         *)
(* Entries that were sent when a connection breaks may be lost.  A token   *)
(* that expires, a pool that refuses to refresh it and what the server     *)
(* answers are chosen at every request.                                    *)
(***************************************************************************)
EXTENDS CloudStream

CONSTANTS
    MaxReconnects,   \* MAX_RECONNECTS
    Invocations,     \* the arguments the command may be called with
    CanInterrupt     \* TRUE when the user may press Ctrl-C

ASSUME CommandAssumption == MaxReconnects \in Nat /\ CanInterrupt \in BOOLEAN

VARIABLES
    cmd,       \* where the command is, "here" when it goes on without a stack
    args,      \* its arguments
    seen,      \* how many lines of the log it has handed on
    got,       \* the entries it has handed on
    failures,  \* attempts in a row that brought nothing new
    replayed,  \* history: its last entry is the synthetic one of _replay_finished
    read,      \* the status it has read of the row
    code       \* its exit code

cmdVars == <<cmd, args, seen, got, failures, replayed, read, code>>
stackVars == <<allVars, cmdVars>>

None == 256
ExitOk == 0
ExitFailed == 1
ExitUsage == 2
ExitGateFailed == 3
ExitCancelled == 130

StackInit ==
    /\ StreamInit
    /\ cmd = "prepare" /\ args \in Invocations
    /\ seen = 0 /\ got = <<>> /\ failures = 0 /\ replayed = FALSE
    /\ read = "none" /\ code = None

Exit(c) == cmd' = "exited" /\ code' = c
Goto(place) == cmd' = place /\ UNCHANGED code
StaysOnLine == UNCHANGED <<args, seen, got, failures, replayed, read>>
ServerWaits == UNCHANGED <<vars, rowVars, readerVars>>

(***************************************************************************)
(* cli/main.py: an invocation that could not mean what it says is refused. *)
(***************************************************************************)
OnStack(a) == a.login /\ ~a.local

TargetMisused(a) ==
    \/ a.remote /\ a.local
    \/ a.detach /\ ~OnStack(a) /\ ~a.remote

ArmsMisused(a) ==
    IF ~a.arms THEN a.requireReady
    ELSE \/ a.requireReady /\ ~a.baseline
         \/ a.detach \/ a.remote \/ a.gate
         \/ OnStack(a)

GatingMisused(a) == a.detach /\ a.gate

Prepare ==
    /\ cmd = "prepare"
    /\ IF TargetMisused(args) \/ ArmsMisused(args) \/ GatingMisused(args) THEN Exit(ExitUsage)
       ELSE Goto(IF ~args.arms /\ (OnStack(args) \/ args.remote) THEN "submit" ELSE "here")
    /\ StaysOnLine /\ ServerWaits

(***************************************************************************)
(* RemoteApi._send                                                         *)
(***************************************************************************)
Answers == {"ok", "401", "404", "refused", "unreachable"}

\* a request under a token that may have to be refreshed first, and once more
\* after a 401
Send(expiring, pool, first, again) ==
    LET refreshed(answer) == IF pool = "ok" THEN answer ELSE "401"
    IN  CASE expiring /\ pool # "ok" -> "401"
          [] first = "401" -> refreshed(again)
          [] OTHER -> first

Sent == {Send(expiring, pool, first, again) :
            expiring \in BOOLEAN, pool \in {"ok", "refuses"}, first \in Answers, again \in Answers}

(***************************************************************************)
(* evaluate_remote                                                         *)
(***************************************************************************)
\* /health, then POST /evaluations
Submit ==
    /\ cmd = "submit"
    /\ IF ~OnStack(args) THEN Exit(ExitFailed)
       ELSE \E answer \in Sent :
            CASE answer = "ok" -> IF args.detach THEN Exit(ExitOk) ELSE Goto("open")
              [] answer = "404" /\ kind = "grade" /\ ~args.remote -> Goto("here")
              [] OTHER -> Exit(ExitFailed)
    /\ StaysOnLine /\ ServerWaits

\* an attempt that ended without eval_complete
Failed ==
    /\ failures' = failures + 1
    /\ IF failures' > MaxReconnects THEN Exit(ExitFailed) ELSE Goto("open")

\* what is handed on of lines from+1, from+2, ...: those of a position not seen
\* yet, and eval_complete always
Unseen(entries, from) ==
    LET new(i) == from + i > seen \/ entries[i].type = "eval_complete"
    IN  {i \in DOMAIN entries : new(i)}

\* Mutant of HandOn: what is replayed is handed on again.
HandOnAll(entries, from) ==
    /\ got' = got \o entries
    /\ seen' = IF entries = <<>> \/ from + Len(entries) <= seen THEN seen ELSE from + Len(entries)
    /\ failures' = IF entries = <<>> THEN failures ELSE 0

HandOn(entries, from) ==
    LET picked == Unseen(entries, from)
        first == CHOOSE i \in picked : \A j \in picked : i <= j
    IN  IF picked = {} THEN UNCHANGED <<got, seen, failures>>
        ELSE /\ got' = got \o SubSeq(entries, first, Len(entries))
             /\ seen' = IF from + Len(entries) > seen THEN from + Len(entries) ELSE seen
             /\ failures' = 0

\* _replay_finished: one eval_complete made from a row whose job is gone, "error"
\* for any status but the two that need no explanation
Synthetic(status) ==
    EvalComplete(IF status \in {"completed", "cancelled"} THEN status ELSE "error")

\* the history has the row, and the whole answer is that one line
Replay ==
    /\ history = "table"
    /\ \E status \in RowReads \ {"none"} : HandOn(<<Synthetic(status)>>, 0)
    /\ replayed' = TRUE
    /\ Goto("fetch")
    /\ UNCHANGED readerVars

\* stream_events: a new subscriber is sent the log from its start
Stream ==
    /\ history = "own" \/ RowMayBeMissed
    /\ Connects(history = "table")
    /\ Goto("follow")
    /\ UNCHANGED <<seen, got, failures, replayed>>

\* GET .../events; only a connection that fails is tried again
Open ==
    /\ cmd = "open"
    /\ \E answer \in Sent :
         \/ answer = "ok" /\ (Replay \/ Stream)
         \/ /\ answer = "unreachable"
            /\ Failed
            /\ UNCHANGED <<readerVars, seen, got, replayed>>
         \/ /\ answer \notin {"ok", "unreachable"}
            /\ Exit(ExitFailed)
            /\ UNCHANGED <<readerVars, seen, got, failures, replayed>>
    /\ UNCHANGED <<vars, rowVars, args, read>>

\* the server yields what is new, and a connection that holds delivers it
Follow ==
    /\ cmd = "follow" /\ reader \in {"meta", "events"}
    /\ ReaderStep
    /\ LET entries == SubSeq(lines', Len(lines) + 1, Len(lines'))
       IN  /\ HandOn(entries, Len(lines))
           /\ Goto(IF EndsWithComplete(entries) THEN "fetch" ELSE "follow")
    /\ UNCHANGED <<args, replayed, read>>

\* a connection that is over without eval_complete is tried again
LoseStream ==
    /\ Failed
    /\ Closes
    /\ UNCHANGED <<vars, rowVars, args, seen, got, replayed, read>>

\* the server stopped short
StreamStops == cmd = "follow" /\ reader = "ended" /\ LoseStream

\* the connection breaks; what the server had sent and the command not read is
\* lost, as if the server had not got as far
Break == cmd = "follow" /\ LoseStream

\* _EXIT_FOR_STATUS.get(status, EXIT_FAILED)
\* Mutant of ExitFor: a status the table does not know is fine.
ExitForUnknownOk(status) ==
    CASE status = "error" -> ExitFailed [] status = "cancelled" -> ExitCancelled
      [] OTHER -> ExitOk
ExitFor(status) ==
    CASE status = "completed" -> ExitOk
      [] status = "cancelled" -> ExitCancelled
      [] OTHER -> ExitFailed

\* the command's own verdict first, then the gate's
SettleCode(status, met) ==
    IF ExitFor(status) = ExitOk /\ args.gate /\ ~met THEN ExitGateFailed ELSE ExitFor(status)

\* the row is read once, as eventually consistent as the polls were; a read that
\* misses it is the 404 of Answers
StatusRead == RowReads \ {"none"}

Fetch ==
    /\ cmd = "fetch"
    /\ \E answer \in Sent :
         IF answer = "ok"
         THEN \E status \in StatusRead, met \in BOOLEAN :
                  read' = status /\ Exit(SettleCode(status, met))
         ELSE UNCHANGED read /\ Exit(ExitFailed)
    /\ UNCHANGED <<args, seen, got, failures, replayed>>
    /\ ServerWaits

\* Ctrl-C: while it follows, the command cancels the evaluation on the server first
Interrupt ==
    /\ CanInterrupt
    /\ cmd \in {"submit", "open", "follow", "fetch"}
    /\ IF cmd \in {"open", "follow"}
       THEN Goto("cancelling") /\ Closes
       ELSE Exit(ExitCancelled) /\ UNCHANGED readerVars
    /\ StaysOnLine /\ UNCHANGED <<vars, rowVars>>

\* ... and waits ten seconds at most for its answer
Cancelled ==
    /\ cmd = "cancelling"
    /\ Exit(ExitCancelled)
    /\ StaysOnLine /\ ServerWaits

CommandStep == Prepare \/ Submit \/ Open \/ Follow \/ StreamStops \/ Fetch \/ Cancelled

Submitted == cmd \in {"open", "follow", "fetch", "cancelling", "exited"} /\ code # ExitUsage

\* the worker goes on whatever becomes of the command, and a DELETE may come from
\* it or from any other client
Beside == Submitted /\ RowFollows /\ UNCHANGED <<history, deleter, readerVars, cmdVars>>

WorkerRuns == WorkerStep /\ Beside
WorkerGoesOn ==
    WorkerRuns \/ ((Tick \/ Kill \/ CancelPut \/ (CancelCheck /\ FallsThrough)) /\ Beside)

RowIsDeleted == Submitted /\ DeleteStep /\ UNCHANGED cmdVars

StackNext == CommandStep \/ Break \/ Interrupt \/ WorkerGoesOn \/ RowIsDeleted

StackSpec == StackInit /\ [][StackNext]_stackVars

\* The worker as in CloudWorker; the server polls for as long as the response
\* is open, and the command takes its next step.
StackFairSpec ==
    /\ StackSpec
    /\ WF_stackVars(WorkerRuns)
    /\ WF_stackVars(CommandStep)

-----------------------------------------------------------------------------
\* docs/cli.md "A dropped connection is not a failed evaluation ... carries on
\* from where it was": whatever broke, and whenever, what the command has shown
\* is the log from its start, every line once and in order; the one line that is
\* not of the log is the end of a stream that was replayed from the row.
CommandSeesTheLog ==
    LET shown == IF replayed THEN SubSeq(got, 1, Len(got) - 1) ELSE got
    IN  Len(shown) <= Len(log) /\ shown = SubSeq(log, 1, Len(shown))

\* The worker's log is closed, with this status.
ClosedAs(status) == EndsWithComplete(log) /\ log[Len(log)].status = status

\* cli/commands.py _settle: an exit code that speaks of the evaluation is true,
\* whoever else deletes it, whichever way the server answers and however old what
\* it reads.  A command that followed exits 0 or 3 only for an evaluation the
\* worker has closed as completed, and 130 without a Ctrl-C only for one the
\* worker has closed as cancelled or a DELETE has settled in the row; a bar that
\* was asked for is judged before a 0.
CodeIsTrue ==
    cmd = "exited" =>
        /\ code \in {ExitOk, ExitGateFailed} /\ ~args.detach => ClosedAs("completed")
        /\ code = ExitGateFailed => args.gate
        /\ args.detach /\ code = ExitOk => ~args.gate
        /\ read # "none" /\ code = ExitCancelled => ClosedAs("cancelled") \/ deleter = "done"

\* The command does not hang: the evaluation's end, a server out of reach or a
\* refusal ends it, as long as the worker is not killed.
CommandEnds == <>(cmd \in {"exited", "here"})

\* docs/cli.md "Exit codes": 1 is "the harness failed", so a command that has read
\* the row of an evaluation the worker completes exits with 0, or 3 for its bar.
CodeIsTheVerdict ==
    read # "none" /\ ClosedAs("completed") => code \in {ExitOk, ExitGateFailed}
=============================================================================
