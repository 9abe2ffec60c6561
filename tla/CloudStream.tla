----------------------------- MODULE CloudStream -----------------------------
(***************************************************************************)
(* What the server answers a client about a cloud evaluation, from the two  *)
(* places it may keep its history in, while the worker of CloudWorker runs. *)
(*                                                                          *)
(* "own": a server with a history of its own (SQLite) beside the cloud      *)
(* lane's table.  The repository does not know the evaluation, and the      *)
(* requests fall through to evals/cloud.py: stream_events polls META and    *)
(* the EVENT# items, and DELETE puts the CANCEL item of CloudWorker.        *)
(*                                                                          *)
(* "table": the deployed stack, whose history is the cloud lane's table.    *)
(* The repository finds META itself and takes it for a row of the local     *)
(* lane that lost its job: GET events answers with one synthetic            *)
(* eval_complete, and DELETE writes META.  Only a read that misses META     *)
(* falls through.                                                           *)
(*                                                                          *)
(* The worker never reads META's status, so meta of CloudWorker stays what  *)
(* the worker has written, and row is the status readers find.              *)
(*                                                                          *)
(* The server's reads are eventually consistent.  With Stale set, a read    *)
(* may return an older state; what bounds it is time: what was in the table *)
(* when a poll was made is visible to what is read after the next sleep.    *)
(***************************************************************************)
EXTENDS CloudWorker

CONSTANTS
    Stale,       \* TRUE when the server's reads may lag behind
    Histories    \* where the server may keep its history: "own", "table"

ASSUME StreamAssumption == Stale \in BOOLEAN /\ Histories \subseteq {"own", "table"}

\* Mutant of TerminalGracePolls: the stream ends on the first empty poll of a
\* terminal row.
OneGracePoll == 1

TerminalGracePolls == 2   \* TERMINAL_GRACE_POLLS

VARIABLES
    history,    \* where the server keeps its history
    row,        \* META's status, as the table has it
    recent,     \* the statuses a lagging read may still return
    deleter,    \* a DELETE that found the row in the history: where it stands
    reader,     \* stream_events: about to read "meta" or "events", "ended", or "closed"
                \* when no client is connected
    sawEnd,     \* `terminal`, from the META it read last
    missed,     \* history: a read of this stream has not found META
    lines,      \* the lines it has yielded
    grace,      \* polls left once META is terminal
    settledLen  \* how much of the log every poll of it is sure to see

rowVars == <<history, row, recent, deleter>>
readerVars == <<reader, sawEnd, missed, lines, grace, settledLen>>
allVars == <<vars, rowVars, readerVars>>

\* The row was put a moment ago, so a lagging read may not find it.
StreamInit ==
    /\ Init
    /\ history \in Histories
    /\ row = "running"
    /\ recent = {"none", "running"}
    /\ deleter = "idle"
    /\ reader = "closed"
    /\ sawEnd = FALSE
    /\ missed = FALSE
    /\ lines = <<>>
    /\ grace = TerminalGracePolls
    /\ settledLen = 0

RowIsTerminal == row \in TerminalStatus

\* What a get_item of META may answer; "none" is no item.
RowReads == IF Stale THEN recent \cup {row} ELSE {row}
RowMayBeMissed == "none" \in RowReads

-----------------------------------------------------------------------------
(* The writers of the row *)

\* A write that failed may have landed.
Lands(status) ==
    \/ row' = status /\ (faults' = faults \/ Ambiguous)
    \/ row' = row /\ faults' # faults

\* The worker's updates of the status name it, whatever the row says by now.
RowFollows ==
    /\ IF history = "own" THEN row' = meta'.status
       ELSE IF FlipStatus THEN Lands(Flipped.status)
       ELSE IF SaveEvaluation /\ ~st.terminal /\ Head(todo).status = "running" THEN Lands("running")
       ELSE row' = row
    /\ recent' = recent \cup {row'}

\* One DELETE is made, and answered by the one or the other.
NoDelete == deleter = "idle" /\ canceller = "idle"

\* DELETE of a row the history knows and no job runs: read it, refuse a finished
\* one ...
DeleteCheck ==
    /\ history = "table" /\ NoDelete
    /\ \E status \in RowReads \ {"none"} :
          deleter' = IF status \in TerminalStatus THEN "conflict" ELSE "checked"
    /\ UNCHANGED <<vars, history, row, recent, readerVars>>

\* ... and settle the others: update_evaluation reads the item again and puts
\* the whole of it back, cancelled, whatever happened in between.
DeletePut ==
    /\ deleter = "checked"
    /\ \/ /\ deleter' = "done"
          /\ row' = "cancelled"
          /\ recent' = recent \cup {row'}
       \/ /\ RowMayBeMissed
          /\ deleter' = "unknown"
          /\ UNCHANGED <<row, recent>>
    /\ UNCHANGED <<vars, history, readerVars>>

DeleteStep == DeleteCheck \/ DeletePut

\* cancel_evaluation of evals/cloud.py is reached when the history has no row.
FallsThrough == history = "own" \/ (NoDelete /\ RowMayBeMissed)

-----------------------------------------------------------------------------
(* stream_events *)

\* A stream that has read nothing yet, and the end of one.
StreamAt(place, missing) ==
    /\ reader' = place
    /\ sawEnd' = FALSE
    /\ missed' = missing
    /\ lines' = <<>>
    /\ grace' = TerminalGracePolls
    /\ settledLen' = 0

Connects(missing) == StreamAt("meta", missing)
Closes == StreamAt("closed", FALSE)

\* META is read before the events that are then streamed; no META counts as a
\* terminal one.
ReadMeta ==
    /\ reader = "meta"
    /\ reader' = "events"
    /\ \E status \in RowReads :
          /\ sawEnd' = (status \in TerminalStatus \cup {"none"})
          /\ missed' = (missed \/ status = "none")
    /\ UNCHANGED <<vars, rowVars, lines, grace, settledLen>>

\* The lengths of log an events_after query may see.
VisibleLengths ==
    IF Stale THEN {n \in 0..Len(log) : n >= settledLen /\ n >= Len(lines)}
    ELSE {Len(log)}

\* Mutant of Fresh: the cursor is inclusive, so the last line is read again.
FreshInclusive(n) == IF lines = <<>> THEN SubSeq(log, 1, n) ELSE SubSeq(log, Len(lines), n)

\* Items after the cursor, cut at the first eval_complete.
Fresh(n) ==
    LET items == SubSeq(log, Len(lines) + 1, n)
        ends == {i \in 1..Len(items) : items[i].type = "eval_complete"}
    IN IF ends = {} THEN items
       ELSE SubSeq(items, 1, CHOOSE i \in ends : \A j \in ends : i <= j)

EndsWithComplete(s) == s # <<>> /\ s[Len(s)].type = "eval_complete"

\* Yield what is new; stop on eval_complete; drain greedily; on an empty read
\* of a terminal row use up a grace poll; otherwise sleep and poll again.
ReadEvents ==
    /\ reader = "events"
    /\ \E n \in VisibleLengths :
        LET fresh == Fresh(n)
        IN /\ lines' = lines \o fresh
           /\ \/ /\ EndsWithComplete(fresh)
                 /\ reader' = "ended"
                 /\ UNCHANGED <<grace, settledLen, recent>>
              \/ /\ fresh # <<>> /\ ~EndsWithComplete(fresh)
                 /\ reader' = "meta"
                 /\ UNCHANGED <<grace, settledLen, recent>>
              \/ /\ fresh = <<>>
                 /\ grace' = IF sawEnd THEN grace - 1 ELSE grace
                 /\ reader' = IF sawEnd /\ grace' = 0 THEN "ended" ELSE "meta"
                 /\ settledLen' = Len(log)
                 /\ recent' = {row}
    /\ UNCHANGED <<vars, history, row, deleter, sawEnd, missed>>

ReaderStep == ReadMeta \/ ReadEvents

-----------------------------------------------------------------------------
\* The stream of a server that reaches it never stops short: as long as no read
\* missed the row, the last line a client gets is the worker's eval_complete, and
\* it names the status the row settles at.  (A read that misses the row counts as
\* a terminal poll, and the grace it costs is not given back.)
StreamEndsOnComplete ==
    reader = "ended" /\ ~missed =>
        /\ EndsWithComplete(lines)
        /\ RowIsTerminal => lines[Len(lines)].status = row

==============================================================================
