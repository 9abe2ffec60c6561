--------------------------- MODULE StackCommandProofs ---------------------------
(***************************************************************************)
(* What a command that follows an evaluation on a stack relies on, for any *)
(* repeats, kills, lagging reads, broken connections, interrupts and a      *)
(* DELETE of any client, and wherever the server keeps its history: it has  *)
(* shown the log from its start, a stream that does not miss the row ends   *)
(* on eval_complete, and the code the command exits with is true.           *)
(***************************************************************************)
EXTENDS StackCommand, CloudWorkerProofs

-----------------------------------------------------------------------------
(* What the worker leaves to its readers *)

LogIsClosed == EndsWithComplete(log)

\* The worker has written a terminal status.
WorkerSettled == meta.status \in TerminalStatus

\* A sequence that is a beginning of the log.
Begins(s) ==
    /\ s \in Seq(Events) /\ Len(s) <= Len(log)
    /\ \A i \in 1..Len(s) : s[i] = log[i]

\* A part of a sequence, and two sequences one after the other.
LEMMA PartOf ==
    ASSUME NEW S, NEW s \in Seq(S), NEW a \in Nat, NEW b \in Nat, a <= b, b <= Len(s)
    PROVE  /\ SubSeq(s, a + 1, b) \in Seq(S) /\ Len(SubSeq(s, a + 1, b)) = b - a
           /\ \A i \in 1..(b - a) : SubSeq(s, a + 1, b)[i] = s[a + i]
  OBVIOUS

LEMMA OneAfterTheOther ==
    ASSUME NEW S, NEW s \in Seq(S), NEW t \in Seq(S)
    PROVE  /\ s \o t \in Seq(S) /\ Len(s \o t) = Len(s) + Len(t)
           /\ \A i \in 1..Len(s) : (s \o t)[i] = s[i]
           /\ \A i \in 1..Len(t) : (s \o t)[Len(s) + i] = t[i]
  OBVIOUS

\* What the worker's invariants say of the table.
LEMMA TableFacts ==
    ASSUME Bases
    PROVE  /\ log \in Seq(Events) /\ Len(log) \in Nat
           /\ \A i \in 1..Len(log) : log[i].type = "eval_complete" => i = Len(log)
           /\ WorkerSettled => ClosedAs(meta.status)
           /\ meta.status \in {"running"} \cup TerminalStatus
<1>1. RowTypes
  BY DEF Bases, CauseInv
<1>2. log \in Seq(Events) /\ Len(log) \in Nat /\ meta.status \in {"running"} \cup TerminalStatus
  BY <1>1 DEF RowTypes
<1>3. WorkerSettled => TerminalRowIsClosed
  BY DEF Bases, LogInv, WorkerSettled, TerminalStatus
<1>4. WorkerSettled => ClosedAs(meta.status)
  BY <1>2, <1>3 DEF TerminalRowIsClosed, WorkerSettled, ClosedAs, EndsWithComplete
<1> QED
  BY <1>2, <1>4 DEF Bases, SettleInv

\* The log only grows, and neither a closed log nor a settled row changes.
LEMMA TableGrows ==
    ASSUME SettlingWorks, Bases, Bases', [Next]_vars
    PROVE  /\ Len(log) <= Len(log')
           /\ \A i \in 1..Len(log) : log'[i] = log[i]
           /\ LogIsClosed => log' = log
           /\ WorkerSettled => meta'.status = meta.status
<1>1. log' = log \/ \E event : log' = Append(log, event) /\ log \in Seq(Events)
  <2>1. CASE StoreCall
    <3>1. CASE EmitEvent /\ ~st.terminal
      BY <3>1, EmitsInTurn
    <3>2. CASE EmitEvent /\ st.terminal
      BY <3>2 DEF EmitEvent, tableVars
    <3>3. CASE ~EmitEvent
      BY <2>1, <3>3 DEF StoreCall, SaveEvaluation, FinalizeEvaluation, FlipStatus, SettleEvaluation,
         SaveRunItem, tableVars
    <3> QED
      BY <3>1, <3>2, <3>3
  <2>2. CASE ExecStep \/ EngineStep \/ Kill
    BY <2>2 DEF ExecStep, ExecStart, HardStop, AfterHardStop, AfterEngine, AfterEngineRaised,
       ExecReturn, Kill, EngineStep, EngineStart, EngineUnavailable, BatchRaises, BatchDone,
       BeforeGrading, Graded, ChildStart, ChildFinish, tableVars
  <2>3. CASE Tick \/ CancelCheck \/ CancelPut \/ UNCHANGED vars
    BY <2>3 DEF Tick, CancelCheck, CancelPut, vars, workerVars, tableVars
  <2> QED
    BY <2>1, <2>2, <2>3 DEF Next, WorkerStep
<1>2. /\ Len(log) \in Nat /\ Len(log) <= Len(log')
      /\ \A i \in 1..Len(log) : log'[i] = log[i]
  <2>1. CASE log' = log
    BY <2>1, TableFacts
  <2>2. CASE \E event : log' = Append(log, event) /\ log \in Seq(Events)
    BY <2>2, NewPosition
  <2> QED
    BY <1>1, <2>1, <2>2
<1>3. LogIsClosed => log' = log
  <2> SUFFICES ASSUME LogIsClosed, NEW event, log' = Append(log, event), log \in Seq(Events)
               PROVE  FALSE
    BY <1>1
  <2>1. Len(log) \in 1..Len(log) /\ Len(log') = Len(log) + 1 /\ Len(log) \in 1..Len(log')
    BY DEF LogIsClosed, EndsWithComplete
  <2>2. log'[Len(log)].type = "eval_complete"
    BY <1>2, <2>1 DEF LogIsClosed, EndsWithComplete
  <2>3. \A i \in 1..Len(log') : log'[i].type = "eval_complete" => i = Len(log')
    BY DEF Bases, SettleInv
  <2> QED
    BY <1>2, <2>1, <2>2, <2>3
<1>4. WorkerSettled => meta'.status = meta.status
  <2>1. [Lifecycle!Next]_(Lifecycle!lifecycleVars)
    BY EmitIsClose, FlipIsSettle, OtherIsHidden DEF Lifecycle!lifecycleVars
  <2>2. CASE Lifecycle!Next
    BY <2>2 DEF Lifecycle!Next, Lifecycle!Close, Lifecycle!Settle, WorkerSettled, TerminalStatus
  <2>3. CASE UNCHANGED Lifecycle!lifecycleVars
    BY <2>3 DEF Lifecycle!lifecycleVars
  <2> QED
    BY <2>1, <2>2, <2>3
<1> QED
  BY <1>2, <1>3, <1>4

\* A beginning of the log stays one.
LEMMA BeginsOn ==
    ASSUME NEW s, Begins(s), Len(log) \in Nat, Len(log) <= Len(log'), Len(log') \in Nat,
           \A i \in 1..Len(log) : log'[i] = log[i]
    PROVE  Begins(s)'
  BY DEF Begins

-----------------------------------------------------------------------------
(* The row *)

\* A terminal status in the table is the one the worker has closed the log with,
\* or a DELETE's own.
TrueOfTable(status) == ClosedAs(status) \/ (status = "cancelled" /\ deleter = "done")

\* What a read of the row may say, and who has written it.
RowInv ==
    /\ history \in {"own", "table"} /\ (deleter # "idle" => history = "table")
    /\ row \in {"running"} \cup TerminalStatus
    /\ \A s \in recent : s \in {"none", "running"} \cup TerminalStatus
    /\ \A s \in recent \cup {row} : s \in TerminalStatus => TrueOfTable(s)
    /\ history = "own" => row = meta.status
    /\ history = "own" => \A s \in recent : s \in TerminalStatus => row = s

\* The status the worker writes is that of its own table, or "running".
LEMMA WorkerWrites ==
    ASSUME SettlingWorks, RowFollows
    PROVE  /\ row' \in {row, meta'.status, "running"}
           /\ history = "own" => row' = meta'.status
           /\ recent' = recent \cup {row'}
<1>1. recent' = recent \cup {row'} /\ (history = "own" => row' = meta'.status)
  BY DEF RowFollows
<1>2. CASE history # "own" /\ FlipStatus
  <2>1. meta' = Flipped /\ faults' = faults
    BY <1>2 DEF FlipStatus, Fault, SettlingWorks
  <2>2. Lands(Flipped.status)
    BY <1>2 DEF RowFollows
  <2> QED
    BY <1>1, <2>1, <2>2 DEF Lands
<1>3. CASE /\ history # "own" /\ ~FlipStatus
           /\ SaveEvaluation /\ ~st.terminal /\ Head(todo).status = "running"
  <2>1. Lands("running")
    BY <1>3 DEF RowFollows
  <2> QED
    BY <1>1, <2>1 DEF Lands
<1>4. CASE /\ history # "own" /\ ~FlipStatus
           /\ ~(SaveEvaluation /\ ~st.terminal /\ Head(todo).status = "running")
  <2>1. row' = row
    BY <1>4 DEF RowFollows
  <2> QED
    BY <1>1, <2>1
<1> QED
  BY <1>1, <1>2, <1>3, <1>4

\* The worker goes on, and what the table says stays true.
LEMMA WorkerKeepsRow ==
    ASSUME SettlingWorks, Bases, Bases', RowInv, [Next]_vars, RowFollows,
           UNCHANGED <<history, deleter>>
    PROVE  RowInv' /\ (history = "own" /\ RowIsTerminal => row' = row)
<1>1. /\ row' \in {row, meta'.status, "running"} /\ recent' = recent \cup {row'}
      /\ history = "own" => row' = meta'.status
  BY WorkerWrites
<1>2. /\ LogIsClosed => log' = log
      /\ WorkerSettled => meta'.status = meta.status
  BY TableGrows
<1>3. meta'.status \in {"running"} \cup TerminalStatus /\ (WorkerSettled => ClosedAs(meta.status))'
  <2>1. RowTypes' /\ LogInv'
    BY DEF Bases, CauseInv
  <2>2. log' \in Seq(Events) /\ meta'.status \in {"running"} \cup TerminalStatus
    BY <2>1 DEF RowTypes
  <2>3. (WorkerSettled => TerminalRowIsClosed)'
    BY <2>1 DEF LogInv, WorkerSettled, TerminalStatus
  <2> QED
    BY <2>2, <2>3 DEF TerminalRowIsClosed, WorkerSettled, ClosedAs, EndsWithComplete
<1>4. ASSUME NEW s, TrueOfTable(s) PROVE TrueOfTable(s)'
  BY <1>2, <1>4 DEF TrueOfTable, ClosedAs, LogIsClosed, EndsWithComplete
<1>5. ASSUME NEW s \in TerminalStatus, s = meta'.status PROVE TrueOfTable(s)'
  BY <1>3, <1>5 DEF TrueOfTable, ClosedAs, EndsWithComplete, WorkerSettled
<1>6. row' \in {"running"} \cup TerminalStatus
  BY <1>1, <1>3 DEF RowInv
<1>7. ASSUME NEW s \in TerminalStatus, s = row' PROVE TrueOfTable(s)'
  <2>1. CASE row' = row
    BY <1>4, <1>7, <2>1 DEF RowInv
  <2>2. CASE row' = meta'.status
    BY <1>5, <1>7, <2>2
  <2>3. CASE row' = "running"
    BY <1>7, <2>3 DEF TerminalStatus
  <2> QED
    BY <1>1, <2>1, <2>2, <2>3
<1>8. history = "own" /\ row \in TerminalStatus => row' = row
  BY <1>1, <1>2 DEF RowInv, WorkerSettled
<1>9. history' = "own" => \A s \in recent' : s \in TerminalStatus => row' = s
  BY <1>1, <1>8 DEF RowInv
<1>10. \A s \in recent' \cup {row'} : s \in TerminalStatus => TrueOfTable(s)'
  BY <1>1, <1>4, <1>7 DEF RowInv
<1>11. \A s \in recent' : s \in {"none", "running"} \cup TerminalStatus
  BY <1>1, <1>6 DEF RowInv
<1> QED
  BY <1>1, <1>6, <1>8, <1>9, <1>10, <1>11 DEF RowInv, RowIsTerminal

\* A step of the server or the command that leaves the row, but for what a lagging
\* read may still return.
LEMMA RowStays ==
    ASSUME RowInv, UNCHANGED <<log, meta, history, row, deleter>>,
           recent' = recent \/ recent' = {row}
    PROVE  RowInv'
<1>1. \A s : TrueOfTable(s)' = TrueOfTable(s)
  BY DEF TrueOfTable, ClosedAs, EndsWithComplete
<1> QED
  BY <1>1 DEF RowInv

\* A DELETE the history answers writes what only it may have written.
LEMMA DeleteKeepsRow ==
    ASSUME RowInv, DeleteStep
    PROVE  RowInv'
<1>1. UNCHANGED <<log, meta, history>>
  BY DEF DeleteStep, DeleteCheck, DeletePut, vars, tableVars
<1>2. CASE DeleteCheck
  <2>1. UNCHANGED <<row, recent>> /\ deleter = "idle" /\ history = "table"
    BY <1>2 DEF DeleteCheck, NoDelete
  <2>2. \A s : TrueOfTable(s) => TrueOfTable(s)'
    BY <1>1, <2>1 DEF TrueOfTable, ClosedAs, EndsWithComplete
  <2> QED
    BY <1>1, <2>1, <2>2 DEF RowInv
<1>3. CASE DeletePut
  <2>1. deleter = "checked" /\ history = "table"
    BY <1>3 DEF DeletePut, RowInv
  <2>2. \A s : TrueOfTable(s) => TrueOfTable(s)'
    BY <1>1, <2>1 DEF TrueOfTable, ClosedAs, EndsWithComplete
  <2>3. CASE deleter' = "done" /\ row' = "cancelled" /\ recent' = recent \cup {row'}
    <3>1. TrueOfTable("cancelled")'
      BY <2>3 DEF TrueOfTable
    <3>2. \A s \in recent' \cup {row'} : s \in TerminalStatus => TrueOfTable(s)'
      BY <2>2, <2>3, <3>1 DEF RowInv
    <3> QED
      BY <1>1, <2>1, <2>3, <3>2 DEF RowInv, TerminalStatus
  <2>4. CASE UNCHANGED <<row, recent>>
    BY <1>1, <2>1, <2>2, <2>4 DEF RowInv
  <2> QED
    BY <1>3, <2>3, <2>4 DEF DeletePut
<1> QED
  BY <1>2, <1>3 DEF DeleteStep

-----------------------------------------------------------------------------
(* The stream *)

Readers == {"closed", "meta", "events", "ended"}

\* Once a poll of a terminal row has come back empty, every poll sees the whole
\* of a closed log; all of this only where no read has missed the row.
StreamInv ==
    /\ reader \in Readers /\ sawEnd \in BOOLEAN /\ missed \in BOOLEAN
    /\ settledLen \in Nat /\ settledLen <= Len(log)
    /\ Begins(lines)
    /\ grace \in {0, 1, 2}
    /\ reader \in {"meta", "events"} => grace # 0
    /\ ~missed /\ reader # "closed" => history = "own"
    /\ ~missed /\ sawEnd => history = "own" /\ RowIsTerminal
    /\ ~missed /\ reader \in {"meta", "events"} /\ grace = 1 =>
          RowIsTerminal /\ settledLen = Len(log)
    /\ ~missed /\ reader = "ended" => EndsWithComplete(lines)

\* A query that sees n lines answers with those after the cursor: eval_complete
\* is the last line of the log, so there is nothing to cut off.
LEMMA FreshIsTheRest ==
    ASSUME log \in Seq(Events), Begins(lines), NEW n \in 0..Len(log), Len(lines) <= n,
           \A i \in 1..Len(log) : log[i].type = "eval_complete" => i = Len(log)
    PROVE  /\ Fresh(n) = SubSeq(log, Len(lines) + 1, n)
           /\ Fresh(n) \in Seq(Events)
           /\ Len(Fresh(n)) = n - Len(lines)
           /\ \A i \in 1..(n - Len(lines)) : Fresh(n)[i] = log[Len(lines) + i]
<1> DEFINE m == Len(lines)
           items == SubSeq(log, m + 1, n)
           ends == {i \in 1..Len(items) : items[i].type = "eval_complete"}
<1>1. m \in Nat /\ m <= n /\ n \in Nat /\ n <= Len(log) /\ Len(log) \in Nat
  BY DEF Begins
<1>2. items \in Seq(Events) /\ Len(items) = n - m /\ \A i \in 1..(n - m) : items[i] = log[m + i]
  BY <1>1
<1>3. \A i \in ends : i = Len(items)
  <2> SUFFICES ASSUME NEW i \in ends PROVE i = Len(items)
    OBVIOUS
  <2>1. i \in 1..(n - m) /\ log[m + i].type = "eval_complete" /\ m + i \in 1..Len(log)
    BY <1>1, <1>2
  <2>2. m + i = Len(log)
    BY <2>1
  <2> QED
    BY <1>1, <1>2, <2>1, <2>2
<1>4. Fresh(n) = items
  <2>1. CASE ends = {}
    BY <2>1 DEF Fresh
  <2>2. CASE ends # {}
    <3>1. (CHOOSE i \in ends : \A j \in ends : i <= j) = Len(items)
      <4>1. PICK i : i \in ends
        BY <2>2
      <4>2. i = Len(items) /\ Len(items) \in Nat
        BY <1>1, <1>2, <1>3, <4>1
      <4>3. \A j \in ends : i <= j
        BY <1>3, <4>2
      <4>4. \A k \in ends : k = i
        BY <1>3, <4>2
      <4> HIDE DEF ends
      <4> QED
        BY <4>1, <4>2, <4>3, <4>4
    <3>2. SubSeq(items, 1, Len(items)) = items
      BY <1>2
    <3> QED
      BY <2>2, <3>1, <3>2 DEF Fresh
  <2> QED
    BY <2>1, <2>2
<1> QED
  BY <1>1, <1>2, <1>4

\* What a poll of the events yields is the next part of the log.
LEMMA YieldsTheNext ==
    ASSUME Bases, StreamInv, NEW n \in VisibleLengths, lines' = lines \o Fresh(n), UNCHANGED vars
    PROVE  /\ Begins(lines)' /\ Len(lines) \in Nat /\ Len(lines') \in Nat
           /\ n \in 0..Len(log) /\ Len(lines) <= n /\ Len(lines') = n
           /\ Len(Fresh(n)) = n - Len(lines) /\ Fresh(n) \in Seq(Events)
<1>1. /\ log \in Seq(Events) /\ Len(log) \in Nat /\ log' = log /\ lines \in Seq(Events)
      /\ Len(lines) <= Len(log)
      /\ \A i \in 1..Len(lines) : lines[i] = log[i]
      /\ \A i \in 1..Len(log) : log[i].type = "eval_complete" => i = Len(log)
  BY TableFacts DEF StreamInv, Begins, vars, tableVars
<1>2. n \in 0..Len(log) /\ Len(lines) <= n
  BY <1>1 DEF VisibleLengths
<1> DEFINE fresh == Fresh(n)
           m == Len(lines)
<1>3. /\ fresh \in Seq(Events) /\ Len(fresh) = n - m
      /\ \A i \in 1..(n - m) : fresh[i] = log[m + i]
  BY <1>1, <1>2, FreshIsTheRest DEF StreamInv
<1>4. m \in Nat /\ n \in Nat /\ m <= n /\ n <= Len(log)
  BY <1>1, <1>2
<1> HIDE DEF fresh
<1>5. lines' \in Seq(Events) /\ Len(lines') = n
  BY <1>1, <1>3, <1>4 DEF fresh
<1>6. ASSUME NEW i \in 1..n PROVE lines'[i] = log[i]
  <2>1. lines' = lines \o fresh
    BY DEF fresh
  <2>2. CASE i <= m
    BY <1>1, <1>3, <1>4, <2>1, <2>2
  <2>3. CASE i > m
    <3>1. (lines \o fresh)[i] = fresh[i - m] /\ i - m \in 1..(n - m)
      BY <1>1, <1>3, <1>4, <2>3
    <3>2. m + (i - m) = i
      BY <1>4
    <3> QED
      BY <1>3, <2>1, <3>1, <3>2
  <2> HIDE DEF m
  <2>4. i <= m \/ i > m
    BY <1>4
  <2> QED
    BY <2>2, <2>3, <2>4
<1> QED
  BY <1>1, <1>2, <1>3, <1>4, <1>5, <1>6 DEF Begins, fresh

LEMMA IsOrIsNot == \A x, S : (x \in S) \in BOOLEAN
  OBVIOUS

\* The server polls, and what it leaves of the stream.
LEMMA PollKeepsStream ==
    ASSUME StreamAssumption, Bases, RowInv, StreamInv, ReaderStep
    PROVE  /\ StreamInv' /\ RowInv'
           /\ Len(lines) \in Nat /\ Len(lines') \in Nat /\ Len(lines) <= Len(lines')
<1>0. UNCHANGED <<log, meta, history, row, deleter>> /\ Begins(lines) /\ Len(lines) \in Nat /\ Len(log) \in Nat
  BY TableFacts DEF ReaderStep, ReadMeta, ReadEvents, vars, tableVars, rowVars, StreamInv, Begins
<1>10. RowInv'
  <2>1. recent' = recent \/ recent' = {row}
    BY DEF ReaderStep, ReadMeta, ReadEvents, rowVars
  <2> QED
    BY <1>0, <2>1, RowStays
<1>1. CASE ReadMeta
  <2>1. PICK status \in RowReads : /\ sawEnd' = (status \in TerminalStatus \cup {"none"})
                                  /\ missed' = (missed \/ status = "none")
    BY <1>1 DEF ReadMeta
  <2>2. /\ reader = "meta" /\ reader' = "events"
        /\ UNCHANGED <<log, meta, lines, grace, settledLen, history, row>>
    BY <1>0, <1>1 DEF ReadMeta
  <2>3. Begins(lines)'
    BY <1>0, <2>2 DEF Begins
  <2>9. sawEnd' \in BOOLEAN
    BY <2>1, IsOrIsNot, Zenon
  <2>4. missed' \in BOOLEAN /\ (~missed' => ~missed /\ status # "none")
    <3>1. CASE missed \/ status = "none"
      <4>1. missed' = TRUE
        BY <2>1, <3>1, Zenon
      <4> QED
        BY <4>1, Zenon
    <3>2. CASE ~missed /\ status # "none"
      <4>1. missed' = FALSE
        BY <2>1, <3>2, Zenon
      <4> QED
        BY <3>2, <4>1, Zenon
    <3> QED
      BY <3>1, <3>2
  <2>5. ASSUME ~missed', sawEnd' PROVE RowIsTerminal
    <3>1. status \in TerminalStatus /\ status \in recent \cup {row} /\ history = "own"
      BY <2>1, <2>2, <2>4, <2>5 DEF RowReads, StreamInv
    <3> QED
      BY <3>1 DEF RowInv, RowIsTerminal
  <2>6. RowIsTerminal' = RowIsTerminal
    BY <2>2 DEF RowIsTerminal
  <2> QED
    BY <1>0, <1>10, <2>2, <2>3, <2>4, <2>5, <2>6, <2>9 DEF StreamInv, Readers
<1>2. CASE ReadEvents
  <2>1. PICK n \in VisibleLengths :
           /\ lines' = lines \o Fresh(n)
           /\ \/ /\ EndsWithComplete(Fresh(n))
                 /\ reader' = "ended"
                 /\ UNCHANGED <<grace, settledLen>>
              \/ /\ Fresh(n) # <<>> /\ ~EndsWithComplete(Fresh(n))
                 /\ reader' = "meta"
                 /\ UNCHANGED <<grace, settledLen>>
              \/ /\ Fresh(n) = <<>>
                 /\ grace' = IF sawEnd THEN grace - 1 ELSE grace
                 /\ reader' = IF sawEnd /\ grace' = 0 THEN "ended" ELSE "meta"
                 /\ settledLen' = Len(log)
    BY <1>2 DEF ReadEvents
  <2>2. reader = "events" /\ UNCHANGED <<vars, sawEnd, missed>> /\ RowIsTerminal' = RowIsTerminal
    BY <1>0, <1>2 DEF ReadEvents, RowIsTerminal
  <2>3. /\ Begins(lines)' /\ Len(lines) \in Nat /\ Len(lines') \in Nat
        /\ n \in 0..Len(log) /\ Len(lines) <= n /\ Len(lines') = n
        /\ Len(Fresh(n)) = n - Len(lines) /\ Fresh(n) \in Seq(Events)
    BY <2>1, <2>2, YieldsTheNext
  <2> DEFINE fresh == Fresh(n)
  <2>4. /\ lines' = lines \o fresh /\ fresh \in Seq(Events) /\ lines \in Seq(Events)
        /\ SubSeq(lines', Len(lines) + 1, Len(lines')) = fresh
    <3>1. lines \in Seq(Events) /\ lines' = lines \o fresh /\ fresh \in Seq(Events)
      BY <2>1, <2>3 DEF StreamInv, Begins
    <3> HIDE DEF fresh
    <3>2. \A s, t \in Seq(Events) : SubSeq(s \o t, Len(s) + 1, Len(s \o t)) = t
      OBVIOUS
    <3> QED
      BY <3>1, <3>2
  <2>5. CASE EndsWithComplete(fresh) /\ reader' = "ended" /\ UNCHANGED <<grace, settledLen>>
    <3>1. EndsWithComplete(lines')
      <4> HIDE DEF fresh
      <4>1. \A s, t \in Seq(Events) : t # <<>> =>
               s \o t # <<>> /\ (s \o t)[Len(s \o t)] = t[Len(t)]
        OBVIOUS
      <4> QED
        BY <2>4, <2>5, <4>1 DEF EndsWithComplete
    <3> QED
      BY <1>0, <1>10, <2>2, <2>3, <2>5, <3>1 DEF StreamInv, Readers
  <2>6. CASE fresh # <<>> /\ reader' = "meta" /\ UNCHANGED <<grace, settledLen>>
    BY <1>0, <1>10, <2>2, <2>3, <2>6 DEF StreamInv, Readers
  <2>7. CASE /\ fresh = <<>>
             /\ grace' = IF sawEnd THEN grace - 1 ELSE grace
             /\ reader' = IF sawEnd /\ grace' = 0 THEN "ended" ELSE "meta"
             /\ settledLen' = Len(log)
    <3>1. lines' = lines /\ n = Len(lines)
      BY <2>3, <2>4, <2>7
    <3>2. ~missed /\ reader' = "ended" => EndsWithComplete(lines)
      <4> SUFFICES ASSUME ~missed, sawEnd, grace - 1 = 0 PROVE EndsWithComplete(lines)
        BY <2>7
      <4>1. RowIsTerminal /\ settledLen = Len(log) /\ history = "own"
        BY <2>2 DEF StreamInv
      <4>2. n = Len(log)
        BY <1>0, <2>3, <4>1 DEF VisibleLengths
      <4>3. EndsWithComplete(log)
        BY <4>1, TableFacts DEF RowInv, RowIsTerminal, WorkerSettled, ClosedAs
      <4>4. lines # <<>> /\ lines[Len(lines)] = log[Len(log)]
        <5>1. Len(lines) = Len(log) /\ Len(log) # 0
          BY <1>0, <3>1, <4>2, <4>3 DEF EndsWithComplete, Begins
        <5>2. Len(lines) \in 1..Len(lines)
          BY <1>0, <5>1
        <5> QED
          BY <1>0, <5>1, <5>2 DEF Begins
      <4> QED
        BY <4>3, <4>4 DEF EndsWithComplete
    <3> QED
      <4>1. /\ sawEnd' = sawEnd /\ sawEnd \in BOOLEAN /\ missed' = missed /\ missed \in BOOLEAN
            /\ grace \in {1, 2}
            /\ ~missed /\ sawEnd => RowIsTerminal
        BY <2>2 DEF StreamInv
      <4>2. /\ reader' \in {"meta", "ended"} /\ grace' \in {0, 1, 2}
            /\ reader' = "meta" => grace' # 0
        BY <2>7, <4>1
      <4>3. ~missed /\ reader' = "meta" /\ grace' = 1 => RowIsTerminal
        BY <2>2, <2>7, <4>1 DEF StreamInv
      <4>4. ~missed /\ reader' = "ended" => EndsWithComplete(lines')
        BY <3>1, <3>2
      <4>5. StreamInv'
        BY <1>0, <2>2, <2>3, <2>7, <4>1, <4>2, <4>3, <4>4 DEF StreamInv, Readers
      <4> QED
        BY <1>10, <2>3, <3>1, <4>5
  <2> QED
    BY <2>1, <2>5, <2>6, <2>7
<1> QED
  BY <1>1, <1>2 DEF ReaderStep

\* The worker goes on, or the row is deleted, and what it leaves of the stream.
LEMMA OthersKeepStream ==
    ASSUME SettlingWorks, Bases, Bases', RowInv, StreamInv, [Next]_vars, UNCHANGED readerVars,
           history' = history, history = "own" /\ RowIsTerminal => row' = row
    PROVE  StreamInv'
<1>1. /\ Len(log) \in Nat /\ Len(log') \in Nat /\ Len(log) <= Len(log')
      /\ \A i \in 1..Len(log) : log'[i] = log[i]
      /\ history = "own" /\ RowIsTerminal => log' = log /\ RowIsTerminal'
  <2>1. Len(log) \in Nat /\ Len(log') \in Nat /\ (WorkerSettled => LogIsClosed)
    BY TableFacts DEF Bases, CauseInv, RowTypes, ClosedAs, LogIsClosed
  <2>2. history = "own" /\ RowIsTerminal => WorkerSettled
    BY DEF RowInv, RowIsTerminal, WorkerSettled
  <2> QED
    BY <2>1, <2>2, TableGrows DEF RowIsTerminal
<1>2. UNCHANGED <<reader, sawEnd, missed, lines, grace, settledLen>>
  BY DEF readerVars
<1>3. Begins(lines)'
  <2>1. Begins(lines)
    BY DEF StreamInv
  <2> QED
    BY <1>1, <1>2, <2>1 DEF Begins
<1>4. EndsWithComplete(lines)' = EndsWithComplete(lines)
  BY <1>2 DEF EndsWithComplete
<1> QED
  BY <1>1, <1>2, <1>3, <1>4 DEF StreamInv

\* A stream that starts, or that is over, has read nothing yet.
LEMMA StartKeepsStream ==
    ASSUME Bases, StreamInv, UNCHANGED <<vars, history>>,
           Connects(history = "table") \/ Closes, history \in {"own", "table"}
    PROVE  StreamInv' /\ Len(lines') = 0
<1>1. PICK place \in {"meta", "closed"}, missing \in BOOLEAN :
         StreamAt(place, missing) /\ (place = "meta" => missing = (history = "table"))
  <2>1. CASE Connects(history = "table")
    <3>1. (history = "table") \in BOOLEAN
      OBVIOUS
    <3> QED
      BY <2>1, <3>1, Zenon DEF Connects
  <2>2. CASE Closes
    <3>1. StreamAt("closed", FALSE) /\ "closed" # "meta"
      BY <2>2 DEF Closes
    <3> QED
      BY <3>1
  <2> QED
    BY <2>1, <2>2
<1>2. log' = log /\ Len(log) \in Nat
  BY TableFacts DEF vars, tableVars
<1>3. Begins(lines)' /\ Len(lines') = 0
  <2>1. /\ lines' = <<>> /\ lines' \in Seq(Events) /\ Len(lines') = 0
        /\ \A i \in 1..Len(lines') : FALSE
    BY <1>1 DEF StreamAt
  <2> QED
    BY <1>2, <2>1 DEF Begins
<1>4. /\ reader' \in Readers /\ reader' # "ended" /\ grace' = 2
      /\ settledLen' \in Nat /\ settledLen' <= Len(log')
  BY <1>1, <1>2, SMT DEF StreamAt, Readers, TerminalGracePolls
<1>5. ~sawEnd' /\ sawEnd' \in BOOLEAN /\ missed' \in BOOLEAN
  <2>1. sawEnd' = FALSE /\ missed' = missing /\ missing \in BOOLEAN
    BY <1>1 DEF StreamAt
  <2> QED
    BY <2>1, Zenon
<1>6. ~missed' /\ reader' # "closed" => history' = "own"
  <2>1. missed' = missing /\ reader' = place /\ history' = history
    BY <1>1 DEF StreamAt
  <2> QED
    BY <1>1, <2>1
<1> QED
  BY <1>3, <1>4, <1>5, <1>6 DEF StreamInv

-----------------------------------------------------------------------------
(* The command *)

Following == {"prepare", "submit", "open", "follow"}

\* What it has handed on, but for the synthetic end of a replay.
Shown == IF replayed THEN SubSeq(got, 1, Len(got) - 1) ELSE got

\* The command has handed on a beginning of the log, at least as far as this
\* connection has come, and no end of it, a replay's or its own, while it still
\* follows.
ShownInv ==
    /\ replayed \in BOOLEAN
    /\ Begins(Shown)
    /\ cmd = "follow" => Len(lines) <= seen
    /\ cmd \in Following =>
          /\ ~replayed /\ seen = Len(got)
          /\ \A i \in 1..Len(got) : got[i].type # "eval_complete"

LEMMA ShownWhileFollowing ==
    ASSUME ShownInv, cmd \in Following
    PROVE  /\ ~replayed /\ seen = Len(got) /\ Begins(got)
           /\ \A i \in 1..Len(got) : got[i].type # "eval_complete"
  BY DEF ShownInv, Shown

\* Handing on what is new of the next part of the log.
LEMMA HandsOnTheNext ==
    ASSUME Bases, ShownInv, cmd = "follow", UNCHANGED vars,
           Begins(lines), Begins(lines)', Len(lines) <= Len(lines'),
           NEW entries, entries = SubSeq(lines', Len(lines) + 1, Len(lines')),
           HandOn(entries, Len(lines))
    PROVE  /\ Begins(got)' /\ seen' = Len(got') /\ Len(lines') <= seen'
           /\ ~EndsWithComplete(entries) =>
                 \A i \in 1..Len(got') : got'[i].type # "eval_complete"
<1>1. /\ log \in Seq(Events) /\ Len(log) \in Nat /\ log' = log
      /\ \A i \in 1..Len(log) : log[i].type = "eval_complete" => i = Len(log)
  BY TableFacts DEF vars, tableVars
<1>2. /\ lines' \in Seq(Events) /\ Len(lines') <= Len(log)
      /\ \A i \in 1..Len(lines') : lines'[i] = log[i]
      /\ Len(lines) \in Nat /\ Len(lines') \in Nat
  BY <1>1 DEF Begins
<1>3. /\ got \in Seq(Events) /\ Len(got) \in Nat /\ seen = Len(got) /\ Len(got) <= Len(log)
      /\ Len(lines) <= seen
      /\ \A i \in 1..Len(got) : got[i] = log[i] /\ got[i].type # "eval_complete"
  BY ShownWhileFollowing DEF ShownInv, Begins, Following
<1> DEFINE m == Len(lines)
           M == Len(lines')
           picked == Unseen(entries, m)
<1>4. /\ entries \in Seq(Events) /\ Len(entries) = M - m
      /\ \A i \in 1..(M - m) : entries[i] = log[m + i]
  <2>1. \A i \in 1..(M - m) : m + i \in 1..M
    BY <1>2
  <2>2. m <= M /\ M <= Len(lines')
    BY <1>2
  <2>3. entries = SubSeq(lines', m + 1, M) /\ m \in Nat /\ M \in Nat /\ lines' \in Seq(Events)
    BY <1>2
  <2>4. \A i \in 1..M : lines'[i] = log[i]
    BY <1>2
  <2> HIDE DEF m, M
  <2>5. /\ entries \in Seq(Events) /\ Len(entries) = M - m
        /\ \A i \in 1..(M - m) : entries[i] = lines'[m + i]
    <3>1. /\ SubSeq(lines', m + 1, M) \in Seq(Events) /\ Len(SubSeq(lines', m + 1, M)) = M - m
          /\ \A i \in 1..(M - m) : SubSeq(lines', m + 1, M)[i] = lines'[m + i]
      BY <2>2, <2>3, PartOf
    <3> QED
      BY <2>3, <3>1, Zenon
  <2> QED
    BY <2>1, <2>4, <2>5
<1> HIDE DEF m, M
<1>5. m \in Nat /\ M \in Nat /\ m <= M /\ M <= Len(log) /\ m <= seen /\ seen \in Nat
  BY <1>2, <1>3 DEF m, M
<1>6. picked = {i \in 1..(M - m) : m + i > seen}
  <2>1. picked = {i \in 1..(M - m) : m + i > seen \/ entries[i].type = "eval_complete"}
    BY <1>4 DEF Unseen
  <2>2. ASSUME NEW i \in 1..(M - m), entries[i].type = "eval_complete" PROVE m + i > seen
    <3>1. m + i = Len(log)
      <4>1. m + i \in 1..Len(log)
        BY <1>1, <1>5
      <4>2. log[m + i].type = "eval_complete"
        BY <1>4, <2>2
      <4> QED
        BY <1>1, <4>1, <4>2
    <3>2. m + i \in 1..Len(got) => log[m + i].type # "eval_complete"
      BY <1>3
    <3> QED
      BY <1>3, <1>4, <1>5, <2>2, <3>1, <3>2
  <2> HIDE DEF picked
  <2> QED
    BY <2>1, <2>2
<1>7. CASE M <= seen
  <2>1. picked = {}
    <3> HIDE DEF picked
    <3> QED
      BY <1>5, <1>6, <1>7
  <2>2. UNCHANGED <<got, seen>>
    BY <2>1 DEF HandOn, m
  <2> QED
    BY <1>1, <1>3, <1>7, <2>2 DEF Begins, M
<1>8. CASE M > seen
  <2> DEFINE first == seen - m + 1
  <2>1. first \in picked /\ \A j \in picked : first <= j
    <3> HIDE DEF picked
    <3> QED
      BY <1>5, <1>6, <1>8
  <2>2. (CHOOSE i \in picked : \A j \in picked : i <= j) = first
    <3>1. \A i \in picked : i \in Int
      <4> HIDE DEF picked
      <4> QED
        BY <1>5, <1>6
    <3>2. \A i \in picked : (\A j \in picked : i <= j) => i = first
      <4> HIDE DEF picked
      <4> QED
        BY <1>5, <2>1, <3>1
    <3> HIDE DEF picked, first
    <3> QED
      BY <2>1, <3>2
  <2>3. /\ got' = got \o SubSeq(entries, first, M - m)
        /\ seen' = IF m + (M - m) > seen THEN m + (M - m) ELSE seen
    <3>1. Len(entries) = M - m /\ picked # {}
      BY <1>4, <2>1
    <3> HIDE DEF first
    <3> QED
      BY <2>2, <3>1 DEF HandOn, m
  <2> DEFINE rest == SubSeq(entries, first, M - m)
  <2>4. /\ rest \in Seq(Events) /\ Len(rest) = M - seen
        /\ \A i \in 1..(M - seen) : rest[i] = log[seen + i]
    <3> DEFINE a == seen - m
               b == M - m
    <3>1. a \in Nat /\ b \in Nat /\ a <= b /\ b <= Len(entries) /\ b - a = M - seen
          /\ first = a + 1
      BY <1>4, <1>5, <1>8
    <3>2. \A i \in 1..(M - seen) : a + i \in 1..(M - m) /\ m + (a + i) = seen + i
      BY <1>5, <1>8
    <3> HIDE DEF a, b
    <3>3. /\ SubSeq(entries, a + 1, b) \in Seq(Events) /\ Len(SubSeq(entries, a + 1, b)) = b - a
          /\ \A i \in 1..(b - a) : SubSeq(entries, a + 1, b)[i] = entries[a + i]
      BY <1>4, <3>1, PartOf
    <3>4. rest = SubSeq(entries, a + 1, b)
      BY <3>1 DEF b
    <3> HIDE DEF rest
    <3> QED
      BY <1>4, <3>1, <3>2, <3>3, <3>4
  <2>5. seen' = M
    BY <1>5, <1>8, <2>3
  <2>6. got' \in Seq(Events) /\ Len(got') = M
        /\ \A i \in 1..M : got'[i] = log[i]
    <3>1. got' = got \o rest
      BY <2>3
    <3> HIDE DEF rest
    <3>2. got' \in Seq(Events) /\ Len(got') = Len(got) + (M - seen)
      <4>1. got \o rest \in Seq(Events) /\ Len(got \o rest) = Len(got) + Len(rest)
        BY <1>3, <2>4, OneAfterTheOther
      <4>2. Len(rest) = M - seen
        BY <2>4
      <4> QED
        BY <3>1, <4>1, <4>2, Zenon
    <3>3. /\ \A i \in 1..seen : got'[i] = got[i]
          /\ \A i \in 1..(M - seen) : got'[seen + i] = rest[i]
      <4>1. /\ \A i \in 1..Len(got) : (got \o rest)[i] = got[i]
            /\ \A i \in 1..Len(rest) : (got \o rest)[Len(got) + i] = rest[i]
        BY <1>3, <2>4, OneAfterTheOther
      <4>2. Len(got) = seen /\ Len(rest) = M - seen
        BY <1>3, <2>4
      <4> QED
        BY <3>1, <4>1, <4>2, Zenon
    <3>4. ASSUME NEW i \in 1..M PROVE got'[i] = log[i]
      <4>1. CASE i <= seen
        BY <1>3, <1>5, <3>3, <4>1
      <4>2. CASE i > seen
        <5>1. i - seen \in 1..(M - seen) /\ seen + (i - seen) = i
          BY <1>5, <4>2
        <5> QED
          BY <2>4, <3>3, <5>1
      <4> QED
        BY <1>5, <4>1, <4>2
    <3> QED
      BY <1>3, <1>5, <3>2, <3>4
  <2>7. ASSUME ~EndsWithComplete(entries), NEW i \in 1..M
        PROVE  got'[i].type # "eval_complete"
    <3>1. entries # <<>> /\ entries[M - m] = log[M] /\ Len(entries) = M - m
      <4>1. M - m \in 1..(M - m) /\ m + (M - m) = M
        BY <1>5, <1>8
      <4> QED
        BY <1>4, <4>1
    <3>2. log[M].type # "eval_complete"
      BY <2>7, <3>1 DEF EndsWithComplete
    <3>3. log[i].type = "eval_complete" => i = M
      BY <1>1, <1>5
    <3> QED
      BY <2>6, <3>2, <3>3
  <2> QED
    BY <1>1, <1>5, <2>5, <2>6, <2>7 DEF Begins, M
<1> QED
  BY <1>5, <1>7, <1>8

\* A step of the command that leaves the log and what it has shown, and the stream
\* but for closing it.
LEMMA AsideKeeps ==
    ASSUME Bases, RowInv, StreamInv, ShownInv, UNCHANGED <<vars, rowVars, got, seen, replayed>>,
           UNCHANGED readerVars \/ Closes,
           cmd' = "follow" => cmd = "follow" /\ UNCHANGED readerVars,
           cmd' \in Following => cmd \in Following
    PROVE  RowInv' /\ StreamInv' /\ ShownInv'
<1>1. UNCHANGED <<log, meta, history, row, recent, deleter>>
  BY DEF vars, tableVars, rowVars
<1>2. \A s : Begins(s)' = Begins(s)
  BY <1>1 DEF Begins
<1>3. RowInv'
  BY <1>1, RowStays
<1>4. StreamInv'
  <2>1. CASE UNCHANGED readerVars
    <3>1. UNCHANGED <<reader, sawEnd, missed, lines, grace, settledLen>>
      BY <2>1 DEF readerVars
    <3>2. Begins(lines)' /\ RowIsTerminal' = RowIsTerminal
      BY <1>1, <3>1 DEF Begins, RowIsTerminal, StreamInv
    <3> QED
      BY <1>1, <3>1, <3>2 DEF StreamInv, Readers, EndsWithComplete
  <2>2. CASE Closes
    BY <1>1, <2>2, StartKeepsStream DEF RowInv
  <2> QED
    BY <2>1, <2>2
<1>5. ShownInv'
  <2>1. Begins(Shown)'
    BY <1>1 DEF Begins, ShownInv, Shown
  <2>2. cmd' = "follow" => lines' = lines
    BY DEF readerVars
  <2> QED
    BY <2>1, <2>2 DEF ShownInv
<1> QED
  BY <1>3, <1>4, <1>5

\* Where the steps that leave the stream alone go.
LEMMA AsideGoes ==
    ASSUME Prepare \/ Submit \/ Fetch \/ Interrupt \/ Cancelled \/ Break \/ StreamStops
    PROVE  /\ UNCHANGED <<vars, rowVars, got, seen, replayed>>
           /\ UNCHANGED readerVars \/ Closes
           /\ cmd \in {"prepare", "submit", "open", "follow", "fetch", "cancelling"}
           /\ cmd' \in {"submit", "here", "open", "cancelling", "exited"}
           /\ cmd' \in Following => cmd \in Following
<1>1. CASE Prepare
  BY <1>1 DEF Prepare, Exit, Goto, StaysOnLine, ServerWaits, Following
<1>2. CASE Submit
  <2>1. UNCHANGED <<vars, rowVars, readerVars, got, seen, replayed>> /\ cmd = "submit"
    BY <1>2 DEF Submit, StaysOnLine, ServerWaits
  <2>2. Exit(ExitFailed) \/ Exit(ExitOk) \/ Goto("open") \/ Goto("here")
    BY <1>2 DEF Submit
  <2> QED
    BY <2>1, <2>2 DEF Exit, Goto, Following
<1>3. CASE Fetch
  <2>1. UNCHANGED <<vars, rowVars, readerVars, got, seen, replayed>> /\ cmd = "fetch"
    BY <1>3 DEF Fetch, ServerWaits
  <2>2. cmd' = "exited"
    BY <1>3 DEF Fetch, Exit
  <2> QED
    BY <2>1, <2>2 DEF Following
<1>4. CASE Interrupt
  BY <1>4 DEF Interrupt, Exit, Goto, StaysOnLine, Following
<1>5. CASE Cancelled
  BY <1>5 DEF Cancelled, Exit, StaysOnLine, ServerWaits, Following
<1>6. CASE Break \/ StreamStops
  BY <1>6 DEF Break, StreamStops, LoseStream, Failed, Exit, Goto, Following
<1> QED
  BY <1>1, <1>2, <1>3, <1>4, <1>5, <1>6

LEMMA PartOfOne == \A e : SubSeq(<<e>>, 1, Len(<<e>>)) = <<e>> /\ Len(<<e>>) = 1
<1> TAKE e
<1> DEFINE one == <<e>>
<1>1. one \in Seq({e}) /\ Len(one) = 1
  OBVIOUS
<1> HIDE DEF one
<1>2. SubSeq(one, 1, Len(one)) = one
  BY <1>1
<1> QED
  BY <1>1, <1>2 DEF one

\* The synthetic line is handed on, and it alone.
LEMMA ReplayAddsOne ==
    ASSUME got \in Seq(Events), seen \in Nat, NEW status, HandOn(<<Synthetic(status)>>, 0)
    PROVE  SubSeq(got', 1, Len(got') - 1) = got
<1> DEFINE end == Synthetic(status)
           one == <<end>>
<1>1. end.type = "eval_complete"
  BY DEF Synthetic, EvalComplete, Event
<1>2. Unseen(one, 0) = {1}
  <2>1. DOMAIN one = {1} /\ one[1] = end
    OBVIOUS
  <2> HIDE DEF one, end
  <2> QED
    BY <1>1, <2>1 DEF Unseen
<1>3. (CHOOSE i \in {1} : \A j \in {1} : i <= j) = 1
  <2>1. 1 \in {1} /\ \A j \in {1} : 1 <= j
    OBVIOUS
  <2>2. \A i \in {1} : i = 1
    OBVIOUS
  <2> QED
    BY <2>1, <2>2
<1>4. got' = got \o SubSeq(one, 1, Len(one))
  <2> HIDE DEF one, end
  <2>1. one = <<Synthetic(status)>>
    BY DEF one, end
  <2>2. HandOn(one, 0)
    BY <2>1
  <2> QED
    BY <1>2, <1>3, <2>2 DEF HandOn
<1> HIDE DEF end
<1>5. SubSeq(one, 1, Len(one)) = one /\ Len(one) = 1
  BY PartOfOne
<1>6. got' = Append(got, end)
  BY <1>4, <1>5
<1> QED
  BY <1>6

\* A new connection starts at the log's beginning, a replay is one line more, and a
\* failed attempt leaves all as it was.
LEMMA OpenKeeps ==
    ASSUME Bases, RowInv, StreamInv, ShownInv, Open
    PROVE  RowInv' /\ StreamInv' /\ ShownInv'
<1>1. UNCHANGED <<vars, rowVars>> /\ cmd = "open"
  BY DEF Open
<1>2. ~replayed /\ seen = Len(got) /\ Begins(got) /\ \A i \in 1..Len(got) : got[i].type # "eval_complete"
  BY <1>1, ShownWhileFollowing DEF Following
<1>3. UNCHANGED <<log, meta, history, row, recent, deleter>> /\ RowInv'
  BY <1>1, RowStays DEF vars, tableVars, rowVars
<1>4. \A s : Begins(s)' = Begins(s)
  BY <1>3 DEF Begins
<1>5. CASE Replay
  <2>1. UNCHANGED <<reader, sawEnd, missed, lines, grace, settledLen>> /\ replayed' /\ cmd' = "fetch"
        /\ replayed' \in BOOLEAN
    BY <1>5 DEF Replay, Goto, readerVars
  <2>2. StreamInv'
    <3>1. Begins(lines)' /\ RowIsTerminal' = RowIsTerminal
      BY <1>3, <2>1 DEF Begins, RowIsTerminal, StreamInv
    <3> QED
      BY <1>3, <2>1, <3>1 DEF StreamInv, Readers, EndsWithComplete
  <2>3. Shown' = got
    <3>1. PICK status : HandOn(<<Synthetic(status)>>, 0)
      BY <1>5 DEF Replay
    <3>2. got \in Seq(Events) /\ seen \in Nat
      BY <1>2 DEF Begins
    <3>3. SubSeq(got', 1, Len(got') - 1) = got
      BY <3>1, <3>2, ReplayAddsOne
    <3> QED
      BY <2>1, <3>3 DEF Shown
  <2>4. Begins(Shown)'
    BY <1>2, <1>3, <2>3 DEF Begins
  <2> QED
    BY <1>3, <2>1, <2>2, <2>4 DEF ShownInv, Following
<1>6. CASE Stream
  <2>1. Connects(history = "table") /\ cmd' = "follow" /\ UNCHANGED <<seen, got, replayed>>
    BY <1>6 DEF Stream, Goto
  <2>2. StreamInv' /\ Len(lines') = 0
    BY <1>1, <1>3, <2>1, StartKeepsStream DEF RowInv
  <2>3. Begins(Shown)' /\ Len(got) \in Nat
    BY <1>2, <1>3, <2>1 DEF Begins, Shown
  <2> QED
    BY <1>2, <1>3, <2>1, <2>2, <2>3 DEF ShownInv, Following
<1>7. CASE Failed /\ UNCHANGED <<readerVars, seen, got, replayed>>
  BY <1>1, <1>7, AsideKeeps DEF Failed, Exit, Goto, Following
<1>8. CASE Exit(ExitFailed) /\ UNCHANGED <<readerVars, seen, got, failures, replayed>>
  BY <1>1, <1>8, AsideKeeps DEF Exit, Following
<1> QED
  BY <1>5, <1>6, <1>7, <1>8 DEF Open

\* What the command is sent, it hands on.
LEMMA FollowKeeps ==
    ASSUME StreamAssumption, Bases, RowInv, StreamInv, ShownInv, Follow
    PROVE  RowInv' /\ StreamInv' /\ ShownInv'
<1>1. /\ cmd = "follow" /\ ReaderStep /\ UNCHANGED <<vars, replayed>>
      /\ RowInv' /\ StreamInv' /\ Len(lines) <= Len(lines')
  BY PollKeepsStream DEF Follow, ReaderStep, ReadMeta, ReadEvents
<1>2. PICK entries : /\ entries = SubSeq(lines', Len(lines) + 1, Len(lines'))
                     /\ HandOn(entries, Len(lines))
                     /\ cmd' = IF EndsWithComplete(entries) THEN "fetch" ELSE "follow"
  BY DEF Follow, Goto
<1>3. /\ Begins(got)' /\ seen' = Len(got') /\ Len(lines') <= seen'
      /\ ~EndsWithComplete(entries) => \A i \in 1..Len(got') : got'[i].type # "eval_complete"
  BY <1>1, <1>2, HandsOnTheNext DEF StreamInv
<1>4. ~replayed' /\ replayed' \in BOOLEAN /\ Shown' = got'
  BY <1>1, ShownWhileFollowing DEF Following, ShownInv, Shown
<1>5. Begins(Shown)'
  BY <1>3, <1>4 DEF Begins
<1> QED
  BY <1>1, <1>2, <1>3, <1>4, <1>5 DEF ShownInv, Following

-----------------------------------------------------------------------------
(* The exit code *)

\* What a code says, it says of the status that was read; a terminal status that
\* was read is the worker's, or a DELETE's.
TrueOfRead ==
    /\ code \in {ExitOk, ExitGateFailed} /\ ~args.detach => read = "completed"
    /\ code = ExitGateFailed => args.gate
    /\ args.detach /\ code = ExitOk => ~args.gate
    /\ read # "none" /\ code = ExitCancelled => read = "cancelled"

CodeInv ==
    /\ read \in {"none", "running"} \cup TerminalStatus
    /\ read \in TerminalStatus => TrueOfTable(read)
    /\ cmd # "exited" => read = "none"
    /\ cmd \notin {"prepare", "exited"} => ~(args.detach /\ args.gate)
    /\ cmd = "exited" => TrueOfRead

\* The codes are different.
LEMMA CodesDiffer ==
    /\ ExitFailed \notin {ExitOk, ExitGateFailed, ExitCancelled}
    /\ ExitUsage \notin {ExitOk, ExitGateFailed, ExitCancelled}
    /\ ExitOk # ExitGateFailed /\ ExitOk # ExitCancelled /\ ExitGateFailed # ExitCancelled
  BY DEF ExitFailed, ExitUsage, ExitOk, ExitGateFailed, ExitCancelled

\* The code of an answer to the last request is that of the status it brought.
LEMMA FetchIsTrue ==
    ASSUME RowInv, CodeInv, Fetch
    PROVE  CodeInv'
<1>1. cmd = "fetch" /\ cmd' = "exited" /\ UNCHANGED <<args, log, deleter>> /\ read = "none"
  BY DEF Fetch, ServerWaits, Exit, CodeInv, vars, tableVars, rowVars
<1>4. \A s : TrueOfTable(s)' = TrueOfTable(s)
  BY <1>1 DEF TrueOfTable, ClosedAs, EndsWithComplete
<1>2. CASE read' = read /\ code' = ExitFailed
  BY <1>1, <1>2, <1>4, CodesDiffer DEF CodeInv, TrueOfRead
<1>3. ASSUME NEW status \in StatusRead, NEW met \in BOOLEAN,
             read' = status, code' = SettleCode(status, met)
      PROVE  CodeInv'
  <2>1. status \in {"running"} \cup TerminalStatus /\ status \in recent \cup {row}
    BY <1>3 DEF StatusRead, RowReads, RowInv
  <2>2. status \in TerminalStatus => TrueOfTable(status)'
    BY <1>4, <2>1 DEF RowInv
  <2>3. /\ ExitFor(status) = ExitOk => status = "completed"
        /\ ExitFor(status) = ExitCancelled => status = "cancelled"
        /\ ExitFor(status) \in {ExitOk, ExitCancelled, ExitFailed}
    BY CodesDiffer DEF ExitFor
  <2>4. \/ code' = ExitFor(status)
        \/ code' = ExitGateFailed /\ ExitFor(status) = ExitOk /\ args.gate
    BY <1>3 DEF SettleCode
  <2>5. ~(args.detach /\ args.gate)
    BY <1>1 DEF CodeInv
  <2>6. TrueOfRead'
    <3>1. CASE code' = ExitFor(status)
      BY <1>1, <1>3, <2>3, <2>5, <3>1, CodesDiffer DEF TrueOfRead
    <3>2. CASE code' = ExitGateFailed /\ ExitFor(status) = ExitOk /\ args.gate
      BY <1>1, <1>3, <2>3, <2>5, <3>2, CodesDiffer DEF TrueOfRead
    <3> QED
      BY <2>4, <3>1, <3>2
  <2> QED
    BY <1>1, <1>3, <2>1, <2>2, <2>6 DEF CodeInv
<1> QED
  BY <1>2, <1>3 DEF Fetch, Exit

\* The other steps of the command read nothing of the row.
LEMMA OthersAreTrue ==
    ASSUME CodeInv, Prepare \/ Submit \/ Interrupt \/ Cancelled \/ Break \/ StreamStops \/ Open \/ Follow
    PROVE  CodeInv'
<1>1. /\ UNCHANGED <<args, read, log, deleter>> /\ cmd # "exited"
      /\ cmd' # "exited" /\ cmd # "prepare" => cmd' # "prepare"
  <2>1. UNCHANGED <<args, read, log, deleter>> /\ cmd # "exited"
    BY DEF Prepare, Submit, Interrupt, Cancelled, Break, StreamStops, LoseStream, Open, Follow,
       StaysOnLine, ServerWaits, ReaderStep, ReadMeta, ReadEvents, vars, tableVars, rowVars
  <2>2. cmd' # "prepare"
    <3>1. CASE Open
      BY <3>1 DEF Open, Replay, Stream, Failed, Exit, Goto
    <3>2. CASE Follow
      BY <3>2 DEF Follow, Goto
    <3> QED
      BY <3>1, <3>2, AsideGoes
  <2> QED
    BY <2>1, <2>2
<1>2. cmd' \notin {"prepare", "exited"} => ~(args.detach /\ args.gate)
  <2>1. CASE cmd # "prepare"
    BY <1>1, <2>1 DEF CodeInv
  <2>2. CASE cmd = "prepare"
    <3>1. Prepare
      BY <2>2 DEF Submit, Interrupt, Cancelled, Break, StreamStops, Open, Follow
    <3> QED
      BY <3>1 DEF Prepare, GatingMisused, Exit
  <2> QED
    BY <2>1, <2>2
<1>3. cmd' = "exited" => TrueOfRead'
  <2>1. code' \in {ExitFailed, ExitUsage} => TrueOfRead'
    BY <1>1, CodesDiffer DEF TrueOfRead, CodeInv
  <2>2. code' = ExitCancelled => TrueOfRead'
    BY <1>1, CodesDiffer DEF TrueOfRead, CodeInv
  <2>3. code' = ExitOk /\ args.detach /\ ~args.gate => TrueOfRead'
    BY <1>1, CodesDiffer DEF TrueOfRead, CodeInv
  <2>4. CASE Prepare
    BY <2>1, <2>4 DEF Prepare, Exit, Goto
  <2>5. CASE Submit
    <3>1. Exit(ExitFailed) \/ (Exit(ExitOk) /\ args.detach) \/ Goto("open") \/ Goto("here")
      BY <2>5 DEF Submit
    <3>2. ~(args.detach /\ args.gate)
      BY <2>5 DEF Submit, CodeInv
    <3> QED
      BY <2>1, <2>3, <3>1, <3>2 DEF Exit, Goto
  <2>6. CASE Interrupt \/ Cancelled
    BY <2>2, <2>6 DEF Interrupt, Cancelled, Exit, Goto
  <2>7. CASE Break \/ StreamStops \/ Open
    BY <2>1, <2>7 DEF Break, StreamStops, LoseStream, Open, Replay, Stream, Failed, Exit, Goto
  <2>8. CASE Follow
    BY <2>8 DEF Follow, Goto
  <2> QED
    BY <2>4, <2>5, <2>6, <2>7, <2>8
<1>4. \A s : TrueOfTable(s)' = TrueOfTable(s)
  BY <1>1 DEF TrueOfTable, ClosedAs, EndsWithComplete
<1> QED
  BY <1>1, <1>2, <1>3, <1>4 DEF CodeInv

-----------------------------------------------------------------------------
(* The whole stack *)

StackInv == Bases /\ RowInv /\ StreamInv /\ ShownInv /\ CodeInv

LEMMA StackStart == ASSUME StreamAssumption, StackInit PROVE StackInv
<1>1. Init /\ log = <<>> /\ meta.status = "running"
  BY DEF StackInit, StreamInit, Init
<1>2. /\ lines = <<>> /\ got = <<>> /\ seen = 0 /\ reader = "closed" /\ sawEnd = FALSE
      /\ missed = FALSE /\ replayed = FALSE
      /\ grace = 2 /\ settledLen = 0 /\ cmd = "prepare" /\ read = "none"
      /\ history \in {"own", "table"} /\ row = "running" /\ recent = {"none", "running"}
      /\ deleter = "idle"
  BY DEF StackInit, StreamInit, TerminalGracePolls, StreamAssumption
<1>3. Begins(<<>>) /\ Len(<<>>) = 0 /\ Len(log) = 0
  BY <1>1 DEF Begins
<1>4. StreamInv
  <2>1. sawEnd \in BOOLEAN /\ ~sawEnd /\ missed \in BOOLEAN
    BY <1>2, Zenon
  <2>2. Begins(lines) /\ settledLen \in Nat /\ settledLen <= Len(log)
    BY <1>2, <1>3
  <2>3. reader \in Readers /\ reader = "closed" /\ grace \in {0, 1, 2}
    BY <1>2, SMT DEF Readers
  <2> QED
    BY <2>1, <2>2, <2>3 DEF StreamInv
<1>5. ShownInv
  <2>1. ~replayed /\ replayed \in BOOLEAN
    BY <1>2, Zenon
  <2> QED
    BY <1>2, <1>3, <2>1 DEF ShownInv, Shown
<1>6. CodeInv
  BY <1>2 DEF CodeInv, TerminalStatus
<1>7. RowInv
  BY <1>1, <1>2 DEF RowInv, TerminalStatus
<1> QED
  BY <1>1, <1>4, <1>5, <1>6, <1>7, BasesInit DEF StackInv

\* A step of the worker, or of a DELETE, beside the command.
LEMMA BesideKeeps ==
    ASSUME SettlingWorks, StackInv, Bases', [Next]_vars, RowInv',
           history' = history, history = "own" /\ RowIsTerminal => row' = row,
           deleter = "done" => deleter' = "done",
           UNCHANGED <<readerVars, cmdVars>>
    PROVE  StackInv'
<1>1. UNCHANGED <<cmd, args, seen, got, replayed, read, code, lines>>
  BY DEF cmdVars, readerVars
<1>2. StreamInv'
  BY OthersKeepStream DEF StackInv
<1>3. /\ Len(log) \in Nat /\ Len(log') \in Nat /\ Len(log) <= Len(log')
      /\ \A i \in 1..Len(log) : log'[i] = log[i]
      /\ LogIsClosed => log' = log
  BY TableGrows DEF StackInv, Bases, CauseInv, RowTypes
<1>4. ShownInv'
  <2>1. Shown' = Shown
    BY <1>1 DEF Shown
  <2>2. Begins(Shown)'
    BY <1>3, <2>1 DEF StackInv, ShownInv, Begins
  <2> QED
    BY <1>1, <2>2 DEF StackInv, ShownInv
<1>5. CodeInv'
  <2>1. read \in TerminalStatus => TrueOfTable(read)'
    BY <1>1, <1>3 DEF StackInv, CodeInv, TrueOfTable, ClosedAs, LogIsClosed, EndsWithComplete
  <2>2. TrueOfRead' = TrueOfRead
    BY <1>1 DEF TrueOfRead
  <2> QED
    BY <1>1, <2>1, <2>2 DEF StackInv, CodeInv
<1> QED
  BY <1>2, <1>4, <1>5 DEF StackInv

LEMMA StackStep ==
    ASSUME StreamAssumption, SettlingWorks, StackInv, [StackNext]_stackVars
    PROVE  StackInv'
<1>1. [Next]_vars
  <2>1. CASE WorkerGoesOn
    BY <2>1 DEF WorkerGoesOn, WorkerRuns, Next
  <2>2. CASE Open \/ Follow
    BY <2>2 DEF Open, Follow, ReaderStep, ReadMeta, ReadEvents
  <2>3. CASE UNCHANGED stackVars
    BY <2>3 DEF stackVars, allVars
  <2>4. CASE RowIsDeleted
    BY <2>4 DEF RowIsDeleted, DeleteStep, DeleteCheck, DeletePut
  <2> QED
    BY <2>1, <2>2, <2>3, <2>4, AsideGoes DEF StackNext, CommandStep
<1>2. Bases /\ Bases'
  BY <1>1, BasesStep DEF StackInv
<1>3. CASE Prepare \/ Submit \/ Fetch \/ Interrupt \/ Cancelled \/ Break \/ StreamStops
  <2>1. RowInv' /\ StreamInv' /\ ShownInv'
    BY <1>3, AsideGoes, AsideKeeps DEF StackInv
  <2>2. CodeInv'
    BY <1>3, FetchIsTrue, OthersAreTrue DEF StackInv
  <2> QED
    BY <1>2, <2>1, <2>2 DEF StackInv
<1>4. CASE Open
  BY <1>2, <1>4, OpenKeeps, OthersAreTrue DEF StackInv
<1>5. CASE Follow
  BY <1>2, <1>5, FollowKeeps, OthersAreTrue DEF StackInv
<1>6. CASE WorkerGoesOn
  <2>1. RowFollows /\ UNCHANGED <<history, deleter, readerVars, cmdVars>>
    BY <1>6 DEF WorkerGoesOn, WorkerRuns, Beside
  <2>2. RowInv' /\ (history = "own" /\ RowIsTerminal => row' = row)
    BY <1>1, <1>2, <2>1, WorkerKeepsRow DEF StackInv
  <2> QED
    BY <1>1, <1>2, <2>1, <2>2, BesideKeeps
<1>7. CASE RowIsDeleted
  <2>1. DeleteStep /\ UNCHANGED <<history, readerVars, cmdVars>>
    BY <1>7 DEF RowIsDeleted, DeleteStep, DeleteCheck, DeletePut
  <2>2. RowInv'
    BY <2>1, DeleteKeepsRow DEF StackInv
  <2>3. history = "table" /\ (deleter = "done" => deleter' = "done")
    BY <2>1 DEF DeleteStep, DeleteCheck, DeletePut, NoDelete, StackInv, RowInv
  <2> QED
    BY <1>1, <1>2, <2>1, <2>2, <2>3, BesideKeeps
<1>8. CASE UNCHANGED stackVars
  <2>1. UNCHANGED <<log, meta, history, row, recent, deleter, readerVars, cmdVars>>
    BY <1>8 DEF stackVars, allVars, vars, tableVars, rowVars
  <2>2. RowInv'
    BY <2>1, RowStays DEF StackInv
  <2> QED
    BY <1>1, <1>2, <2>1, <2>2, BesideKeeps
<1> QED
  BY <1>3, <1>4, <1>5, <1>6, <1>7, <1>8 DEF StackNext, CommandStep

LEMMA StackAlways ==
    ASSUME SettlingWorks
    PROVE  StackSpec => []StackInv
<1>1. StackInv /\ [StackNext]_stackVars => StackInv'
  BY StackStep, StreamAssumption
<1>2. StackInit => StackInv
  BY StackStart, StreamAssumption
<1> QED
  BY <1>1, <1>2, PTL DEF StackSpec

\* A dropped connection is not a failed evaluation: whatever breaks, wherever the
\* server keeps its history and however far behind its reads are, what the command
\* has shown is the log from its start, every line once and in order, but for the
\* one synthetic line of a stream that was replayed from the row.
THEOREM CommandsSeeTheLog ==
    ASSUME SettlingWorks
    PROVE  StackSpec => []CommandSeesTheLog
<1>1. StackInv => CommandSeesTheLog
  <2> SUFFICES ASSUME StackInv PROVE CommandSeesTheLog
    OBVIOUS
  <2> DEFINE start == SubSeq(log, 1, Len(Shown))
  <2>1. /\ Shown \in Seq(Events) /\ Len(Shown) <= Len(log) /\ Len(Shown) \in Nat
        /\ log \in Seq(Events)
        /\ \A i \in 1..Len(Shown) : Shown[i] = log[i]
    BY TableFacts DEF StackInv, ShownInv, Begins
  <2>2. start \in Seq(Events) /\ Len(start) = Len(Shown) /\ \A i \in 1..Len(Shown) : start[i] = log[i]
    BY <2>1
  <2>3. start = Shown
    <3> HIDE DEF start
    <3> QED
      BY <2>1, <2>2
  <2> QED
    BY <2>1, <2>3 DEF CommandSeesTheLog, Shown
<1> QED
  BY <1>1, StackAlways, PTL

\* The stream of a server that reaches stream_events never stops short as long as
\* no read of it misses the row: it ends on the worker's eval_complete, and the
\* row, once it is terminal, has the status of that line.
THEOREM StreamsEndOnComplete ==
    ASSUME SettlingWorks
    PROVE  StackSpec => []StreamEndsOnComplete
<1>1. StackInv => StreamEndsOnComplete
  <2> SUFFICES ASSUME StackInv, reader = "ended", ~missed
               PROVE  /\ EndsWithComplete(lines)
                      /\ RowIsTerminal => lines[Len(lines)].status = row
    BY DEF StreamEndsOnComplete
  <2>1. EndsWithComplete(lines) /\ Begins(lines) /\ row = meta.status
    BY DEF StackInv, StreamInv, RowInv
  <2>2. Len(lines) \in 1..Len(log) /\ lines[Len(lines)] = log[Len(lines)]
    <3>1. Len(lines) \in Nat /\ Len(lines) # 0 /\ Len(log) \in Nat
      BY <2>1, TableFacts DEF EndsWithComplete, Begins, StackInv
    <3> QED
      BY <2>1, <3>1 DEF Begins
  <2>3. Len(lines) = Len(log)
    BY <2>1, <2>2, TableFacts DEF EndsWithComplete, StackInv
  <2>4. RowIsTerminal => log[Len(log)].status = row
    BY <2>1, TableFacts DEF StackInv, RowIsTerminal, WorkerSettled, ClosedAs
  <2> QED
    BY <2>1, <2>2, <2>3, <2>4
<1> QED
  BY <1>1, StackAlways, PTL

\* An exit code that speaks of the evaluation is true, wherever the server keeps its
\* history, whoever else deletes the evaluation and however old what it reads: 0 and
\* 3 of one the worker has closed as completed, 130 without a Ctrl-C of one it has
\* closed as cancelled or a DELETE has settled, and a bar that was asked for is
\* judged before a 0.
THEOREM CodesAreTrue ==
    ASSUME SettlingWorks
    PROVE  StackSpec => []CodeIsTrue
<1>1. StackInv => CodeIsTrue
  BY DEF StackInv, CodeInv, TrueOfRead, TrueOfTable, CodeIsTrue, TerminalStatus
<1> QED
  BY <1>1, StackAlways, PTL
=============================================================================
