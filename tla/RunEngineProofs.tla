--------------------------- MODULE RunEngineProofs ---------------------------
(***************************************************************************)
(* The history and the saved MCP servers under the run engine, for any     *)
(* runs, evaluations, tools, pages, backends, writers and scenes: what is  *)
(* final in the table stays, a walk through a listing shows what it owes   *)
(* once, the row of a run that is over tells what its consumer heard and   *)
(* lists no tool twice, and a server that no failed call left in doubt is  *)
(* one definition.                                                         *)
(***************************************************************************)
EXTENDS RunEngine, DataLemmas, SequenceTheorems, FiniteSetTheorems, TLAPS

-----------------------------------------------------------------------------
(* What is final in the history. *)

\* where a run has no row yet, and where its row is not final yet
Unmade == {"idle", "secret", "resolved", "refused"}
Unfinal == {"start", "agent", "event", "tool", "persist"}

\* Every kind of run is a record of the same fields, with an outcome in mind.
Shapes ==
    /\ DOMAIN rows = Ids /\ DOMAIN inFlight = Ids /\ DOMAIN past = Ids /\ DOMAIN run = NewRuns
    /\ \A r \in NewRuns : DOMAIN run[r] = DOMAIN IdleRun /\ run[r].status \in Terminal

\* A run in progress has a running row or, deleted, none, and it has had no other ...
RunRows ==
    \A r \in NewRuns :
        /\ run[r].pc \in Unmade => rows[r] = Absent /\ past[r] = {}
        /\ run[r].pc \in Unfinal =>
              /\ rows[r] = Absent \/ rows[r].status = "running"
              /\ \A version \in past[r] : version.status = "running"

\* ... the only update of a run is its engine's last, on DynamoDB in two halves ...
RunUpdates ==
    /\ \A r \in NewRuns : inFlight[r] # Absent => run[r].pc = "persist"
    /\ \A r \in RunIds \ NewRuns : inFlight[r] = Absent
    /\ backend = "sqlite" => \A i \in Ids : inFlight[i] = Absent

\* ... and nothing is in a position to bring a deleted row back.
GoneRows ==
    /\ gone \subseteq RunIds
    /\ \A i \in gone : rows[i] = Absent /\ inFlight[i] = Absent
    /\ \A i \in gone \cap NewRuns :
          run[i].pc \notin Unmade /\ (backend = "dynamo" => run[i].pc \notin Unfinal)

HistoryInv == Shapes /\ RunRows /\ RunUpdates /\ GoneRows

\* Nothing is rewritten before anything is written.
LEMMA HistoryInitInv == Init => HistoryInv
<1> SUFFICES ASSUME Init PROVE HistoryInv
  OBVIOUS
<1>1. /\ DOMAIN rows = Ids /\ inFlight = [i \in Ids |-> Absent] /\ gone = {}
      /\ past = [i \in Ids |-> {}] /\ run = [r \in NewRuns |-> IdleRun]
  BY DEF Init
<1>2. \A r \in NewRuns : rows[r] = Absent /\ r \in Ids
  BY EngineAssumption DEF Init, Scene, Ids
<1>3. IdleRun.pc = "idle" /\ IdleRun.status = "completed"
  BY DEF IdleRun
<1>4. Shapes /\ RunRows
  BY <1>1, <1>2, <1>3 DEF Shapes, RunRows, Unmade, Unfinal, Terminal
<1>5. RunUpdates
  BY <1>1, <1>2 DEF RunUpdates, Ids
<1>6. GoneRows
  BY <1>1 DEF GoneRows
<1> QED
  BY <1>4, <1>5, <1>6 DEF HistoryInv

\* A run's terminal row is left alone or deleted.
Final == \A i \in RunIds : rows[i] # Absent /\ rows[i].status \in Terminal
                            => rows'[i] \in {rows[i], Absent}

\* No run goes back to where it has no row.
Onward == \A q \in NewRuns : run'[q].pc \in Unmade => run[q].pc \in Unmade

Lasting == Final /\ Onward

\* A run moves on without the table: whether it has a row, and a final one,
\* does not change.
Moves(r, x) ==
    /\ UNCHANGED storeVars
    /\ run' = [run EXCEPT ![r] = x]
    /\ DOMAIN x = DOMAIN IdleRun /\ x.status \in Terminal
    /\ x.pc \in Unmade => run[r].pc \in Unmade
    /\ x.pc \in Unfinal => run[r].pc \in Unfinal
    /\ run[r].pc = "persist" => inFlight[r] = Absent

LEMMA MovesKeep ==
    ASSUME HistoryInv, NEW r \in NewRuns, NEW x, Moves(r, x)
    PROVE  HistoryInv' /\ Lasting
<1> USE DEF Moves
<1>1. \A q \in NewRuns : run'[q] = IF q = r THEN x ELSE run[q]
  BY DEF HistoryInv, Shapes
<1>2. DOMAIN run' = NewRuns
  BY DEF HistoryInv, Shapes
<1>3. Shapes' /\ RunRows'
  BY <1>1, <1>2 DEF HistoryInv, Shapes, RunRows, storeVars
<1>4. RunUpdates' /\ GoneRows'
  BY <1>1 DEF HistoryInv, RunUpdates, GoneRows, storeVars
<1> QED
  BY <1>1, <1>3, <1>4 DEF HistoryInv, Lasting, Final, Onward, storeVars

\* What the generator goes on to once it has drained the finished tools.
LEMMA Drains ==
    ASSUME NEW x, DOMAIN x = DOMAIN IdleRun, x.status \in Terminal
    PROVE  /\ DOMAIN Drain(x) = DOMAIN IdleRun /\ Drain(x).status \in Terminal
           /\ Drain(x).pc \in {"tool", "persist", "agent"}
<1>1. DOMAIN x = {"pc", "server", "raws", "final", "finished", "pending", "drained", "body",
                  "status", "left", "heard"}
  BY DEF IdleRun
<1>2. CASE x.pending # <<>>
  BY <1>1, <1>2 DEF Drain, YieldTool
<1>3. CASE x.pending = <<>>
  BY <1>1, <1>3 DEF Drain
<1> QED
  BY <1>2, <1>3

\* The fields of a run.
LEMMA RunFields ==
    DOMAIN IdleRun = {"pc", "server", "raws", "final", "finished", "pending", "drained", "body",
                      "status", "left", "heard"}
  BY DEF IdleRun

\* A run before its row, and its generator between two writes.
LEMMA RunsKeep ==
    ASSUME HistoryInv, NEW r \in NewRuns,
           \/ Refuse(r) \/ ResolveItem(r) \/ ResolveSecret(r) \/ LeaveAtStart(r) \/ Begin(r)
           \/ \E t \in Tools : ToolFinishes(r, t)
           \/ \E raw \in Raws : RawEvent(r, raw)
           \/ AfterEvent(r) \/ NextTool(r) \/ StreamEnds(r) \/ Fail(r) \/ Cancel(r)
           \/ PersistMissing(r) \/ AfterError(r) \/ Finish(r)
    PROVE  HistoryInv' /\ Lasting
<1> USE RunFields
<1>1. DOMAIN run[r] = DOMAIN IdleRun /\ run[r].status \in Terminal
  BY DEF HistoryInv, Shapes
<1>2. CASE Refuse(r)
  <2> DEFINE x == [run[r] EXCEPT !.pc = "refused"]
  <2>1. /\ DOMAIN x = DOMAIN IdleRun /\ x.status \in Terminal
        /\ x.pc = "refused"
    BY <1>1
  <2>2. /\ run' = [run EXCEPT ![r] = x] /\ UNCHANGED storeVars
        /\ run[r].pc \in Unmade
    BY <1>2 DEF Refuse, Become, Stay, Unmade
  <2> HIDE DEF x
  <2>3. Moves(r, x)
    BY <2>1, <2>2 DEF Moves, Unmade, Unfinal
  <2> QED
    BY <2>3, MovesKeep
<1>3. ASSUME NEW read \in Read, run[r].pc = "idle", UNCHANGED storeVars,
             run' = [run EXCEPT ![r] = [run[r] EXCEPT !.pc = "secret", !.server = read]]
      PROVE  HistoryInv' /\ Lasting
  <2> DEFINE x == [run[r] EXCEPT !.pc = "secret", !.server = read]
  <2>1. /\ DOMAIN x = DOMAIN IdleRun /\ x.status \in Terminal
        /\ x.pc = "secret"
    BY <1>1
  <2>2. Moves(r, x)
    <3> HIDE DEF x
    <3> QED
      BY <2>1, <1>3 DEF Moves, Unmade, Unfinal, x
  <2> QED
    BY <2>2, MovesKeep
<1>4. CASE ResolveSecret(r)
  <2> DEFINE x == [run[r] EXCEPT !.pc = "resolved",
                                !.server = [url |-> @.url, headers |-> SavedHeaders(run[r].server)]]
  <2>1. /\ DOMAIN x = DOMAIN IdleRun /\ x.status \in Terminal
        /\ x.pc = "resolved"
    BY <1>1
  <2>2. /\ run' = [run EXCEPT ![r] = x] /\ UNCHANGED storeVars
        /\ run[r].pc = "secret"
    BY <1>4 DEF ResolveSecret, Become, Stay
  <2> HIDE DEF x
  <2>3. Moves(r, x)
    BY <2>1, <2>2 DEF Moves, Unmade, Unfinal
  <2> QED
    BY <2>3, MovesKeep
<1>5. CASE LeaveAtStart(r)
  <2> DEFINE x == [run[r] EXCEPT !.pc = "ended", !.left = "start"]
  <2>1. /\ DOMAIN x = DOMAIN IdleRun /\ x.status \in Terminal
        /\ x.pc = "ended"
    BY <1>1
  <2>2. /\ run' = [run EXCEPT ![r] = x] /\ UNCHANGED storeVars
        /\ run[r].pc = "start"
    BY <1>5 DEF LeaveAtStart, Become, Stay
  <2> HIDE DEF x
  <2>3. Moves(r, x)
    BY <2>1, <2>2 DEF Moves, Unmade, Unfinal
  <2> QED
    BY <2>3, MovesKeep
<1>6. CASE Begin(r)
  <2> DEFINE x == [run[r] EXCEPT !.pc = "agent"]
  <2>1. /\ DOMAIN x = DOMAIN IdleRun /\ x.status \in Terminal
        /\ x.pc = "agent"
    BY <1>1
  <2>2. /\ run' = [run EXCEPT ![r] = x] /\ UNCHANGED storeVars
        /\ run[r].pc = "start"
    BY <1>6 DEF Begin, Become, Stay
  <2> HIDE DEF x
  <2>3. Moves(r, x)
    BY <2>1, <2>2 DEF Moves, Unmade, Unfinal
  <2> QED
    BY <2>3, MovesKeep
<1>7. ASSUME NEW t \in Tools, ToolFinishes(r, t) PROVE HistoryInv' /\ Lasting
  <2> DEFINE x == [run[r] EXCEPT !.pending = Append(@, t), !.finished = @ \cup {t}]
  <2>1. DOMAIN x = DOMAIN run[r] /\ x.pc = run[r].pc /\ x.status = run[r].status
    BY <1>1
  <2>2. UNCHANGED storeVars /\ run' = [run EXCEPT ![r] = x] /\ run[r].pc # "persist"
    BY <1>7 DEF ToolFinishes, Become, Stay
  <2> HIDE DEF x
  <2>3. Moves(r, x)
    BY <1>1, <2>1, <2>2 DEF Moves
  <2> QED
    BY <2>3, MovesKeep
<1>8. ASSUME NEW raw \in Raws, RawEvent(r, raw) PROVE HistoryInv' /\ Lasting
  <2> DEFINE event == EventOf(raw)
             y == [run[r] EXCEPT !.raws = @ + 1]
             z == [y EXCEPT !.pc = "event", !.body = Accumulate(@, event), !.heard = Hear(@, event)]
  <2>1. UNCHANGED storeVars /\ run[r].pc = "agent"
    BY <1>8 DEF RawEvent, Stay
  <2>2. run' = [run EXCEPT ![r] = IF event = "none" THEN Drain(y) ELSE z]
    BY <1>8 DEF RawEvent, Become
  <2>3. DOMAIN y = DOMAIN IdleRun /\ y.status \in Terminal
    BY <1>1
  <2> HIDE DEF event, y
  <2>4. DOMAIN z = DOMAIN IdleRun /\ z.status \in Terminal /\ z.pc = "event"
    BY <2>3
  <2> HIDE DEF z
  <2>5. CASE event = "none"
    <3>1. Moves(r, Drain(y))
      BY <2>1, <2>2, <2>3, <2>5, Drains DEF Moves, Unmade, Unfinal
    <3> QED
      BY <3>1, MovesKeep
  <2>6. CASE event # "none"
    <3>1. Moves(r, z)
      BY <2>1, <2>2, <2>4, <2>6 DEF Moves, Unmade, Unfinal
    <3> QED
      BY <3>1, MovesKeep
  <2> QED
    BY <2>5, <2>6
<1>9. CASE AfterEvent(r)
  <2>1. UNCHANGED storeVars /\ run[r].pc = "event" /\ run' = [run EXCEPT ![r] = Drain(run[r])]
    BY <1>9 DEF AfterEvent, Become, Stay
  <2>2. Moves(r, Drain(run[r]))
    BY <1>1, <2>1, Drains DEF Moves, Unmade, Unfinal
  <2> QED
    BY <2>2, MovesKeep
<1>10. CASE NextTool(r)
  <2> DEFINE y == YieldTool(run[r], run[r].drained)
             z == [run[r] EXCEPT !.pc = IF run[r].final THEN "persist" ELSE "agent"]
  <2>1. DOMAIN y = DOMAIN IdleRun /\ y.status \in Terminal /\ y.pc = "tool"
    BY <1>1 DEF YieldTool
  <2>2. DOMAIN z = DOMAIN IdleRun /\ z.status \in Terminal /\ z.pc \in {"persist", "agent"}
    BY <1>1
  <2>3. /\ UNCHANGED storeVars /\ run[r].pc = "tool"
        /\ run' = [run EXCEPT ![r] = IF run[r].drained # <<>> THEN y ELSE z]
    BY <1>10 DEF NextTool, Become, Stay
  <2> HIDE DEF y, z
  <2>4. Moves(r, y) \/ Moves(r, z)
    BY <2>1, <2>2, <2>3 DEF Moves, Unmade, Unfinal
  <2> QED
    BY <2>4, MovesKeep
<1>11. CASE StreamEnds(r)
  <2> DEFINE y == [run[r] EXCEPT !.final = TRUE]
  <2>1. DOMAIN y = DOMAIN IdleRun /\ y.status \in Terminal
    BY <1>1
  <2>2. UNCHANGED storeVars /\ run' = [run EXCEPT ![r] = Drain(y)] /\ run[r].pc = "agent"
    BY <1>11 DEF StreamEnds, Become, Stay
  <2> HIDE DEF y
  <2>3. Moves(r, Drain(y))
    BY <2>1, <2>2, Drains DEF Moves, Unmade, Unfinal
  <2> QED
    BY <2>3, MovesKeep
<1>12. CASE Fail(r)
  <2> DEFINE x == [run[r] EXCEPT !.pc = "persist", !.status = "error", !.pending = <<>>,
                                !.body.error = TRUE, !.body.tools = @ \o run[r].pending]
  <2>1. /\ DOMAIN x = DOMAIN IdleRun /\ x.status \in Terminal
        /\ x.pc = "persist"
    BY <1>1 DEF Terminal
  <2>2. /\ run' = [run EXCEPT ![r] = x] /\ UNCHANGED storeVars
        /\ run[r].pc = "agent"
    BY <1>12 DEF Fail, Become, Stay
  <2> HIDE DEF x
  <2>3. Moves(r, x)
    BY <2>1, <2>2 DEF Moves, Unmade, Unfinal
  <2> QED
    BY <2>3, MovesKeep
<1>13. CASE Cancel(r)
  <2> DEFINE x == [run[r] EXCEPT !.pc = "persist", !.status = "cancelled", !.left = "body",
                                !.pending = <<>>, !.body.tools = @ \o run[r].pending]
  <2>1. /\ DOMAIN x = DOMAIN IdleRun /\ x.status \in Terminal
        /\ x.pc = "persist"
    BY <1>1 DEF Terminal
  <2>2. /\ run' = [run EXCEPT ![r] = x] /\ UNCHANGED storeVars
        /\ run[r].pc \in {"agent", "event", "tool"}
    BY <1>13 DEF Cancel, Become, Stay
  <2> HIDE DEF x
  <2>3. Moves(r, x)
    BY <2>1, <2>2 DEF Moves, Unmade, Unfinal
  <2> QED
    BY <2>3, MovesKeep
<1>14. CASE PersistMissing(r)
  <2> DEFINE x == [run[r] EXCEPT !.pc = "broken"]
  <2>1. /\ DOMAIN x = DOMAIN IdleRun /\ x.status \in Terminal
        /\ x.pc = "broken"
    BY <1>1
  <2>2. /\ run' = [run EXCEPT ![r] = x] /\ UNCHANGED storeVars
        /\ run[r].pc = "persist" /\ inFlight[r] = Absent
    BY <1>14 DEF PersistMissing, UpdateMissing, Become
  <2> HIDE DEF x
  <2>3. Moves(r, x)
    BY <2>1, <2>2 DEF Moves, Unmade, Unfinal
  <2> QED
    BY <2>3, MovesKeep
<1>15. CASE AfterError(r)
  <2> DEFINE x == [run[r] EXCEPT !.pc = "complete", !.heard.end = "complete"]
  <2>1. /\ DOMAIN x = DOMAIN IdleRun /\ x.status \in Terminal
        /\ x.pc = "complete"
    BY <1>1
  <2>2. /\ run' = [run EXCEPT ![r] = x] /\ UNCHANGED storeVars
        /\ run[r].pc = "error"
    BY <1>15 DEF AfterError, Become, Stay
  <2> HIDE DEF x
  <2>3. Moves(r, x)
    BY <2>1, <2>2 DEF Moves, Unmade, Unfinal
  <2> QED
    BY <2>3, MovesKeep
<1>16. CASE Finish(r)
  <2> DEFINE x == [run[r] EXCEPT !.pc = "ended"]
  <2>1. /\ DOMAIN x = DOMAIN IdleRun /\ x.status \in Terminal
        /\ x.pc = "ended"
    BY <1>1
  <2>2. /\ run' = [run EXCEPT ![r] = x] /\ UNCHANGED storeVars
        /\ run[r].pc \in {"error", "complete"}
    BY <1>16 DEF Finish, Become, Stay
  <2> HIDE DEF x
  <2>3. Moves(r, x)
    BY <2>1, <2>2 DEF Moves, Unmade, Unfinal
  <2> QED
    BY <2>3, MovesKeep
<1>17. CASE ResolveItem(r)
  BY <1>3, <1>17 DEF ResolveItem, Become, Stay
<1> QED
  BY <1>2, <1>4, <1>5, <1>6, <1>7, <1>8, <1>9, <1>10, <1>11, <1>12, <1>13, <1>14, <1>15, <1>16, <1>17

\* What is remembered of a row when another takes its place.
LEMMA PastGrows ==
    ASSUME DOMAIN past = Ids, NEW i \in Ids, NEW row, SetRow(i, row)
    PROVE  /\ DOMAIN past' = Ids
           /\ \A j \in Ids : j # i => past'[j] = past[j]
           /\ past'[i] \subseteq past[i] \cup {rows[i]}
           /\ rows[i] = Absent => past' = past
  BY DEF SetRow

\* A run is made where no row was.
LEMMA CreateKeeps ==
    ASSUME HistoryInv, NEW r \in NewRuns, NEW ts \in Times, CreateRun(r, ts)
    PROVE  HistoryInv' /\ Lasting
<1> DEFINE x == [run[r] EXCEPT !.pc = "start"]
           row == NewRow(ts, "running", EmptyBody)
<1>1. /\ rows[r] = Absent /\ rows' = [rows EXCEPT ![r] = row]
      /\ UNCHANGED <<backend, inFlight, past, gone>>
      /\ run[r].pc \in {"idle", "resolved"} /\ run' = [run EXCEPT ![r] = x]
  BY DEF CreateRun, InsertRow, PutRow, SetRow, Become
<1>2. /\ DOMAIN x = DOMAIN IdleRun /\ x.status \in Terminal /\ x.pc = "start"
      /\ row.status = "running" /\ r \in Ids
  BY RunFields, EngineAssumption DEF HistoryInv, Shapes, NewRow, Ids
<1> HIDE DEF x, row
<1>3. /\ \A i \in Ids : rows'[i] = IF i = r THEN row ELSE rows[i]
      /\ \A q \in NewRuns : run'[q] = IF q = r THEN x ELSE run[q]
      /\ DOMAIN rows' = Ids /\ DOMAIN run' = NewRuns
  BY <1>1 DEF HistoryInv, Shapes
<1>4. NewRuns \subseteq Ids /\ r \notin EvalIds /\ EvalIds \subseteq Ids /\ RunIds \subseteq Ids
  BY EngineAssumption, HistoryAssumption DEF Ids
<1>5. Shapes' /\ RunRows'
  BY <1>1, <1>2, <1>3, <1>4 DEF HistoryInv, Shapes, RunRows, Unmade, Unfinal
<1>6. RunUpdates'
  BY <1>1, <1>3, <1>4 DEF HistoryInv, RunUpdates, Unmade
<1>7. GoneRows'
  <2>1. r \notin gone
    BY <1>1 DEF HistoryInv, GoneRows, Unmade
  <2> QED
    BY <1>1, <1>3, <1>4, <2>1 DEF HistoryInv, GoneRows
<1>8. Final /\ Onward
  BY <1>1, <1>2, <1>3, <1>4 DEF Final, Onward, Unmade
<1> QED
  BY <1>5, <1>6, <1>7, <1>8 DEF HistoryInv, Lasting

\* A run settles the row it has: on DynamoDB, the one it has read.
LEMMA PersistKeeps ==
    ASSUME HistoryInv, NEW r \in NewRuns, Persist(r)
    PROVE  HistoryInv' /\ Lasting
<1> DEFINE x == Persisted(run[r])
<1>1. /\ DOMAIN run[r] = DOMAIN IdleRun /\ run[r].status \in Terminal
      /\ run[r].pc = "persist" /\ run' = [run EXCEPT ![r] = x]
  BY DEF HistoryInv, Shapes, Persist, Become
<1>2. DOMAIN x = DOMAIN IdleRun /\ x.status \in Terminal /\ x.pc \in {"ended", "error", "complete"}
  BY <1>1, RunFields DEF Persisted, Terminal
<1> HIDE DEF x
<1>3. PICK row :
        /\ rows' = [rows EXCEPT ![r] = row] /\ UNCHANGED <<backend, gone>>
        /\ \/ rows[r] # Absent /\ UNCHANGED inFlight /\ backend = "sqlite"
           \/ inFlight[r] # Absent /\ inFlight' = [inFlight EXCEPT ![r] = Absent]
  <2> DEFINE a == Assigned(rows[r], run[r].status, run[r].body)
             b == Assigned(inFlight[r], run[r].status, run[r].body)
  <2>1. CASE UpdateSqlite(r, run[r].status, run[r].body)
    <3>1. /\ rows' = [rows EXCEPT ![r] = a] /\ UNCHANGED <<backend, gone>>
          /\ rows[r] # Absent /\ UNCHANGED inFlight /\ backend = "sqlite"
      BY <2>1 DEF UpdateSqlite, SetRow
    <3> HIDE DEF a
    <3> QED
      BY <3>1
  <2>2. CASE UpdatePut(r, run[r].status, run[r].body)
    <3>1. /\ rows' = [rows EXCEPT ![r] = b] /\ UNCHANGED <<backend, gone>>
          /\ inFlight[r] # Absent /\ inFlight' = [inFlight EXCEPT ![r] = Absent]
      BY <2>2 DEF UpdatePut, SetRow
    <3> HIDE DEF b
    <3> QED
      BY <3>1
  <2> QED
    BY <2>1, <2>2 DEF Persist
<1>4. /\ NewRuns \subseteq Ids /\ r \notin EvalIds /\ EvalIds \subseteq Ids /\ RunIds \subseteq Ids
      /\ r \in RunIds
  BY EngineAssumption, HistoryAssumption DEF Ids
<1>12. \A i \in Ids : i # r => past'[i] = past[i]
  BY <1>4, PastGrows DEF Persist, UpdateSqlite, UpdatePut, HistoryInv, Shapes
<1>5. /\ \A i \in Ids : rows'[i] = IF i = r THEN row ELSE rows[i]
      /\ \A q \in NewRuns : run'[q] = IF q = r THEN x ELSE run[q]
      /\ \A i \in Ids : inFlight'[i] = IF i = r THEN Absent ELSE inFlight[i]
      /\ DOMAIN rows' = Ids /\ DOMAIN run' = NewRuns /\ DOMAIN inFlight' = Ids
  <2>1. DOMAIN rows = Ids /\ DOMAIN inFlight = Ids /\ DOMAIN run = NewRuns
    BY DEF HistoryInv, Shapes
  <2>2. \A q \in NewRuns : run'[q] = IF q = r THEN x ELSE run[q]
    BY <1>1, <2>1
  <2>3. \A i \in Ids : rows'[i] = IF i = r THEN row ELSE rows[i]
    BY <1>3, <2>1
  <2>4. \A i \in Ids : inFlight'[i] = IF i = r THEN Absent ELSE inFlight[i]
    <3>1. CASE UNCHANGED inFlight /\ backend = "sqlite"
      BY <1>4, <3>1 DEF HistoryInv, RunUpdates
    <3>2. CASE inFlight' = [inFlight EXCEPT ![r] = Absent]
      BY <2>1, <3>2
    <3> QED
      BY <1>3, <3>1, <3>2
  <2> QED
    BY <1>1, <1>3, <2>1, <2>2, <2>3, <2>4
<1>6. Shapes'
  <2>1. DOMAIN past' = Ids
    BY <1>4, PastGrows DEF Persist, UpdateSqlite, UpdatePut, HistoryInv, Shapes
  <2> QED
    BY <1>2, <1>5, <2>1 DEF HistoryInv, Shapes
<1>7. RunRows'
  BY <1>2, <1>4, <1>5, <1>12 DEF HistoryInv, RunRows, Unmade, Unfinal
<1>8. RunUpdates'
  BY <1>3, <1>4, <1>5 DEF HistoryInv, RunUpdates
<1>9. GoneRows'
  <2>1. r \notin gone
    BY <1>3 DEF HistoryInv, GoneRows
  <2> QED
    BY <1>3, <1>4, <1>5, <2>1 DEF HistoryInv, GoneRows
<1>10. Final
  <2>1. rows[r] = Absent \/ rows[r].status \notin Terminal
    BY <1>1 DEF HistoryInv, RunRows, Unfinal, Terminal
  <2> QED
    BY <1>4, <1>5, <2>1 DEF Final
<1>11. Onward
  BY <1>2, <1>5 DEF Onward, Unmade
<1> QED
  BY <1>6, <1>7, <1>8, <1>9, <1>10, <1>11 DEF HistoryInv, Lasting

\* What a run reads to update is its running row.
LEMMA PersistReadKeeps ==
    ASSUME HistoryInv, NEW r \in NewRuns, PersistRead(r)
    PROVE  HistoryInv' /\ Lasting
<1>1. /\ run[r].pc = "persist" /\ backend = "dynamo"
      /\ UNCHANGED <<backend, rows, past, gone, run>>
  BY DEF PersistRead, UpdateRead, Beside
<1>2. NewRuns \subseteq Ids /\ r \notin EvalIds /\ EvalIds \subseteq Ids /\ RunIds \subseteq Ids
  BY EngineAssumption, HistoryAssumption DEF Ids
<1>3. /\ DOMAIN inFlight' = Ids
      /\ \A i \in Ids : i # r => inFlight'[i] = inFlight[i]
  BY <1>2 DEF HistoryInv, Shapes, PersistRead, UpdateRead
<1>4. Shapes' /\ RunRows'
  BY <1>1, <1>3 DEF HistoryInv, Shapes, RunRows
<1>5. RunUpdates'
  BY <1>1, <1>2, <1>3 DEF HistoryInv, RunUpdates
<1>6. GoneRows'
  <2>1. r \notin gone
    BY <1>1 DEF HistoryInv, GoneRows, Unfinal
  <2> QED
    BY <1>1, <1>2, <1>3, <2>1 DEF HistoryInv, GoneRows
<1> QED
  BY <1>1, <1>4, <1>5, <1>6 DEF HistoryInv, Lasting, Final, Onward

\* What happens to an evaluation, by its job and by a DELETE.
EvaluationStep(e) ==
    \/ \E ts \in Times : InsertEvaluation(e, ts) \/ PutEvaluation(e, ts)
    \/ UpdateEvaluation(e) \/ ReadEvaluation(e) \/ PutUpdatedEvaluation(e)
    \/ DeleteEvaluation(e)

\* An evaluation's step leaves every other row, and the runs, alone.
LEMMA EvaluationsApart ==
    ASSUME Shapes, NEW e \in EvalIds, EvaluationStep(e)
    PROVE  /\ UNCHANGED <<backend, gone, run, scene, mcpVars>>
           /\ DOMAIN rows' = Ids /\ DOMAIN inFlight' = Ids /\ DOMAIN past' = Ids
           /\ \A i \in Ids \ {e} : rows'[i] = rows[i] /\ inFlight'[i] = inFlight[i] /\ past'[i] = past[i]
           /\ backend = "sqlite" => inFlight'[e] \in {inFlight[e], Absent}
<1> USE DEF Shapes
<1>1. e \in Ids
  BY DEF Ids
<1>2. ASSUME NEW row, SetRow(e, row), UNCHANGED <<backend, gone, run, scene, mcpVars>>,
             UNCHANGED inFlight \/ inFlight' = [inFlight EXCEPT ![e] = Absent]
      PROVE  /\ UNCHANGED <<backend, gone, run, scene, mcpVars>>
             /\ DOMAIN rows' = Ids /\ DOMAIN inFlight' = Ids /\ DOMAIN past' = Ids
             /\ \A i \in Ids \ {e} : rows'[i] = rows[i] /\ inFlight'[i] = inFlight[i] /\ past'[i] = past[i]
             /\ inFlight'[e] \in {inFlight[e], Absent}
  <2>1. DOMAIN past' = Ids /\ \A i \in Ids \ {e} : past'[i] = past[i]
    BY <1>1, <1>2, PastGrows
  <2>2. DOMAIN rows' = Ids /\ \A i \in Ids \ {e} : rows'[i] = rows[i]
    BY <1>2 DEF SetRow
  <2>3. /\ DOMAIN inFlight' = Ids /\ \A i \in Ids \ {e} : inFlight'[i] = inFlight[i]
        /\ inFlight'[e] \in {inFlight[e], Absent}
    BY <1>1, <1>2
  <2> QED
    BY <1>2, <2>1, <2>2, <2>3
<1>3. ASSUME UNCHANGED <<backend, rows, past, gone, run, scene, mcpVars>>,
             UNCHANGED inFlight \/ (backend = "dynamo" /\ \E version : inFlight' = [inFlight EXCEPT ![e] = version])
      PROVE  /\ UNCHANGED <<backend, gone, run, scene, mcpVars>>
             /\ DOMAIN rows' = Ids /\ DOMAIN inFlight' = Ids /\ DOMAIN past' = Ids
             /\ \A i \in Ids \ {e} : rows'[i] = rows[i] /\ inFlight'[i] = inFlight[i] /\ past'[i] = past[i]
             /\ backend = "sqlite" => inFlight'[e] \in {inFlight[e], Absent}
  BY <1>3
<1>4. CASE \E ts \in Times : InsertEvaluation(e, ts) \/ PutEvaluation(e, ts)
  BY <1>2, <1>4 DEF InsertEvaluation, PutEvaluation, InsertRow, PutRow, Stage, BesideLane
<1>5. CASE UpdateEvaluation(e)
  BY <1>2, <1>5 DEF UpdateEvaluation, UpdateSqlite, Stage, BesideLane
<1>6. CASE ReadEvaluation(e)
  BY <1>3, <1>6 DEF ReadEvaluation, UpdateRead, Beside
<1>7. CASE PutUpdatedEvaluation(e)
  BY <1>2, <1>7 DEF PutUpdatedEvaluation, UpdatePut, Stage, BesideLane
<1>8. CASE CheckEvaluation(e) \/ ReadDeleted(e)
  BY <1>3, <1>8 DEF CheckEvaluation, ReadDeleted, Deleting, BesideLane, Stay, storeVars
<1>9. CASE CancelEvaluation(e)
  BY <1>2, <1>9 DEF CancelEvaluation, UpdateSqlite, Deleting, BesideLane
<1>10. CASE PutDeleted(e)
  BY <1>2, <1>10 DEF PutDeleted, Deleting, BesideLane
<1> QED
  BY <1>4, <1>5, <1>6, <1>7, <1>8, <1>9, <1>10 DEF EvaluationStep, DeleteEvaluation

\* So what is known of the runs is.
LEMMA EvaluationsKeep ==
    ASSUME HistoryInv, NEW e \in EvalIds, EvaluationStep(e)
    PROVE  HistoryInv' /\ Lasting
<1>1. /\ UNCHANGED <<backend, gone, run>>
      /\ DOMAIN rows' = Ids /\ DOMAIN inFlight' = Ids /\ DOMAIN past' = Ids
      /\ \A i \in Ids \ {e} : rows'[i] = rows[i] /\ inFlight'[i] = inFlight[i] /\ past'[i] = past[i]
      /\ backend = "sqlite" => inFlight'[e] \in {inFlight[e], Absent}
  BY EvaluationsApart DEF HistoryInv
<1>2. RunIds \subseteq Ids \ {e} /\ NewRuns \subseteq RunIds
  BY EngineAssumption, HistoryAssumption DEF Ids
<1>3. Shapes' /\ RunRows'
  BY <1>1, <1>2 DEF HistoryInv, Shapes, RunRows
<1>4. RunUpdates' /\ GoneRows'
  BY <1>1, <1>2 DEF HistoryInv, RunUpdates, GoneRows, Ids
<1>5. Final /\ Onward
  BY <1>1, <1>2 DEF Final, Onward
<1> QED
  BY <1>3, <1>4, <1>5 DEF HistoryInv, Lasting

\* A delete is told what it takes away, and what may still bring it back.
LEMMA DeletesKeep ==
    ASSUME HistoryInv, NEW r \in RunIds, Delete(r)
    PROVE  HistoryInv' /\ Lasting
<1>1. /\ rows[r] # Absent /\ rows' = [rows EXCEPT ![r] = Absent]
      /\ gone' = IF backend = "sqlite" \/ rows[r].status \in Terminal THEN gone \cup {r} ELSE gone
      /\ UNCHANGED <<backend, inFlight, run>>
  BY DEF Delete, DeleteRun, SetRow, Present, Beside
<1>2. NewRuns \subseteq Ids /\ r \notin EvalIds /\ EvalIds \subseteq Ids /\ RunIds \subseteq Ids /\ r \in Ids
  BY EngineAssumption, HistoryAssumption DEF Ids
<1>3. /\ \A i \in Ids : rows'[i] = IF i = r THEN Absent ELSE rows[i]
      /\ DOMAIN rows' = Ids
  BY <1>1, <1>2 DEF HistoryInv, Shapes
<1>4. /\ DOMAIN past' = Ids /\ \A i \in Ids : i # r => past'[i] = past[i]
      /\ past'[r] \subseteq past[r] \cup {rows[r]}
  BY <1>2, PastGrows DEF Delete, DeleteRun, HistoryInv, Shapes
<1>5. r \in NewRuns => run[r].pc \notin Unmade
  BY <1>1 DEF HistoryInv, RunRows
<1>6. Shapes' /\ RunRows'
  <2>1. r \in NewRuns /\ run[r].pc \in Unfinal => \A version \in past'[r] : version.status = "running"
    BY <1>1, <1>4 DEF HistoryInv, RunRows
  <2> QED
    BY <1>1, <1>2, <1>3, <1>4, <1>5, <2>1 DEF HistoryInv, Shapes, RunRows
<1>7. RunUpdates'
  BY <1>1 DEF HistoryInv, RunUpdates
<1>8. GoneRows'
  <2>1. ASSUME r \in gone' /\ r \notin gone
        PROVE  inFlight[r] = Absent /\ (r \in NewRuns /\ backend = "dynamo" => run[r].pc \notin Unfinal)
    <3>1. CASE backend = "sqlite"
      BY <1>2, <3>1, HistoryAssumption DEF HistoryInv, RunUpdates
    <3>2. CASE rows[r].status \in Terminal
      <4>1. r \in NewRuns => run[r].pc \notin Unfinal
        BY <1>1, <3>2 DEF HistoryInv, RunRows, Terminal
      <4> QED
        BY <4>1 DEF HistoryInv, RunUpdates, Unfinal
    <3> QED
      BY <1>1, <2>1, <3>1, <3>2
  <2>2. r \notin gone
    BY <1>1 DEF HistoryInv, GoneRows
  <2> QED
    BY <1>1, <1>2, <1>3, <1>5, <2>1, <2>2 DEF HistoryInv, GoneRows
<1>9. Final
  BY <1>2, <1>3 DEF Final
<1> QED
  BY <1>1, <1>6, <1>7, <1>8, <1>9 DEF HistoryInv, Lasting, Onward

\* The scene is chosen once.
LEMMA SceneStays == ASSUME [Next]_vars PROVE UNCHANGED scene
<1>1. ASSUME NEW r, EngineStep(r) PROVE UNCHANGED scene
  BY <1>1 DEF EngineStep, LeaveAtStart, Begin, RawEvent, AfterEvent, NextTool, StreamEnds, Fail,
     Cancel, Persist, PersistRead, PersistMissing, AfterError, Finish, Become, Beside
<1>2. ASSUME NEW e, EvaluationStep(e) PROVE UNCHANGED scene
  BY <1>2 DEF EvaluationStep, InsertEvaluation, PutEvaluation, UpdateEvaluation, ReadEvaluation,
     PutUpdatedEvaluation, DeleteEvaluation, CheckEvaluation, CancelEvaluation, ReadDeleted,
     PutDeleted, Stage, Deleting, Beside, BesideLane
<1> QED
  BY <1>1, <1>2 DEF Next, EvaluationStep, Refuse, ResolveItem, ResolveSecret, CreateRun, ToolFinishes, Delete, Walk,
     EditServer, Become, Beside, vars

\* Every step keeps what no one may bring back or rewrite.
LEMMA HistoryStepInv ==
    HistoryInv /\ scene \in Scenes /\ [Next]_vars => HistoryInv' /\ Lasting
<1> SUFFICES ASSUME HistoryInv, scene \in Scenes, [Next]_vars PROVE HistoryInv' /\ Lasting
  OBVIOUS
<1>1. CASE UNCHANGED <<backend, rows, inFlight, past, gone, run>>
  BY <1>1 DEF HistoryInv, Shapes, RunRows, RunUpdates, GoneRows, Lasting, Final, Onward
<1>2. ASSUME NEW r \in NewRuns,
             \/ Refuse(r) \/ ResolveItem(r) \/ ResolveSecret(r)
             \/ \E ts \in Times : CreateRun(r, ts)
             \/ \E t \in Tools : ToolFinishes(r, t)
             \/ EngineStep(r)
      PROVE  HistoryInv' /\ Lasting
  BY <1>2, RunsKeep, CreateKeeps, PersistKeeps, PersistReadKeeps DEF EngineStep
<1>3. ASSUME NEW r \in scene.runs,
             \/ Refuse(r) \/ ResolveItem(r) \/ ResolveSecret(r)
             \/ \E ts \in Times : CreateRun(r, ts)
      PROVE  r \in NewRuns
  BY <1>3, EngineAssumption DEF Scene
<1>4. CASE Walk
  BY <1>1, <1>4 DEF Walk, StartWalk, ReadPage, Beside
<1>5. CASE EditServer
  BY <1>1, <1>5 DEF EditServer, storeVars
<1>6. CASE UNCHANGED vars
  BY <1>1, <1>6 DEF vars, storeVars
<1> QED
  BY <1>2, <1>3, <1>4, <1>5, <1>6, EvaluationsKeep, DeletesKeep DEF Next, EvaluationStep

\* What a DELETE of an evaluation is going to put back.
Deleted(i) == IF i \in EvalIds THEN delete[i].row ELSE Absent

\* An evaluation has one job, which is somewhere, and at most one DELETE.
Lane == /\ DOMAIN delete = EvalIds /\ DOMAIN job = EvalIds
        /\ \A e \in EvalIds : job[e] \in DOMAIN Saves

LEMMA DeletingOne ==
    ASSUME Lane, NEW e \in EvalIds, NEW pc, NEW version, Deleting(e, pc, version)
    PROVE  Lane' /\ \A j \in Ids : Deleted(j)' = IF j = e THEN version ELSE Deleted(j)
  BY DEF Lane, Deleting, Deleted

LEMMA JobGoesOn ==
    ASSUME Lane, NEW e \in EvalIds, NEW s \in {"pending", "running"} \cup Terminal, NEW stage, Stage(e, stage),
           stage = "pending" \/ stage = StageOf(s)
    PROVE  Lane'
<1>1. stage \in DOMAIN Saves
  BY DEF StageOf, Saves
<1> QED
  BY <1>1 DEF Lane, Stage

\* What a job saves is that it runs or how it ended.
LEMMA SavedStatuses ==
    ASSUME Lane, NEW e \in EvalIds, NEW s \in Saves[job[e]]
    PROVE  s \in {"running"} \cup Terminal
<1>1. job[e] \in {"none", "pending", "running", "over"}
  BY DEF Lane, Saves
<1> QED
  BY <1>1 DEF Saves, Terminal

\* No step takes a job or a DELETE away.
LEMMA LaneStays == ASSUME Lane, [Next]_vars PROVE Lane'
<1>1. ASSUME NEW r, EngineStep(r) PROVE UNCHANGED laneVars
  BY <1>1 DEF EngineStep, LeaveAtStart, Begin, RawEvent, AfterEvent, NextTool, StreamEnds, Fail,
     Cancel, Persist, PersistRead, PersistMissing, AfterError, Finish, Become, Beside
<1>2. ASSUME NEW e \in EvalIds, DeleteEvaluation(e) PROVE Lane'
  BY <1>2, DeletingOne DEF DeleteEvaluation, CheckEvaluation, CancelEvaluation, ReadDeleted, PutDeleted
<1>3. ASSUME NEW e \in EvalIds, EvaluationStep(e), ~DeleteEvaluation(e) PROVE Lane'
  <2>1. CASE \E ts \in Times : InsertEvaluation(e, ts) \/ PutEvaluation(e, ts)
    BY <2>1, JobGoesOn DEF InsertEvaluation, PutEvaluation
  <2>2. CASE UpdateEvaluation(e) \/ PutUpdatedEvaluation(e)
    BY <2>2, JobGoesOn, SavedStatuses DEF UpdateEvaluation, PutUpdatedEvaluation
  <2>3. CASE ReadEvaluation(e)
    BY <2>3 DEF ReadEvaluation, Beside, laneVars, Lane
  <2> QED
    BY <1>3, <2>1, <2>2, <2>3 DEF EvaluationStep
<1>4. CASE \E e \in EvalIds : EvaluationStep(e)
  BY <1>2, <1>3, <1>4 DEF Lane
<1>5. CASE ~(\E e \in EvalIds : EvaluationStep(e))
  <2>1. UNCHANGED laneVars
    BY <1>1, <1>5 DEF Next, EvaluationStep, Refuse, ResolveItem, ResolveSecret, CreateRun, ToolFinishes,
       Delete, Walk, EditServer, Become, Beside, vars
  <2> QED
    BY <2>1 DEF Lane, laneVars
<1> QED
  BY <1>4, <1>5

\* So the history is consistent throughout.
LEMMA HistoryInvariant == Spec => [](HistoryInv /\ Lane /\ scene \in Scenes)
<1>1. Init => HistoryInv /\ Lane /\ scene \in Scenes
  BY HistoryInitInv DEF Init, Lane, Saves
<1>2. HistoryInv /\ Lane /\ scene \in Scenes /\ [Next]_vars => (HistoryInv /\ Lane /\ scene \in Scenes)'
  BY HistoryStepInv, SceneStays, LaneStays
<1> QED
  BY <1>1, <1>2, PTL DEF Spec

\* What is final of a run stays, on either backend and however old the items are
\* that DynamoDB's reads return: its terminal row is not rewritten, and it does not
\* come back once it is deleted, unless it ran when it was deleted on DynamoDB
\* (update_run and delete_run of both repositories, and the engine's _persist).
THEOREM FinalRowsStay == Spec => FinalRowsStand
<1>1. HistoryInv => DeletedStaysDeleted
  BY DEF HistoryInv, GoneRows, DeletedStaysDeleted
<1>2. HistoryInv /\ scene \in Scenes /\ [Next]_vars
        => [\A i \in RunIds : rows[i] # Absent /\ rows[i].status \in Terminal
                               => rows'[i] \in {rows[i], Absent}]_storeVars
  BY HistoryStepInv DEF Lasting, Final
<1> QED
  BY <1>1, <1>2, HistoryInvariant, PTL DEF Spec, FinalRowsStand, TerminalRowStands

-----------------------------------------------------------------------------
(* A walk through a listing. *)

\* The row's place in a listing is after a position (ts, id).
Follows(row, i, position) ==
    \/ row.ts < position.ts
    \/ row.ts = position.ts /\ i < position.id

\* What a row is or may yet become: the items it has, has had, and that an update
\* or a DELETE is going to put back.
Copies(i) == past[i] \cup ({rows[i], inFlight[i], Deleted(i)} \ {Absent})

\* A row keeps its time, in every one of them.
Dated(row) == DOMAIN row = {"ts", "status", "body"} /\ row.ts \in Int
Dates ==
    /\ \A i \in Ids : rows[i] # Absent => Dated(rows[i])
    /\ \A i \in Ids : \A c, d \in Copies(i) : Dated(c) /\ c.ts = d.ts

EvaluationRows ==
    \A e \in EvalIds : Copies(e) \subseteq EvaluationRow /\ (rows[e] = Absent => Copies(e) = {})

DatesInv == Dates /\ EvaluationRows

\* What has been shown is not after the cursor, whatever becomes of its row, and no
\* other row takes its place ...
Passed ==
    \A i \in walk.seen :
        /\ i \in Ids
        /\ i \in NewRuns => run[i].pc \notin Unmade
        /\ i \in EvalIds => rows[i] # Absent
        /\ walk.cursor # Absent => \A c \in Copies(i) : ~Follows(c, i, walk.cursor)

\* ... and what is still owed is after it.
Ahead ==
    walk.cursor # Absent =>
        /\ walk.cursor \in [ts : Int, id : Int]
        /\ \A i \in walk.due \ walk.seen : Follows(rows[i], i, walk.cursor)

WalkTypes ==
    /\ DOMAIN walk = {"part", "want", "mode", "cursor", "over", "seen", "due"}
    /\ walk.part \in {"RUN", "EVAL"} /\ walk.mode \in {"list", "export"}
    /\ walk.mode = "export" => walk.part = "RUN"
    /\ \A i \in walk.due : i \in Present /\ PartOf(i) = walk.part /\ Wanted(i, walk.want)

WalkInv ==
    /\ backend \in Backends
    /\ walk # Absent =>
          /\ WalkTypes /\ Passed /\ Ahead
          /\ walk.cursor = Absent /\ ~walk.over => walk.seen = {}
          /\ backend = "sqlite" /\ walk.mode = "export" => walk.cursor = Absent
          /\ walk.over => walk.due \subseteq walk.seen

\* A listing's order, newest first.
Newer(S) == {pair \in S \X S : After(pair[2], PositionOf(pair[1]))}

LEMMA IdsAreFinite == IsFiniteSet(Ids) /\ Ids \subseteq Int
<1>1. IsFiniteSet(RunIds \cup EvalIds)
  BY HistoryAssumption, FS_Union
<1> QED
  BY <1>1, HistoryAssumption DEF Ids

LEMMA ListingIsOrdered ==
    ASSUME Dates, NEW S \in SUBSET Present
    PROVE  IsFiniteSet(S) /\ Orders(Newer(S), S)
<1>1. S \subseteq Ids /\ \A i \in S : rows[i].ts \in Int /\ i \in Int
  BY IdsAreFinite DEF Present, Dates, Dated
<1>2. IsFiniteSet(S)
  BY <1>1, IdsAreFinite, FS_Subset
<1>3. \A i, j \in S : <<j, i>> \in Newer(S) <=> Follows(rows[i], i, PositionOf(j))
  BY DEF Newer, After, Follows
<1>4. \A i, j \in S : <<j, i>> \in Newer(S) <=>
          rows[i].ts < rows[j].ts \/ (rows[i].ts = rows[j].ts /\ i < j)
  BY <1>3 DEF Follows, PositionOf
<1> QED
  BY <1>1, <1>2, <1>4 DEF Orders

\* A page is the beginning of what there is, and its last row tells the rows on
\* it from the rest.
LEMMA PagesCut ==
    ASSUME Dates, NEW S \in SUBSET Present, NEW n \in Nat \ {0}
    PROVE  /\ FirstOf(S, n) \subseteq S
           /\ Cardinality(S) <= n => FirstOf(S, n) = S
           /\ Cardinality(S) >= n =>
                /\ LastOf(FirstOf(S, n)) \in FirstOf(S, n)
                /\ \A i \in FirstOf(S, n) :
                      ~Follows(rows[i], i, PositionOf(LastOf(FirstOf(S, n))))
                /\ \A i \in S \ FirstOf(S, n) :
                      Follows(rows[i], i, PositionOf(LastOf(FirstOf(S, n))))
<1> DEFINE before == Newer(S)
           N == Cardinality(S)
           page == FirstOf(S, n)
<1>1. IsFiniteSet(S) /\ Orders(before, S) /\ N \in Nat
  BY ListingIsOrdered, FS_CardinalityType
<1>2. \A i, j \in S : <<j, i>> \in before <=> After(i, PositionOf(j))
  BY DEF Newer
<1>3. \A i \in S : Behind(i, S, before) = {j \in S : After(i, PositionOf(j))}
  BY <1>2 DEF Behind
<1>4. page = {i \in S : Rank(i, S, before) < n}
  BY <1>3 DEF FirstOf, Rank
<1> HIDE DEF before
<1>5. /\ \A x \in S : Rank(x, S, before) \in 0..(N - 1)
      /\ \A x, y \in S : Rank(x, S, before) = Rank(y, S, before) => x = y
      /\ \A m \in 0..(N - 1) : \E x \in S : Rank(x, S, before) = m
  BY <1>1, RanksCount
<1>6. \A x, y \in S : <<x, y>> \in before => Rank(x, S, before) < Rank(y, S, before)
  BY <1>1, RankGrows
<1> HIDE DEF page, N
<1>7. page \subseteq S
  BY <1>4
<1>8. N <= n => page = S
  BY <1>1, <1>4, <1>5
<1>9. ASSUME N >= n
      PROVE  /\ LastOf(page) \in page
             /\ \A i \in page : ~Follows(rows[i], i, PositionOf(LastOf(page)))
             /\ \A i \in S \ page : Follows(rows[i], i, PositionOf(LastOf(page)))
  <2>1. n - 1 \in 0..(N - 1)
    BY <1>1, <1>9
  <2>2. PICK l \in S : Rank(l, S, before) = n - 1
    BY <1>5, <2>1
  <2>3. l \in page
    BY <1>4, <2>2
  <2>4. ASSUME NEW i \in page, i # l PROVE <<i, l>> \in before
    <3>1. i \in S /\ Rank(i, S, before) \in Int /\ Rank(i, S, before) < n
      BY <1>1, <1>4, <1>5
    <3>2. <<l, i>> \in before => Rank(l, S, before) < Rank(i, S, before)
      BY <1>6, <3>1
    <3> QED
      BY <1>1, <2>2, <2>4, <3>1, <3>2 DEF Orders
  <2>5. ASSUME NEW k \in page, \A j \in page \ {k} : After(k, PositionOf(j)) PROVE k = l
    <3> SUFFICES ASSUME k # l PROVE FALSE
      OBVIOUS
    <3>1. <<l, k>> \in before
      BY <1>2, <1>7, <2>2, <2>3, <2>5
    <3>2. <<k, l>> \in before /\ k \in S
      BY <1>7, <2>4
    <3> QED
      BY <1>1, <2>2, <3>1, <3>2 DEF Orders
  <2>6. \A j \in page \ {l} : After(l, PositionOf(j))
    BY <1>2, <1>7, <2>2, <2>4
  <2>7. LastOf(page) = l
    BY <2>3, <2>5, <2>6 DEF LastOf
  <2>8. ASSUME NEW i \in page PROVE ~Follows(rows[i], i, PositionOf(l))
    <3>1. <<l, i>> \notin before
      BY <1>1, <1>7, <2>2, <2>4 DEF Orders
    <3> QED
      BY <1>2, <1>7, <2>2, <3>1 DEF After, Follows
  <2>9. ASSUME NEW i \in S \ page PROVE Follows(rows[i], i, PositionOf(l))
    <3>1. Rank(i, S, before) >= n /\ Rank(i, S, before) \in Int
      BY <1>1, <1>4, <1>5
    <3>2. i # l
      BY <2>3
    <3>3. <<i, l>> \in before => Rank(i, S, before) < Rank(l, S, before)
      BY <1>6, <2>2
    <3>4. <<l, i>> \in before
      BY <1>1, <2>2, <3>1, <3>2, <3>3 DEF Orders
    <3> QED
      BY <1>2, <2>2, <3>4 DEF After, Follows
  <2> QED
    BY <2>3, <2>7, <2>8, <2>9
<1> QED
  BY <1>7, <1>8, <1>9 DEF page, N

\* What one page shows of what is left of the walk, and where it leaves the
\* cursor.
Leaves(S, l) ==
    /\ Page.cursor = PositionOf(l)
    /\ \A i \in Page.items : ~Follows(rows[i], i, PositionOf(l))
    /\ \A i \in (S \cap walk.due) \ Page.items : Follows(rows[i], i, PositionOf(l))

PageOf(S) ==
    /\ \A i \in S : PartOf(i) = walk.part
                    /\ (walk.cursor = Absent \/ Follows(rows[i], i, walk.cursor))
    /\ walk.due \subseteq S \cup walk.seen
    /\ Page.items \subseteq S
    /\ \/ Page.cursor = Absent /\ S \cap walk.due \subseteq Page.items
       \/ \E l \in S : Leaves(S, l)

\* The remaining rows of the part, or those among them that match.
Rest == Partition(walk.part, walk.cursor)
Match == {i \in Rest : Wanted(i, walk.want)}

LEMMA RestIsOwed ==
    ASSUME WalkInv, walk # Absent, ~walk.over, NEW S, S = Rest \/ S = Match
    PROVE  /\ S \subseteq Present
           /\ \A i \in S : PartOf(i) = walk.part
                           /\ (walk.cursor = Absent \/ Follows(rows[i], i, walk.cursor))
           /\ walk.due \subseteq S \cup walk.seen
<1>1. \A i : After(i, walk.cursor) <=> Follows(rows[i], i, walk.cursor)
  BY DEF After, Follows
<1>2. S \subseteq Rest /\ \A i \in Rest : Wanted(i, walk.want) => i \in S
  BY DEF Match
<1>3. \A i \in Rest : /\ i \in Present /\ PartOf(i) = walk.part
                      /\ walk.cursor = Absent \/ Follows(rows[i], i, walk.cursor)
  BY <1>1 DEF Rest, Partition
<1>4. ASSUME NEW i \in walk.due, i \notin walk.seen PROVE i \in S
  <2>1. i \in Present /\ PartOf(i) = walk.part /\ Wanted(i, walk.want)
    BY DEF WalkInv, WalkTypes
  <2>2. walk.cursor = Absent \/ Follows(rows[i], i, walk.cursor)
    BY <1>4 DEF WalkInv, Ahead
  <2>3. i \in Rest
    BY <1>1, <2>1, <2>2 DEF Rest, Partition
  <2> QED
    BY <1>2, <2>1, <2>3
<1> QED
  BY <1>2, <1>3, <1>4

\* No position is mistaken for the end of a listing.
LEMMA PositionsArePositions ==
    ASSUME Dates, NEW i \in Present
    PROVE  PositionOf(i) \in [ts : Int, id : Int] /\ PositionOf(i) # Absent
<1>1. rows[i].ts \in Int /\ i \in Int
  BY IdsAreFinite DEF Present, Dates, Dated
<1> QED
  BY <1>1, HistoryAssumption DEF PositionOf

\* A page of a client that asks for n rows.
LEMMA PagedRest ==
    ASSUME Dates, WalkInv, walk # Absent, ~walk.over, NEW n \in Nat \ {0},
           NEW S, S = Rest \/ S = Match,
           Page.items = {i \in FirstOf(S, n) : Wanted(i, walk.want)},
           NEW more \in BOOLEAN,
           Cardinality(S) > n => more, more => Cardinality(S) >= n,
           Page.cursor = IF more THEN PositionOf(LastOf(FirstOf(S, n))) ELSE Absent
    PROVE  PageOf(S)
<1> DEFINE page == FirstOf(S, n)
           l == LastOf(page)
<1>1. /\ S \subseteq Present
      /\ \A i \in S : PartOf(i) = walk.part
                      /\ (walk.cursor = Absent \/ Follows(rows[i], i, walk.cursor))
      /\ walk.due \subseteq S \cup walk.seen
  BY RestIsOwed
<1>2. Cardinality(S) \in Nat
  BY <1>1, ListingIsOrdered, FS_CardinalityType
<1>3. /\ page \subseteq S
      /\ Cardinality(S) <= n => page = S
      /\ Cardinality(S) >= n =>
           /\ l \in page
           /\ \A i \in page : ~Follows(rows[i], i, PositionOf(l))
           /\ \A i \in S \ page : Follows(rows[i], i, PositionOf(l))
  BY <1>1, PagesCut
<1>4. Page.items = {i \in page : Wanted(i, walk.want)}
  OBVIOUS
<1>5. Page.cursor = IF more THEN PositionOf(l) ELSE Absent
  OBVIOUS
<1> HIDE DEF l, page
<1>6. \A i \in walk.due : Wanted(i, walk.want)
  BY DEF WalkInv, WalkTypes
<1>7. CASE more
  <2>1. Leaves(S, l) /\ l \in S
    BY <1>3, <1>4, <1>5, <1>6, <1>7 DEF Leaves
  <2> QED
    BY <1>1, <1>3, <1>4, <2>1 DEF PageOf
<1>8. CASE ~more
  <2>1. page = S
    BY <1>2, <1>3, <1>8
  <2> QED
    BY <1>1, <1>3, <1>4, <1>5, <1>6, <1>8, <2>1 DEF PageOf
<1> QED
  BY <1>7, <1>8

\* Every kind of page of both backends.
LEMMA EveryPage ==
    ASSUME Dates, WalkInv, walk # Absent, ~walk.over
    PROVE  PageOf(Rest) \/ PageOf(Match)
<1> DEFINE n == PageSize[walk.mode]
<1>1. n \in Nat \ {0} /\ walk.part \in {"RUN", "EVAL"} /\ walk.mode \in {"list", "export"}
      /\ (walk.mode = "export" => walk.part = "RUN") /\ backend \in {"sqlite", "dynamo"}
  BY HistoryAssumption DEF WalkInv, WalkTypes
<1>2. CASE backend = "dynamo"
  <2> DEFINE page == DynamoPage(walk.part, walk.cursor, n)
  <2>1. Page = Narrowed(page, walk.want)
    <3>1. CASE walk.part = "RUN"
      BY <1>2, <3>1 DEF Page, DynamoRuns
    <3>2. CASE walk.part = "EVAL"
      BY <1>2, <3>2 DEF Page, DynamoEvaluations
    <3> QED
      BY <1>1, <3>1, <3>2
  <2>2. page = [items  |-> FirstOf(Rest, n),
                cursor |-> IF Cardinality(Rest) >= n THEN PositionOf(LastOf(FirstOf(Rest, n)))
                           ELSE Absent]
    BY DEF DynamoPage, Rest
  <2> HIDE DEF page, n
  <2>3. /\ Page.items = {i \in FirstOf(Rest, n) : Wanted(i, walk.want)}
        /\ Page.cursor = IF Cardinality(Rest) >= n THEN PositionOf(LastOf(FirstOf(Rest, n)))
                         ELSE Absent
    BY <2>1, <2>2 DEF Narrowed
  <2> DEFINE more == Cardinality(Rest) >= n
  <2>4. more \in BOOLEAN /\ (more => Cardinality(Rest) >= n)
        /\ Page.cursor = IF more THEN PositionOf(LastOf(FirstOf(Rest, n))) ELSE Absent
    BY <2>3
  <2>5. Cardinality(Rest) > n => more
    <3>1. Rest \subseteq Present
      BY RestIsOwed
    <3>2. Cardinality(Rest) \in Nat
      BY <3>1, ListingIsOrdered, FS_CardinalityType
    <3> QED
      BY <1>1, <3>2
  <2> HIDE DEF more
  <2>6. PageOf(Rest)
    BY <1>1, <2>3, <2>4, <2>5, PagedRest
  <2> QED
    BY <2>6
<1>3. CASE backend = "sqlite" /\ walk.mode = "list"
  <2> DEFINE more == Cardinality(Match) > n
  <2>1. Page = SqlitePage(walk.part, walk.want, walk.cursor, n)
    BY <1>3 DEF Page
  <2>2. SqlitePage(walk.part, walk.want, walk.cursor, n)
          = [items  |-> FirstOf(Match, n),
             cursor |-> IF Cardinality(Match) > n THEN PositionOf(LastOf(FirstOf(Match, n)))
                        ELSE Absent]
    BY DEF SqlitePage, Match, Rest
  <2> HIDE DEF n
  <2>3. /\ Page.items = FirstOf(Match, n)
        /\ Page.cursor = IF more THEN PositionOf(LastOf(FirstOf(Match, n))) ELSE Absent
    BY <2>1, <2>2
  <2>4. FirstOf(Match, n) = {i \in FirstOf(Match, n) : Wanted(i, walk.want)}
    BY DEF FirstOf, Match
  <2>5. Cardinality(Match) \in Nat
    <3>1. Match \subseteq Present
      BY RestIsOwed
    <3> QED
      BY <3>1, ListingIsOrdered, FS_CardinalityType
  <2>6. more \in BOOLEAN /\ (Cardinality(Match) > n => more) /\ (more => Cardinality(Match) >= n)
    BY <1>1, <2>5
  <2> HIDE DEF more
  <2>7. PageOf(Match)
    BY <1>1, <2>3, <2>4, <2>6, PagedRest
  <2> QED
    BY <2>7
<1>4. CASE backend = "sqlite" /\ walk.mode = "export"
  <2>1. /\ Page.items = {i \in Partition("RUN", Absent) : Wanted(i, walk.want)}
        /\ Page.cursor = Absent
    BY <1>4 DEF Page, SqliteExport
  <2>2. Match = Page.items
    BY <1>1, <1>4, <2>1 DEF WalkInv, Match, Rest
  <2>3. PageOf(Match)
    BY <2>1, <2>2, RestIsOwed DEF PageOf
  <2> QED
    BY <2>3
<1> QED
  BY <1>1, <1>2, <1>3, <1>4

LEMMA SqliteExportEnds ==
    ASSUME backend = "sqlite", walk.mode = "export" PROVE Page.cursor = Absent
BY DEF Page, SqliteExport

\* Two positions in a listing: what is after the later one is after both.
LEMMA FollowsOn ==
    ASSUME NEW a, NEW i \in Int, a.ts \in Int, NEW c, c.ts \in Int, c.id \in Int,
           NEW d, d.ts \in Int, NEW l \in Int, d.id = l, Follows(d, l, c), Follows(a, i, d)
    PROVE  Follows(a, i, c)
BY DEF Follows

\* Nothing is due, or has been shown, before anything is walked.
LEMMA WalkInitInv == Init => DatesInv /\ WalkInv
<1> SUFFICES ASSUME Init PROVE DatesInv /\ WalkInv
  OBVIOUS
<1>1. /\ inFlight = [i \in Ids |-> Absent] /\ past = [i \in Ids |-> {}]
      /\ delete = [e \in EvalIds |-> NoDelete]
      /\ walk = Absent /\ backend \in Backends /\ scene \in Scenes
  BY DEF Init
<1>2. PICK old \in [scene.old -> OldRow] :
          rows = [i \in Ids |-> IF i \in scene.old THEN old[i] ELSE Absent]
  BY DEF Init
<1>3. scene.old \subseteq RunIds
  BY <1>1, EngineAssumption DEF Scene
<1>4. \A row \in OldRow : Dated(row)
  BY HistoryAssumption DEF OldRow, Dated
<1>7. \A i \in Ids : Copies(i) = {rows[i]} \ {Absent}
  BY <1>1 DEF Copies, Deleted, NoDelete
<1>8. \A i \in Ids : rows[i] # Absent => Dated(rows[i])
  BY <1>2, <1>4
<1>5. Dates
  BY <1>7, <1>8 DEF Dates
<1>6. EvaluationRows
  <2>1. \A e \in EvalIds : rows[e] = Absent /\ e \in Ids
    BY <1>2, <1>3, HistoryAssumption DEF Ids
  <2> QED
    BY <1>7, <2>1 DEF EvaluationRows
<1> QED
  BY <1>1, <1>5, <1>6 DEF DatesInv, WalkInv

\* One row comes, changes or goes.
Changes(i, row) ==
    /\ SetRow(i, row)
    /\ \A j \in Ids : inFlight'[j] \in {inFlight[j], Absent}
    /\ \A j \in Ids : Deleted(j)' \in {Deleted(j), Absent}
    /\ UNCHANGED backend
    /\ row # Absent =>
          /\ Dated(row)
          /\ \A c \in Copies(i) : row.ts = c.ts
          /\ Copies(i) = {} /\ walk # Absent => i \notin walk.seen
    /\ i \in EvalIds => row # Absent /\ row \in EvaluationRow

LEMMA ChangesKeep ==
    ASSUME HistoryInv, DatesInv, WalkInv, Onward, NEW i \in Ids, NEW row, Changes(i, row)
    PROVE  DatesInv' /\ WalkInv'
<1>1. \A j \in Ids : rows'[j] = IF j = i THEN row ELSE rows[j]
  BY DEF Changes, SetRow, HistoryInv, Shapes
<1>2. /\ row # Absent =>
            /\ Dated(row)
            /\ \A c \in Copies(i) : row.ts = c.ts
            /\ Copies(i) = {} /\ walk # Absent => i \notin walk.seen
      /\ i \in EvalIds => row # Absent /\ row \in EvaluationRow
      /\ backend' = backend
  BY DEF Changes
<1>10. ASSUME NEW j \in Ids, NEW c \in Copies(j)' PROVE c \in Copies(j) \/ (j = i /\ c = row /\ row # Absent)
  <2>1. /\ past'[j] \subseteq past[j] \cup ({rows[j]} \ {Absent})
        /\ inFlight'[j] \in {inFlight[j], Absent} /\ Deleted(j)' \in {Deleted(j), Absent}
    <3>1. DOMAIN past = Ids /\ SetRow(i, row)
      BY DEF HistoryInv, Shapes, Changes
    <3>2. past'[j] \subseteq past[j] \cup ({rows[j]} \ {Absent})
      BY <3>1, PastGrows
    <3> QED
      BY <3>2 DEF Changes
  <2>2. c \in past'[j] \/ c = rows'[j] \/ c = inFlight'[j] \/ c = Deleted(j)'
    BY <1>10 DEF Copies
  <2>3. c \in past'[j] \/ c # Absent
    BY <1>10 DEF Copies
  <2> QED
    BY <1>1, <2>1, <2>2, <2>3 DEF Copies
<1>11. ASSUME NEW j \in Ids, rows[j] # Absent PROVE rows[j] \in Copies(j)
  BY <1>11 DEF Copies
<1>3. Dates'
  <2>1. ASSUME NEW j \in Ids, rows'[j] # Absent PROVE Dated(rows'[j])
    BY <1>1, <1>2, <2>1 DEF DatesInv, Dates
  <2>2. ASSUME NEW j \in Ids, NEW c \in Copies(j)', NEW d \in Copies(j)'
        PROVE  Dated(c) /\ c.ts = d.ts
    BY <1>2, <1>10, <2>2 DEF DatesInv, Dates
  <2> QED
    BY <2>1, <2>2 DEF Dates
<1>4. EvaluationRows'
  <2>1. ASSUME NEW e \in EvalIds
        PROVE  Copies(e)' \subseteq EvaluationRow /\ (rows'[e] = Absent => Copies(e)' = {})
    <3>1. e \in Ids /\ Copies(e) \subseteq EvaluationRow /\ (rows[e] = Absent => Copies(e) = {})
      BY DEF Ids, DatesInv, EvaluationRows
    <3>2. Copies(e)' \subseteq EvaluationRow
      BY <1>2, <1>10, <3>1
    <3>3. rows'[e] = Absent => rows[e] = Absent /\ e # i
      BY <1>1, <1>2, <3>1
    <3> QED
      BY <1>10, <3>1, <3>2, <3>3
  <2> QED
    BY <2>1 DEF EvaluationRows
<1>5. \/ walk' = walk /\ (walk # Absent /\ i \in walk.due =>
                            row # Absent /\ (walk.want = AnyStatus \/ row.status = walk.want))
      \/ walk # Absent /\ walk' = [walk EXCEPT !.due = @ \ {i}]
  BY DEF Changes, SetRow
<1>6. ASSUME walk' # Absent PROVE walk # Absent
  BY <1>5, <1>6
<1>7. ASSUME walk' # Absent
      PROVE  /\ DOMAIN walk' = DOMAIN walk /\ walk'.part = walk.part /\ walk'.want = walk.want
             /\ walk'.mode = walk.mode /\ walk'.cursor = walk.cursor /\ walk'.over = walk.over
             /\ walk'.seen = walk.seen
             /\ walk'.due \subseteq walk.due
             /\ i \in walk'.due => row # Absent /\ (walk.want = AnyStatus \/ row.status = walk.want)
  <2>1. DOMAIN walk = {"part", "want", "mode", "cursor", "over", "seen", "due"}
    BY <1>6, <1>7 DEF WalkInv, WalkTypes
  <2> QED
    BY <1>5, <1>6, <1>7, <2>1
<1>8. ASSUME walk' # Absent PROVE WalkTypes' /\ Passed' /\ Ahead'
  <2>1. WalkTypes /\ Passed /\ Ahead
    BY <1>6, <1>8 DEF WalkInv
  <2>2. WalkTypes'
    <3>1. ASSUME NEW j \in walk'.due
          PROVE  j \in Present' /\ PartOf(j) = walk'.part /\ Wanted(j, walk.want)'
      <4>1. j \in walk.due
        BY <1>7, <1>8
      <4>2. j \in Present /\ PartOf(j) = walk.part /\ Wanted(j, walk.want)
        BY <2>1, <4>1 DEF WalkTypes
      <4>3. CASE j = i
        BY <1>1, <1>7, <1>8, <4>2, <4>3 DEF Present, Wanted
      <4>4. CASE j # i
        BY <1>1, <1>7, <1>8, <4>2, <4>4 DEF Present, Wanted
      <4> QED
        BY <4>3, <4>4
    <3> QED
      BY <1>7, <1>8, <2>1, <3>1 DEF WalkTypes, Wanted
  <2>3. ASSUME NEW j \in walk'.seen
        PROVE  /\ j \in Ids
               /\ j \in NewRuns => run'[j].pc \notin Unmade
               /\ j \in EvalIds => rows'[j] # Absent
               /\ walk'.cursor # Absent => \A c \in Copies(j)' : ~Follows(c, j, walk'.cursor)
    <3>1. j \in walk.seen /\ walk'.cursor = walk.cursor
      BY <1>7, <1>8
    <3>2. /\ j \in Ids
          /\ j \in NewRuns => run[j].pc \notin Unmade
          /\ j \in EvalIds => rows[j] # Absent
          /\ walk.cursor # Absent => \A c \in Copies(j) : ~Follows(c, j, walk.cursor)
      BY <2>1, <3>1 DEF Passed
    <3>3. j \in NewRuns => run'[j].pc \notin Unmade
      BY <3>2 DEF Onward
    <3>4. j \in EvalIds => rows'[j] # Absent
      BY <1>1, <1>2, <3>2
    <3>5. ASSUME walk.cursor # Absent, NEW c \in Copies(j)' PROVE ~Follows(c, j, walk.cursor)
      <4>1. CASE c \in Copies(j)
        BY <3>2, <3>5, <4>1
      <4>2. CASE j = i /\ c = row /\ row # Absent
        <5>1. PICK d : d \in Copies(j)
          BY <1>2, <1>6, <1>8, <3>1, <4>2
        <5>2. row.ts = d.ts /\ ~Follows(d, j, walk.cursor)
          BY <1>2, <3>2, <3>5, <4>2, <5>1
        <5> QED
          BY <4>2, <5>2 DEF Follows
      <4> QED
        BY <1>10, <3>2, <3>5, <4>1, <4>2
    <3> QED
      BY <3>1, <3>2, <3>3, <3>4, <3>5
  <2>4. Passed'
    BY <2>3 DEF Passed
  <2>5. ASSUME walk'.cursor # Absent
        PROVE  /\ walk'.cursor \in [ts : Int, id : Int]
               /\ \A j \in walk'.due \ walk'.seen : Follows(rows'[j], j, walk'.cursor)
    <3>1. /\ walk'.cursor = walk.cursor /\ walk'.due \subseteq walk.due /\ walk'.seen = walk.seen
          /\ i \in walk'.due => row # Absent
      BY <1>7, <1>8
    <3>2. walk.cursor \in [ts : Int, id : Int]
          /\ \A j \in walk.due \ walk.seen : Follows(rows[j], j, walk.cursor)
      BY <2>1, <2>5, <3>1 DEF Ahead
    <3>3. ASSUME NEW j \in walk'.due \ walk'.seen PROVE Follows(rows'[j], j, walk'.cursor)
      <4>1. Follows(rows[j], j, walk.cursor) /\ j \in Present
        BY <2>1, <3>1, <3>2, <3>3 DEF WalkTypes
      <4>2. CASE j # i
        BY <1>1, <3>1, <4>1, <4>2 DEF Present
      <4>3. CASE j = i
        <5>1. rows'[j] = row /\ row.ts = rows[j].ts
          BY <1>1, <1>2, <1>11, <3>1, <3>3, <4>1, <4>3 DEF Present
        <5> QED
          BY <3>1, <4>1, <5>1 DEF Follows
      <4> QED
        BY <4>2, <4>3
    <3> QED
      BY <3>1, <3>2, <3>3
  <2> QED
    BY <2>2, <2>4, <2>5 DEF Ahead
<1>9. WalkInv'
  BY <1>2, <1>6, <1>7, <1>8 DEF WalkInv
<1> QED
  BY <1>3, <1>4, <1>9 DEF DatesInv

\* An update or a DELETE reads a row, or nothing happens to the table or the walk.
LEMMA ReadingKeeps ==
    ASSUME DatesInv, WalkInv, Onward, UNCHANGED <<backend, rows, walk>>,
           \A j \in Ids : Copies(j)' \subseteq Copies(j)
    PROVE  DatesInv' /\ WalkInv'
<1>1. Dates'
  BY DEF DatesInv, Dates
<1>2. EvaluationRows'
  <2>1. \A e \in EvalIds : e \in Ids
    BY DEF Ids
  <2> QED
    BY <2>1 DEF DatesInv, EvaluationRows
<1>3. ASSUME walk # Absent PROVE Passed'
  <2>1. Passed
    BY <1>3 DEF WalkInv
  <2> QED
    BY <2>1 DEF Passed, Onward
<1>4. WalkInv'
  BY <1>3 DEF WalkInv, WalkTypes, Ahead, Present, Wanted
<1> QED
  BY <1>1, <1>2, <1>4 DEF DatesInv

LEMMA StartWalkKeeps ==
    ASSUME HistoryInv, DatesInv, WalkInv, Onward, NEW part \in {"RUN", "EVAL"}, NEW want,
           NEW mode \in {"list", "export"}, StartWalk(part, want, mode), UNCHANGED delete
    PROVE  DatesInv' /\ WalkInv'
<1>1. /\ walk'.seen = {} /\ walk'.cursor = Absent /\ walk'.over = FALSE /\ walk'.part = part
      /\ walk'.want = want /\ walk'.mode = mode /\ (mode = "export" => part = "RUN")
      /\ walk'.due = {i \in Present : PartOf(i) = part /\ Wanted(i, want)}
      /\ DOMAIN walk' = {"part", "want", "mode", "cursor", "over", "seen", "due"}
      /\ UNCHANGED <<backend, rows, inFlight, past>>
  BY DEF StartWalk
<1>4. \A i \in Ids : Copies(i)' = Copies(i)
  BY <1>1 DEF Copies, Deleted
<1>2. DatesInv'
  BY <1>1, <1>4 DEF DatesInv, Dates, EvaluationRows, Ids
<1>3. WalkTypes'
  BY <1>1 DEF WalkTypes, Present, Wanted
<1> QED
  BY <1>1, <1>2, <1>3 DEF WalkInv, Passed, Ahead

\* What is left of a listing has not been shown.
LEMMA NothingTwice ==
    ASSUME DatesInv, WalkInv, walk # Absent, ~walk.over
    PROVE  Page.items \cap walk.seen = {}
<1> SUFFICES ASSUME NEW i \in Page.items, i \in walk.seen PROVE FALSE
  OBVIOUS
<1>1. PICK S : (S = Rest \/ S = Match) /\ PageOf(S)
  BY EveryPage DEF DatesInv
<1>2. S \subseteq Present
  BY <1>1, RestIsOwed
<1>3. Passed /\ (walk.cursor = Absent => walk.seen = {})
  BY DEF WalkInv
<1>4. walk.cursor # Absent /\ rows[i] # Absent /\ Follows(rows[i], i, walk.cursor)
  BY <1>1, <1>2, <1>3 DEF PageOf, Present
<1>5. rows[i] \in Copies(i)
  BY <1>4 DEF Copies
<1> QED
  BY <1>3, <1>4, <1>5 DEF Passed

\* The next page takes the cursor on, over what it shows.
LEMMA ReadPageKeeps ==
    ASSUME HistoryInv, DatesInv, WalkInv, ReadPage, UNCHANGED <<run, delete>>
    PROVE  DatesInv' /\ WalkInv'
<1>1. /\ walk # Absent /\ ~walk.over
      /\ UNCHANGED <<backend, rows, inFlight, past, gone>>
      /\ walk' = [walk EXCEPT !.seen = @ \cup Page.items, !.cursor = Page.cursor,
                              !.over = Page.cursor = Absent]
  BY DEF ReadPage
<1>2. WalkTypes /\ Passed /\ Ahead /\ (walk.cursor = Absent => walk.seen = {})
  BY <1>1 DEF WalkInv
<1>3. Dates
  BY DEF DatesInv
<1>4. /\ walk'.seen = walk.seen \cup Page.items /\ walk'.cursor = Page.cursor
      /\ walk'.over = (Page.cursor = Absent) /\ walk'.part = walk.part /\ walk'.want = walk.want
      /\ walk'.mode = walk.mode /\ walk'.due = walk.due /\ DOMAIN walk' = DOMAIN walk
  BY <1>1, <1>2 DEF WalkTypes
<1>5. PICK S : (S = Rest \/ S = Match) /\ PageOf(S)
  BY <1>1, <1>3, EveryPage
<1>6. S \subseteq Present
  BY <1>1, <1>5, RestIsOwed
<1>9. \A i \in Ids : Copies(i)' = Copies(i)
  BY <1>1 DEF Copies, Deleted
<1>7. DatesInv'
  BY <1>1, <1>9 DEF DatesInv, Dates, EvaluationRows, Ids
<1>8. WalkTypes'
  BY <1>1, <1>2, <1>4 DEF WalkTypes, Present, Wanted
<1>10. CASE Page.cursor = Absent
  <2>1. walk.due \subseteq walk'.seen
    <3>1. \A l \in S : PositionOf(l) # Absent
      BY <1>3, <1>6, PositionsArePositions
    <3> QED
      BY <1>4, <1>5, <1>10, <3>1 DEF PageOf, Leaves
  <2>2. \A i \in Page.items : i \in Ids /\ rows[i] # Absent
    BY <1>5, <1>6 DEF PageOf, Present
  <2>3. \A r \in NewRuns : rows[r] # Absent => run[r].pc \notin Unmade
    BY DEF HistoryInv, RunRows
  <2>4. Passed'
    BY <1>1, <1>2, <1>4, <1>9, <1>10, <2>2, <2>3 DEF Passed
  <2> QED
    BY <1>1, <1>4, <1>7, <1>8, <1>10, <2>1, <2>4 DEF WalkInv, Ahead
<1>11. CASE Page.cursor # Absent
  <2>1. PICK l \in S : Leaves(S, l)
    BY <1>5, <1>11 DEF PageOf
  <2> DEFINE c == PositionOf(l)
  <2>2. c \in [ts : Int, id : Int] /\ c.ts = rows[l].ts /\ c.id = l /\ l \in Ids /\ l \in Int
    BY <1>3, <1>6, PositionsArePositions, IdsAreFinite DEF PositionOf, Present
  <2>3. walk.cursor # Absent => walk.cursor \in [ts : Int, id : Int] /\ Follows(rows[l], l, walk.cursor)
    BY <1>2, <1>5 DEF PageOf, Ahead
  <2>4. walk.cursor # Absent => Follows(c, l, walk.cursor)
    BY <2>2, <2>3 DEF Follows
  <2>5. /\ Page.cursor = c
        /\ \A i \in Page.items : ~Follows(rows[i], i, c)
        /\ \A i \in (S \cap walk.due) \ Page.items : Follows(rows[i], i, c)
    BY <2>1 DEF Leaves
  <2> HIDE DEF c
  <2>6. ASSUME NEW i \in walk'.seen
        PROVE  /\ i \in Ids
               /\ i \in NewRuns => run[i].pc \notin Unmade
               /\ i \in EvalIds => rows[i] # Absent
               /\ \A copy \in Copies(i) : ~Follows(copy, i, c)
    <3>1. CASE i \in Page.items
      <4>1. i \in Ids /\ rows[i] # Absent
        BY <1>5, <1>6, <3>1 DEF PageOf, Present
      <4>2. ~Follows(rows[i], i, c)
        BY <2>5, <3>1
      <4>3. i \in NewRuns => run[i].pc \notin Unmade
        BY <4>1 DEF HistoryInv, RunRows
      <4>4. \A copy \in Copies(i) : copy.ts = rows[i].ts
        BY <1>3, <4>1 DEF Dates, Copies
      <4> QED
        BY <4>1, <4>2, <4>3, <4>4 DEF Follows
    <3>2. CASE i \in walk.seen
      <4>1. walk.cursor # Absent
        BY <1>2, <3>2
      <4>2. /\ i \in Ids /\ i \in Int
            /\ i \in NewRuns => run[i].pc \notin Unmade
            /\ i \in EvalIds => rows[i] # Absent
            /\ \A copy \in Copies(i) : ~Follows(copy, i, walk.cursor)
        BY <1>2, <3>2, <4>1, IdsAreFinite DEF Passed
      <4>3. \A copy \in Copies(i) : copy.ts \in Int
        BY <1>3, <4>2 DEF Dates, Dated
      <4>4. walk.cursor.ts \in Int /\ walk.cursor.id \in Int /\ c.ts \in Int /\ Follows(c, l, walk.cursor)
        BY <2>2, <2>3, <2>4, <4>1
      <4>5. ASSUME NEW copy \in Copies(i) PROVE ~Follows(copy, i, c)
        BY <2>2, <4>2, <4>3, <4>4, <4>5, FollowsOn
      <4> QED
        BY <4>2, <4>5
    <3> QED
      BY <1>4, <3>1, <3>2
  <2>7. Passed'
    BY <1>1, <1>4, <1>9, <2>5, <2>6 DEF Passed
  <2>8. \A i \in walk'.due \ walk'.seen : Follows(rows[i], i, c)
    BY <1>4, <1>5, <2>5 DEF PageOf
  <2>9. Ahead'
    BY <1>1, <1>4, <2>2, <2>5, <2>8 DEF Ahead
  <2>10. ~(backend = "sqlite" /\ walk.mode = "export")
    BY <1>1, <1>11, SqliteExportEnds
  <2> QED
    BY <1>1, <1>4, <1>7, <1>8, <1>11, <2>7, <2>9, <2>10 DEF WalkInv
<1> QED
  BY <1>10, <1>11

\* A new row, of a run or an evaluation that had none.
LEMMA NewRowsKeep ==
    ASSUME HistoryInv, DatesInv, WalkInv, Onward, NEW i \in Ids, NEW ts \in Times, NEW status,
           InsertRow(i, ts, status, EmptyBody) \/ PutRow(i, ts, status, EmptyBody),
           i \in RunIds => i \in NewRuns /\ run[i].pc \in Unmade,
           i \in EvalIds => status = "pending", UNCHANGED delete
    PROVE  DatesInv' /\ WalkInv'
<1> DEFINE row == NewRow(ts, status, EmptyBody)
<1>1. /\ rows[i] = Absent /\ SetRow(i, row) /\ UNCHANGED <<backend, inFlight, gone>>
  BY DEF InsertRow, PutRow
<1>2. Dated(row)
  BY HistoryAssumption DEF Dated, NewRow
<1>3. i \in EvalIds => row \in EvaluationRow
  BY DEF EvaluationRow, NewRow
<1> HIDE DEF row
<1>4. Copies(i) = {}
  <2>1. CASE i \in EvalIds
    BY <1>1, <2>1 DEF DatesInv, EvaluationRows
  <2>2. CASE i \in RunIds
    <3>1. past[i] = {} /\ inFlight[i] = Absent
      BY <2>2 DEF HistoryInv, RunRows, RunUpdates, Unmade
    <3> QED
      BY <1>1, <2>2, <3>1, HistoryAssumption DEF Copies, Deleted
  <2> QED
    BY <2>1, <2>2 DEF Ids
<1>5. walk # Absent => i \notin walk.seen
  BY <1>1 DEF WalkInv, Passed, Ids
<1>7. \A j \in Ids : Deleted(j)' = Deleted(j)
  BY DEF Deleted
<1>6. Changes(i, row)
  BY <1>1, <1>2, <1>3, <1>4, <1>5, <1>7, EngineAssumption DEF Changes
<1> QED
  BY <1>6, ChangesKeep

\* A row is written from one of its copies, by an update or a DELETE.
LEMMA CopiesKeep ==
    ASSUME HistoryInv, DatesInv, WalkInv, Onward, NEW i \in Ids, NEW copy \in Copies(i),
           NEW status, NEW body, SetRow(i, Assigned(copy, status, body)), UNCHANGED backend,
           \A j \in Ids : inFlight'[j] \in {inFlight[j], Absent},
           \A j \in Ids : Deleted(j)' \in {Deleted(j), Absent},
           i \in EvalIds => status \in {"running"} \cup Terminal /\ body = EmptyBody
    PROVE  DatesInv' /\ WalkInv'
<1> DEFINE row == Assigned(copy, status, body)
<1>1. Dated(copy) /\ \A c \in Copies(i) : c.ts = copy.ts
  BY DEF DatesInv, Dates
<1>2. Dated(row) /\ row.ts = copy.ts
  BY <1>1 DEF Dated, Assigned
<1>3. i \in EvalIds => row \in EvaluationRow
  <2>1. i \in EvalIds => copy \in EvaluationRow
    BY DEF DatesInv, EvaluationRows
  <2> QED
    BY <2>1 DEF EvaluationRow, Assigned
<1>4. SetRow(i, row)
  OBVIOUS
<1> HIDE DEF row
<1>5. Changes(i, row)
  BY <1>1, <1>2, <1>3, <1>4, EngineAssumption DEF Changes
<1> QED
  BY <1>5, ChangesKeep

\* An update of a row, on either backend.
LEMMA UpdatesKeep ==
    ASSUME HistoryInv, DatesInv, WalkInv, Onward, NEW i \in Ids, NEW status, NEW body,
           UpdateSqlite(i, status, body) \/ UpdatePut(i, status, body),
           \A j \in Ids : Deleted(j)' \in {Deleted(j), Absent},
           i \in EvalIds => status \in {"running"} \cup Terminal /\ body = EmptyBody
    PROVE  DatesInv' /\ WalkInv'
<1>1. CASE UpdateSqlite(i, status, body)
  <2>1. /\ rows[i] # Absent /\ SetRow(i, Assigned(rows[i], status, body))
        /\ UNCHANGED <<backend, inFlight>>
    BY <1>1 DEF UpdateSqlite
  <2>2. rows[i] \in Copies(i)
    BY <2>1 DEF Copies
  <2>3. \A j \in Ids : inFlight'[j] \in {inFlight[j], Absent}
    BY <2>1
  <2> QED
    BY <2>1, <2>2, <2>3, CopiesKeep
<1>2. CASE UpdatePut(i, status, body)
  <2>1. /\ inFlight[i] # Absent /\ SetRow(i, Assigned(inFlight[i], status, body)) /\ UNCHANGED backend
        /\ inFlight' = [inFlight EXCEPT ![i] = Absent]
    BY <1>2 DEF UpdatePut
  <2>2. inFlight[i] \in Copies(i)
    BY <2>1 DEF Copies
  <2>3. \A j \in Ids : inFlight'[j] \in {inFlight[j], Absent}
    BY <2>1 DEF HistoryInv, Shapes
  <2> QED
    BY <2>1, <2>2, <2>3, CopiesKeep
<1> QED
  BY <1>1, <1>2

\* What an update or a DELETE reads is a copy.
LEMMA ReadsACopy ==
    ASSUME HistoryInv, Lane, NEW i \in Ids,
           \/ UpdateRead(i) /\ UNCHANGED delete
           \/ i \in EvalIds /\ ReadDeleted(i)
    PROVE  UNCHANGED <<backend, rows, walk>> /\ \A j \in Ids : Copies(j)' \subseteq Copies(j)
<1>1. CASE UpdateRead(i) /\ UNCHANGED delete
  <2>1. /\ UNCHANGED <<backend, rows, past, walk>>
        /\ \A j \in Ids : j # i => inFlight'[j] = inFlight[j]
        /\ inFlight'[i] \in Versions(i)
    BY <1>1 DEF UpdateRead, HistoryInv, Shapes
  <2>2. \A j \in Ids : Deleted(j)' = Deleted(j)
    BY <1>1 DEF Deleted
  <2> QED
    BY <2>1, <2>2 DEF Copies, Versions
<1>2. CASE i \in EvalIds /\ ReadDeleted(i)
  <2>1. UNCHANGED <<backend, rows, past, inFlight, walk>>
    BY <1>2 DEF ReadDeleted, Stay, storeVars
  <2>2. PICK version \in Versions(i) : Deleting(i, "checked", version)
    BY <1>2 DEF ReadDeleted
  <2>3. \A j \in Ids : Deleted(j)' = IF j = i THEN version ELSE Deleted(j)
    BY <1>2, <2>2, DeletingOne
  <2> QED
    BY <2>1, <2>3 DEF Copies, Versions
<1> QED
  BY <1>1, <1>2

\* Every step keeps the walk complete, and shows nothing twice.
NothingAgain == ReadPage => Page.items \cap walk.seen = {}

LEMMA WalkStepInv ==
    HistoryInv /\ Lane /\ scene \in Scenes /\ DatesInv /\ WalkInv /\ [Next]_vars
        => DatesInv' /\ WalkInv' /\ [NothingAgain]_storeVars
<1> SUFFICES ASSUME HistoryInv, Lane, scene \in Scenes, DatesInv, WalkInv, [Next]_vars
             PROVE  DatesInv' /\ WalkInv' /\ [NothingAgain]_storeVars
  OBVIOUS
<1>1. Onward
  BY HistoryStepInv DEF Lasting
<1>2. NewRuns \subseteq RunIds /\ RunIds \subseteq Ids /\ EvalIds \subseteq Ids /\ scene.runs \subseteq NewRuns
  BY EngineAssumption DEF Ids, Scene
<1>3. ASSUME NEW r \in RunIds PROVE r \notin EvalIds
  BY HistoryAssumption
<1>4. ASSUME UNCHANGED storeVars, \A j \in Ids : Deleted(j)' \in {Deleted(j), Absent}
      PROVE  DatesInv' /\ WalkInv'
  <2>1. \A j \in Ids : Copies(j)' \subseteq Copies(j)
    BY <1>4 DEF Copies, storeVars
  <2> QED
    BY <1>1, <1>4, <2>1, ReadingKeeps DEF storeVars
<1>20. ASSUME UNCHANGED delete PROVE \A j \in Ids : Deleted(j)' \in {Deleted(j), Absent}
  BY <1>20 DEF Deleted
<1>5. ASSUME NEW r \in scene.runs, Refuse(r) \/ ResolveItem(r) \/ ResolveSecret(r)
      PROVE  UNCHANGED <<storeVars, delete>>
  BY <1>5 DEF Refuse, ResolveItem, ResolveSecret, Stay, Become, laneVars
<1>6. ASSUME NEW r \in scene.runs, NEW ts \in Times, CreateRun(r, ts) PROVE DatesInv' /\ WalkInv'
  <2>1. /\ InsertRow(r, ts, "running", EmptyBody) \/ PutRow(r, ts, "running", EmptyBody)
        /\ run[r].pc \in Unmade /\ r \in NewRuns /\ r \in Ids /\ r \notin EvalIds /\ UNCHANGED delete
    BY <1>2, <1>3, <1>6 DEF CreateRun, Unmade, Become, laneVars
  <2> QED
    BY <1>1, <2>1, NewRowsKeep
<1>7. ASSUME NEW r \in NewRuns, NEW t \in Tools, ToolFinishes(r, t) PROVE UNCHANGED <<storeVars, delete>>
  BY <1>7 DEF ToolFinishes, Stay, Become, laneVars
<1>8. ASSUME NEW r \in NewRuns, EngineStep(r) PROVE DatesInv' /\ WalkInv'
  <2>4. UNCHANGED delete
    BY <1>8 DEF EngineStep, LeaveAtStart, Begin, RawEvent, AfterEvent, NextTool, StreamEnds, Fail,
       Cancel, Persist, PersistRead, PersistMissing, AfterError, Finish, Become, Beside, laneVars
  <2>1. CASE Persist(r)
    <3>1. UpdateSqlite(r, run[r].status, run[r].body) \/ UpdatePut(r, run[r].status, run[r].body)
      BY <2>1 DEF Persist
    <3> QED
      BY <1>1, <1>2, <1>3, <1>20, <2>4, <3>1, UpdatesKeep
  <2>2. CASE PersistRead(r)
    <3>1. UpdateRead(r) /\ r \in Ids
      BY <1>2, <2>2 DEF PersistRead
    <3> QED
      BY <1>1, <2>4, <3>1, ReadsACopy, ReadingKeeps
  <2>3. CASE ~Persist(r) /\ ~PersistRead(r)
    <3>1. UNCHANGED storeVars
      BY <1>8, <2>3 DEF EngineStep, LeaveAtStart, Begin, RawEvent, AfterEvent, NextTool, StreamEnds,
         Fail, Cancel, PersistMissing, UpdateMissing, AfterError, Finish, Stay
    <3> QED
      BY <1>4, <1>20, <2>4, <3>1
  <2> QED
    BY <2>1, <2>2, <2>3
<1>9. ASSUME NEW r \in RunIds, Delete(r) PROVE DatesInv' /\ WalkInv'
  <2>1. SetRow(r, Absent) /\ UNCHANGED <<backend, inFlight, delete>> /\ r \in Ids /\ r \notin EvalIds
    BY <1>2, <1>3, <1>9 DEF Delete, DeleteRun, Beside, laneVars
  <2>2. Changes(r, Absent)
    BY <1>20, <2>1 DEF Changes
  <2> QED
    BY <1>1, <2>1, <2>2, ChangesKeep
<1>10. ASSUME NEW e \in EvalIds, NEW ts \in Times, InsertEvaluation(e, ts) \/ PutEvaluation(e, ts)
       PROVE  DatesInv' /\ WalkInv'
  <2>1. /\ InsertRow(e, ts, "pending", EmptyBody) \/ PutRow(e, ts, "pending", EmptyBody)
        /\ e \in Ids /\ e \notin RunIds /\ UNCHANGED delete
    BY <1>2, <1>3, <1>10 DEF InsertEvaluation, PutEvaluation, Stage
  <2> QED
    BY <1>1, <2>1, NewRowsKeep
<1>21. ASSUME NEW e \in EvalIds, NEW copy \in Copies(e) PROVE copy.body = EmptyBody
  BY <1>21 DEF DatesInv, EvaluationRows, EvaluationRow
<1>11. ASSUME NEW e \in EvalIds, UpdateEvaluation(e) \/ PutUpdatedEvaluation(e)
       PROVE  DatesInv' /\ WalkInv'
  <2>2. PICK s \in Saves[job[e]] : /\ UNCHANGED delete
                                  /\ \/ UpdateSqlite(e, s, rows[e].body)
                                     \/ UpdatePut(e, s, inFlight[e].body)
    BY <1>11 DEF UpdateEvaluation, PutUpdatedEvaluation, Stage
  <2>1. s \in {"running"} \cup Terminal
    BY <1>1, SavedStatuses
  <2>3. CASE UpdateSqlite(e, s, rows[e].body)
    <3>1. rows[e] \in Copies(e)
      BY <2>3 DEF UpdateSqlite, Copies
    <3>2. rows[e].body = EmptyBody
      BY <1>21, <3>1
    <3> QED
      BY <1>1, <1>2, <1>20, <2>1, <2>2, <2>3, <3>2, UpdatesKeep
  <2>4. CASE UpdatePut(e, s, inFlight[e].body)
    <3>1. inFlight[e] \in Copies(e)
      BY <2>4 DEF UpdatePut, Copies
    <3>2. inFlight[e].body = EmptyBody
      BY <1>21, <3>1
    <3> QED
      BY <1>1, <1>2, <1>20, <2>1, <2>2, <2>4, <3>2, UpdatesKeep
  <2> QED
    BY <2>2, <2>3, <2>4
<1>12. ASSUME NEW e \in EvalIds, ReadEvaluation(e) PROVE DatesInv' /\ WalkInv'
  <2>1. UpdateRead(e) /\ UNCHANGED delete /\ e \in Ids
    BY <1>2, <1>12 DEF ReadEvaluation, Beside, laneVars
  <2> QED
    BY <1>1, <2>1, ReadsACopy, ReadingKeeps
<1>23. ASSUME NEW e \in EvalIds, DeleteEvaluation(e) PROVE DatesInv' /\ WalkInv'
  <2>1. ASSUME NEW pc, Deleting(e, pc, Absent) PROVE \A j \in Ids : Deleted(j)' \in {Deleted(j), Absent}
    BY <2>1, DeletingOne
  <2>2. CASE CheckEvaluation(e)
    BY <1>4, <2>1, <2>2 DEF CheckEvaluation, Stay
  <2>3. CASE CancelEvaluation(e)
    <3>1. UpdateSqlite(e, "cancelled", rows[e].body) /\ rows[e] \in Copies(e)
      BY <2>3 DEF CancelEvaluation, UpdateSqlite, Copies
    <3>2. rows[e].body = EmptyBody /\ "cancelled" \in Terminal
      BY <1>21, <3>1 DEF Terminal
    <3> QED
      BY <1>1, <1>2, <2>1, <2>3, <3>1, <3>2, UpdatesKeep DEF CancelEvaluation
  <2>4. CASE ReadDeleted(e)
    BY <1>1, <1>2, <2>4, ReadsACopy, ReadingKeeps
  <2>5. CASE PutDeleted(e)
    <3>1. /\ SetRow(e, Assigned(delete[e].row, "cancelled", delete[e].row.body))
          /\ UNCHANGED <<backend, inFlight>> /\ delete[e].row \in Copies(e)
      BY <2>5 DEF PutDeleted, Copies, Deleted
    <3>2. delete[e].row.body = EmptyBody /\ "cancelled" \in Terminal
      BY <1>21, <3>1 DEF Terminal
    <3>3. \A j \in Ids : inFlight'[j] \in {inFlight[j], Absent}
      BY <3>1
    <3> QED
      BY <1>1, <1>2, <2>1, <2>5, <3>1, <3>2, <3>3, CopiesKeep DEF PutDeleted
  <2> QED
    BY <1>23, <2>2, <2>3, <2>4, <2>5 DEF DeleteEvaluation
<1>13. ASSUME Walk PROVE DatesInv' /\ WalkInv'
  <2>1. CASE ReadPage
    BY <1>13, <2>1, ReadPageKeeps DEF Walk, Beside, laneVars
  <2>2. CASE ~ReadPage
    <3>1. \E part \in {"RUN", "EVAL"}, want \in {AnyStatus, "running", "completed"},
             mode \in {"list", "export"} : StartWalk(part, want, mode)
      BY <1>13, <2>2 DEF Walk
    <3> QED
      BY <1>1, <1>13, <3>1, StartWalkKeeps DEF Walk, Beside, laneVars
  <2> QED
    BY <2>1, <2>2
<1>14. CASE EditServer
  BY <1>4, <1>14, <1>20 DEF EditServer, laneVars
<1>15. CASE UNCHANGED vars
  BY <1>4, <1>15, <1>20 DEF vars, laneVars
<1>16. DatesInv' /\ WalkInv'
  BY <1>4, <1>5, <1>6, <1>7, <1>8, <1>9, <1>10, <1>11, <1>12, <1>13, <1>14, <1>15,
     <1>20, <1>23 DEF Next
<1>17. ReadPage => Page.items \cap walk.seen = {}
  <2> SUFFICES ASSUME ReadPage PROVE Page.items \cap walk.seen = {}
    OBVIOUS
  <2> QED
    BY NothingTwice DEF ReadPage
<1> QED
  BY <1>16, <1>17 DEF NothingAgain

\* The walk is consistent throughout.
LEMMA WalkInvariant == Spec => [](DatesInv /\ WalkInv)
<1>1. HistoryInv /\ Lane /\ scene \in Scenes /\ DatesInv /\ WalkInv /\ [Next]_vars
        => DatesInv' /\ WalkInv'
  BY WalkStepInv
<1> QED
  BY <1>1, WalkInitInv, HistoryInvariant, PTL DEF Spec

\* A walk through a listing, or an export, shows every row it owes, once, on
\* either backend, whatever rows come, change or go between its pages (list_runs,
\* list_evaluations and the export of both repositories).
THEOREM WalksAreExact == Spec => WalkIsExact
<1>1. WalkInv => WalkIsComplete
  BY DEF WalkInv, WalkIsComplete
<1>2. HistoryInv /\ Lane /\ scene \in Scenes /\ DatesInv /\ WalkInv /\ [Next]_vars
        => [ReadPage => Page.items \cap walk.seen = {}]_storeVars
  BY WalkStepInv DEF NothingAgain
<1> QED
  BY <1>1, <1>2, WalkInvariant, HistoryInvariant, PTL DEF Spec, WalkIsExact, NoRowTwice

-----------------------------------------------------------------------------
(* Lists of finished tools. *)

Elems(s) == {s[i] : i \in 1..Len(s)}
Distinct(s) == \A i, j \in 1..Len(s) : s[i] = s[j] => i = j

LEMMA InElems == ASSUME NEW s, NEW t PROVE t \in Elems(s) <=> \E i \in 1..Len(s) : s[i] = t
  BY DEF Elems

\* One more at the end.
LEMMA OneMore ==
    ASSUME NEW S, NEW s \in Seq(S), NEW t \in S
    PROVE  /\ Elems(Append(s, t)) = Elems(s) \cup {t}
           /\ Distinct(s) /\ t \notin Elems(s) => Distinct(Append(s, t))
<1>1. /\ Len(Append(s, t)) = Len(s) + 1 /\ Len(s) \in Nat
      /\ \A i \in 1..Len(s) : Append(s, t)[i] = s[i]
      /\ Append(s, t)[Len(s) + 1] = t
  BY AppendProperties
<1> DEFINE u == Append(s, t)
<1> HIDE DEF u
<1>2. \A i : i \in 1..Len(u) <=> i \in 1..Len(s) \/ i = Len(s) + 1
  BY <1>1 DEF u
<1>3. Elems(u) = Elems(s) \cup {t}
  BY <1>1, <1>2 DEF Elems, u
<1>4. Distinct(s) /\ t \notin Elems(s) => Distinct(u)
  BY <1>1, <1>2 DEF Elems, Distinct, u
<1> QED
  BY <1>3, <1>4 DEF u

\* The head, and what is behind it.
LEMMA HeadOut ==
    ASSUME NEW S, NEW q \in Seq(S), q # <<>>
    PROVE  /\ Head(q) \in S /\ Tail(q) \in Seq(S)
           /\ Elems(q) = {Head(q)} \cup Elems(Tail(q))
           /\ Distinct(q) => Distinct(Tail(q)) /\ Head(q) \notin Elems(Tail(q))
<1> DEFINE u == Tail(q)
<1>1. /\ Head(q) = q[1] /\ Head(q) \in S /\ u \in Seq(S) /\ Len(u) = Len(q) - 1
      /\ \A i \in 1..Len(u) : u[i] = q[i + 1]
      /\ Len(q) \in Nat /\ Len(q) >= 1 /\ Len(u) \in Nat
  BY HeadTailProperties
<1> HIDE DEF u
<1>2. \A i : i \in 1..Len(q) <=> i = 1 \/ \E j \in 1..Len(u) : i = j + 1
  <2>1. ASSUME NEW i \in 1..Len(q), i # 1 PROVE i - 1 \in 1..Len(u) /\ i = (i - 1) + 1
    BY <1>1, <2>1
  <2>2. ASSUME NEW j \in 1..Len(u) PROVE j + 1 \in 1..Len(q)
    BY <1>1
  <2>3. 1 \in 1..Len(q)
    BY <1>1
  <2> QED
    BY <2>1, <2>2, <2>3
<1>3. Elems(q) = {Head(q)} \cup Elems(u)
  <2>1. \A j \in 1..Len(u) : u[j] = q[j + 1] /\ j + 1 \in 1..Len(q)
    BY <1>1, <1>2
  <2>2. 1 \in 1..Len(q)
    BY <1>2
  <2>3. \A i \in 1..Len(q) : q[i] = Head(q) \/ \E j \in 1..Len(u) : q[i] = u[j]
    BY <1>1, <1>2, <2>1
  <2>4. ASSUME NEW t \in Elems(q) PROVE t = Head(q) \/ t \in Elems(u)
    <3>1. PICK i \in 1..Len(q) : q[i] = t
      BY InElems
    <3> QED
      BY <2>3, <3>1, InElems
  <2>5. Head(q) \in Elems(q)
    BY <1>1, <2>2, InElems
  <2>6. ASSUME NEW t \in Elems(u) PROVE t \in Elems(q)
    <3>1. PICK j \in 1..Len(u) : u[j] = t
      BY InElems
    <3> QED
      BY <2>1, <3>1, InElems
  <2> QED
    BY <2>4, <2>5, <2>6
<1>4. ASSUME Distinct(q) PROVE Distinct(u) /\ Head(q) \notin Elems(u)
  <2>1. \A i, j \in 1..Len(u) : u[i] = u[j] => i = j
    <3> SUFFICES ASSUME NEW i \in 1..Len(u), NEW j \in 1..Len(u), u[i] = u[j] PROVE i = j
      OBVIOUS
    <3>1. i + 1 \in 1..Len(q) /\ j + 1 \in 1..Len(q) /\ q[i + 1] = q[j + 1]
      BY <1>1, <1>2
    <3>2. i + 1 = j + 1
      BY <1>4, <3>1 DEF Distinct
    <3> QED
      BY <1>1, <3>2
  <2>2. \A i \in 1..Len(u) : u[i] # Head(q)
    <3> SUFFICES ASSUME NEW i \in 1..Len(u), u[i] = Head(q) PROVE FALSE
      OBVIOUS
    <3>1. i + 1 \in 1..Len(q) /\ 1 \in 1..Len(q) /\ q[i + 1] = q[1]
      BY <1>1, <1>2
    <3>2. i + 1 = 1
      BY <1>4, <3>1 DEF Distinct
    <3> QED
      BY <1>1, <3>2
  <2> QED
    BY <2>1, <2>2 DEF Distinct, Elems
<1> QED
  BY <1>1, <1>3, <1>4 DEF u

\* One list after the other.
LEMMA BothLists ==
    ASSUME NEW S, NEW a \in Seq(S), NEW b \in Seq(S)
    PROVE  /\ Elems(a \o b) = Elems(a) \cup Elems(b)
           /\ Distinct(a) /\ Distinct(b) /\ Elems(a) \cap Elems(b) = {} => Distinct(a \o b)
           /\ Len(a) <= Len(a \o b) /\ \A i \in 1..Len(a) : (a \o b)[i] = a[i]
<1> DEFINE c == a \o b
<1>1. /\ Len(c) = Len(a) + Len(b) /\ Len(a) \in Nat /\ Len(b) \in Nat
      /\ \A i \in 1..Len(a) : c[i] = a[i]
      /\ \A i \in Len(a) + 1..Len(a) + Len(b) : c[i] = b[i - Len(a)]
  BY ConcatProperties
<1> HIDE DEF c
<1>2. \A k \in 1..Len(b) : Len(a) + k \in Len(a) + 1..Len(a) + Len(b) /\ c[Len(a) + k] = b[k]
  BY <1>1
<1>3. \A i : i \in 1..Len(c) <=> i \in 1..Len(a) \/ \E k \in 1..Len(b) : i = Len(a) + k
  <2>1. ASSUME NEW i \in 1..Len(c), i \notin 1..Len(a)
        PROVE  i - Len(a) \in 1..Len(b) /\ i = Len(a) + (i - Len(a))
    BY <1>1, <2>1
  <2>2. ASSUME NEW i \in 1..Len(a) PROVE i \in 1..Len(c)
    BY <1>1
  <2>3. ASSUME NEW k \in 1..Len(b) PROVE Len(a) + k \in 1..Len(c)
    BY <1>1
  <2> QED
    BY <2>1, <2>2, <2>3
<1>4. Elems(c) = Elems(a) \cup Elems(b)
  <2>1. ASSUME NEW i \in 1..Len(c)
        PROVE  (i \in 1..Len(a) /\ c[i] = a[i]) \/ \E k \in 1..Len(b) : c[i] = b[k]
    <3>1. CASE i \in 1..Len(a)
      BY <1>1, <3>1
    <3>2. ASSUME NEW k \in 1..Len(b), i = Len(a) + k PROVE c[i] = b[k]
      BY <1>2, <3>2, Zenon
    <3> QED
      BY <1>3, <3>1, <3>2, Zenon
  <2>2. \A i \in 1..Len(a) : i \in 1..Len(c) /\ c[i] = a[i]
    BY <1>1, <1>3
  <2>3. \A k \in 1..Len(b) : Len(a) + k \in 1..Len(c) /\ c[Len(a) + k] = b[k]
    BY <1>2, <1>3
  <2>4. ASSUME NEW t \in Elems(c) PROVE t \in Elems(a) \/ t \in Elems(b)
    <3>1. PICK i \in 1..Len(c) : c[i] = t
      BY InElems
    <3> QED
      BY <2>1, <3>1, InElems
  <2>5. ASSUME NEW t \in Elems(a) PROVE t \in Elems(c)
    <3>1. PICK i \in 1..Len(a) : a[i] = t
      BY InElems
    <3> QED
      BY <2>2, <3>1, InElems
  <2>6. ASSUME NEW t \in Elems(b) PROVE t \in Elems(c)
    <3>1. PICK k \in 1..Len(b) : b[k] = t
      BY InElems
    <3> QED
      BY <2>3, <3>1, InElems
  <2> QED
    BY <2>4, <2>5, <2>6
<1>5. ASSUME Distinct(a), Distinct(b), Elems(a) \cap Elems(b) = {} PROVE Distinct(c)
  <2> SUFFICES ASSUME NEW i \in 1..Len(c), NEW j \in 1..Len(c), c[i] = c[j] PROVE i = j
    BY DEF Distinct
  <2>1. \A k \in 1..Len(a), m \in 1..Len(b) : a[k] # b[m]
    BY <1>5 DEF Elems
  <2>2. CASE i \in 1..Len(a) /\ j \in 1..Len(a)
    BY <1>1, <1>5, <2>2 DEF Distinct
  <2>3. ASSUME NEW k \in 1..Len(b), i = Len(a) + k, NEW m \in 1..Len(b), j = Len(a) + m
        PROVE  i = j
    <3>1. b[k] = b[m]
      BY <1>2, <2>3
    <3>2. k = m
      BY <1>5, <3>1 DEF Distinct
    <3> QED
      BY <2>3, <3>2
  <2>4. CASE i \in 1..Len(a) /\ \E m \in 1..Len(b) : j = Len(a) + m
    BY <1>1, <1>2, <2>1, <2>4
  <2>5. CASE j \in 1..Len(a) /\ \E k \in 1..Len(b) : i = Len(a) + k
    BY <1>1, <1>2, <2>1, <2>5
  <2> QED
    BY <1>3, <2>2, <2>3, <2>4, <2>5
<1>6. Len(a) <= Len(c)
  BY <1>1
<1> QED
  BY <1>1, <1>4, <1>5, <1>6 DEF c

\* Distinct elements are as many as the list is long.
LEMMA DistinctCount ==
    ASSUME NEW S, NEW s \in Seq(S), Distinct(s)
    PROVE  Cardinality({s[k] : k \in DOMAIN s}) = Len(s)
<1> DEFINE T == {s[k] : k \in DOMAIN s}
<1>1. DOMAIN s = 1..Len(s) /\ Len(s) \in Nat
  OBVIOUS
<1>2. s \in [1..Len(s) -> T] /\ \A t \in T : \E k \in 1..Len(s) : s[k] = t
  <2>1. s = [k \in 1..Len(s) |-> s[k]]
    BY <1>1
  <2> QED
    BY <1>1, <2>1
<1>3. s \in Bijection(1..Len(s), T)
  <2>1. s \in Injection(1..Len(s), T)
    BY <1>2 DEF Distinct, Injection, IsInjective
  <2>2. s \in Surjection(1..Len(s), T)
    BY <1>2 DEF Surjection
  <2> QED
    BY <2>1, <2>2 DEF Bijection
<1>4. ExistsBijection(1..Len(s), T)
  <2> HIDE DEF T
  <2> QED
    BY <1>3 DEF ExistsBijection
<1>5. IsFiniteSet(1..Len(s)) /\ Cardinality(1..Len(s)) = Len(s)
  <2>1. \A n \in Nat : IsFiniteSet(1..n) /\ Cardinality(1..n) = IF 1 > n THEN 0 ELSE n - 1 + 1
    BY FS_Interval
  <2> QED
    BY <1>1, <2>1
<1> HIDE DEF T
<1>6. Cardinality(T) = Cardinality(1..Len(s))
  BY <1>4, <1>5, FS_Bijection
<1> QED
  BY <1>5, <1>6 DEF T

-----------------------------------------------------------------------------
(* The story of a run: its row, its transcript and what was heard of it. *)

Streaming == {"agent", "event", "tool"}
Working   == Unmade \cup {"start"} \cup Streaming
Over      == {"error", "complete", "ended"}

Fields(x) == /\ DOMAIN x = DOMAIN IdleRun /\ DOMAIN x.body = DOMAIN EmptyBody
             /\ DOMAIN x.heard = DOMAIN NothingHeard
             /\ x.status \in Terminal

\* A tool that finished is in one place: still recorded by the hook, drained
\* and about to go out, or on the transcript; and in that place once.
Once(x, queue) ==
    /\ x.pending \in Seq(Tools) /\ queue \in Seq(Tools) /\ x.body.tools \in Seq(Tools)
    /\ Distinct(x.pending) /\ Distinct(queue) /\ Distinct(x.body.tools)
    /\ Elems(x.pending) \cap Elems(queue) = {}
    /\ Elems(x.pending) \cap Elems(x.body.tools) = {}
    /\ Elems(queue) \cap Elems(x.body.tools) = {}
    /\ x.finished = Elems(x.pending) \cup Elems(queue) \cup Elems(x.body.tools)

\* What the consumer has heard is what has been accumulated ...
Mirrors(x) == /\ x.heard.text = x.body.text /\ x.heard.metrics = x.body.metrics
              /\ x.heard.guard = x.body.guard

\* ... to the last tool while the run is under way, ...
Hears(x) == /\ Mirrors(x) /\ x.heard.tools = x.body.tools
            /\ x.heard.end = "none" /\ x.status = "completed" /\ x.left = "no"
            /\ x.body.error = FALSE

\* ... and a beginning of it after that.
Opens(short, long) ==
    Len(short) <= Len(long) /\ \A k \in 1..Len(short) : long[k] = short[k]

Story(x) ==
    /\ Fields(x) /\ Once(x, x.drained) /\ Mirrors(x)
    /\ x.heard.tools \in Seq(Tools) /\ Opens(x.heard.tools, x.body.tools)
    /\ x.pc \in Working => Hears(x)
    /\ x.pc = "persist" => x.heard.end = "none"
    /\ x.pc \in {"error", "complete"} \/ x.heard.end # "none" => x.status # "cancelled"
    /\ x.body.error = (x.status = "error")
    /\ x.drained # <<>> => x.pc = "tool" \/ x.status = "cancelled"
    /\ x.pending # <<>> => x.pc \in Streaming /\ ~x.final

\* The fields of what a run accumulates, and of what is heard.
LEMMA BodyFields ==
    /\ DOMAIN EmptyBody = {"text", "tools", "metrics", "guard", "error"}
    /\ DOMAIN NothingHeard = {"text", "tools", "metrics", "guard", "end"}
  BY DEF EmptyBody, NothingHeard

LEMMA NoTools == <<>> \in Seq(Tools) /\ Distinct(<<>>) /\ Elems(<<>>) = {}
<1>1. <<>> \in Seq(Tools) /\ Len(<<>>) = 0
  OBVIOUS
<1>2. 1..Len(<<>>) = {}
  BY <1>1
<1> QED
  BY <1>1, <1>2 DEF Distinct, Elems

\* A run that has not begun.
LEMMA IdleStory == Story(IdleRun)
<1>1. /\ IdleRun.pc = "idle" /\ IdleRun.finished = {} /\ IdleRun.pending = <<>>
      /\ IdleRun.drained = <<>> /\ IdleRun.body = EmptyBody /\ IdleRun.status = "completed"
      /\ IdleRun.left = "no" /\ IdleRun.heard = NothingHeard
  BY DEF IdleRun
<1>2. /\ EmptyBody.text = 0 /\ EmptyBody.tools = <<>> /\ EmptyBody.metrics = FALSE
      /\ EmptyBody.guard = 0 /\ EmptyBody.error = FALSE
      /\ NothingHeard.text = 0 /\ NothingHeard.tools = <<>> /\ NothingHeard.metrics = FALSE
      /\ NothingHeard.guard = 0 /\ NothingHeard.end = "none"
  BY DEF EmptyBody, NothingHeard
<1>3. Opens(<<>>, <<>>)
  BY DEF Opens
<1> HIDE DEF IdleRun, EmptyBody, NothingHeard
<1>4. Fields(IdleRun) /\ Mirrors(IdleRun) /\ Hears(IdleRun)
  BY <1>1, <1>2 DEF Fields, Mirrors, Hears, Terminal
<1>5. Once(IdleRun, <<>>)
  BY <1>1, <1>2, NoTools DEF Once
<1> QED
  BY <1>1, <1>2, <1>3, <1>4, <1>5, NoTools DEF Story

\* A step that leaves everything but the place, the server and the way out.
LEMMA SameStory ==
    ASSUME NEW x, Story(x), NEW y, DOMAIN y = DOMAIN x,
           y.finished = x.finished, y.pending = x.pending, y.drained = x.drained,
           y.body = x.body, y.status = x.status, y.heard = x.heard, y.final = x.final,
           y.pc \in Working => x.pc \in Working /\ y.left = x.left,
           y.pc = "persist" => x.heard.end = "none",
           y.pc \in {"error", "complete"} => x.status # "cancelled",
           y.drained # <<>> => y.pc = "tool" \/ y.status = "cancelled",
           y.pending # <<>> => y.pc \in Streaming
    PROVE  Story(y)
<1>1. Fields(y) /\ Mirrors(y) /\ Once(y, y.drained)
  BY DEF Story, Fields, Mirrors, Once
<1>2. y.pc \in Working => Hears(y)
  BY DEF Story, Hears, Mirrors
<1> QED
  BY <1>1, <1>2 DEF Story

\* The next drained tool goes on the transcript and out.
LEMMA YieldStory ==
    ASSUME NEW y, Fields(y), Hears(y), NEW queue, queue # <<>>, Once(y, queue),
           y.pending # <<>> => ~y.final
    PROVE  Story(YieldTool(y, queue))
<1> DEFINE z == YieldTool(y, queue)
<1>1. /\ DOMAIN z = DOMAIN y /\ z.pc = "tool" /\ z.drained = Tail(queue)
      /\ z.pending = y.pending /\ z.final = y.final /\ z.finished = y.finished
      /\ z.status = y.status /\ z.left = y.left
      /\ z.body = [y.body EXCEPT !.tools = Append(@, Head(queue))]
      /\ z.heard = [y.heard EXCEPT !.tools = Append(@, Head(queue))]
  BY RunFields DEF YieldTool, Fields
<1> HIDE DEF z
<1>2. /\ DOMAIN z.body = DOMAIN EmptyBody /\ DOMAIN z.heard = DOMAIN NothingHeard
      /\ z.body.tools = Append(y.body.tools, Head(queue)) /\ z.heard.tools = z.body.tools
      /\ z.body.text = y.body.text /\ z.body.metrics = y.body.metrics
      /\ z.body.guard = y.body.guard /\ z.body.error = y.body.error
      /\ z.heard.text = y.heard.text /\ z.heard.metrics = y.heard.metrics
      /\ z.heard.guard = y.heard.guard /\ z.heard.end = y.heard.end
  BY <1>1, BodyFields DEF Fields, Hears
<1>3. Fields(z) /\ Hears(z)
  BY <1>1, <1>2 DEF Fields, Hears, Mirrors
<1> DEFINE t == Head(queue)
           rest == Tail(queue)
<1>4. /\ t \in Tools /\ rest \in Seq(Tools) /\ Elems(queue) = {t} \cup Elems(rest)
      /\ Distinct(rest) /\ t \notin Elems(rest)
  BY HeadOut DEF Once
<1> HIDE DEF t, rest
<1>5. /\ z.body.tools \in Seq(Tools) /\ Elems(z.body.tools) = Elems(y.body.tools) \cup {t}
      /\ Distinct(z.body.tools)
  <2>1. y.body.tools \in Seq(Tools) /\ Distinct(y.body.tools) /\ t \notin Elems(y.body.tools)
    BY <1>4 DEF Once
  <2>2. z.body.tools = Append(y.body.tools, t)
    BY <1>2 DEF t
  <2>3. Append(y.body.tools, t) \in Seq(Tools)
    BY <1>4, <2>1
  <2> QED
    BY <1>4, <2>1, <2>2, <2>3, OneMore
<1>6. Once(z, rest)
  BY <1>1, <1>4, <1>5 DEF Once
<1>7. z.drained = rest
  BY <1>1 DEF rest
<1>8. Opens(z.heard.tools, z.body.tools) /\ z.heard.tools \in Seq(Tools)
  <2>1. Len(z.body.tools) \in Nat
    BY <1>5
  <2> QED
    BY <1>2, <1>5, <2>1 DEF Opens
<1>9. Story(z)
  BY <1>1, <1>2, <1>3, <1>6, <1>7, <1>8 DEF Story, Hears, Streaming
<1> QED
  BY <1>9 DEF z

\* The generator drains the finished tools and goes on.
LEMMA DrainStory ==
    ASSUME NEW x, Fields(x), Hears(x), x.drained = <<>>, Once(x, <<>>)
    PROVE  Story(Drain(x))
<1>1. CASE x.pending # <<>>
  <2> DEFINE y == [x EXCEPT !.pending = <<>>]
  <2>1. /\ DOMAIN y = DOMAIN x /\ y.pending = <<>> /\ y.body = x.body /\ y.heard = x.heard
        /\ y.finished = x.finished /\ y.status = x.status /\ y.left = x.left
    BY RunFields DEF Fields
  <2>2. Drain(x) = YieldTool(y, x.pending)
    BY <1>1 DEF Drain
  <2> HIDE DEF y
  <2>3. Fields(y) /\ Hears(y)
    BY <2>1 DEF Fields, Hears, Mirrors
  <2>4. Once(y, x.pending)
    BY <2>1, NoTools DEF Once
  <2> QED
    BY <1>1, <2>1, <2>2, <2>3, <2>4, YieldStory
<1>2. CASE x.pending = <<>>
  <2> DEFINE y == [x EXCEPT !.pc = IF x.final THEN "persist" ELSE "agent"]
  <2>1. /\ DOMAIN y = DOMAIN x /\ y.pending = <<>> /\ y.body = x.body /\ y.heard = x.heard
        /\ y.finished = x.finished /\ y.status = x.status /\ y.left = x.left
        /\ y.drained = <<>> /\ y.pc \in {"persist", "agent"}
    BY <1>2, RunFields DEF Fields
  <2>2. Drain(x) = y
    BY <1>2 DEF Drain
  <2> HIDE DEF y
  <2>3. Fields(y) /\ Hears(y) /\ Once(y, <<>>)
    BY <1>2, <2>1 DEF Fields, Hears, Mirrors, Once
  <2>4. Opens(y.heard.tools, y.body.tools) /\ y.heard.tools \in Seq(Tools)
    <3>1. y.heard.tools = y.body.tools /\ y.body.tools \in Seq(Tools) /\ Len(y.body.tools) \in Nat
      BY <2>3 DEF Hears, Once
    <3> QED
      BY <3>1 DEF Opens
  <2> QED
    BY <2>1, <2>2, <2>3, <2>4 DEF Story, Hears
<1> QED
  BY <1>1, <1>2

\* What is still pending goes on the transcript, in order.
LEMMA SweepStory ==
    ASSUME NEW x, Story(x), x.pc \in Streaming, NEW y, DOMAIN y = DOMAIN x,
           y.pc = "persist", y.status \in {"cancelled", "error"},
           y.status = "error" => x.drained = <<>>,
           y.pending = <<>>, y.drained = x.drained, y.finished = x.finished,
           y.heard = x.heard, DOMAIN y.body = DOMAIN x.body,
           y.body.tools = x.body.tools \o x.pending, y.body.text = x.body.text,
           y.body.metrics = x.body.metrics, y.body.guard = x.body.guard,
           y.body.error = (y.status = "error")
    PROVE  Story(y)
<1>1. Fields(y) /\ Mirrors(y)
  BY DEF Story, Fields, Mirrors, Terminal
<1>2. /\ x.body.tools \in Seq(Tools) /\ x.pending \in Seq(Tools) /\ Distinct(x.body.tools)
      /\ Distinct(x.pending) /\ Elems(x.body.tools) \cap Elems(x.pending) = {}
  BY DEF Story, Once
<1>3. /\ y.body.tools \in Seq(Tools)
      /\ Elems(y.body.tools) = Elems(x.body.tools) \cup Elems(x.pending)
      /\ Distinct(y.body.tools) /\ Opens(x.body.tools, y.body.tools)
  <2> DEFINE a == x.body.tools
             b == x.pending
  <2>1. a \in Seq(Tools) /\ b \in Seq(Tools) /\ y.body.tools = a \o b
        /\ Distinct(a) /\ Distinct(b) /\ Elems(a) \cap Elems(b) = {}
    BY <1>2
  <2> HIDE DEF a, b
  <2>2. a \o b \in Seq(Tools)
    BY <2>1
  <2>3. Elems(a \o b) = Elems(a) \cup Elems(b) /\ Distinct(a \o b)
    BY <2>1, BothLists
  <2>4. Opens(a, a \o b)
    BY <2>1, BothLists DEF Opens
  <2> QED
    BY <2>1, <2>2, <2>3, <2>4 DEF a, b
<1>4. Once(y, y.drained)
  BY <1>3, NoTools DEF Story, Once
<1>5. Hears(x)
  BY DEF Story, Working
<1>6. y.heard.tools = x.body.tools /\ y.heard.end = "none"
  BY <1>5 DEF Hears
<1> QED
  BY <1>1, <1>2, <1>3, <1>4, <1>6 DEF Story, Working, Unmade, Streaming

-----------------------------------------------------------------------------
(* The row of a run that is over tells its story. *)

Recorded(r) ==
    run[r].pc \in Over /\ run[r].left # "start" /\ rows[r] # Absent =>
        rows[r].status = run[r].status /\ rows[r].body = run[r].body

\* Whatever the row of a run says, it lists no tool twice; nor does an item it has
\* had before, or one that is being put back.
SoundRow(row) == /\ DOMAIN row = {"ts", "status", "body"}
                 /\ row.body.tools \in Seq(Tools) /\ Distinct(row.body.tools)

SoundRows == /\ \A r \in RunIds : rows[r] # Absent => SoundRow(rows[r])
             /\ \A r \in RunIds : \A version \in past[r] : SoundRow(version)
             /\ \A r \in NewRuns : inFlight[r] # Absent => SoundRow(inFlight[r])

StoryInv == /\ \A r \in NewRuns : Story(run[r]) /\ Recorded(r)
            /\ SoundRows

\* The rows an earlier process left have no tools on them.
LEMMA StoryInitInv == Init => StoryInv
<1> SUFFICES ASSUME Init PROVE StoryInv
  OBVIOUS
<1>1. /\ inFlight = [i \in Ids |-> Absent] /\ run = [r \in NewRuns |-> IdleRun]
      /\ past = [i \in Ids |-> {}]
  BY DEF Init
<1>2. PICK old \in [scene.old -> OldRow] :
          rows = [i \in Ids |-> IF i \in scene.old THEN old[i] ELSE Absent]
  BY DEF Init
<1>3. NewRuns \subseteq Ids /\ RunIds \subseteq Ids
  BY EngineAssumption DEF Ids
<1>4. \A row \in OldRow : SoundRow(row)
  <2>1. EmptyBody.tools = <<>>
    BY DEF EmptyBody
  <2> HIDE DEF EmptyBody
  <2> QED
    BY <2>1, NoTools DEF OldRow, SoundRow
<1>5. \A r \in NewRuns : Story(run[r])
  BY <1>1, IdleStory
<1>6. \A r \in NewRuns : Recorded(r)
  <2>1. IdleRun.pc = "idle"
    BY DEF IdleRun
  <2> HIDE DEF IdleRun
  <2> QED
    BY <1>1, <2>1 DEF Recorded, Over
<1>7. SoundRows
  BY <1>1, <1>2, <1>3, <1>4 DEF SoundRows
<1> QED
  BY <1>5, <1>6, <1>7 DEF StoryInv

\* What a row was before is as sound as it was then.
LEMMA PastIsSound ==
    ASSUME HistoryInv, StoryInv, NEW i \in Ids, NEW row, SetRow(i, row)
    PROVE  \A r \in RunIds : \A version \in past'[r] : SoundRow(version)
<1>1. RunIds \subseteq Ids
  BY DEF Ids
<1>2. /\ \A j \in Ids : j # i => past'[j] = past[j]
      /\ past'[i] \subseteq past[i] \cup {rows[i]}
      /\ rows[i] = Absent => past' = past
  BY PastGrows DEF HistoryInv, Shapes
<1>3. /\ \A r \in RunIds : rows[r] # Absent => SoundRow(rows[r])
      /\ \A r \in RunIds : \A version \in past[r] : SoundRow(version)
  BY DEF StoryInv, SoundRows
<1> QED
  BY <1>1, <1>2, <1>3

\* A run moves on without the table.
Passes(r, x) ==
    /\ UNCHANGED storeVars
    /\ run' = [run EXCEPT ![r] = x]
    /\ Story(x)
    /\ x.pc \in Over /\ x.left # "start" =>
          /\ run[r].pc \in Over /\ run[r].left # "start"
          /\ x.status = run[r].status /\ x.body = run[r].body

LEMMA PassesKeep ==
    ASSUME HistoryInv, StoryInv, NEW r \in NewRuns, NEW x, Passes(r, x)
    PROVE  StoryInv'
<1>1. \A q \in NewRuns : run'[q] = IF q = r THEN x ELSE run[q]
  BY DEF Passes, HistoryInv, Shapes
<1>2. ASSUME NEW q \in NewRuns PROVE Story(run'[q]) /\ Recorded(q)'
  <2>1. Story(run[q]) /\ Recorded(q) /\ rows' = rows
    BY DEF StoryInv, Passes, storeVars
  <2>2. CASE q # r
    BY <1>1, <2>1, <2>2 DEF Recorded
  <2>3. CASE q = r
    BY <1>1, <2>1, <2>3 DEF Recorded, Passes
  <2> QED
    BY <2>2, <2>3
<1>3. SoundRows'
  BY DEF StoryInv, SoundRows, Passes, storeVars
<1> QED
  BY <1>2, <1>3 DEF StoryInv

\* A run before its row, and its generator between two writes.
LEMMA RunsTell ==
    ASSUME HistoryInv, StoryInv, NEW r \in NewRuns,
           \/ Refuse(r) \/ ResolveItem(r) \/ ResolveSecret(r) \/ LeaveAtStart(r) \/ Begin(r)
           \/ \E t \in Tools : ToolFinishes(r, t)
           \/ \E raw \in Raws : RawEvent(r, raw)
           \/ AfterEvent(r) \/ NextTool(r) \/ StreamEnds(r) \/ Fail(r) \/ Cancel(r)
           \/ PersistMissing(r) \/ AfterError(r) \/ Finish(r)
    PROVE  StoryInv'
<1>1. Story(run[r]) /\ DOMAIN run[r] = DOMAIN IdleRun
  BY DEF StoryInv, Story, Fields
<1>story. /\ run[r].pc \in Working => /\ run[r].heard.end = "none" /\ run[r].status = "completed"
                                    /\ run[r].left = "no"
          /\ run[r].pc = "persist" => run[r].heard.end = "none"
          /\ run[r].pc \in {"error", "complete"} => run[r].status # "cancelled"
          /\ run[r].drained # <<>> => run[r].pc = "tool" \/ run[r].status = "cancelled"
          /\ run[r].pending # <<>> => run[r].pc \in Streaming /\ ~run[r].final
  BY <1>1 DEF Story, Hears
<1> USE RunFields
<1>2. CASE Refuse(r)
  <2> DEFINE x == [run[r] EXCEPT !.pc = "refused"]
  <2>1. /\ DOMAIN x = DOMAIN run[r] /\ x.pc = "refused" /\ x.finished = run[r].finished
        /\ x.pending = run[r].pending /\ x.drained = run[r].drained /\ x.body = run[r].body
        /\ x.status = run[r].status /\ x.heard = run[r].heard /\ x.final = run[r].final
        /\ x.left = run[r].left
    BY <1>1
  <2>2. /\ run' = [run EXCEPT ![r] = x] /\ UNCHANGED storeVars
        /\ run[r].pc \in {"idle", "secret"}
    BY <1>2 DEF Refuse, Become, Stay
  <2> HIDE DEF x
  <2>3. Story(x)
    BY <1>1, <2>1, <2>2, <1>story, SameStory DEF Working, Unmade, Streaming
  <2> QED
    BY <2>1, <2>2, <2>3, PassesKeep DEF Passes, Over
<1>3. ASSUME NEW server, NEW pc \in {"secret", "resolved"}, run[r].pc \in {"idle", "secret"},
             UNCHANGED storeVars,
             run' = [run EXCEPT ![r] = [run[r] EXCEPT !.pc = pc, !.server = server]]
      PROVE  StoryInv'
  <2> DEFINE x == [run[r] EXCEPT !.pc = pc, !.server = server]
  <2>1. /\ DOMAIN x = DOMAIN run[r] /\ x.pc = pc /\ x.finished = run[r].finished
        /\ x.pending = run[r].pending /\ x.drained = run[r].drained /\ x.body = run[r].body
        /\ x.status = run[r].status /\ x.heard = run[r].heard /\ x.final = run[r].final
        /\ x.left = run[r].left
    BY <1>1
  <2>2. run' = [run EXCEPT ![r] = x]
    BY <1>3
  <2> HIDE DEF x
  <2>3. Story(x)
    BY <1>1, <1>3, <2>1, <1>story, SameStory DEF Working, Unmade, Streaming
  <2> QED
    BY <1>3, <2>1, <2>2, <2>3, PassesKeep DEF Passes, Over
<1>4. CASE ResolveItem(r)
  BY <1>3, <1>4 DEF ResolveItem, Become, Stay
<1>5. CASE ResolveSecret(r)
  <2> DEFINE server == [url |-> run[r].server.url, headers |-> SavedHeaders(run[r].server)]
  <2>1. /\ run[r].pc = "secret" /\ UNCHANGED storeVars
        /\ run' = [run EXCEPT ![r] = [run[r] EXCEPT !.pc = "resolved", !.server = server]]
    BY <1>5 DEF ResolveSecret, Become, Stay
  <2> HIDE DEF server
  <2> QED
    BY <1>3, <2>1
<1>6. CASE LeaveAtStart(r)
  <2> DEFINE x == [run[r] EXCEPT !.pc = "ended", !.left = "start"]
  <2>1. /\ DOMAIN x = DOMAIN run[r] /\ x.pc = "ended" /\ x.finished = run[r].finished
        /\ x.pending = run[r].pending /\ x.drained = run[r].drained /\ x.body = run[r].body
        /\ x.status = run[r].status /\ x.heard = run[r].heard /\ x.final = run[r].final
        /\ x.left = "start"
    BY <1>1
  <2>2. run' = [run EXCEPT ![r] = x] /\ UNCHANGED storeVars /\ run[r].pc = "start"
    BY <1>6 DEF LeaveAtStart, Become, Stay
  <2> HIDE DEF x
  <2>3. Story(x)
    BY <1>1, <2>1, <2>2, <1>story, SameStory DEF Working, Unmade, Streaming
  <2> QED
    BY <2>1, <2>2, <2>3, PassesKeep DEF Passes
<1>7. ASSUME NEW pc \in {"agent", "broken", "ended"}, UNCHANGED storeVars,
             run' = [run EXCEPT ![r] = [run[r] EXCEPT !.pc = pc]],
             pc = "agent" => run[r].pc = "start",
             pc = "broken" => run[r].pc = "persist",
             pc = "ended" => run[r].pc \in {"error", "complete"}
      PROVE  StoryInv'
  <2> DEFINE x == [run[r] EXCEPT !.pc = pc]
  <2>1. /\ DOMAIN x = DOMAIN run[r] /\ x.pc = pc /\ x.finished = run[r].finished
        /\ x.pending = run[r].pending /\ x.drained = run[r].drained /\ x.body = run[r].body
        /\ x.status = run[r].status /\ x.heard = run[r].heard /\ x.final = run[r].final
        /\ x.left = run[r].left
    BY <1>1
  <2>2. run' = [run EXCEPT ![r] = x]
    BY <1>7
  <2> HIDE DEF x
  <2>3. Story(x)
    BY <1>1, <1>7, <2>1, <1>story, SameStory DEF Working, Unmade, Streaming
  <2> QED
    BY <1>7, <2>1, <2>2, <2>3, PassesKeep DEF Passes, Over
<1>8. CASE Begin(r)
  BY <1>7, <1>8 DEF Begin, Become, Stay
<1>9. CASE PersistMissing(r)
  BY <1>7, <1>9 DEF PersistMissing, UpdateMissing, Become
<1>10. CASE Finish(r)
  BY <1>7, <1>10 DEF Finish, Become, Stay
<1>11. ASSUME NEW t \in Tools, ToolFinishes(r, t) PROVE StoryInv'
  <2> DEFINE x == [run[r] EXCEPT !.pending = Append(@, t), !.finished = @ \cup {t}]
  <2>1. /\ DOMAIN x = DOMAIN run[r] /\ x.pc = run[r].pc /\ x.drained = run[r].drained
        /\ x.pending = Append(run[r].pending, t) /\ x.finished = run[r].finished \cup {t}
        /\ x.body = run[r].body /\ x.heard = run[r].heard
        /\ x.status = run[r].status /\ x.final = run[r].final /\ x.left = run[r].left
    BY <1>1
  <2>2. /\ UNCHANGED storeVars /\ run' = [run EXCEPT ![r] = x]
        /\ run[r].pc \in Streaming /\ ~run[r].final /\ t \notin run[r].finished
    BY <1>11 DEF ToolFinishes, Become, Stay, Streaming
  <2> HIDE DEF x
  <2>3. Once(x, x.drained)
    <3>1. /\ run[r].pending \in Seq(Tools) /\ Distinct(run[r].pending)
          /\ t \notin Elems(run[r].pending)
      BY <1>1, <2>2 DEF Story, Once
    <3>2. /\ Elems(x.pending) = Elems(run[r].pending) \cup {t} /\ Distinct(x.pending)
          /\ x.pending \in Seq(Tools)
      <4>1. Append(run[r].pending, t) \in Seq(Tools)
        BY <3>1
      <4> QED
        BY <2>1, <3>1, <4>1, OneMore
    <3> QED
      BY <1>1, <2>1, <2>2, <3>2 DEF Story, Once
  <2>4. Fields(x) /\ Mirrors(x) /\ (Hears(run[r]) => Hears(x))
    BY <1>1, <2>1 DEF Story, Fields, Mirrors, Hears
  <2>5. Story(x)
    BY <1>1, <2>1, <2>2, <2>3, <2>4 DEF Story
  <2> QED
    BY <2>1, <2>2, <2>5, PassesKeep DEF Passes, Over, Streaming
<1>12. ASSUME NEW raw \in Raws, RawEvent(r, raw) PROVE StoryInv'
  <2> DEFINE event == EventOf(raw)
             y == [run[r] EXCEPT !.raws = @ + 1]
             z == [y EXCEPT !.pc = "event", !.body = Accumulate(@, event), !.heard = Hear(@, event)]
  <2>1. UNCHANGED storeVars /\ run[r].pc = "agent"
    BY <1>12 DEF RawEvent, Stay
  <2>2. run' = [run EXCEPT ![r] = IF event = "none" THEN Drain(y) ELSE z]
    BY <1>12 DEF RawEvent, Become
  <2>3. /\ DOMAIN y = DOMAIN run[r] /\ y.pc = "agent" /\ y.finished = run[r].finished
        /\ y.pending = run[r].pending /\ y.drained = run[r].drained /\ y.body = run[r].body
        /\ y.status = run[r].status /\ y.heard = run[r].heard /\ y.final = run[r].final
        /\ y.left = run[r].left
    BY <1>1, <2>1
  <2> HIDE DEF event, y
  <2>4. Story(y)
    BY <1>1, <2>1, <2>3, <1>story, SameStory DEF Working, Streaming
  <2>5. /\ DOMAIN z = DOMAIN y /\ z.pc = "event" /\ z.finished = y.finished
        /\ z.pending = y.pending /\ z.drained = y.drained
        /\ z.body = Accumulate(y.body, event) /\ z.heard = Hear(y.heard, event)
        /\ z.status = y.status /\ z.final = y.final /\ z.left = y.left
    BY <1>1, <2>3
  <2> HIDE DEF z
  <2>6. CASE event = "none"
    <3>1. Fields(y) /\ Hears(y) /\ y.drained = <<>> /\ Once(y, <<>>)
      BY <2>3, <2>4 DEF Story, Working, Streaming, Hears
    <3>2. Story(Drain(y)) /\ Drain(y).pc \in {"tool", "persist", "agent"}
      BY <3>1, DrainStory, Drains DEF Fields
    <3> HIDE DEF Story
    <3> QED
      BY <2>1, <2>2, <2>6, <3>2, PassesKeep DEF Passes, Over
  <2>7. CASE event # "none"
    <3>1. /\ DOMAIN z.body = DOMAIN EmptyBody /\ DOMAIN z.heard = DOMAIN NothingHeard
          /\ z.body.tools = y.body.tools /\ z.heard.tools = y.heard.tools
          /\ z.body.error = y.body.error /\ z.heard.end = y.heard.end /\ Mirrors(z)
      <4>1. /\ DOMAIN y.body = DOMAIN EmptyBody /\ DOMAIN y.heard = DOMAIN NothingHeard
            /\ y.heard.text = y.body.text /\ y.heard.metrics = y.body.metrics
            /\ y.heard.guard = y.body.guard
        BY <2>4 DEF Story, Fields, Mirrors
      <4> DEFINE b == y.body
                 h == y.heard
      <4> HIDE DEF b, h
      <4>2. /\ DOMAIN b = DOMAIN EmptyBody /\ DOMAIN h = DOMAIN NothingHeard
            /\ h.text = b.text /\ h.metrics = b.metrics /\ h.guard = b.guard
            /\ z.body = Accumulate(b, event) /\ z.heard = Hear(h, event)
        BY <2>5, <4>1 DEF b, h
      <4>3. /\ DOMAIN z.body = DOMAIN b /\ z.body.tools = b.tools /\ z.body.error = b.error
            /\ DOMAIN z.heard = DOMAIN h /\ z.heard.tools = h.tools /\ z.heard.end = h.end
        <5>1. CASE event = "text_delta"
          BY <4>2, <5>1, BodyFields DEF Accumulate, Hear
        <5>2. CASE event = "metrics"
          BY <4>2, <5>2, BodyFields DEF Accumulate, Hear
        <5>3. CASE event = "guardrail_trace"
          BY <4>2, <5>3, BodyFields DEF Accumulate, Hear
        <5>4. CASE event \notin {"text_delta", "metrics", "guardrail_trace"}
          BY <4>2, <5>4 DEF Accumulate, Hear
        <5> QED
          BY <5>1, <5>2, <5>3, <5>4
      <4>4. Mirrors(z)
        <5>1. CASE event = "text_delta"
          BY <4>2, <5>1, BodyFields DEF Mirrors, Accumulate, Hear
        <5>2. CASE event = "metrics"
          BY <4>2, <5>2, BodyFields DEF Mirrors, Accumulate, Hear
        <5>3. CASE event = "guardrail_trace"
          BY <4>2, <5>3, BodyFields DEF Mirrors, Accumulate, Hear
        <5>4. CASE event \notin {"text_delta", "metrics", "guardrail_trace"}
          BY <4>2, <5>4 DEF Mirrors, Accumulate, Hear
        <5> QED
          BY <5>1, <5>2, <5>3, <5>4
      <4> QED
        BY <4>2, <4>3, <4>4 DEF b, h
    <3>2. Fields(z) /\ Once(z, z.drained) /\ Hears(z)
      BY <2>3, <2>4, <2>5, <3>1 DEF Story, Fields, Once, Hears, Working, Streaming
    <3>3. Story(z)
      BY <2>3, <2>4, <2>5, <3>1, <3>2 DEF Story, Streaming
    <3> HIDE DEF Story
    <3> QED
      BY <2>1, <2>2, <2>5, <2>7, <3>3, PassesKeep DEF Passes, Over
  <2> QED
    BY <2>6, <2>7
<1>13. CASE AfterEvent(r)
  <2>1. UNCHANGED storeVars /\ run[r].pc = "event" /\ run' = [run EXCEPT ![r] = Drain(run[r])]
    BY <1>13 DEF AfterEvent, Become, Stay
  <2>2. Fields(run[r]) /\ Hears(run[r]) /\ run[r].drained = <<>> /\ Once(run[r], <<>>)
    BY <1>1, <2>1 DEF Story, Working, Streaming, Hears
  <2>3. Story(Drain(run[r])) /\ Drain(run[r]).pc \in {"tool", "persist", "agent"}
    BY <2>2, DrainStory, Drains DEF Fields
  <2> HIDE DEF Story
  <2> QED
    BY <2>1, <2>3, PassesKeep DEF Passes, Over
<1>14. CASE NextTool(r)
  <2> DEFINE y == YieldTool(run[r], run[r].drained)
             z == [run[r] EXCEPT !.pc = IF run[r].final THEN "persist" ELSE "agent"]
  <2>1. /\ UNCHANGED storeVars /\ run[r].pc = "tool"
        /\ run' = [run EXCEPT ![r] = IF run[r].drained # <<>> THEN y ELSE z]
    BY <1>14 DEF NextTool, Become, Stay
  <2>2. y.pc = "tool"
    BY <1>1 DEF YieldTool
  <2>3. Hears(run[r])
    BY <1>1, <2>1 DEF Story, Working, Streaming
  <2>4. CASE run[r].drained # <<>>
    <3>1. Story(y)
      BY <1>1, <2>3, <2>4, YieldStory DEF Story
    <3> HIDE DEF y, Story
    <3> QED
      BY <2>1, <2>2, <2>4, <3>1, PassesKeep DEF Passes, Over
  <2>5. CASE run[r].drained = <<>>
    <3>1. /\ DOMAIN z = DOMAIN run[r] /\ z.pc \in {"persist", "agent"}
          /\ (z.pc = "persist" => run[r].final) /\ z.finished = run[r].finished
          /\ z.pending = run[r].pending /\ z.drained = run[r].drained /\ z.body = run[r].body
          /\ z.status = run[r].status /\ z.heard = run[r].heard /\ z.final = run[r].final
          /\ z.left = run[r].left
      BY <1>1
    <3> HIDE DEF z
    <3>2. z.pending # <<>> => z.pc \in Streaming
      BY <1>1, <3>1 DEF Story, Streaming
    <3>3. Story(z)
      BY <1>1, <2>1, <2>3, <2>5, <3>1, <3>2, SameStory DEF Hears, Working, Streaming
    <3> HIDE DEF Story
    <3> QED
      BY <2>1, <2>5, <3>1, <3>3, PassesKeep DEF Passes, Over
  <2> QED
    BY <2>4, <2>5
<1>15. CASE StreamEnds(r)
  <2> DEFINE y == [run[r] EXCEPT !.final = TRUE]
  <2>1. UNCHANGED storeVars /\ run' = [run EXCEPT ![r] = Drain(y)] /\ run[r].pc = "agent"
    BY <1>15 DEF StreamEnds, Become, Stay
  <2>2. /\ DOMAIN y = DOMAIN run[r] /\ y.finished = run[r].finished
        /\ y.pending = run[r].pending /\ y.drained = run[r].drained /\ y.body = run[r].body
        /\ y.status = run[r].status /\ y.heard = run[r].heard /\ y.left = run[r].left
    BY <1>1
  <2> HIDE DEF y
  <2>3. Fields(y) /\ Hears(y) /\ y.drained = <<>> /\ Once(y, <<>>)
    BY <1>1, <2>1, <2>2 DEF Story, Fields, Mirrors, Once, Working, Streaming, Hears
  <2>4. Story(Drain(y)) /\ Drain(y).pc \in {"tool", "persist", "agent"}
    BY <2>3, DrainStory, Drains DEF Fields
  <2> HIDE DEF Story
  <2> QED
    BY <2>1, <2>4, PassesKeep DEF Passes, Over
<1>16. CASE Fail(r)
  <2> DEFINE x == [run[r] EXCEPT !.pc = "persist", !.status = "error", !.pending = <<>>,
                                !.body.error = TRUE, !.body.tools = @ \o run[r].pending]
  <2>1. /\ DOMAIN x = DOMAIN run[r] /\ x.pc = "persist" /\ x.status = "error"
        /\ x.pending = <<>> /\ x.drained = run[r].drained /\ x.finished = run[r].finished
        /\ x.heard = run[r].heard
        /\ x.body = [run[r].body EXCEPT !.error = TRUE, !.tools = @ \o run[r].pending]
    BY <1>1
  <2>2. UNCHANGED storeVars /\ run' = [run EXCEPT ![r] = x] /\ run[r].pc = "agent"
    BY <1>16 DEF Fail, Become, Stay
  <2> HIDE DEF x
  <2>3. /\ DOMAIN x.body = DOMAIN run[r].body /\ x.body.error = TRUE
        /\ x.body.tools = run[r].body.tools \o run[r].pending /\ x.body.text = run[r].body.text
        /\ x.body.metrics = run[r].body.metrics /\ x.body.guard = run[r].body.guard
    BY <1>1, <2>1, BodyFields DEF Story, Fields
  <2>4. run[r].drained = <<>>
    BY <1>1, <2>2 DEF Story, Working, Streaming, Hears
  <2>5. Story(x)
    BY <1>1, <2>1, <2>2, <2>3, <2>4, SweepStory DEF Streaming
  <2> HIDE DEF Story
  <2> QED
    BY <2>1, <2>2, <2>5, PassesKeep DEF Passes, Over
<1>17. CASE Cancel(r)
  <2> DEFINE x == [run[r] EXCEPT !.pc = "persist", !.status = "cancelled", !.left = "body",
                                !.pending = <<>>, !.body.tools = @ \o run[r].pending]
  <2>1. /\ DOMAIN x = DOMAIN run[r] /\ x.pc = "persist" /\ x.status = "cancelled"
        /\ x.pending = <<>> /\ x.drained = run[r].drained /\ x.finished = run[r].finished
        /\ x.heard = run[r].heard
        /\ x.body = [run[r].body EXCEPT !.tools = @ \o run[r].pending]
    BY <1>1
  <2>2. UNCHANGED storeVars /\ run' = [run EXCEPT ![r] = x] /\ run[r].pc \in Streaming
    BY <1>17 DEF Cancel, Become, Stay, Streaming
  <2> HIDE DEF x
  <2>3. run[r].body.error = FALSE
    BY <1>1, <2>2 DEF Story, Working, Hears
  <2>4. /\ DOMAIN x.body = DOMAIN run[r].body /\ x.body.error = FALSE
        /\ x.body.tools = run[r].body.tools \o run[r].pending /\ x.body.text = run[r].body.text
        /\ x.body.metrics = run[r].body.metrics /\ x.body.guard = run[r].body.guard
    BY <1>1, <2>1, <2>3, BodyFields DEF Story, Fields
  <2>5. Story(x)
    BY <1>1, <2>1, <2>2, <2>4, SweepStory
  <2> HIDE DEF Story
  <2> QED
    BY <2>1, <2>2, <2>5, PassesKeep DEF Passes, Over
<1>18. CASE AfterError(r)
  <2> DEFINE x == [run[r] EXCEPT !.pc = "complete", !.heard.end = "complete"]
  <2>1. /\ DOMAIN x = DOMAIN run[r] /\ x.pc = "complete" /\ x.status = run[r].status
        /\ x.pending = run[r].pending /\ x.drained = run[r].drained
        /\ x.finished = run[r].finished /\ x.body = run[r].body /\ x.left = run[r].left
        /\ x.heard = [run[r].heard EXCEPT !.end = "complete"]
    BY <1>1
  <2>2. UNCHANGED storeVars /\ run' = [run EXCEPT ![r] = x] /\ run[r].pc = "error"
    BY <1>18 DEF AfterError, Become, Stay
  <2> HIDE DEF x
  <2>3. Story(x)
    <3>1. /\ DOMAIN x.heard = DOMAIN run[r].heard /\ x.heard.end = "complete"
          /\ x.heard.tools = run[r].heard.tools /\ x.heard.text = run[r].heard.text
          /\ x.heard.metrics = run[r].heard.metrics /\ x.heard.guard = run[r].heard.guard
      BY <1>1, <2>1, BodyFields DEF Story, Fields
    <3>2. Fields(x) /\ Mirrors(x) /\ Once(x, x.drained)
      BY <1>1, <2>1, <3>1 DEF Story, Fields, Mirrors, Once
    <3> QED
      BY <1>1, <2>1, <2>2, <3>1, <3>2 DEF Story, Working, Unmade, Streaming
  <2> HIDE DEF Story
  <2> QED
    BY <2>1, <2>2, <2>3, PassesKeep DEF Passes, Over
<1> QED
  BY <1>2, <1>4, <1>5, <1>6, <1>8, <1>9, <1>10, <1>11, <1>12, <1>13, <1>14, <1>15, <1>16, <1>17, <1>18

\* A run is made with an empty row.
LEMMA CreateTells ==
    ASSUME HistoryInv, StoryInv, NEW r \in NewRuns, NEW ts \in Times, CreateRun(r, ts)
    PROVE  StoryInv'
<1> DEFINE x == [run[r] EXCEPT !.pc = "start"]
           row == NewRow(ts, "running", EmptyBody)
<1>1. /\ rows' = [rows EXCEPT ![r] = row] /\ UNCHANGED inFlight
      /\ run[r].pc \in {"idle", "resolved"} /\ run' = [run EXCEPT ![r] = x]
  BY DEF CreateRun, InsertRow, PutRow, SetRow, Become
<1>2. Story(run[r]) /\ DOMAIN run[r] = DOMAIN IdleRun
  BY DEF StoryInv, Story, Fields
<1>3. /\ DOMAIN x = DOMAIN run[r] /\ x.pc = "start" /\ x.finished = run[r].finished
      /\ x.pending = run[r].pending /\ x.drained = run[r].drained /\ x.body = run[r].body
      /\ x.status = run[r].status /\ x.heard = run[r].heard /\ x.final = run[r].final
      /\ x.left = run[r].left
  BY <1>2, RunFields
<1>4. SoundRow(row)
  <2>1. EmptyBody.tools = <<>>
    BY DEF EmptyBody
  <2> HIDE DEF EmptyBody
  <2> QED
    BY <2>1, NoTools DEF NewRow, SoundRow
<1> HIDE DEF x, row
<1>5. Story(x)
  <2>1. /\ run[r].drained # <<>> => run[r].pc = "tool" \/ run[r].status = "cancelled"
        /\ run[r].pending # <<>> => run[r].pc \in Streaming
        /\ run[r].pc \in Working
    BY <1>1, <1>2 DEF Story, Working, Unmade
  <2> QED
    BY <1>1, <1>2, <1>3, <2>1, SameStory DEF Streaming
<1>6. /\ \A i \in Ids : rows'[i] = IF i = r THEN row ELSE rows[i]
      /\ \A q \in NewRuns : run'[q] = IF q = r THEN x ELSE run[q]
  BY <1>1 DEF HistoryInv, Shapes
<1>7. NewRuns \subseteq Ids /\ RunIds \subseteq Ids
  BY EngineAssumption DEF Ids
<1>8. ASSUME NEW q \in NewRuns PROVE Story(run'[q]) /\ Recorded(q)'
  <2>1. CASE q = r
    BY <1>3, <1>5, <1>6, <2>1 DEF Recorded, Over
  <2>2. CASE q # r
    BY <1>6, <1>7, <2>2 DEF StoryInv, Recorded
  <2> QED
    BY <2>1, <2>2
<1>10. \A q \in RunIds : \A version \in past'[q] : SoundRow(version)
  BY <1>7, PastIsSound DEF CreateRun, InsertRow, PutRow
<1>9. SoundRows'
  BY <1>1, <1>4, <1>6, <1>7, <1>10 DEF StoryInv, SoundRows
<1> QED
  BY <1>8, <1>9 DEF StoryInv

\* The row is settled with the run's outcome and everything it accumulated.
LEMMA PersistTells ==
    ASSUME HistoryInv, StoryInv, NEW r \in NewRuns, Persist(r)
    PROVE  StoryInv'
<1> DEFINE x == Persisted(run[r])
<1>1. Story(run[r]) /\ run[r].pc = "persist" /\ run' = [run EXCEPT ![r] = x]
  BY DEF StoryInv, Persist, Become
<1>2. DOMAIN run[r] = DOMAIN IdleRun /\ run[r].status \in Terminal
  BY <1>1 DEF Story, Fields
<1>3. /\ DOMAIN x = DOMAIN run[r] /\ x.finished = run[r].finished
      /\ x.pending = run[r].pending /\ x.drained = run[r].drained /\ x.body = run[r].body
      /\ x.status = run[r].status /\ x.final = run[r].final
      /\ \/ x.status = "cancelled" /\ x.pc = "ended" /\ x.heard = run[r].heard
         \/ /\ x.status # "cancelled" /\ x.pc \in {"error", "complete"}
            /\ \E end \in {"error", "complete"} : x.heard = [run[r].heard EXCEPT !.end = end]
  <2>1. CASE run[r].status = "cancelled"
    BY <1>2, <2>1, RunFields DEF Persisted
  <2>2. CASE run[r].status = "error"
    BY <1>2, <2>2, RunFields DEF Persisted
  <2>3. CASE run[r].status = "completed"
    BY <1>2, <2>3, RunFields DEF Persisted
  <2> QED
    BY <1>2, <2>1, <2>2, <2>3 DEF Terminal
<1> HIDE DEF x
<1>4. Story(x)
  <2>1. /\ DOMAIN x.heard = DOMAIN run[r].heard /\ x.heard.tools = run[r].heard.tools
        /\ x.heard.text = run[r].heard.text /\ x.heard.metrics = run[r].heard.metrics
        /\ x.heard.guard = run[r].heard.guard
        /\ x.status = "cancelled" => x.heard.end = run[r].heard.end
    BY <1>1, <1>3, BodyFields DEF Story, Fields
  <2>2. Fields(x) /\ Mirrors(x) /\ Once(x, x.drained)
    BY <1>1, <1>3, <2>1 DEF Story, Fields, Mirrors, Once
  <2> QED
    BY <1>1, <1>3, <2>1, <2>2 DEF Story, Working, Unmade, Streaming
<1>5. NewRuns \subseteq Ids /\ RunIds \subseteq Ids /\ r \in RunIds
  BY EngineAssumption DEF Ids
<1>6. PICK row :
        /\ rows' = [rows EXCEPT ![r] = row]
        /\ row.status = run[r].status /\ row.body = run[r].body
        /\ DOMAIN row = {"ts", "status", "body"}
        /\ UNCHANGED inFlight \/ inFlight' = [inFlight EXCEPT ![r] = Absent]
  <2>1. ASSUME NEW old, SoundRow(old)
        PROVE  /\ Assigned(old, run[r].status, run[r].body).status = run[r].status
               /\ Assigned(old, run[r].status, run[r].body).body = run[r].body
               /\ DOMAIN Assigned(old, run[r].status, run[r].body) = {"ts", "status", "body"}
    BY <2>1 DEF SoundRow, Assigned
  <2>2. CASE UpdateSqlite(r, run[r].status, run[r].body)
    <3> DEFINE a == Assigned(rows[r], run[r].status, run[r].body)
    <3>1. rows' = [rows EXCEPT ![r] = a] /\ rows[r] # Absent /\ UNCHANGED inFlight
      BY <2>2 DEF UpdateSqlite, SetRow
    <3>2. SoundRow(rows[r])
      BY <1>5, <3>1 DEF StoryInv, SoundRows
    <3>3. /\ a.status = run[r].status /\ a.body = run[r].body
          /\ DOMAIN a = {"ts", "status", "body"}
      BY <2>1, <3>2
    <3> HIDE DEF a
    <3> QED
      BY <3>1, <3>3
  <2>3. CASE UpdatePut(r, run[r].status, run[r].body)
    <3> DEFINE b == Assigned(inFlight[r], run[r].status, run[r].body)
    <3>1. /\ rows' = [rows EXCEPT ![r] = b] /\ inFlight[r] # Absent
          /\ inFlight' = [inFlight EXCEPT ![r] = Absent]
      BY <2>3 DEF UpdatePut, SetRow
    <3>2. SoundRow(inFlight[r])
      BY <3>1 DEF StoryInv, SoundRows
    <3>3. /\ b.status = run[r].status /\ b.body = run[r].body
          /\ DOMAIN b = {"ts", "status", "body"}
      BY <2>1, <3>2
    <3> HIDE DEF b
    <3> QED
      BY <3>1, <3>3
  <2> QED
    BY <2>2, <2>3 DEF Persist
<1>7. /\ \A i \in Ids : rows'[i] = IF i = r THEN row ELSE rows[i]
      /\ \A q \in NewRuns : run'[q] = IF q = r THEN x ELSE run[q]
      /\ \A i \in Ids : inFlight'[i] = inFlight[i] \/ inFlight'[i] = Absent
  <2>1. DOMAIN rows = Ids /\ DOMAIN inFlight = Ids /\ DOMAIN run = NewRuns
    BY DEF HistoryInv, Shapes
  <2>2. \A i \in Ids : rows'[i] = IF i = r THEN row ELSE rows[i]
    BY <1>6, <2>1
  <2>3. \A q \in NewRuns : run'[q] = IF q = r THEN x ELSE run[q]
    BY <1>1, <2>1
  <2>4. \A i \in Ids : inFlight'[i] = inFlight[i] \/ inFlight'[i] = Absent
    BY <1>6, <2>1
  <2> QED
    BY <2>2, <2>3, <2>4
<1>8. SoundRow(row)
  BY <1>1, <1>6 DEF Story, Once, SoundRow
<1>9. ASSUME NEW q \in NewRuns PROVE Story(run'[q]) /\ Recorded(q)'
  <2>1. CASE q = r
    BY <1>3, <1>4, <1>5, <1>6, <1>7, <2>1 DEF Recorded
  <2>2. CASE q # r
    BY <1>5, <1>7, <2>2 DEF StoryInv, Recorded
  <2> QED
    BY <2>1, <2>2
<1>11. \A q \in RunIds : \A version \in past'[q] : SoundRow(version)
  BY <1>5, PastIsSound DEF Persist, UpdateSqlite, UpdatePut
<1>10. SoundRows'
  BY <1>5, <1>7, <1>8, <1>11 DEF StoryInv, SoundRows
<1> QED
  BY <1>9, <1>10 DEF StoryInv

\* An update that has read the row has read a sound one.
LEMMA PersistReadTells ==
    ASSUME HistoryInv, StoryInv, NEW r \in NewRuns, PersistRead(r)
    PROVE  StoryInv'
<1>1. PICK version \in Versions(r) : inFlight' = [inFlight EXCEPT ![r] = version]
  BY DEF PersistRead, UpdateRead
<1>5. UNCHANGED <<rows, past, run>>
  BY DEF PersistRead, UpdateRead, Beside
<1>2. NewRuns \subseteq Ids /\ NewRuns \subseteq RunIds
  BY EngineAssumption DEF Ids
<1>3. \A i \in Ids : inFlight'[i] = IF i = r THEN version ELSE inFlight[i]
  BY <1>1 DEF HistoryInv, Shapes
<1>6. SoundRow(version)
  BY <1>2, <1>1 DEF StoryInv, SoundRows, Versions
<1>4. SoundRows'
  BY <1>2, <1>3, <1>5, <1>6 DEF StoryInv, SoundRows
<1> QED
  BY <1>4, <1>5 DEF StoryInv, Recorded

\* Nobody else touches a run's row, but to delete it.
LEMMA OthersTell ==
    ASSUME HistoryInv, StoryInv, UNCHANGED run,
           \A r \in RunIds : rows'[r] \in {rows[r], Absent},
           \A r \in RunIds : \A version \in past'[r] : SoundRow(version),
           \A r \in NewRuns : inFlight'[r] = inFlight[r]
    PROVE  StoryInv'
<1>1. NewRuns \subseteq RunIds
  BY EngineAssumption
<1>2. ASSUME NEW r \in NewRuns PROVE Recorded(r)'
  BY <1>1 DEF StoryInv, Recorded
<1>3. SoundRows'
  BY DEF StoryInv, SoundRows
<1> QED
  BY <1>2, <1>3 DEF StoryInv

LEMMA EvaluationsTell ==
    ASSUME HistoryInv, StoryInv, NEW e \in EvalIds, EvaluationStep(e)
    PROVE  StoryInv'
<1>1. /\ UNCHANGED run
      /\ \A i \in Ids \ {e} : rows'[i] = rows[i] /\ inFlight'[i] = inFlight[i] /\ past'[i] = past[i]
  BY EvaluationsApart DEF HistoryInv
<1>2. RunIds \subseteq Ids \ {e} /\ NewRuns \subseteq RunIds
  BY EngineAssumption, HistoryAssumption DEF Ids
<1>3. \A r \in RunIds : \A version \in past'[r] : SoundRow(version)
  BY <1>1, <1>2 DEF StoryInv, SoundRows
<1> QED
  BY <1>1, <1>2, <1>3, OthersTell

LEMMA DeletesTell ==
    ASSUME HistoryInv, StoryInv, NEW r \in RunIds, Delete(r)
    PROVE  StoryInv'
<1>1. rows' = [rows EXCEPT ![r] = Absent] /\ UNCHANGED <<inFlight, run>>
  BY DEF Delete, DeleteRun, SetRow, Beside
<1>2. \A i \in RunIds : rows'[i] \in {rows[i], Absent}
  BY <1>1 DEF HistoryInv, Shapes, Ids
<1>3. \A i \in RunIds : \A version \in past'[i] : SoundRow(version)
  BY PastIsSound DEF Delete, DeleteRun, Ids
<1> QED
  BY <1>1, <1>2, <1>3, OthersTell

\* Every step keeps the story.
LEMMA StoryStepInv ==
    HistoryInv /\ scene \in Scenes /\ StoryInv /\ [Next]_vars => StoryInv'
<1> SUFFICES ASSUME HistoryInv, scene \in Scenes, StoryInv, [Next]_vars PROVE StoryInv'
  OBVIOUS
<1>1. CASE UNCHANGED <<rows, inFlight, past, run>>
  BY <1>1 DEF StoryInv, Recorded, SoundRows
<1>2. ASSUME NEW r \in NewRuns,
             \/ Refuse(r) \/ ResolveItem(r) \/ ResolveSecret(r)
             \/ \E ts \in Times : CreateRun(r, ts)
             \/ \E t \in Tools : ToolFinishes(r, t)
             \/ EngineStep(r)
      PROVE  StoryInv'
  BY <1>2, RunsTell, CreateTells, PersistTells, PersistReadTells DEF EngineStep
<1>3. ASSUME NEW r \in scene.runs,
             \/ Refuse(r) \/ ResolveItem(r) \/ ResolveSecret(r)
             \/ \E ts \in Times : CreateRun(r, ts)
      PROVE  r \in NewRuns
  BY <1>3, EngineAssumption DEF Scene
<1>4. CASE Walk
  BY <1>1, <1>4 DEF Walk, StartWalk, ReadPage, Beside
<1>5. CASE EditServer
  BY <1>1, <1>5 DEF EditServer, storeVars
<1>6. CASE UNCHANGED vars
  BY <1>1, <1>6 DEF vars, storeVars
<1> QED
  BY <1>2, <1>3, <1>4, <1>5, <1>6, EvaluationsTell, DeletesTell DEF Next, EvaluationStep

LEMMA StoryInvariant == Spec => []StoryInv
<1>1. HistoryInv /\ scene \in Scenes /\ StoryInv /\ [Next]_vars => StoryInv'
  BY StoryStepInv
<1> QED
  BY <1>1, StoryInitInv, HistoryInvariant, PTL DEF Spec

\* What a list shows is what is in it.
LEMMA Shown == ASSUME NEW s \in Seq(Tools) PROVE {s[k] : k \in DOMAIN s} = Elems(s)
<1>1. DOMAIN s = 1..Len(s)
  OBVIOUS
<1> QED
  BY <1>1 DEF Elems

\* What a consumer heard of a run and what anyone reads of its row are one
\* story, for any runs, tools, raw events and scenes: once run_complete or an
\* error event is out the row is terminal with the run's outcome and every tool
\* that finished, and however the run ended its row has what was heard, the tool
\* results in the order they went out (execute_run and its _persist).
THEOREM RowsTellTheStream == Spec => []RowTellsTheStream
<1>1. StoryInv => RowTellsTheStream
  <2> SUFFICES ASSUME StoryInv, NEW r \in NewRuns, Settled(r)
               PROVE  /\ run[r].heard.end # "none" =>
                            /\ rows[r].status = run[r].status /\ rows[r].status # "cancelled"
                            /\ rows[r].body.error = (rows[r].status = "error")
                            /\ {rows[r].body.tools[k] : k \in DOMAIN rows[r].body.tools}
                                  = run[r].finished
                      /\ rows[r].status \in Terminal
                      /\ rows[r].body.text = run[r].heard.text
                      /\ rows[r].body.metrics = run[r].heard.metrics
                      /\ rows[r].body.guard = run[r].heard.guard
                      /\ Len(run[r].heard.tools) <= Len(rows[r].body.tools)
                      /\ SubSeq(rows[r].body.tools, 1, Len(run[r].heard.tools)) = run[r].heard.tools
    BY DEF RowTellsTheStream, RowBeforeComplete, HeardIsOnTheRow
  <2>1. Story(run[r]) /\ rows[r].status = run[r].status /\ rows[r].body = run[r].body
    BY DEF StoryInv, Recorded, Settled, Over
  <2>2. run[r].pc \in {"error", "complete", "ended"}
    BY DEF Settled
  <2>3. /\ run[r].status \in Terminal /\ run[r].body.error = (run[r].status = "error")
        /\ run[r].heard.end # "none" => run[r].status # "cancelled"
        /\ run[r].body.tools \in Seq(Tools) /\ run[r].heard.tools \in Seq(Tools)
        /\ Opens(run[r].heard.tools, run[r].body.tools)
        /\ run[r].body.text = run[r].heard.text
        /\ run[r].body.metrics = run[r].heard.metrics
        /\ run[r].body.guard = run[r].heard.guard
    BY <2>1 DEF Story, Fields, Once, Mirrors
  <2>4. ASSUME run[r].heard.end # "none" PROVE run[r].finished = Elems(run[r].body.tools)
    <3>1. run[r].drained = <<>> /\ run[r].pending = <<>>
      BY <2>1, <2>2, <2>3, <2>4 DEF Story, Streaming
    <3> QED
      BY <2>1, <3>1, NoTools DEF Story, Once
  <2>5. ASSUME NEW a \in Seq(Tools), NEW b \in Seq(Tools), Opens(a, b)
        PROVE  Len(a) <= Len(b) /\ SubSeq(b, 1, Len(a)) = a
    <3>1. Len(a) \in Nat /\ Len(b) \in Nat /\ Len(a) <= Len(b) /\ \A k \in 1..Len(a) : b[k] = a[k]
      BY <2>5 DEF Opens
    <3>2. /\ Len(SubSeq(b, 1, Len(a))) = Len(a)
          /\ \A k \in 1..Len(a) : SubSeq(b, 1, Len(a))[k] = b[k]
      BY <3>1
    <3>3. SubSeq(b, 1, Len(a)) \in Seq(Tools)
      BY <3>1
    <3> QED
      BY <3>1, <3>2, <3>3, SeqEqual
  <2> QED
    BY <2>1, <2>3, <2>4, <2>5, Shown
<1> QED
  BY <1>1, StoryInvariant, PTL

\* No row lists a tool call twice, whether the call was yielded or swept up by a
\* failure or a cancellation, from before or after the row was put back
\* (execute_run's drain, its two handlers and _persist).
THEOREM NoToolIsOnTheRowTwice == Spec => []ToolsOnTheRowOnce
<1>1. StoryInv => ToolsOnTheRowOnce
  <2> SUFFICES ASSUME StoryInv, NEW r \in RunIds, rows[r] # Absent
               PROVE  Cardinality({rows[r].body.tools[k] : k \in DOMAIN rows[r].body.tools})
                          = Len(rows[r].body.tools)
    BY DEF ToolsOnTheRowOnce
  <2>1. rows[r].body.tools \in Seq(Tools) /\ Distinct(rows[r].body.tools)
    BY DEF StoryInv, SoundRows, SoundRow
  <2> QED
    BY <2>1, DistinctCount
<1> QED
  BY <1>1, StoryInvariant, PTL

-----------------------------------------------------------------------------
(* A saved MCP server. *)

Headers == UNION {[S -> Nat] : S \in SUBSET Spellings}
Servers == [stamp : Nat, url : Urls, headers : Headers]

\* headers, and servers, that a save may leave
Sound(headers) == headers \in Headers /\ OneSpelling(headers)
SoundServer(x) == x \in Servers /\ Sound(x.headers)

\* The item, as it is and as a stale read may give it, and the parameter.
PairTypes ==
    /\ backend \in {"sqlite", "dynamo"}
    /\ saves \in Nat
    /\ item = Absent \/ SoundServer(item)
    /\ prior = Absent \/ SoundServer(prior)
    /\ secret = Absent \/ Sound(secret)
    /\ backend = "sqlite" => secret = Absent

\* A request x to the backend b.
OpTypes(x, b) ==
    /\ DOMAIN x = DOMAIN IdleOp
    /\ x.alone \in BOOLEAN
    /\ x.pc \in {"getSecret", "previous"} => SoundServer(x.before)
    /\ x.pc \in {"save", "previous", "putSecret", "putItem", "readBack"} => SoundServer(x.next)
    /\ x.pc \in {"putSecret", "putItem", "readBack", "restore"} => Sound(x.undo)
    /\ b = "sqlite" => x.pc \in {"idle", "getSecret", "save"}

McpTypes ==
    /\ PairTypes
    /\ doubt \in BOOLEAN
    /\ DOMAIN op = Writers
    /\ \A w \in Writers : OpTypes(op[w], backend)

\* A request that is alone is the only one, and whoever is not sees to it that
\* the pair is in doubt.
Solo ==
    \A w \in Writers : op[w].pc # "idle" =>
        /\ op[w].alone => \A v \in Writers \ {w} : op[v].pc = "idle"
        /\ ~doubt => op[w].alone

\* The parameter that item i calls for.
Called(i) == IF i = Absent THEN Absent ELSE Parameter(i.headers)

\* How far a request x that is alone has come with item i, parameter s and
\* doubt d.
Held(x, i, s, d) ==
    /\ x.pc \in {"getSecret", "save", "previous", "putSecret", "deleteSecret"} =>
          d \/ s = Called(i)
    /\ x.pc \in {"putItem", "readBack"} => s = Parameter(x.next.headers)
    /\ x.pc = "deleteItem" => s = Absent
    /\ x.pc \in {"putSecret", "putItem"} => d \/ i # x.before \/ Parameter(x.undo) = Called(i)
    /\ x.pc = "readBack" => d \/ i # x.before \/ i = x.next \/ Parameter(x.undo) = Called(i)
    /\ x.pc = "restore" => d \/ Parameter(x.undo) = Called(i)

\* The pair is whole when no request is under way, and what a request has to
\* rely on holds while it is alone.
Vouched ==
    backend = "dynamo" =>
        /\ ~doubt /\ (\A w \in Writers : op[w].pc = "idle") => secret = Called(item)
        /\ \A w \in Writers : op[w].pc # "idle" /\ op[w].alone => Held(op[w], item, secret, doubt)

McpInv == McpTypes /\ Solo /\ Vouched

\* The fields of a request.
LEMMA OpFields == DOMAIN IdleOp = {"pc", "alone", "before", "next", "undo"}
                  /\ IdleOp.pc = "idle" /\ IdleOp.alone = TRUE
  BY DEF IdleOp

\* There is neither an item nor a parameter at first.
LEMMA McpInitInv == Init => McpInv
<1> SUFFICES ASSUME Init PROVE McpInv
  OBVIOUS
<1>1. /\ backend \in {"sqlite", "dynamo"} /\ item = Absent /\ prior = Absent /\ secret = Absent
      /\ saves = 0 /\ doubt = FALSE /\ op = [w \in Writers |-> IdleOp]
  BY HistoryAssumption DEF Init, McpInit
<1> QED
  BY <1>1, OpFields DEF McpInv, McpTypes, PairTypes, OpTypes, Solo, Vouched, Called

\* A patched set of headers still has each name in one spelling.
LEMMA PatchesAreSound ==
    ASSUME NEW h, Sound(h), NEW value \in Nat, NEW patch \in Patches(value)
    PROVE  Sound(ApplyHeaders(h, patch))
<1> DEFINE kept == {n \in DOMAIN h : \A m \in DOMAIN patch : Lower[m] # Lower[n]}
           set  == {n \in DOMAIN patch : patch[n] # Absent}
           new  == ApplyHeaders(h, patch)
<1>1. /\ DOMAIN h \subseteq Spellings /\ \A n \in DOMAIN h : h[n] \in Nat
      /\ \A m, n \in DOMAIN h : Lower[m] = Lower[n] => m = n
  BY DEF Sound, Headers, OneSpelling
<1>2. /\ DOMAIN patch \subseteq Spellings /\ \A n \in DOMAIN patch : patch[n] \in {value, Absent}
      /\ \A m, n \in DOMAIN patch : Lower[m] = Lower[n] => m = n
  BY DEF Patches, OneSpelling
<1>3. new = [n \in kept \cup set |-> IF n \in set THEN patch[n] ELSE h[n]]
  BY DEF ApplyHeaders
<1>4. kept \cup set \in SUBSET Spellings
  BY <1>1, <1>2
<1>5. new \in [kept \cup set -> Nat]
  BY <1>1, <1>2, <1>3
<1>6. \A m, n \in kept \cup set : Lower[m] = Lower[n] => m = n
  BY <1>1, <1>2
<1>7. new \in Headers
  <2> HIDE DEF kept, set, new
  <2> QED
    BY <1>4, <1>5 DEF Headers
<1>8. OneSpelling(new)
  <2>1. DOMAIN new = kept \cup set
    BY <1>3
  <2> HIDE DEF kept, set, new
  <2> QED
    BY <2>1, <1>6 DEF OneSpelling
<1> QED
  BY <1>7, <1>8 DEF Sound

\* So have the headers a server is made with.
LEMMA BodiesAreSound == \A h \in HeaderSets(1) : Sound(h)
<1> SUFFICES ASSUME NEW h \in HeaderSets(1) PROVE Sound(h)
  OBVIOUS
<1>1. PICK S \in SUBSET Spellings : h \in [S -> {1}]
  BY DEF HeaderSets
<1>2. h \in [S -> Nat]
  BY <1>1
<1> QED
  BY <1>2 DEF HeaderSets, Sound, Headers

\* A request begins: when another is under way, none of them is alone.
LEMMA Begins ==
    ASSUME McpInv, NEW w \in Writers, op[w].pc = "idle",
           NEW x, OpTypes(x, backend), Start(w, x), PairTypes',
           UNCHANGED <<backend, item, secret>>,
           \/ x.pc \in {"getSecret", "deleteSecret"}
           \/ x.pc = "putSecret" /\ x.before = Absent /\ x.undo = NoHeaders
    PROVE  McpInv'
<1> DEFINE y == [x EXCEPT !.alone = Busy = {}]
<1>1. /\ OpTypes(y, backend) /\ y.alone = (Busy = {}) /\ y.pc = x.pc
      /\ y.before = x.before /\ y.undo = x.undo
  BY OpFields DEF OpTypes
<1>2. op' = [v \in Writers |-> IF v = w THEN y
                               ELSE IF v \in Busy THEN [op[v] EXCEPT !.alone = FALSE] ELSE op[v]]
  BY DEF Start
<1>3. doubt' = (doubt \/ Busy # {})
  BY DEF Start
<1> HIDE DEF y
<1>4. ASSUME NEW v \in Writers \ {w}
      PROVE  /\ OpTypes(op'[v], backend') /\ op'[v].pc = op[v].pc
             /\ op[v].pc # "idle" => op'[v].alone = FALSE
  <2>1. OpTypes(op[v], backend)
    BY DEF McpInv, McpTypes
  <2>2. CASE op[v].pc # "idle"
    <3>1. op'[v] = [op[v] EXCEPT !.alone = FALSE]
      BY <1>2, <2>2 DEF Busy
    <3>2. DOMAIN op[v] = {"pc", "alone", "before", "next", "undo"}
      BY <2>1, OpFields DEF OpTypes
    <3>3. /\ DOMAIN op'[v] = DOMAIN op[v] /\ op'[v].alone = FALSE
          /\ op'[v].pc = op[v].pc /\ op'[v].before = op[v].before
          /\ op'[v].next = op[v].next /\ op'[v].undo = op[v].undo
      BY <3>1, <3>2
    <3>4. OpTypes(op'[v], backend')
      BY <2>1, <3>3 DEF OpTypes
    <3> QED
      BY <3>3, <3>4
  <2>3. CASE op[v].pc = "idle"
    BY <1>2, <2>1, <2>3 DEF Busy
  <2> QED
    BY <2>2, <2>3
<1>5. op'[w] = y /\ DOMAIN op' = Writers
  BY <1>2
<1>6. McpTypes'
  BY <1>1, <1>3, <1>4, <1>5 DEF McpInv, McpTypes
<1>7. CASE Busy = {}
  <2>1. \A v \in Writers : op[v].pc = "idle"
    BY <1>7 DEF Busy
  <2>2. Solo'
    <3>1. \A v \in Writers \ {w} : op'[v].pc = "idle"
      BY <1>4, <2>1
    <3>2. op'[w].alone = TRUE
      BY <1>1, <1>5, <1>7
    <3> QED
      BY <3>1, <3>2 DEF Solo
  <2>3. ASSUME backend = "dynamo" PROVE Held(y, item, secret, doubt)
    <3>1. doubt \/ secret = Called(item)
      BY <2>1, <2>3 DEF McpInv, Vouched
    <3>2. Parameter(NoHeaders) = Absent
      BY DEF Parameter
    <3>3. CASE y.pc \in {"getSecret", "deleteSecret"}
      BY <3>1, <3>3 DEF Held
    <3>4. CASE y.pc = "putSecret" /\ y.before = Absent /\ y.undo = NoHeaders
      <4>1. item # y.before \/ Parameter(y.undo) = Called(item)
        BY <3>2, <3>4 DEF Called
      <4> QED
        BY <3>1, <3>4, <4>1 DEF Held
    <3>5. y.pc = x.pc /\ y.before = x.before /\ y.undo = x.undo
      BY <1>1
    <3> QED
      BY <3>3, <3>4, <3>5
  <2>4. Vouched'
    <3>1. op'[w] = y /\ y.pc # "idle" /\ \A v \in Writers \ {w} : op'[v].pc = "idle"
      BY <1>1, <1>4, <1>5, <2>1
    <3>2. doubt' = doubt
      BY <1>3, <1>7 DEF McpInv, McpTypes
    <3> QED
      BY <3>1, <3>2, <2>3 DEF Vouched
  <2> QED
    BY <1>6, <2>2, <2>4 DEF McpInv
<1>8. CASE Busy # {}
  <2>1. Solo' /\ Vouched'
    BY <1>1, <1>3, <1>4, <1>5, <1>8 DEF Solo, Vouched
  <2> QED
    BY <1>6, <2>1 DEF McpInv
<1> QED
  BY <1>7, <1>8

\* A request goes on; the others' calls are theirs.
LEMMA Goes ==
    ASSUME McpInv, NEW w \in Writers, op[w].pc # "idle",
           NEW x, OpTypes(x, backend), x.pc # "idle", x.alone = op[w].alone,
           op' = [op EXCEPT ![w] = x], UNCHANGED <<doubt, backend>>, PairTypes',
           backend = "dynamo" /\ op[w].alone => Held(x, item', secret', doubt)
    PROVE  McpInv'
<1>1. /\ op'[w] = x /\ \A v \in Writers \ {w} : op'[v] = op[v]
      /\ DOMAIN op' = Writers
  BY DEF McpInv, McpTypes
<1>2. McpTypes'
  BY <1>1 DEF McpInv, McpTypes
<1>3. Solo'
  BY <1>1 DEF McpInv, Solo
<1>4. \A v \in Writers \ {w} : op[v].pc # "idle" => op[v].alone # TRUE
  BY DEF McpInv, Solo
<1>5. Vouched'
  BY <1>1, <1>4 DEF Vouched, McpInv, McpTypes, OpTypes
<1> QED
  BY <1>2, <1>3, <1>5 DEF McpInv

\* A request is over: unless the pair is in doubt it was alone and left a pair.
LEMMA Ends ==
    ASSUME McpInv, NEW w \in Writers, op[w].pc # "idle",
           op' = [op EXCEPT ![w] = IdleOp], UNCHANGED backend, PairTypes',
           doubt' \in BOOLEAN,
           ~doubt' => op[w].alone /\ (backend = "dynamo" => secret' = Called(item'))
    PROVE  McpInv'
<1>1. /\ op'[w] = IdleOp /\ \A v \in Writers \ {w} : op'[v] = op[v]
      /\ DOMAIN op' = Writers
  BY DEF McpInv, McpTypes
<1>2. OpTypes(IdleOp, backend)
  BY OpFields DEF OpTypes
<1>3. McpTypes'
  BY <1>1, <1>2 DEF McpInv, McpTypes
<1>4. op[w].alone => \A v \in Writers \ {w} : op[v].pc = "idle"
  BY DEF McpInv, Solo
<1>5. \A v \in Writers \ {w} : op[v].pc # "idle" => op[v].alone # TRUE
  BY DEF McpInv, Solo
<1>6. Solo'
  BY <1>1, <1>4, OpFields DEF McpInv, Solo
<1>7. Vouched'
  BY <1>1, <1>4, <1>5, OpFields DEF Vouched, McpInv, McpTypes, OpTypes
<1> QED
  BY <1>3, <1>6, <1>7 DEF McpInv

\* So has a server without any.
LEMMA NoHeadersAreSound == Sound(NoHeaders)
<1>1. NoHeaders \in [{} -> Nat]
  BY DEF NoHeaders
<1>2. DOMAIN NoHeaders = {}
  BY DEF NoHeaders
<1>3. NoHeaders \in Headers
  BY <1>1 DEF Headers
<1> QED
  BY <1>2, <1>3 DEF Sound, OneSpelling

\* What a request under way may rely on.
LEMMA UnderWay ==
    ASSUME McpInv, NEW w \in Writers, op[w].pc # "idle"
    PROVE  /\ PairTypes /\ OpTypes(op[w], backend)
           /\ DOMAIN op[w] = {"pc", "alone", "before", "next", "undo"}
           /\ doubt \in BOOLEAN /\ op[w].alone \in BOOLEAN
           /\ ~doubt => op[w].alone
           /\ backend = "dynamo" /\ op[w].alone => Held(op[w], item, secret, doubt)
  BY OpFields DEF McpInv, McpTypes, OpTypes, Solo, Vouched

\* What is read of the table and of the parameter is sound.
LEMMA ReadsAreSound ==
    ASSUME PairTypes
    PROVE  /\ \A read \in Read \ {Absent} : SoundServer(read)
           /\ \A read : SoundServer(read) /\ SavedHeaders(read) # Absent
                            => Sound(SavedHeaders(read))
           /\ \A read : SoundServer(read) => read # Absent
  BY McpAssumption DEF PairTypes, Read, SavedHeaders, SoundServer, Servers, Headers, Spellings

\* A parameter that is written is sound, too.
LEMMA ParametersAreSound ==
    \A h : Sound(h) => Parameter(h) = Absent \/ Sound(Parameter(h))
  BY DEF Parameter

\* A request that raises before it has written anything.
LEMMA RaisesEarly ==
    ASSUME McpInv, NEW w \in Writers, Raise(w), UNCHANGED <<backend, saves, item, prior, secret>>,
           op[w].pc \in {"getSecret", "save", "previous", "putSecret", "deleteSecret"}
    PROVE  McpInv'
<1>1. /\ PairTypes' /\ doubt' = doubt /\ op' = [op EXCEPT ![w] = IdleOp] /\ op[w].pc # "idle"
  BY UnderWay DEF Raise, Go, PairTypes
<1>2. ~doubt => op[w].alone /\ (backend = "dynamo" => secret = Called(item))
  BY <1>1, UnderWay DEF Held
<1> QED
  BY <1>1, <1>2, UnderWay, Ends

\* POST.
LEMMA CreateServerKeeps ==
    ASSUME McpInv, UNCHANGED backend, NEW w \in Writers, NEW url \in Urls,
           NEW headers \in HeaderSets(1), Create(w, url, headers)
    PROVE  McpInv'
<1> DEFINE made == [stamp |-> 1, url |-> url, headers |-> headers]
<1>1. SoundServer(made)
  BY BodiesAreSound DEF SoundServer, Servers, Sound
<1>2. saves' = 1 /\ op[w].pc = "idle"
  BY DEF Create, At
<1>3. CASE backend = "sqlite" /\ SetItem(made) /\ UNCHANGED <<secret, op, doubt>>
  <2>1. PairTypes'
    BY <1>1, <1>2, <1>3 DEF McpInv, McpTypes, PairTypes, SetItem
  <2>2. McpTypes' /\ Solo' /\ Vouched'
    BY <1>3, <2>1 DEF McpInv, McpTypes, Solo, Vouched
  <2> QED
    BY <2>2 DEF McpInv
<1>4. CASE /\ backend = "dynamo" /\ UNCHANGED <<item, prior, secret>>
           /\ Start(w, [IdleOp EXCEPT !.pc = "putSecret", !.next = made])
  <2> DEFINE x == [IdleOp EXCEPT !.pc = "putSecret", !.next = made]
  <2>1. /\ x.pc = "putSecret" /\ x.before = Absent /\ x.undo = NoHeaders /\ x.next = made
        /\ x.alone = TRUE /\ DOMAIN x = DOMAIN IdleOp
    BY DEF IdleOp
  <2>2. PairTypes'
    BY <1>2, <1>4 DEF McpInv, McpTypes, PairTypes
  <2>3. Start(w, x)
    BY <1>4
  <2> HIDE DEF x, made
  <2>4. OpTypes(x, backend)
    BY <1>1, <1>4, <2>1, NoHeadersAreSound DEF OpTypes
  <2> QED
    BY <1>2, <1>4, <2>1, <2>2, <2>3, <2>4, Begins
<1> QED
  BY <1>3, <1>4 DEF Create, ItemStays

\* The item is read first.
LEMMA GetItemKeeps ==
    ASSUME McpInv, UNCHANGED backend, NEW w \in Writers, NEW pc \in {"getSecret", "deleteSecret"},
           GetItem(w, pc)
    PROVE  McpInv'
<1>1. PICK read \in Read \ {Absent} : Start(w, [IdleOp EXCEPT !.pc = pc, !.before = read])
  BY DEF GetItem
<1> DEFINE x == [IdleOp EXCEPT !.pc = pc, !.before = read]
<1>2. /\ x.pc = pc /\ x.before = read /\ x.alone = TRUE /\ DOMAIN x = DOMAIN IdleOp
  BY DEF IdleOp
<1>3. /\ op[w].pc = "idle" /\ UNCHANGED <<item, prior, secret, saves>>
      /\ pc = "deleteSecret" => backend = "dynamo"
  BY DEF GetItem, At, ItemStays
<1>4. Start(w, x)
  BY <1>1
<1> HIDE DEF x
<1>5. PairTypes' /\ SoundServer(read)
  BY <1>1, <1>3, ReadsAreSound DEF McpInv, McpTypes, PairTypes
<1>6. OpTypes(x, backend)
  BY <1>2, <1>3, <1>5 DEF OpTypes
<1> QED
  BY <1>2, <1>3, <1>4, <1>5, <1>6, Begins

\* PUT: the patch, ...
LEMMA PatchKeeps ==
    ASSUME McpInv, UNCHANGED backend, NEW w \in Writers, NEW url \in Urls,
           NEW patch \in Patches(saves + 1), Patch(w, url, patch)
    PROVE  McpInv'
<1> DEFINE headers == SavedHeaders(op[w].before)
           next == [stamp |-> saves + 1, url |-> url, headers |-> ApplyHeaders(headers, patch)]
           x == [op[w] EXCEPT !.pc = "save", !.before = Absent, !.next = next]
<1>1. op[w].pc = "getSecret" /\ UNCHANGED <<item, prior, secret>>
  BY DEF Patch, At, ItemStays
<1>2. CASE Raise(w) /\ UNCHANGED saves
  BY <1>1, <1>2, RaisesEarly
<1>3. CASE headers # Absent /\ saves' = saves + 1 /\ Go(w, x)
  <2>1. /\ PairTypes /\ OpTypes(op[w], backend) /\ SoundServer(op[w].before) /\ saves \in Nat
        /\ DOMAIN op[w] = {"pc", "alone", "before", "next", "undo"}
    BY <1>1, UnderWay DEF OpTypes, PairTypes
  <2>2. Sound(ApplyHeaders(headers, patch))
    BY <1>3, <2>1, ReadsAreSound, PatchesAreSound
  <2> HIDE DEF headers
  <2>3. SoundServer(next)
    BY <2>1, <2>2 DEF SoundServer, Servers, Sound
  <2>4. PairTypes'
    BY <1>1, <1>3, <2>1 DEF PairTypes
  <2> HIDE DEF next
  <2>5. /\ x.pc = "save" /\ x.alone = op[w].alone /\ x.next = next /\ DOMAIN x = DOMAIN IdleOp
        /\ op' = [op EXCEPT ![w] = x] /\ UNCHANGED doubt
    BY <1>3, <2>1, OpFields DEF Go
  <2> HIDE DEF x
  <2>6. OpTypes(x, backend)
    BY <2>1, <2>3, <2>5 DEF OpTypes
  <2>7. backend = "dynamo" /\ op[w].alone => Held(x, item', secret', doubt)
    BY <1>1, <2>5, UnderWay DEF Held
  <2> QED
    BY <1>1, <2>4, <2>5, <2>6, <2>7, Goes
<1> QED
  BY <1>2, <1>3 DEF Patch

\* ... and store.save.
LEMMA SaveKeeps ==
    ASSUME McpInv, UNCHANGED backend, NEW w \in Writers, Save(w)
    PROVE  McpInv'
<1>1. op[w].pc = "save" /\ UNCHANGED <<secret, saves>>
  BY DEF Save, At
<1>2. /\ PairTypes /\ OpTypes(op[w], backend) /\ SoundServer(op[w].next)
      /\ DOMAIN op[w] = {"pc", "alone", "before", "next", "undo"}
      /\ doubt \in BOOLEAN /\ op[w].alone \in BOOLEAN
      /\ ~doubt => op[w].alone
  BY <1>1, UnderWay DEF OpTypes
<1>3. CASE Raise(w) /\ ItemStays
  BY <1>1, <1>3, RaisesEarly DEF ItemStays
<1>4. ASSUME NEW read \in Read \ {Absent}, backend = "dynamo", ItemStays,
             Go(w, [op[w] EXCEPT !.pc = "previous", !.before = read])
      PROVE  McpInv'
  <2> DEFINE x == [op[w] EXCEPT !.pc = "previous", !.before = read]
  <2>1. /\ x.pc = "previous" /\ x.before = read /\ x.next = op[w].next /\ x.alone = op[w].alone
        /\ DOMAIN x = DOMAIN IdleOp
        /\ op' = [op EXCEPT ![w] = x] /\ UNCHANGED doubt
    BY <1>2, <1>4, OpFields DEF Go
  <2> HIDE DEF x
  <2>2. OpTypes(x, backend)
    BY <1>2, <1>4, <2>1, ReadsAreSound DEF OpTypes
  <2>3. PairTypes'
    BY <1>1, <1>2, <1>4 DEF PairTypes, ItemStays
  <2>4. op[w].alone => Held(x, item', secret', doubt)
    BY <1>1, <1>4, <2>1, UnderWay DEF Held, ItemStays
  <2> QED
    BY <1>1, <2>1, <2>2, <2>3, <2>4, Goes
<1>5. CASE backend = "sqlite" /\ SetItem(op[w].next) /\ Done(w)
  <2>1. PairTypes'
    BY <1>1, <1>2, <1>5 DEF PairTypes, SetItem
  <2>2. op' = [op EXCEPT ![w] = IdleOp] /\ doubt' = (doubt /\ ~op[w].alone)
    BY <1>5 DEF Done
  <2> QED
    BY <1>1, <1>2, <1>5, <2>1, <2>2, Ends
<1> QED
  BY <1>3, <1>4, <1>5 DEF Save

\* What a failed put can put back is what the item calls for.
LEMMA PreviousKeeps ==
    ASSUME McpInv, UNCHANGED backend, NEW w \in Writers, Previous(w)
    PROVE  McpInv'
<1> DEFINE headers == SavedHeaders(op[w].before)
           x == [op[w] EXCEPT !.pc = "putSecret", !.undo = headers]
<1>1. op[w].pc = "previous" /\ UNCHANGED <<item, prior, secret, saves>>
  BY DEF Previous, At, ItemStays
<1>2. /\ PairTypes /\ OpTypes(op[w], backend) /\ backend = "dynamo"
      /\ SoundServer(op[w].next) /\ SoundServer(op[w].before)
      /\ DOMAIN op[w] = {"pc", "alone", "before", "next", "undo"}
  BY <1>1, UnderWay DEF OpTypes, PairTypes
<1>3. CASE Raise(w)
  BY <1>1, <1>3, RaisesEarly
<1>4. CASE headers # Absent /\ Go(w, x)
  <2>1. PairTypes'
    BY <1>1, <1>2 DEF PairTypes
  <2>2. ASSUME op[w].alone PROVE doubt \/ item # op[w].before \/ Parameter(headers) = Called(item)
    <3>1. doubt \/ secret = Called(item)
      BY <1>1, <1>2, <2>2, UnderWay DEF Held
    <3>2. op[w].before # Absent
      BY <1>2, ReadsAreSound
    <3>3. ASSUME secret = Called(item), item = op[w].before PROVE Parameter(headers) = Called(item)
      BY <1>2, <3>2, <3>3 DEF SavedHeaders, Called, Parameter
    <3> QED
      BY <3>1, <3>3
  <2>sound. Sound(headers)
    BY <1>2, <1>4, ReadsAreSound
  <2> HIDE DEF headers
  <2>3. /\ x.pc = "putSecret" /\ x.before = op[w].before /\ x.next = op[w].next
        /\ x.alone = op[w].alone /\ x.undo = headers /\ DOMAIN x = DOMAIN IdleOp
        /\ op' = [op EXCEPT ![w] = x] /\ UNCHANGED doubt
    BY <1>2, <1>4, OpFields DEF Go
  <2> HIDE DEF x
  <2>4. OpTypes(x, backend)
    BY <1>2, <2>3, <2>sound DEF OpTypes
  <2>5. op[w].alone => Held(x, item', secret', doubt)
    <3>1. ASSUME op[w].alone PROVE doubt \/ secret = Called(item)
      BY <1>1, <1>2, <3>1, UnderWay DEF Held
    <3> QED
      BY <1>1, <2>2, <2>3, <3>1 DEF Held
  <2> QED
    BY <1>1, <2>1, <2>3, <2>4, <2>5, Goes
<1> QED
  BY <1>3, <1>4 DEF Previous

\* A request that moves on to another call.
LEMMA MovesOn ==
    ASSUME McpInv, UNCHANGED backend, NEW w \in Writers, op[w].pc # "idle",
           NEW pc \in {"putItem", "readBack", "restore", "deleteItem"},
           Go(w, [op[w] EXCEPT !.pc = pc]), PairTypes', backend = "dynamo",
           pc \in {"putItem", "readBack"} => SoundServer(op[w].next),
           pc # "deleteItem" => Sound(op[w].undo),
           op[w].alone =>
              /\ pc \in {"putItem", "readBack"} => secret' = Parameter(op[w].next.headers)
              /\ pc = "putItem" => doubt \/ item' # op[w].before \/ Parameter(op[w].undo) = Called(item')
              /\ pc = "readBack" => doubt \/ item' # op[w].before \/ item' = op[w].next
                                       \/ Parameter(op[w].undo) = Called(item')
              /\ pc = "restore" => doubt \/ Parameter(op[w].undo) = Called(item')
              /\ pc = "deleteItem" => secret' = Absent
    PROVE  McpInv'
<1> DEFINE x == [op[w] EXCEPT !.pc = pc]
<1>1. OpTypes(op[w], backend) /\ DOMAIN op[w] = {"pc", "alone", "before", "next", "undo"}
  BY UnderWay
<1>2. /\ x.pc = pc /\ x.before = op[w].before /\ x.next = op[w].next /\ x.undo = op[w].undo
      /\ x.alone = op[w].alone /\ DOMAIN x = DOMAIN IdleOp
      /\ op' = [op EXCEPT ![w] = x] /\ UNCHANGED doubt
  BY <1>1, OpFields DEF Go
<1> HIDE DEF x
<1>3. OpTypes(x, backend)
  BY <1>1, <1>2 DEF OpTypes
<1>4. op[w].alone => Held(x, item', secret', doubt)
  BY <1>2 DEF Held
<1> QED
  BY <1>2, <1>3, <1>4, Goes

\* A request that is through or has failed, and says whether the pair is whole.
LEMMA IsOver ==
    ASSUME McpInv, UNCHANGED backend, NEW w \in Writers, op[w].pc # "idle",
           NEW doubtful \in BOOLEAN, RaiseDoubtful(w, doubtful), PairTypes', backend = "dynamo",
           op[w].alone /\ ~doubt /\ ~doubtful => secret' = Called(item')
    PROVE  McpInv'
<1>1. op' = [op EXCEPT ![w] = IdleOp] /\ doubt' = (doubt \/ doubtful)
  BY DEF RaiseDoubtful
<1>2. /\ doubt \in BOOLEAN
      /\ ~doubt => op[w].alone
  BY UnderWay
<1> QED
  BY <1>1, <1>2, Ends

\* A request that has written both halves.
LEMMA IsDone ==
    ASSUME McpInv, UNCHANGED backend, NEW w \in Writers, op[w].pc # "idle",
           Done(w), PairTypes', backend = "dynamo", op[w].alone => secret' = Called(item')
    PROVE  McpInv'
<1>1. op' = [op EXCEPT ![w] = IdleOp] /\ doubt' = (doubt /\ ~op[w].alone)
  BY DEF Done
<1>2. /\ doubt \in BOOLEAN /\ op[w].alone \in BOOLEAN
      /\ ~doubt => op[w].alone
  BY UnderWay
<1> QED
  BY <1>1, <1>2, Ends

\* Only DynamoDB has these calls.
LEMMA Deployed ==
    ASSUME McpInv, NEW w \in Writers,
           op[w].pc \in {"previous", "putSecret", "putItem", "readBack", "restore",
                         "deleteSecret", "deleteItem"}
    PROVE  backend = "dynamo" /\ op[w].pc # "idle" /\ PairTypes
  BY DEF McpInv, McpTypes, OpTypes, PairTypes

\* _write: the secret ...
LEMMA PutSecretKeeps ==
    ASSUME McpInv, UNCHANGED backend, NEW w \in Writers, PutSecret(w) \/ PutSecretFails(w)
    PROVE  McpInv'
<1>1. op[w].pc = "putSecret" /\ UNCHANGED <<item, prior, saves>>
  BY DEF PutSecret, PutSecretFails, At, ItemStays
<1>2. /\ backend = "dynamo" /\ op[w].pc # "idle" /\ PairTypes /\ SoundServer(op[w].next)
      /\ Sound(op[w].undo)
      /\ op[w].alone => Held(op[w], item, secret, doubt)
  BY <1>1, Deployed, UnderWay DEF OpTypes
<1>3. PairTypes'
  <2>1. Sound(op[w].next.headers)
    BY <1>2 DEF SoundServer
  <2>2. secret' = secret \/ secret' = Parameter(op[w].next.headers)
    BY DEF PutSecret, PutSecretFails
  <2> QED
    BY <1>1, <1>2, <2>1, <2>2, ParametersAreSound DEF PairTypes
<1>4. CASE PutSecret(w)
  <2>1. Go(w, [op[w] EXCEPT !.pc = "putItem"]) /\ secret' = Parameter(op[w].next.headers)
    BY <1>4 DEF PutSecret
  <2>2. op[w].alone => doubt \/ item' # op[w].before \/ Parameter(op[w].undo) = Called(item')
    BY <1>1, <1>2 DEF Held
  <2> QED
    BY <1>2, <1>3, <2>1, <2>2, MovesOn
<1>5. CASE PutSecretFails(w)
  <2>1. RaiseDoubtful(w, secret' # secret)
    BY <1>5 DEF PutSecretFails
  <2>2. op[w].alone /\ ~doubt /\ ~(secret' # secret) => secret' = Called(item')
    BY <1>1, <1>2 DEF Held
  <2> QED
    BY <1>2, <1>3, <2>1, <2>2, IsOver
<1> QED
  BY <1>4, <1>5

\* ... and the item.
LEMMA PutItemKeeps ==
    ASSUME McpInv, UNCHANGED backend, NEW w \in Writers, PutItem(w) \/ PutItemFails(w)
    PROVE  McpInv'
<1>1. op[w].pc = "putItem" /\ UNCHANGED <<secret, saves>>
  BY DEF PutItem, PutItemFails, At
<1>2. /\ backend = "dynamo" /\ op[w].pc # "idle" /\ PairTypes /\ SoundServer(op[w].next)
      /\ Sound(op[w].undo)
      /\ op[w].alone => Held(op[w], item, secret, doubt)
  BY <1>1, Deployed, UnderWay DEF OpTypes
<1>3. item' = op[w].next \/ item' = item
  BY DEF PutItem, PutItemFails, SetItem, ItemStays
<1>4. PairTypes'
  BY <1>1, <1>2, <1>3 DEF PairTypes, PutItem, PutItemFails, SetItem, ItemStays
<1>5. op[w].alone => secret' = Parameter(op[w].next.headers)
  BY <1>1, <1>2 DEF Held
<1>6. CASE PutItem(w)
  <2>1. Done(w) /\ item' = op[w].next
    BY <1>6 DEF PutItem, SetItem
  <2>2. op[w].alone => secret' = Called(item')
    BY <1>2, <1>5, <2>1, ReadsAreSound DEF Called
  <2> QED
    BY <1>2, <1>4, <2>1, <2>2, IsDone
<1>7. CASE PutItemFails(w)
  <2>1. Go(w, [op[w] EXCEPT !.pc = "readBack"])
    BY <1>7 DEF PutItemFails
  <2>2. op[w].alone => doubt \/ item' # op[w].before \/ item' = op[w].next
                          \/ Parameter(op[w].undo) = Called(item')
    BY <1>1, <1>2, <1>3 DEF Held
  <2> QED
    BY <1>2, <1>4, <1>5, <2>1, <2>2, MovesOn
<1> QED
  BY <1>6, <1>7

\* A put that failed is looked at, and undone when it did not land.
LEMMA ReadBackKeeps ==
    ASSUME McpInv, UNCHANGED backend, NEW w \in Writers, ReadBack(w) \/ ReadBackFails(w)
    PROVE  McpInv'
<1>1. op[w].pc = "readBack" /\ UNCHANGED <<item, prior, secret, saves>>
  BY DEF ReadBack, ReadBackFails, At, ItemStays
<1>2. /\ backend = "dynamo" /\ op[w].pc # "idle" /\ PairTypes /\ SoundServer(op[w].next)
      /\ Sound(op[w].undo)
      /\ op[w].alone => Held(op[w], item, secret, doubt)
  BY <1>1, Deployed, UnderWay DEF OpTypes
<1>3. PairTypes'
  BY <1>1, <1>2 DEF PairTypes
<1>4. CASE item = op[w].next /\ Done(w)
  <2>1. op[w].alone => secret' = Called(item')
    BY <1>1, <1>2, <1>4, ReadsAreSound DEF Held, Called
  <2> QED
    BY <1>2, <1>3, <1>4, <2>1, IsDone
<1>5. CASE item # op[w].next /\ item = op[w].before /\ Go(w, [op[w] EXCEPT !.pc = "restore"])
  <2>1. op[w].alone => doubt \/ Parameter(op[w].undo) = Called(item')
    BY <1>1, <1>2, <1>5 DEF Held
  <2> QED
    BY <1>2, <1>3, <1>5, <2>1, MovesOn
<1>6. CASE RaiseDoubtful(w, TRUE)
  BY <1>2, <1>3, <1>6, IsOver
<1>7. CASE ReadBack(w)
  BY <1>4, <1>5, <1>6, <1>7 DEF ReadBack
<1> QED
  BY <1>6, <1>7 DEF ReadBackFails

\* What is put back is what the item that stayed calls for.
LEMMA RestoreKeeps ==
    ASSUME McpInv, UNCHANGED backend, NEW w \in Writers, Restore(w) \/ RestoreFails(w)
    PROVE  McpInv'
<1>1. op[w].pc = "restore" /\ UNCHANGED <<item, prior, saves>>
  BY DEF Restore, RestoreFails, At, ItemStays
<1>2. /\ backend = "dynamo" /\ op[w].pc # "idle" /\ PairTypes /\ doubt \in BOOLEAN
      /\ Sound(op[w].undo)
      /\ op[w].alone => Held(op[w], item, secret, doubt)
  BY <1>1, Deployed, UnderWay DEF OpTypes
<1>3. secret' = secret \/ secret' = Parameter(op[w].undo)
  BY DEF Restore, RestoreFails
<1>4. PairTypes'
  BY <1>1, <1>2, <1>3, ParametersAreSound DEF PairTypes
<1>5. op[w].alone => doubt \/ Parameter(op[w].undo) = Called(item')
  BY <1>1, <1>2 DEF Held
<1>6. CASE Restore(w)
  <2>1. RaiseDoubtful(w, FALSE) /\ secret' = Parameter(op[w].undo)
    BY <1>2, <1>6 DEF Restore, Raise, Go, RaiseDoubtful
  <2> QED
    BY <1>2, <1>4, <1>5, <2>1, IsOver
<1>7. CASE RestoreFails(w)
  <2>1. RaiseDoubtful(w, secret' # Parameter(op[w].undo))
    BY <1>7 DEF RestoreFails
  <2>2. op[w].alone /\ ~doubt /\ ~(secret' # Parameter(op[w].undo)) => secret' = Called(item')
    BY <1>5
  <2> QED
    BY <1>2, <1>4, <2>1, <2>2, IsOver
<1> QED
  BY <1>6, <1>7

\* DELETE: the row of SQLite, ...
LEMMA DeleteRowKeeps ==
    ASSUME McpInv, UNCHANGED backend, NEW w \in Writers, DeleteRow(w)
    PROVE  McpInv'
<1>1. /\ backend = "sqlite" /\ item' = Absent /\ prior' = item
      /\ UNCHANGED <<secret, saves, op, doubt>>
  BY DEF DeleteRow, SetItem
<1>2. PairTypes' /\ McpTypes' /\ Solo'
  BY <1>1 DEF McpInv, McpTypes, PairTypes, Solo
<1> QED
  BY <1>1, <1>2 DEF McpInv, Vouched

\* ... or the secret ...
LEMMA DeleteSecretKeeps ==
    ASSUME McpInv, UNCHANGED backend, NEW w \in Writers, DeleteSecret(w) \/ DeleteSecretFails(w)
    PROVE  McpInv'
<1>1. op[w].pc = "deleteSecret" /\ UNCHANGED <<item, prior, saves>>
  BY DEF DeleteSecret, DeleteSecretFails, At, ItemStays
<1>2. /\ backend = "dynamo" /\ op[w].pc # "idle" /\ PairTypes
      /\ op[w].alone => Held(op[w], item, secret, doubt)
  BY <1>1, Deployed, UnderWay
<1>3. secret' = secret \/ secret' = Absent
  BY DEF DeleteSecret, DeleteSecretFails
<1>4. PairTypes'
  BY <1>1, <1>2, <1>3 DEF PairTypes
<1>5. CASE DeleteSecret(w)
  <2>1. Go(w, [op[w] EXCEPT !.pc = "deleteItem"]) /\ secret' = Absent
    BY <1>5 DEF DeleteSecret
  <2> QED
    BY <1>2, <1>4, <2>1, MovesOn
<1>6. CASE DeleteSecretFails(w)
  <2>1. RaiseDoubtful(w, secret' # secret)
    BY <1>6 DEF DeleteSecretFails
  <2>2. op[w].alone /\ ~doubt /\ ~(secret' # secret) => secret' = Called(item')
    BY <1>1, <1>2 DEF Held
  <2> QED
    BY <1>2, <1>4, <2>1, <2>2, IsOver
<1> QED
  BY <1>5, <1>6

\* ... and the item.
LEMMA DeleteItemKeeps ==
    ASSUME McpInv, UNCHANGED backend, NEW w \in Writers, DeleteItem(w) \/ DeleteItemFails(w)
    PROVE  McpInv'
<1>1. op[w].pc = "deleteItem" /\ UNCHANGED <<secret, saves>>
  BY DEF DeleteItem, DeleteItemFails, At
<1>2. /\ backend = "dynamo" /\ op[w].pc # "idle" /\ PairTypes
      /\ op[w].alone => Held(op[w], item, secret, doubt)
  BY <1>1, Deployed, UnderWay
<1>3. item' = Absent \/ item' = item
  BY DEF DeleteItem, DeleteItemFails, SetItem, ItemStays
<1>4. PairTypes'
  BY <1>1, <1>2, <1>3 DEF PairTypes, DeleteItem, DeleteItemFails, SetItem, ItemStays
<1>5. op[w].alone /\ item' = Absent => secret' = Called(item')
  BY <1>1, <1>2 DEF Held, Called
<1>6. CASE DeleteItem(w)
  BY <1>2, <1>4, <1>5, <1>6, IsDone DEF DeleteItem, SetItem
<1>7. CASE DeleteItemFails(w)
  <2>1. RaiseDoubtful(w, item' # Absent)
    BY <1>7 DEF DeleteItemFails
  <2> QED
    BY <1>2, <1>4, <1>5, <2>1, IsOver
<1> QED
  BY <1>6, <1>7

\* Every step keeps the server one definition, or in doubt.
LEMMA McpStepInv == McpInv /\ scene \in Scenes /\ [Next]_vars => McpInv'
<1> SUFFICES ASSUME McpInv, scene \in Scenes, [Next]_vars PROVE McpInv'
  OBVIOUS
<1>1. CASE UNCHANGED <<mcpVars, backend>>
  BY <1>1 DEF mcpVars, McpInv, McpTypes, PairTypes, OpTypes, Solo, Vouched, Held, Called
<1>2. ASSUME NEW w \in Writers, McpStep(w), UNCHANGED backend PROVE McpInv'
  <2>1. /\ \A url \in Urls, headers \in HeaderSets(1) : Create(w, url, headers) => McpInv'
        /\ \A url \in Urls, patch \in Patches(saves + 1) : Patch(w, url, patch) => McpInv'
        /\ \A pc \in {"getSecret", "deleteSecret"} : GetItem(w, pc) => McpInv'
        /\ Save(w) \/ Previous(w) => McpInv'
    BY <1>2, CreateServerKeeps, PatchKeeps, GetItemKeeps, SaveKeeps, PreviousKeeps
  <2>2. /\ PutSecret(w) \/ PutSecretFails(w) \/ PutItem(w) \/ PutItemFails(w) => McpInv'
        /\ ReadBack(w) \/ ReadBackFails(w) \/ Restore(w) \/ RestoreFails(w) => McpInv'
        /\ DeleteRow(w) \/ DeleteSecret(w) \/ DeleteSecretFails(w) => McpInv'
        /\ DeleteItem(w) \/ DeleteItemFails(w) => McpInv'
    BY <1>2, PutSecretKeeps, PutItemKeeps, ReadBackKeeps, RestoreKeeps, DeleteRowKeeps,
       DeleteSecretKeeps, DeleteItemKeeps
  <2> QED
    BY <1>2, <2>1, <2>2 DEF McpStep
<1>3. CASE EditServer
  <2>1. PICK w \in scene.editors : McpStep(w)
    BY <1>3 DEF EditServer
  <2>2. w \in Writers
    BY EngineAssumption DEF Scene
  <2> QED
    BY <1>2, <1>3, <2>1, <2>2 DEF EditServer, storeVars
<1>4. ASSUME NEW r, EngineStep(r) PROVE UNCHANGED <<mcpVars, backend>>
  BY <1>4 DEF EngineStep, LeaveAtStart, Begin, RawEvent, AfterEvent, NextTool, StreamEnds, Fail,
     Cancel, Persist, PersistRead, PersistMissing, AfterError, Finish, Become, Beside, Stay,
     storeVars, UpdateSqlite, UpdatePut, UpdateRead, UpdateMissing
<1>5. ASSUME NEW r, \/ Refuse(r) \/ ResolveItem(r) \/ ResolveSecret(r)
                    \/ \E ts \in Times : CreateRun(r, ts)
                    \/ \E t \in Tools : ToolFinishes(r, t)
                    \/ Delete(r)
      PROVE  UNCHANGED <<mcpVars, backend>>
  BY <1>5 DEF Refuse, ResolveItem, ResolveSecret, CreateRun, ToolFinishes, Delete, DeleteRun,
     InsertRow, PutRow, Become, Beside, Stay, storeVars
<1>6. ASSUME NEW e, EvaluationStep(e) PROVE UNCHANGED <<mcpVars, backend>>
  BY <1>6 DEF EvaluationStep, InsertEvaluation, PutEvaluation, UpdateEvaluation, ReadEvaluation,
     PutUpdatedEvaluation, DeleteEvaluation, CheckEvaluation, CancelEvaluation, ReadDeleted, PutDeleted,
     InsertRow, PutRow, UpdateSqlite, UpdateRead, UpdatePut, Stage, Deleting, Beside, BesideLane, Stay,
     storeVars
<1>7. CASE Walk
  BY <1>1, <1>7 DEF Walk, StartWalk, ReadPage, Beside
<1>8. CASE UNCHANGED vars
  BY <1>1, <1>8 DEF vars, storeVars
<1> QED
  BY <1>1, <1>3, <1>4, <1>5, <1>6, <1>7, <1>8 DEF Next, EvaluationStep

\* The item and the parameter of a saved MCP server are one definition whenever
\* no request is under way and none left them in doubt, whichever calls failed
\* and whichever writes landed all the same (mcp/store.py: _write, save and
\* delete).
THEOREM ServersAreOneDefinition == Spec => []ServerIsOneDefinition
<1>1. McpInv => ServerIsOneDefinition
  <2> SUFFICES ASSUME McpInv, Busy = {}, ~doubt
               PROVE  IF item = Absent THEN secret = Absent
                      ELSE /\ OneSpelling(item.headers)
                           /\ backend = "dynamo" => secret = Parameter(item.headers)
    BY DEF ServerIsOneDefinition
  <2>1. \A w \in Writers : op[w].pc = "idle"
    BY DEF Busy
  <2>2. backend = "dynamo" => secret = Called(item)
    BY <2>1 DEF McpInv, Vouched
  <2>3. backend = "sqlite" => secret = Absent
    BY DEF McpInv, McpTypes, PairTypes
  <2> QED
    BY <2>2, <2>3 DEF McpInv, McpTypes, PairTypes, SoundServer, Sound, Called
<1>2. McpInv /\ (HistoryInv /\ scene \in Scenes) /\ [Next]_vars => McpInv'
  BY McpStepInv
<1> QED
  BY <1>1, <1>2, McpInitInv, HistoryInvariant, PTL DEF Spec

=============================================================================
