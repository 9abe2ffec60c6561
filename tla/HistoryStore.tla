---------------------------- MODULE HistoryStore ----------------------------
(***************************************************************************)
(* The history of runs and evaluations and its two backends: SQLite        *)
(* (store/history.py, one session and one transaction per call) and        *)
(* DynamoDB (store/ddb_history.py over store/ddb_items.py, one META item   *)
(* per row, listed through the GSI1 index).                                *)
(*                                                                         *)
(* A row is a time, a status and a body.  Listings go newest first, by     *)
(* (ts, id), in pages; a client walks them with the cursor of the last     *)
(* page while rows come, change and go.  An update is one transaction in   *)
(* SQLite; in DynamoDB it reads the item and puts it back, the window      *)
(* between the two is inFlight, and the read is eventually consistent: it  *)
(* may find an item the row no longer has, or a row that is gone.  That it *)
(* misses a row made before a model was called is left out.                *)
(***************************************************************************)
EXTENDS Integers, FiniteSets

CONSTANTS
    RunIds, EvalIds,  \* row ids: integers, the order of the uuids
    Lagging,          \* bound: the ids of which a read may find an older item
    Times,            \* what a clock may say: the order of the ISO strings
    Backends,         \* the backends a deployment may resolve
    PageSize,         \* mode -> rows per page ("list": limit, "export": EXPORT_PAGE_SIZE)
    Absent,           \* no row, no cursor, no item in flight
    AnyStatus         \* a listing without a status filter

ASSUME HistoryAssumption ==
    /\ RunIds \subseteq Int /\ EvalIds \subseteq Int /\ RunIds \cap EvalIds = {}
    /\ IsFiniteSet(RunIds) /\ IsFiniteSet(EvalIds)
    /\ Lagging \subseteq RunIds \cup EvalIds
    /\ Times \subseteq Int
    /\ Absent \notin [ts : Int, id : Int]
    /\ Backends \subseteq {"sqlite", "dynamo"}
    /\ PageSize \in [{"list", "export"} -> Nat \ {0}]

VARIABLES
    backend,   \* get_history_repo's choice
    rows,      \* id -> row or Absent
    inFlight,  \* id -> the item an update has read and not yet put, or Absent
    past,      \* DynamoDB: id -> the items it has had before
    gone,      \* ids of the runs deleted for good, see DeleteRun
    walk       \* a client's walk through a listing, or Absent

storeVars == <<backend, rows, inFlight, past, gone, walk>>

Ids == RunIds \cup EvalIds
Terminal == {"completed", "error", "cancelled"}
Present == {i \in Ids : rows[i] # Absent}

(***************************************************************************)
(* Listings.                                                               *)
(***************************************************************************)
PartOf(i) == IF i \in RunIds THEN "RUN" ELSE "EVAL"

\* row i comes after the position (ts, id) in a newest-first listing; a
\* cursor is such a position, the last row's of the page before
After(i, position) ==
    \/ rows[i].ts < position.ts
    \/ rows[i].ts = position.ts /\ i < position.id

PositionOf(i) == [ts |-> rows[i].ts, id |-> i]

FirstOf(S, n) == {i \in S : Cardinality({j \in S : After(i, PositionOf(j))}) < n}
LastOf(S) == CHOOSE i \in S : \A j \in S \ {i} : After(i, PositionOf(j))

Wanted(i, want) == want = AnyStatus \/ rows[i].status = want

\* a mutant: the row of the cursor is on the next page again
PartitionFrom(part, cursor) ==
    {i \in Present : PartOf(i) = part /\ (cursor = Absent \/ i = cursor.id \/ After(i, cursor))}

Partition(part, cursor) ==
    {i \in Present : PartOf(i) = part /\ (cursor = Absent \/ After(i, cursor))}

\* SQLite filters in the query and asks for one row more than the page holds;
\* runs and evaluations are listed alike
SqlitePage(part, want, cursor, n) ==
    LET found == {i \in Partition(part, cursor) : Wanted(i, want)}
        page  == FirstOf(found, n)
    IN  [items  |-> page,
         cursor |-> IF Cardinality(found) > n THEN PositionOf(LastOf(page)) ELSE Absent]

\* the index stops at Limit and says so even when nothing follows
DynamoPage(part, cursor, n) ==
    LET found == Partition(part, cursor)
        page  == FirstOf(found, n)
    IN  [items  |-> page,
         cursor |-> IF Cardinality(found) >= n THEN PositionOf(LastOf(page)) ELSE Absent]

\* the filters narrow a page that has been cut
Narrowed(page, want) == [page EXCEPT !.items = {i \in @ : Wanted(i, want)}]

DynamoRuns(want, cursor, n)        == Narrowed(DynamoPage("RUN", cursor, n), want)
DynamoEvaluations(want, cursor, n) == Narrowed(DynamoPage("EVAL", cursor, n), want)

\* SQLite's export is one query over everything that matches, in one session
SqliteExport(want) ==
    [items |-> {i \in Partition("RUN", Absent) : Wanted(i, want)}, cursor |-> Absent]

Page ==
    LET n == PageSize[walk.mode] IN
    CASE backend = "dynamo" /\ walk.part = "RUN"  -> DynamoRuns(walk.want, walk.cursor, n)
      [] backend = "dynamo" /\ walk.part = "EVAL" -> DynamoEvaluations(walk.want, walk.cursor, n)
      [] backend = "sqlite" /\ walk.mode = "list" ->
            SqlitePage(walk.part, walk.want, walk.cursor, n)
      [] backend = "sqlite" /\ walk.mode = "export" -> SqliteExport(walk.want)

StartWalk(part, want, mode) ==
    /\ walk = Absent
    /\ mode = "export" => part = "RUN"
    /\ walk' = [part |-> part, want |-> want, mode |-> mode, cursor |-> Absent,
                over |-> FALSE, seen |-> {},
                due |-> {i \in Present : PartOf(i) = part /\ Wanted(i, want)}]
    /\ UNCHANGED <<backend, rows, inFlight, past, gone>>

\* GET with the last page's next_cursor; or the export's next page
ReadPage ==
    /\ walk # Absent
    /\ ~walk.over
    /\ walk' = [walk EXCEPT !.seen = @ \cup Page.items,
                            !.cursor = Page.cursor,
                            !.over = Page.cursor = Absent]
    /\ UNCHANGED <<backend, rows, inFlight, past, gone>>

(***************************************************************************)
(* Writes.  Whoever changes the table tells the walk which of the rows it  *)
(* was due no longer match.                                                *)
(***************************************************************************)
SetRow(i, row) ==
    /\ rows' = [rows EXCEPT ![i] = row]
    /\ past' = IF backend = "sqlite" \/ i \notin Lagging \/ rows[i] = Absent THEN past
               ELSE [past EXCEPT ![i] = @ \cup {rows[i]}]
    /\ walk' = IF walk = Absent \/ i \notin walk.due THEN walk
               ELSE IF row # Absent /\ (walk.want = AnyStatus \/ row.status = walk.want)
               THEN walk
               ELSE [walk EXCEPT !.due = @ \ {i}]

\* the row an insert writes, and the item: the time is the index's sort key
NewRow(ts, status, body) == [ts |-> ts, status |-> status, body |-> body]

\* an insert and its commit
InsertRow(i, ts, status, body) ==
    /\ backend = "sqlite"
    /\ rows[i] = Absent
    /\ SetRow(i, NewRow(ts, status, body))
    /\ UNCHANGED <<backend, inFlight, gone>>

\* put_item, unconditional: that nothing is overwritten is the uuid's doing
PutRow(i, ts, status, body) ==
    /\ backend = "dynamo"
    /\ rows[i] = Absent
    /\ SetRow(i, NewRow(ts, status, body))
    /\ UNCHANGED <<backend, inFlight, gone>>

\* a partial update: the fields that are not passed stay
Assigned(row, status, body) == [row EXCEPT !.status = status, !.body = body]

\* one session, one transaction
UpdateSqlite(i, status, body) ==
    /\ backend = "sqlite"
    /\ rows[i] # Absent
    /\ SetRow(i, Assigned(rows[i], status, body))
    /\ UNCHANGED <<backend, inFlight, gone>>

\* what a get_item without ConsistentRead may return
Versions(i) == past[i] \cup ({rows[i]} \ {Absent})

\* the same on an item: get_item
UpdateRead(i) ==
    /\ backend = "dynamo"
    /\ inFlight[i] = Absent
    /\ \E item \in Versions(i) : inFlight' = [inFlight EXCEPT ![i] = item]
    /\ UNCHANGED <<backend, rows, past, gone, walk>>

\* and put_item, unconditional, of the whole item
UpdatePut(i, status, body) ==
    /\ inFlight[i] # Absent
    /\ SetRow(i, Assigned(inFlight[i], status, body))
    /\ inFlight' = [inFlight EXCEPT ![i] = Absent]
    /\ UNCHANGED <<backend, gone>>

\* update_run of a row that is not there: NotFoundError, nothing written
UpdateMissing(i) ==
    /\ inFlight[i] = Absent
    /\ rows[i] = Absent
    /\ UNCHANGED storeVars

\* DELETE /runs/{id}: there is no delete of an evaluation.  A run that DynamoDB
\* has as running may be put back by the update its engine still owes.
DeleteRun(i) ==
    /\ i \in RunIds \cap Present
    /\ SetRow(i, Absent)
    /\ gone' = IF backend = "sqlite" \/ rows[i].status \in Terminal THEN gone \cup {i} ELSE gone
    /\ UNCHANGED <<backend, inFlight>>

\* A deleted run is gone, unless it was deleted on DynamoDB while it ran: no
\* update puts it back, and it is not taken for a new one.
DeletedStaysDeleted == \A i \in gone : rows[i] = Absent

\* A walk misses nothing: a row that was there when it started, was not
\* deleted and matched all the way is on one of its pages, however many rows
\* share its timestamp, came or went meanwhile.
WalkIsComplete == walk # Absent /\ walk.over => walk.due \subseteq walk.seen

\* A walk shows no row twice.
NoRowTwice == [][ReadPage => Page.items \cap walk.seen = {}]_storeVars

\* A run's terminal row is final: nothing rewrites it, it can only be deleted.
\* (An evaluation's is not: its job and DELETE both write it.)
TerminalRowStands ==
    [][\A i \in RunIds :
          rows[i] # Absent /\ rows[i].status \in Terminal
              => rows'[i] \in {rows[i], Absent}]_storeVars

\* What is final of a run stays: its terminal row is not rewritten, and it does
\* not come back once it is deleted for good.
FinalRowsStand == []DeletedStaysDeleted /\ TerminalRowStands

\* A walk shows every row it owes, once.
WalkIsExact == []WalkIsComplete /\ NoRowTwice
=============================================================================
