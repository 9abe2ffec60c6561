--------------------------- MODULE LocalLaneProofs ---------------------------
(***************************************************************************)
(* The local lane of LocalLane, for any number of repeats, streams, failed  *)
(* row updates and for a process that may die: what a subscriber was sent   *)
(* and what waits for it is the log, the answer of a DELETE that waited is  *)
(* true, and a settled row stands.                                          *)
(***************************************************************************)
EXTENDS LocalLane, SequenceTheorems, FiniteSetTheorems, TLAPS

-----------------------------------------------------------------------------
(* Types *)

Events == [type : {"eval_start", "run_started", "run_completed", "run_failed",
                   "grading_started", "grading_completed", "eval_complete"},
           run : 0..NRuns, status : TerminalStatus \cup {"none"}]

ClientStates == {"idle", "follow", "row", "notfound", "told", "live", "drain",
                 "replay", "ended", "replayed", "gone"}

ClientRecords == [at : ClientStates, lines : Seq(Events), queue : Seq(Events \cup {EOF})]

StreamTypes == log \in Seq(Events) /\ client \in [Clients -> ClientRecords]

\* The sentinel is no event.
LEMMA SentinelApart == EOF \notin Events
  BY DEF EOF, Line, Events

\* What the engine emits.
LEMMA LinesAreEvents ==
    /\ \A status \in TerminalStatus : EvalComplete(status) \in Events
    /\ \A type \in {"eval_start", "grading_started", "grading_completed"} :
          Line(type, 0, "none") \in Events
    /\ \A type \in {"run_started", "run_completed", "run_failed"}, r \in Runs :
          Line(type, r, "none") \in Events
  BY LaneAssumption DEF EvalComplete, Line, Events, Runs

-----------------------------------------------------------------------------
(* Subscribers *)

\* What was sent is the log l from its start ...
SentIsLog(s, l) == \A i \in 1..Len(s.lines) : i <= Len(l) /\ s.lines[i] = l[i]

\* ... what waits comes next, sentinels aside ...
QueueIsNext(s, l) ==
    \A i \in 1..Len(s.queue) : s.queue[i] # EOF =>
        /\ Len(s.lines) + i <= Len(l)
        /\ s.queue[i] = l[Len(s.lines) + i]

\* ... and nothing is missing while the job runs.
QueueIsAll(s, l) == /\ \A i \in 1..Len(s.queue) : s.queue[i] # EOF
                    /\ Len(s.lines) + Len(s.queue) = Len(l)

\* A queue that ends, ends with its one sentinel.
IsSealed(q) == q # <<>> /\ \A i \in 1..Len(q) : q[i] = EOF <=> i = Len(q)

Follows(s, l) ==
    /\ s.at \in {"live", "drain", "replay", "ended", "replayed"} => SentIsLog(s, l)
    /\ s.at \in {"live", "drain", "replay"} => QueueIsNext(s, l)
    /\ s.at = "live" => QueueIsAll(s, l)
    /\ s.at \in {"drain", "replay"} => IsSealed(s.queue)
    /\ s.at \in {"idle", "follow", "row"} => s.lines = <<>>

StreamInv == StreamTypes /\ \A c \in Clients : Follows(client[c], log)

\* No stream has been told anything at first.
LEMMA StreamInitInv == Init => StreamInv
  BY DEF Init, StreamInv, StreamTypes, Follows, ClientStates, ClientRecords

\* A stream that is not told anything still reads the log when that grows.
LEMMA GrowthKeepsFollows ==
    ASSUME NEW l \in Seq(Events), NEW entries \in Seq(Events),
           NEW s \in ClientRecords, Follows(s, l), s.at # "live"
    PROVE  Follows(s, l \o entries)
<1> DEFINE m == l \o entries
<1>1. /\ Len(m) = Len(l) + Len(entries)
      /\ \A i \in 1..Len(l) : m[i] = l[i]
      /\ Len(l) \in Nat /\ Len(entries) \in Nat
  BY ConcatProperties
<1> HIDE DEF m
<1>2. s.at \in {"drain", "replay", "ended", "replayed"} => SentIsLog(s, m)
  BY <1>1 DEF Follows, SentIsLog
<1>3. s.at \in {"drain", "replay"} => QueueIsNext(s, m)
  <2> SUFFICES ASSUME s.at \in {"drain", "replay"}, NEW i \in 1..Len(s.queue), s.queue[i] # EOF
               PROVE  Len(s.lines) + i <= Len(m) /\ s.queue[i] = m[Len(s.lines) + i]
    BY DEF QueueIsNext
  <2>1. Len(s.lines) + i <= Len(l) /\ s.queue[i] = l[Len(s.lines) + i]
    BY DEF Follows, QueueIsNext
  <2>2. Len(s.lines) \in Nat /\ i \in Nat /\ i >= 1
    BY DEF ClientRecords
  <2> QED
    BY <1>1, <2>1, <2>2
<1>4. Follows(s, m)
  BY <1>2, <1>3 DEF Follows
<1> QED
  BY <1>4 DEF m

\* The two parts of a concatenation, and where a position is in it.
LEMMA ConcatParts ==
    ASSUME NEW S, NEW a \in Seq(S), NEW b \in Seq(S)
    PROVE  /\ Len(a \o b) = Len(a) + Len(b)
           /\ \A i \in 1..Len(a) : (a \o b)[i] = a[i]
           /\ \A k \in 1..Len(b) : (a \o b)[Len(a) + k] = b[k]
  BY ConcatProperties

\* A position in a concatenation is in one of its parts.
LEMMA PartOf ==
    ASSUME NEW n \in Nat, NEW m \in Nat, NEW i \in 1..n + m
    PROVE  i \in 1..n \/ \E k \in 1..m : i = n + k
<1>1. CASE i > n
  <2>1. i - n \in 1..m /\ i = n + (i - n)
    BY <1>1
  <2> QED
    BY <2>1
<1>2. CASE i <= n
  BY <1>2
<1> QED
  BY <1>1, <1>2

\* Two parts that read a sequence off, one after the other, make it up.
LEMMA Joined ==
    ASSUME NEW S, NEW a \in Seq(S), NEW b \in Seq(S), NEW l \in Seq(S),
           \A i \in 1..Len(a) : a[i] = l[i],
           \A k \in 1..Len(b) : b[k] = l[Len(a) + k],
           Len(a) + Len(b) = Len(l)
    PROVE  a \o b = l
<1>1. /\ a \o b \in Seq(S) /\ Len(a \o b) = Len(a) + Len(b)
      /\ \A i \in 1..Len(a) : (a \o b)[i] = a[i]
      /\ \A k \in 1..Len(b) : (a \o b)[Len(a) + k] = b[k]
  BY ConcatParts, ConcatProperties
<1>2. Len(a) \in Nat /\ Len(b) \in Nat
  OBVIOUS
<1>3. ASSUME NEW i \in 1..Len(l) PROVE (a \o b)[i] = l[i]
  <2>1. i \in 1..Len(a) + Len(b)
    OBVIOUS
  <2>2. i \in 1..Len(a) \/ \E k \in 1..Len(b) : i = Len(a) + k
    BY <1>2, <2>1, PartOf
  <2> QED
    BY <1>1, <2>2
<1> QED
  BY <1>1, <1>3, SeqEqual

\* Positions are counted one way or the other.
LEMMA Regroup ==
    ASSUME NEW a \in Nat, NEW b \in Nat, NEW c \in Nat
    PROVE  a + (b + c) = (a + b) + c
  OBVIOUS

\* The sentinel after what is not one.
LEMMA SealSeals ==
    ASSUME NEW q \in Seq(Events \cup {EOF}), \A i \in 1..Len(q) : q[i] # EOF
    PROVE  IsSealed(q \o <<EOF>>)
<1> DEFINE m == q \o <<EOF>>
<1>1. <<EOF>> \in Seq(Events \cup {EOF}) /\ Len(<<EOF>>) = 1 /\ <<EOF>>[1] = EOF /\ Len(q) \in Nat
  OBVIOUS
<1>2. /\ Len(m) = Len(q) + 1 /\ m[Len(q) + 1] = EOF
      /\ \A i \in 1..Len(q) : m[i] = q[i]
  BY <1>1, ConcatParts
<1>3. m \in Seq(Events \cup {EOF})
  BY <1>1, ConcatProperties
<1> HIDE DEF m
<1>4. ASSUME NEW i \in 1..Len(m) PROVE m[i] = EOF <=> i = Len(m)
  BY <1>1, <1>2
<1>5. m # <<>>
  BY <1>1, <1>2
<1> QED
  BY <1>4, <1>5 DEF IsSealed, m

\* Queues that get what the log gets.
LEMMA EntriesReachQueues ==
    ASSUME NEW l \in Seq(Events), NEW entries \in Seq(Events),
           NEW s \in ClientRecords, Follows(s, l), s.at = "live",
           NEW q \in Seq(Events \cup {EOF}),
           q = s.queue \o entries \/ q = s.queue \o entries \o <<EOF>>
    PROVE  /\ SentIsLog(s, l \o entries)
           /\ QueueIsNext([s EXCEPT !.queue = q], l \o entries)
           /\ q = s.queue \o entries => QueueIsAll([s EXCEPT !.queue = q], l \o entries)
<1> DEFINE m == l \o entries
           more == s.queue \o entries
           L == Len(s.lines)
           Q == Len(s.queue)
           E == Len(entries)
<1>1. /\ s.lines \in Seq(Events) /\ s.queue \in Seq(Events \cup {EOF})
      /\ entries \in Seq(Events \cup {EOF}) /\ <<EOF>> \in Seq(Events \cup {EOF})
      /\ Len(l) \in Nat /\ E \in Nat /\ L \in Nat /\ Q \in Nat
  BY SeqMonotonic DEF ClientRecords
<1>2. /\ Len(m) = Len(l) + E
      /\ \A i \in 1..Len(l) : m[i] = l[i]
      /\ \A k \in 1..E : m[Len(l) + k] = entries[k]
  BY ConcatParts
<1>3. /\ more \in Seq(Events \cup {EOF})
      /\ Len(more) = Q + E
      /\ \A i \in 1..Q : more[i] = s.queue[i]
      /\ \A k \in 1..E : more[Q + k] = entries[k]
  BY <1>1, ConcatParts, ConcatProperties
<1>4. L + Q = Len(l)
  BY DEF Follows, QueueIsAll
<1>sent. \A i \in 1..L : i \in 1..Len(l) /\ s.lines[i] = l[i]
  BY <1>1 DEF Follows, SentIsLog
<1>next. \A i \in 1..Q : s.queue[i] # EOF /\ L + i \in 1..Len(l) /\ s.queue[i] = l[L + i]
  <2> SUFFICES ASSUME NEW i \in 1..Q
               PROVE  s.queue[i] # EOF /\ L + i \in 1..Len(l) /\ s.queue[i] = l[L + i]
    OBVIOUS
  <2>1. s.queue[i] # EOF
    BY DEF Follows, QueueIsAll
  <2>2. L + i <= Len(l) /\ s.queue[i] = l[L + i]
    BY <2>1 DEF Follows, QueueIsNext
  <2>3. L + i \in Nat /\ L + i >= 1
    <3> HIDE DEF L, Q
    <3> QED
      BY <1>1
  <2> QED
    BY <2>1, <2>2, <2>3, <1>1
<1>sizes. Len(m) = L + (Q + E) /\ \A k \in 1..E : L + (Q + k) = Len(l) + k
  <2> HIDE DEF m, L, Q, E
  <2>1. \A k \in 1..E : L + (Q + k) = (L + Q) + k
    BY <1>1, Regroup
  <2>2. L + (Q + E) = (L + Q) + E
    BY <1>1, Regroup
  <2> QED
    BY <1>2, <1>4, <2>1, <2>2
<1>5. \A k \in 1..E : entries[k] # EOF
  BY SentinelApart
<1>6. CASE q = more \/ q = more \o <<EOF>>
  <2> HIDE DEF m, more, L, Q, E
  <2>1. L + (Q + E) = Len(m)
    BY <1>sizes
  <2>2. \A i \in 1..Q + E : more[i] # EOF /\ L + i \in 1..Len(m) /\ more[i] = m[L + i]
    <3> SUFFICES ASSUME NEW i \in 1..Q + E
                 PROVE  more[i] # EOF /\ L + i \in 1..Len(m) /\ more[i] = m[L + i]
      OBVIOUS
    <3>1. L + i \in 1..Len(m)
      BY <2>1, <1>1
    <3>2. CASE i \in 1..Q
      BY <3>1, <3>2, <1>2, <1>3, <1>next
    <3>3. ASSUME NEW k \in 1..E, i = Q + k
          PROVE  more[i] # EOF /\ more[i] = m[L + i]
      <4>1. L + i = Len(l) + k
        BY <3>3, <1>sizes
      <4> QED
        BY <3>3, <4>1, <1>2, <1>3, <1>5
    <3> QED
      BY <3>1, <3>2, <3>3, <1>1, PartOf
  <2>3. SentIsLog(s, m)
    <3>1. Len(l) <= Len(m)
      BY <1>1, <1>2
    <3>2. \A i \in 1..L : i <= Len(m) /\ s.lines[i] = m[i]
      BY <1>1, <1>2, <1>sent, <3>1
    <3> QED
      BY <3>2 DEF SentIsLog, L
  <2>4. \A i \in 1..Len(q) : q[i] # EOF => L + i <= Len(m) /\ q[i] = m[L + i]
    <3>1. CASE q = more
      BY <3>1, <2>2, <1>1, <1>3
    <3>2. CASE q = more \o <<EOF>>
      <4>1. /\ Len(q) = (Q + E) + 1
            /\ \A i \in 1..Q + E : q[i] = more[i]
            /\ \A k \in 1..1 : q[(Q + E) + k] = EOF
        BY <3>2, <1>1, <1>3, ConcatParts
      <4>2. ASSUME NEW i \in 1..(Q + E) + 1, q[i] # EOF PROVE i \in 1..Q + E
        BY <4>1, <4>2, <1>1, PartOf
      <4> QED
        BY <4>1, <4>2, <2>2, <1>1, <1>2
    <3> QED
      BY <3>1, <3>2, <1>6
  <2>5. QueueIsNext([s EXCEPT !.queue = q], m)
    BY <2>4 DEF QueueIsNext, L, ClientRecords
  <2>6. q = more => QueueIsAll([s EXCEPT !.queue = q], m)
    <3> SUFFICES ASSUME q = more
                 PROVE  (\A i \in 1..Len(q) : q[i] # EOF) /\ L + Len(q) = Len(m)
      BY DEF QueueIsAll, L, ClientRecords
    <3> QED
      BY <1>3, <2>1, <2>2
  <2> QED
    BY <2>3, <2>5, <2>6 DEF m, more
<1> QED
  BY <1>6

-----------------------------------------------------------------------------
(* The actions *)

\* A queue that gets entries, and perhaps the sentinel, is a queue.
LEMMA QueuesGrow ==
    ASSUME NEW q \in Seq(Events \cup {EOF}), NEW entries \in Seq(Events)
    PROVE  /\ q \o entries \in Seq(Events \cup {EOF})
           /\ q \o entries \o <<EOF>> \in Seq(Events \cup {EOF})
<1>1. entries \in Seq(Events \cup {EOF}) /\ <<EOF>> \in Seq(Events \cup {EOF})
  BY SeqMonotonic
<1> QED
  BY <1>1, ConcatProperties

\* emit_entry: every live queue gets what the log gets.
LEMMA EmitKeeps ==
    ASSUME StreamInv, NEW entries \in Seq(Events), Emit(entries)
    PROVE  StreamInv'
<1>1. /\ log \in Seq(Events) /\ log' = log \o entries
      /\ client' = [c \in Clients |->
                       IF client[c].at = "live"
                       THEN [client[c] EXCEPT !.queue = @ \o entries] ELSE client[c]]
  BY DEF StreamInv, StreamTypes, Emit
<1>2. ASSUME NEW c \in Clients
      PROVE  client'[c] \in ClientRecords /\ Follows(client'[c], log')
  <2>1. client[c] \in ClientRecords /\ Follows(client[c], log)
    BY DEF StreamInv, StreamTypes
  <2>2. CASE client[c].at # "live"
    BY <1>1, <2>1, <2>2, GrowthKeepsFollows
  <2>3. CASE client[c].at = "live"
    <3>1. client'[c] = [client[c] EXCEPT !.queue = client[c].queue \o entries]
      BY <1>1, <2>3
    <3>2. client[c].queue \o entries \in Seq(Events \cup {EOF})
      BY <2>1, QueuesGrow DEF ClientRecords
    <3>3. /\ SentIsLog(client[c], log')
          /\ QueueIsNext(client'[c], log')
          /\ QueueIsAll(client'[c], log')
      BY <1>1, <2>1, <2>3, <3>1, <3>2, EntriesReachQueues
    <3>4. client'[c] \in ClientRecords /\ client'[c].at = "live" /\ client'[c].lines = client[c].lines
      BY <2>1, <2>3, <3>1, <3>2 DEF ClientRecords
    <3> QED
      BY <3>3, <3>4 DEF Follows, SentIsLog
  <2> QED
    BY <2>2, <2>3
<1>3. log' \in Seq(Events)
  BY <1>1, ConcatProperties
<1> QED
  BY <1>1, <1>2, <1>3 DEF StreamInv, StreamTypes

\* close(): every live queue gets the last entries and the sentinel.
LEMMA CloseKeeps ==
    ASSUME StreamInv, NEW entries \in Seq(Events), Close(entries)
    PROVE  StreamInv'
<1>1. /\ log \in Seq(Events) /\ log' = log \o entries
      /\ client' = [c \in Clients |->
                       IF client[c].at = "live"
                       THEN [client[c] EXCEPT !.at = "drain", !.queue = @ \o entries \o <<EOF>>]
                       ELSE client[c]]
  BY DEF StreamInv, StreamTypes, Close
<1>2. ASSUME NEW c \in Clients
      PROVE  client'[c] \in ClientRecords /\ Follows(client'[c], log')
  <2>1. client[c] \in ClientRecords /\ Follows(client[c], log)
    BY DEF StreamInv, StreamTypes
  <2>2. CASE client[c].at # "live"
    BY <1>1, <2>1, <2>2, GrowthKeepsFollows
  <2>3. CASE client[c].at = "live"
    <3> DEFINE q == client[c].queue \o entries \o <<EOF>>
    <3>1. client'[c] = [client[c] EXCEPT !.at = "drain", !.queue = q]
      BY <1>1, <2>3
    <3>2. q \in Seq(Events \cup {EOF})
      BY <2>1, QueuesGrow DEF ClientRecords
    <3>3. /\ SentIsLog(client[c], log')
          /\ QueueIsNext([client[c] EXCEPT !.queue = q], log')
      BY <1>1, <2>1, <2>3, <3>2, EntriesReachQueues
    <3>sealed. IsSealed(q)
      <4>1. client[c].queue \o entries \in Seq(Events \cup {EOF})
        BY <2>1, QueuesGrow DEF ClientRecords
      <4>2. client[c].queue \in Seq(Events \cup {EOF}) /\ entries \in Seq(Events \cup {EOF})
        BY <2>1, SeqMonotonic DEF ClientRecords
      <4>3. QueueIsAll([client[c] EXCEPT !.queue = client[c].queue \o entries], log \o entries)
        BY <1>1, <2>1, <2>3, <4>1, EntriesReachQueues
      <4>4. \A i \in 1..Len(client[c].queue \o entries) : (client[c].queue \o entries)[i] # EOF
        BY <2>1, <4>3 DEF QueueIsAll, ClientRecords
      <4> QED
        BY <4>1, <4>4, SealSeals
    <3> HIDE DEF q
    <3>4. /\ client'[c] \in ClientRecords /\ client'[c].at = "drain"
          /\ client'[c].lines = client[c].lines /\ client'[c].queue = q
      BY <2>1, <2>3, <3>1, <3>2 DEF ClientRecords, ClientStates
    <3>5. SentIsLog(client'[c], log') /\ QueueIsNext(client'[c], log')
      BY <2>1, <3>3, <3>4 DEF SentIsLog, QueueIsNext, ClientRecords
    <3> QED
      BY <3>sealed, <3>4, <3>5 DEF Follows
  <2> QED
    BY <2>2, <2>3
<1>3. log' \in Seq(Events)
  BY <1>1, ConcatProperties
<1> QED
  BY <1>1, <1>2, <1>3 DEF StreamInv, StreamTypes

\* A step of the engine emits some entries, closes with some, or tells nobody.
Tells == \/ \E entries \in Seq(Events) : Emit(entries) \/ Close(entries)
         \/ UNCHANGED <<log, client>>

\* The except clause of the engine closes the job.
LEMMA ExceptTells ==
    ASSUME NEW entries \in Seq(Events), NEW used, EngineExcept(entries, used)
    PROVE  Tells
<1>1. entries \o <<EvalComplete("error")>> \in Seq(Events)
  <2>1. <<EvalComplete("error")>> \in Seq(Events)
    BY LinesAreEvents DEF TerminalStatus
  <2> QED
    BY <2>1, ConcatProperties
<1>2. Close(entries \o <<EvalComplete("error")>>) \/ Close(entries)
  BY DEF EngineExcept
<1> QED
  BY <1>1, <1>2 DEF Tells

\* Each step of the engine is one of these.
LEMMA EngineTells == ASSUME EngineStep PROVE Tells
<1>0. <<>> \in Seq(Events)
  OBVIOUS
<1>1. CASE EngineStart
  <2>1. CASE Emit(<<Line("eval_start", 0, "none")>>)
    <3>1. <<Line("eval_start", 0, "none")>> \in Seq(Events)
      BY LinesAreEvents
    <3> QED
      BY <2>1, <3>1 DEF Tells
  <2>2. CASE EngineExcept(<<>>, faults + 1)
    BY <2>2, <1>0, ExceptTells
  <2> QED
    BY <1>1, <2>1, <2>2 DEF EngineStart
<1>2. CASE BatchRaises
  BY <1>0, <1>2, ExceptTells DEF BatchRaises
<1>3. CASE BatchDone
  <2>1. CASE Emit(<<Line("grading_started", 0, "none")>>)
    <3>1. <<Line("grading_started", 0, "none")>> \in Seq(Events)
      BY LinesAreEvents
    <3> QED
      BY <2>1, <3>1 DEF Tells
  <2>2. CASE EngineExcept(<<>>, faults + 1)
    BY <2>2, <1>0, ExceptTells
  <2> QED
    BY <1>3, <2>1, <2>2 DEF BatchDone
<1>4. CASE Graded
  <2> DEFINE graded == <<Line("grading_completed", 0, "none")>>
  <2>1. graded \in Seq(Events)
    BY LinesAreEvents
  <2>2. CASE \E status \in {"completed", "error"} : Close(graded \o <<EvalComplete(status)>>)
    <3>1. PICK status \in {"completed", "error"} : Close(graded \o <<EvalComplete(status)>>)
      BY <2>2
    <3>2. <<EvalComplete(status)>> \in Seq(Events)
      BY LinesAreEvents DEF TerminalStatus
    <3>3. graded \o <<EvalComplete(status)>> \in Seq(Events)
      BY <2>1, <3>2, ConcatProperties
    <3> QED
      BY <3>1, <3>3 DEF Tells
  <2>3. CASE EngineExcept(graded, faults + 1)
    BY <2>1, <2>3, ExceptTells
  <2> QED
    BY <1>4, <2>2, <2>3 DEF Graded
<1>5. CASE CancelDelivered
  <2>1. <<EvalComplete("cancelled")>> \in Seq(Events)
    BY LinesAreEvents DEF TerminalStatus
  <2> QED
    BY <1>0, <1>5, <2>1 DEF CancelDelivered, SettleCancelled, Tells
<1>6. ASSUME NEW r \in Runs, ChildStart(r) \/ ChildFinish(r) PROVE Tells
  <2>1. \A type \in {"run_started", "run_completed", "run_failed"} :
           <<Line(type, r, "none")>> \in Seq(Events)
    BY LinesAreEvents
  <2>2. CASE ChildStart(r)
    BY <2>1, <2>2 DEF ChildStart, Tells, jobVars
  <2>3. CASE ChildFinish(r)
    BY <2>1, <2>3 DEF ChildFinish, Tells, jobVars
  <2> QED
    BY <1>6, <2>2, <2>3
<1> QED
  BY <1>1, <1>2, <1>3, <1>4, <1>5, <1>6 DEF EngineStep

\* follow() hands on the head of the queue: what waited next was sent next.
LEMMA DeliverKeeps ==
    ASSUME StreamInv, NEW c \in Clients, Deliver(c)
    PROVE  Follows(client'[c], log) /\ client'[c] \in ClientRecords
<1> DEFINE s == client[c]
           entry == Head(s.queue)
<1>1. /\ s \in ClientRecords /\ s.at \in {"live", "drain", "replay"} /\ s.queue # <<>>
      /\ Follows(s, log) /\ log \in Seq(Events)
      /\ client'[c] = [s EXCEPT !.queue = Tail(@),
                                !.lines = IF entry = EOF THEN @ ELSE Append(@, entry),
                                !.at = IF entry # EOF THEN @
                                       ELSE IF @ = "replay" THEN "replayed" ELSE "ended"]
  BY DEF Deliver, StreamInv, StreamTypes
<1> HIDE DEF s
<1>2. /\ s.lines \in Seq(Events) /\ s.queue \in Seq(Events \cup {EOF})
      /\ Len(s.queue) \in Nat /\ Len(s.queue) >= 1 /\ Len(s.lines) \in Nat
      /\ entry = s.queue[1] /\ entry \in Events \cup {EOF}
      /\ Tail(s.queue) \in Seq(Events \cup {EOF}) /\ Len(Tail(s.queue)) = Len(s.queue) - 1
      /\ \A i \in 1..Len(Tail(s.queue)) : Tail(s.queue)[i] = s.queue[i + 1]
  BY <1>1, HeadTailProperties DEF ClientRecords
<1> HIDE DEF entry
<1>3. CASE entry = EOF
  <2>1. /\ client'[c].lines = s.lines /\ client'[c].queue = Tail(s.queue)
        /\ client'[c].at \in {"ended", "replayed"} /\ client'[c] \in ClientRecords
        /\ client'[c].at = "ended" => s.at \in {"live", "drain"}
    BY <1>1, <1>2, <1>3 DEF ClientRecords, ClientStates
  <2> QED
    BY <1>1, <2>1 DEF Follows, SentIsLog
<1>4. CASE entry # EOF
  <2> DEFINE sent == Append(s.lines, entry)
  <2>1. /\ sent \in Seq(Events) /\ Len(sent) = Len(s.lines) + 1
        /\ \A i \in 1..Len(s.lines) : sent[i] = s.lines[i]
        /\ sent[Len(s.lines) + 1] = entry
    BY <1>2, <1>4, AppendProperties
  <2> HIDE DEF sent
  <2>2. /\ client'[c].lines = sent /\ client'[c].queue = Tail(s.queue)
        /\ client'[c].at = s.at /\ client'[c] \in ClientRecords
    BY <1>1, <1>2, <1>4, <2>1 DEF ClientRecords, sent
  <2>3. ASSUME s.at \in {"live", "drain", "replay"} PROVE SentIsLog(client'[c], log)
    <3>1. /\ \A i \in 1..Len(s.lines) : i <= Len(log) /\ s.lines[i] = log[i]
          /\ Len(s.lines) + 1 <= Len(log) /\ entry = log[Len(s.lines) + 1]
      BY <1>1, <1>2, <1>4, <2>3 DEF Follows, SentIsLog, QueueIsNext
    <3>2. ASSUME NEW i \in 1..Len(sent) PROVE i <= Len(log) /\ sent[i] = log[i]
      <4>1. i \in 1..Len(s.lines) \/ i = Len(s.lines) + 1
        BY <1>2, <2>1
      <4> QED
        BY <4>1, <3>1, <2>1
    <3> QED
      BY <3>2, <2>2 DEF SentIsLog
  <2>4. ASSUME s.at \in {"live", "drain", "replay"} PROVE QueueIsNext(client'[c], log)
    <3>1. ASSUME NEW i \in 1..Len(Tail(s.queue)), Tail(s.queue)[i] # EOF
          PROVE  Len(sent) + i <= Len(log) /\ Tail(s.queue)[i] = log[Len(sent) + i]
      <4>1. i + 1 \in 1..Len(s.queue) /\ s.queue[i + 1] # EOF
        BY <1>2, <3>1
      <4>2. Len(s.lines) + (i + 1) <= Len(log) /\ s.queue[i + 1] = log[Len(s.lines) + (i + 1)]
        BY <1>1, <2>4, <4>1 DEF Follows, QueueIsNext
      <4>3. Len(s.lines) + (i + 1) = Len(sent) + i
        <5>1. ASSUME NEW a \in Nat, NEW b \in Nat PROVE a + (b + 1) = (a + 1) + b
          OBVIOUS
        <5>2. i \in Nat
          BY <1>2
        <5> QED
          BY <1>2, <2>1, <5>1, <5>2
      <4>4. Tail(s.queue)[i] = s.queue[i + 1]
        BY <1>2
      <4> QED
        BY <4>2, <4>3, <4>4
    <3> QED
      BY <3>1, <2>2 DEF QueueIsNext
  <2>5. ASSUME s.at = "live" PROVE QueueIsAll(client'[c], log)
    <3>1. /\ \A i \in 1..Len(s.queue) : s.queue[i] # EOF
          /\ Len(s.lines) + Len(s.queue) = Len(log)
      BY <1>1, <2>5 DEF Follows, QueueIsAll
    <3>2. ASSUME NEW i \in 1..Len(Tail(s.queue)) PROVE Tail(s.queue)[i] # EOF
      <4>1. i + 1 \in 1..Len(s.queue)
        BY <1>2
      <4> QED
        BY <4>1, <3>1, <1>2
    <3>3. Len(sent) + Len(Tail(s.queue)) = Len(log)
      <4>1. ASSUME NEW a \in Nat, NEW b \in Nat PROVE (a + 1) + (b - 1) = a + b
        OBVIOUS
      <4>2. (Len(s.lines) + 1) + (Len(s.queue) - 1) = Len(s.lines) + Len(s.queue)
        BY <1>2, <4>1
      <4> QED
        BY <1>2, <2>1, <3>1, <4>2
    <3> QED
      BY <3>2, <3>3, <2>2 DEF QueueIsAll
  <2>6. ASSUME s.at \in {"drain", "replay"} PROVE IsSealed(Tail(s.queue))
    <3> DEFINE rest == Tail(s.queue)
    <3>1. \A i \in 1..Len(s.queue) : s.queue[i] = EOF <=> i = Len(s.queue)
      BY <1>1, <2>6 DEF Follows, IsSealed
    <3>2. Len(s.queue) # 1
      BY <1>2, <1>4, <3>1
    <3>3. Len(rest) \in Nat /\ Len(rest) = Len(s.queue) - 1 /\ Len(rest) # 0
      BY <1>2, <3>2
    <3>5. rest # <<>>
      <4>1. Len(<<>>) = 0
        OBVIOUS
      <4> HIDE DEF rest
      <4> QED
        BY <3>3, <4>1
    <3> HIDE DEF rest
    <3>4. ASSUME NEW i \in 1..Len(rest) PROVE rest[i] = EOF <=> i = Len(rest)
      <4>1. i + 1 \in 1..Len(s.queue) /\ (i + 1 = Len(s.queue) <=> i = Len(rest))
        BY <1>2, <3>3
      <4> QED
        BY <1>2, <3>1, <4>1 DEF rest
    <3> QED
      BY <3>4, <3>5 DEF IsSealed, rest
  <2> QED
    BY <1>1, <2>2, <2>3, <2>4, <2>5, <2>6 DEF Follows
<1> QED
  BY <1>3, <1>4

\* A step of one stream leaves the log and the other streams alone.
LEMMA OneStream ==
    ASSUME StreamInv, NEW c \in Clients, log' = log,
           \E s \in ClientRecords : Follows(s, log) /\ client' = [client EXCEPT ![c] = s]
    PROVE  StreamInv'
<1>1. PICK s \in ClientRecords : Follows(s, log) /\ client' = [client EXCEPT ![c] = s]
  OBVIOUS
<1>2. \A d \in Clients : client'[d] = IF d = c THEN s ELSE client[d]
  BY <1>1 DEF StreamInv, StreamTypes
<1>3. client' \in [Clients -> ClientRecords]
  BY <1>1 DEF StreamInv, StreamTypes
<1> QED
  BY <1>1, <1>2, <1>3 DEF StreamInv, StreamTypes

\* Every step keeps what the streams were sent and wait for.
LEMMA StreamStepInv == StreamInv /\ [Next]_vars => StreamInv'
<1> SUFFICES ASSUME StreamInv, [Next]_vars PROVE StreamInv'
  OBVIOUS
<1> USE DEF jobVars, engineVars
<1>1. CASE UNCHANGED <<log, client>>
  BY <1>1 DEF StreamInv, StreamTypes
<1>2. CASE EngineStep
  <2>1. Tells
    BY <1>2, EngineTells
  <2> QED
    BY <1>1, <2>1, EmitKeeps, CloseKeeps DEF Tells
<1>3. ASSUME NEW c \in Clients, ClientStep(c) \/ Disconnect(c) PROVE StreamInv'
  <2>1. client[c] \in ClientRecords /\ Follows(client[c], log) /\ log \in Seq(Events)
    BY DEF StreamInv, StreamTypes
  <2>2. log' = log
    BY <1>3 DEF ClientStep, Lookup, ReplayFinished, Subscribe, Deliver, Disconnect
  <2>3. client'[c] \in ClientRecords /\ Follows(client'[c], log)
    <3>1. CASE Lookup(c)
      BY <2>1, <3>1 DEF Lookup, Goto, ClientRecords, ClientStates, Follows, StreamInv, StreamTypes
    <3>2. CASE ReplayFinished(c)
      <4>1. CASE client' = [client EXCEPT ![c].at = "notfound"]
        BY <2>1, <4>1 DEF ClientRecords, ClientStates, Follows, StreamInv, StreamTypes
      <4>2. ASSUME NEW st \in TerminalStatus,
                   client' = [client EXCEPT ![c].at = "told", ![c].lines = <<EvalComplete(st)>>]
            PROVE  client'[c] \in ClientRecords /\ Follows(client'[c], log)
        <5>1. <<EvalComplete(st)>> \in Seq(Events)
          BY LinesAreEvents
        <5> QED
          BY <2>1, <4>2, <5>1 DEF ClientRecords, ClientStates, Follows, StreamInv, StreamTypes
      <4> QED
        BY <3>2, <4>1, <4>2 DEF ReplayFinished, Goto, TerminalStatus
    <3>3. CASE Subscribe(c)
      <4>1. client[c].lines = <<>> /\ client[c].at = "follow"
        BY <2>1, <3>3 DEF Subscribe, Follows
      <4>2. CASE finished
        <5>1. Replay \o <<EOF>> \in Seq(Events \cup {EOF})
          <6>1. log \in Seq(Events \cup {EOF}) /\ <<EOF>> \in Seq(Events \cup {EOF})
            BY <2>1, SeqMonotonic
          <6> QED
            BY <6>1, ConcatProperties DEF Replay
        <5>2. /\ client'[c] \in ClientRecords /\ client'[c].lines = <<>>
              /\ client'[c].queue = log \o <<EOF>> /\ client'[c].at = "replay"
          BY <2>1, <3>3, <4>1, <4>2, <5>1
             DEF Subscribe, Replay, ClientRecords, ClientStates, StreamInv, StreamTypes
        <5>3. IsSealed(log \o <<EOF>>)
          <6>1. log \in Seq(Events \cup {EOF}) /\ \A i \in 1..Len(log) : log[i] # EOF
            BY <2>1, SeqMonotonic, SentinelApart
          <6> QED
            BY <6>1, SealSeals
        <5>4. SentIsLog(client'[c], log)
          BY <5>2 DEF SentIsLog
        <5>5. QueueIsNext(client'[c], log)
          <6> SUFFICES ASSUME NEW i \in 1..Len(log \o <<EOF>>), (log \o <<EOF>>)[i] # EOF
                       PROVE  0 + i <= Len(log) /\ (log \o <<EOF>>)[i] = log[0 + i]
            BY <5>2 DEF QueueIsNext
          <6>1. log \in Seq(Events \cup {EOF}) /\ <<EOF>> \in Seq(Events \cup {EOF})
            BY <2>1, SeqMonotonic
          <6>2. /\ Len(log \o <<EOF>>) = Len(log) + 1 /\ Len(log) \in Nat
                /\ \A k \in 1..Len(log) : (log \o <<EOF>>)[k] = log[k]
            BY <6>1, ConcatParts
          <6>3. i # Len(log \o <<EOF>>)
            BY <5>3 DEF IsSealed
          <6>4. i \in 1..Len(log)
            BY <6>2, <6>3
          <6> QED
            BY <6>2, <6>4
        <5> QED
          BY <5>2, <5>3, <5>4, <5>5 DEF Follows
      <4>3. CASE ~finished
        <5>1. client'[c] = [client[c] EXCEPT !.at = "live", !.queue = log]
          BY <3>3, <4>3 DEF Subscribe, Replay, StreamInv, StreamTypes
        <5>2. log \in Seq(Events \cup {EOF})
          BY <2>1, SeqMonotonic
        <5>3. \A i \in 1..Len(log) : log[i] # EOF
          BY <2>1, SentinelApart
        <5>4. client'[c] \in ClientRecords /\ client'[c].lines = <<>> /\ client'[c].queue = log
              /\ client'[c].at = "live"
          BY <2>1, <4>1, <5>1, <5>2 DEF ClientRecords, ClientStates
        <5>5. Len(client'[c].lines) = 0 /\ Len(log) \in Nat
          BY <5>4, <2>1
        <5> QED
          BY <5>3, <5>4, <5>5 DEF Follows, SentIsLog, QueueIsNext, QueueIsAll
      <4> QED
        BY <4>2, <4>3
    <3>4. CASE Deliver(c)
      BY <3>4, DeliverKeeps
    <3>5. CASE Disconnect(c)
      BY <2>1, <3>5 DEF Disconnect, ClientRecords, ClientStates, Follows, StreamInv, StreamTypes
    <3> QED
      BY <1>3, <3>1, <3>2, <3>3, <3>4, <3>5 DEF ClientStep
  <2>4. client' = [client EXCEPT ![c] = client'[c]]
    BY <1>3 DEF ClientStep, Lookup, Goto, ReplayFinished, Subscribe, Deliver, Disconnect, StreamInv, StreamTypes
  <2> QED
    BY <2>2, <2>3, <2>4, OneStream
<1>4. CASE Crash
  <2>1. log' = log /\ client' \in [Clients -> ClientRecords]
    BY <1>4 DEF Crash, StreamInv, StreamTypes, ClientRecords, ClientStates
  <2>2. ASSUME NEW c \in Clients PROVE Follows(client'[c], log)
    BY <1>4, <2>2 DEF Crash, StreamInv, StreamTypes, Follows
  <2> QED
    BY <2>1, <2>2 DEF StreamInv, StreamTypes
<1>5. CASE CreateRow \/ Register \/ Delete \/ DeleteReturns \/ Prune \/ UNCHANGED vars
  BY <1>1, <1>5 DEF CreateRow, Register, Delete, DeleteReturns, Prune, vars
<1> QED
  BY <1>2, <1>3, <1>4, <1>5 DEF Next

\* The streams are consistent with the log throughout.
LEMMA StreamInvariant == Spec => []StreamInv
  BY StreamInitInv, StreamStepInv, PTL DEF Spec

\* A subscriber can neither miss an event nor see one twice: what it was sent
\* and what waits in its queue is the log (EvalJob.subscribe, emit_entry,
\* follow and close).
THEOREM SubscribersSeeTheLog == Spec => []SubscriberSeesTheLog
<1>1. StreamInv => SubscriberSeesTheLog
  <2> SUFFICES ASSUME StreamInv, NEW c \in Clients
               PROVE  /\ client[c].at = "live" => client[c].lines \o client[c].queue = log
                      /\ client[c].at = "ended" => IsPrefix(client[c].lines, log)
    BY DEF SubscriberSeesTheLog
  <2> DEFINE s == client[c]
  <2>1. /\ s \in ClientRecords /\ Follows(s, log) /\ log \in Seq(Events)
        /\ s.lines \in Seq(Events) /\ s.lines \in Seq(Events \cup {EOF})
        /\ s.queue \in Seq(Events \cup {EOF}) /\ log \in Seq(Events \cup {EOF})
        /\ Len(s.lines) \in Nat /\ Len(s.queue) \in Nat
    BY SeqMonotonic DEF StreamInv, StreamTypes, ClientRecords
  <2> HIDE DEF s
  <2>2. ASSUME s.at = "live" PROVE s.lines \o s.queue = log
    <3>1. /\ \A i \in 1..Len(s.lines) : s.lines[i] = log[i]
          /\ \A i \in 1..Len(s.queue) : s.queue[i] = log[Len(s.lines) + i]
          /\ Len(s.lines) + Len(s.queue) = Len(log)
      BY <2>1, <2>2 DEF Follows, SentIsLog, QueueIsNext, QueueIsAll
    <3>2. /\ s.lines \in Seq(Events \cup {EOF}) /\ s.queue \in Seq(Events \cup {EOF})
          /\ log \in Seq(Events \cup {EOF})
      BY <2>1
    <3> QED
      BY <3>1, <3>2, Joined
  <2>3. ASSUME s.at = "ended" PROVE IsPrefix(s.lines, log)
    <3>1. \A i \in 1..Len(s.lines) : i <= Len(log) /\ s.lines[i] = log[i]
      BY <2>1, <2>3 DEF Follows, SentIsLog
    <3>2. Len(s.lines) <= Len(log)
      BY <2>1, <3>1
    <3>3. /\ SubSeq(log, 1, Len(s.lines)) \in Seq(Events)
          /\ Len(SubSeq(log, 1, Len(s.lines))) = Len(s.lines)
          /\ \A i \in 1..Len(s.lines) : SubSeq(log, 1, Len(s.lines))[i] = log[i]
      BY <2>1, <3>2, SubSeqProperties
    <3>4. s.lines = SubSeq(log, 1, Len(s.lines))
      BY <2>1, <3>1, <3>3, SeqEqual
    <3> QED
      BY <2>1, <3>2, <3>4 DEF IsPrefix
  <2> QED
    BY <2>2, <2>3 DEF s
<1> QED
  BY <1>1, StreamInvariant, PTL

-----------------------------------------------------------------------------
(* The row and the DELETE *)

RowStates == {"absent", "pending", "running"} \cup TerminalStatus

\* A task that has not settled has an unfinished row and a registered job ...
Unsettled ==
    /\ task = "none" => row \in {"absent", "pending"} /\ finished = FALSE
    /\ task \in {"start", "batch", "judging"} =>
           registered = TRUE /\ finished = FALSE /\ row \in {"pending", "running"}
    /\ task = "done" => finished = TRUE

\* ... a cancelled one ends with the word that it was, unless a save failed ...
ToldCancelled == /\ row = "cancelled"
                 /\ \E i \in 1..Len(log) : log[i] = EvalComplete("cancelled")

\* ... and the DELETE that waits for it has cancelled it after it started.
Waited ==
    /\ deleter \in {"waiting", "done"} => cancelled /\ task \notin {"none", "start"}
    /\ deleter = "waiting" /\ task = "done" /\ faults = 0 => ToldCancelled
    /\ deleter = "done" => task \in {"done", "dead"} /\ (faults = 0 => ToldCancelled)

TaskStates == {"none", "start", "batch", "judging", "done", "dead"}

RowInv ==
    /\ row \in RowStates /\ task \in TaskStates /\ faults \in Nat
    /\ log \in Seq(Events)
    /\ Unsettled
    /\ Waited

\* There is no row at first.
LEMMA RowInitInv == Init => RowInv
  BY DEF Init, RowInv, RowStates, TaskStates, Unsettled, Waited

\* What closes the job closes it, and either way of the except clause leaves a
\* row that was not settled before.
LEMMA ExceptSettles ==
    ASSUME NEW entries, NEW used \in Nat, EngineExcept(entries, used)
    PROVE  /\ task' = "done" /\ finished' = TRUE
           /\ row' = "error" \/ UNCHANGED row
           /\ faults' \in {used, used + 1}
  BY DEF EngineExcept, Close

\* The except clause of a cancellation saves and tells, or fails to save.
LEMMA CancelSettles ==
    ASSUME faults \in Nat, SettleCancelled
    PROVE  /\ task' = "done" /\ finished' = TRUE /\ faults' \in Nat
           /\ row' = "cancelled" \/ UNCHANGED row
           /\ faults' = 0 => row' = "cancelled" /\ log' = log \o <<EvalComplete("cancelled")>>
<1>1. CASE row' = "cancelled" /\ Close(<<EvalComplete("cancelled")>>) /\ UNCHANGED faults
  BY <1>1 DEF SettleCancelled, Close
<1>2. CASE Fail /\ Close(<<>>) /\ UNCHANGED row
  <2>1. faults' = faults + 1
    BY <1>2 DEF Fail
  <2>2. faults' \in Nat /\ faults' # 0
    BY <2>1
  <2> QED
    BY <1>2, <2>2 DEF SettleCancelled, Close
<1> QED
  BY <1>1, <1>2 DEF SettleCancelled

\* What the log holds it keeps.
LEMMA LogKeepsWord ==
    ASSUME NEW l \in Seq(Events), NEW entries \in Seq(Events),
           \E i \in 1..Len(l) : l[i] = EvalComplete("cancelled")
    PROVE  \E i \in 1..Len(l \o entries) : (l \o entries)[i] = EvalComplete("cancelled")
<1>1. PICK i \in 1..Len(l) : l[i] = EvalComplete("cancelled")
  OBVIOUS
<1>2. /\ Len(l \o entries) = Len(l) + Len(entries)
      /\ (l \o entries)[i] = l[i]
      /\ Len(l) \in Nat /\ Len(entries) \in Nat
  BY <1>1, ConcatParts
<1>3. i \in 1..Len(l \o entries)
  BY <1>1, <1>2
<1> QED
  BY <1>1, <1>2, <1>3

\* A log that was closed with the final event has it.
LEMMA LogEndsOnWord ==
    ASSUME NEW l \in Seq(Events), NEW m, m = l \o <<EvalComplete("cancelled")>>
    PROVE  \E i \in 1..Len(m) : m[i] = EvalComplete("cancelled")
<1>1. /\ Len(m) = Len(l) + 1 /\ m[Len(l) + 1] = EvalComplete("cancelled")
      /\ Len(l) \in Nat
  OBVIOUS
<1> QED
  BY <1>1

\* Only a task that has not settled changes the row; whoever does, from an
\* unfinished one, except that the engine may end without having saved.
Settles == \/ row' = row \/ row \notin TerminalStatus

\* How the engine's task goes on.
LEMMA EngineKeepsRow ==
    ASSUME RowInv, EngineStep
    PROVE  RowInv' /\ Settles
<1> USE DEF RowInv
<1>1. PICK entries \in Seq(Events) : Emit(entries) \/ Close(entries) \/ log' = log
  <2>1. <<>> \in Seq(Events)
    OBVIOUS
  <2> QED
    BY <2>1, EngineTells DEF Tells
<1>2. log' \in Seq(Events)
  BY <1>1, ConcatProperties DEF Emit, Close
<1>3. (\E i \in 1..Len(log) : log[i] = EvalComplete("cancelled"))
        => \E i \in 1..Len(log') : log'[i] = EvalComplete("cancelled")
  <2>1. log' = log \o entries \/ log' = log
    BY <1>1 DEF Emit, Close
  <2> QED
    BY <2>1, LogKeepsWord
<1>4. ASSUME NEW e \in Seq(Events), NEW used \in Nat, EngineExcept(e, used),
             deleter \notin {"waiting", "done"}, UNCHANGED <<cancelled, deleter>>, task \in {"start", "batch", "judging"}
      PROVE  RowInv' /\ Settles
  <2>1. /\ task' = "done" /\ finished' = TRUE
        /\ row' = "error" \/ UNCHANGED row
        /\ faults' \in {used, used + 1}
    BY <1>4, ExceptSettles
  <2>2. row' \in RowStates /\ faults' \in Nat /\ task' \in TaskStates
    BY <2>1, <1>4 DEF RowStates, TerminalStatus, TaskStates
  <2>3. Unsettled'
    BY <2>1 DEF Unsettled
  <2>4. Waited'
    BY <2>1, <1>4 DEF Waited
  <2>5. row \notin TerminalStatus
    BY <1>4 DEF Unsettled, TerminalStatus
  <2> QED
    BY <1>2, <2>2, <2>3, <2>4, <2>5 DEF Settles
<1>5. CASE EngineStart
  <2>1. CASE row' = "running" /\ Emit(<<Line("eval_start", 0, "none")>>) /\ task' = "batch" /\ UNCHANGED faults
    <3>1. registered' = registered /\ finished' = finished
      BY <2>1 DEF Emit
    <3>2. task = "start" /\ UNCHANGED <<cancelled, deleter>>
      BY <1>5 DEF EngineStart
    <3>3. Unsettled' /\ row \notin TerminalStatus
      BY <2>1, <3>1, <3>2 DEF Unsettled, TerminalStatus
    <3>4. Waited'
      BY <2>1, <3>2 DEF Waited
    <3>5. row' \in RowStates /\ task' \in TaskStates /\ faults' \in Nat
      BY <2>1 DEF RowStates, TaskStates
    <3> QED
      BY <1>2, <3>3, <3>4, <3>5 DEF Settles
  <2>2. CASE EngineExcept(<<>>, faults + 1)
    <3>1. deleter \notin {"waiting", "done"} /\ task = "start" /\ UNCHANGED <<cancelled, deleter>>
      BY <1>5 DEF EngineStart, Waited
    <3>2. <<>> \in Seq(Events) /\ faults + 1 \in Nat
      OBVIOUS
    <3> QED
      BY <2>2, <3>1, <3>2, <1>4
  <2> QED
    BY <1>5, <2>1, <2>2 DEF EngineStart
<1>6. CASE BatchRaises
  <2>1. <<>> \in Seq(Events)
    OBVIOUS
  <2>2. EngineExcept(<<>>, faults) /\ UNCHANGED <<cancelled, deleter>>
        /\ task = "batch" /\ deleter \notin {"waiting", "done"}
    BY <1>6 DEF BatchRaises, Waited
  <2> QED
    BY <2>1, <2>2, <1>4
<1>7. CASE BatchDone
  <2>1. task = "batch" /\ deleter \notin {"waiting", "done"} /\ UNCHANGED <<cancelled, deleter>>
    BY <1>7 DEF BatchDone, Waited
  <2>2. CASE task' = "judging" /\ Emit(<<Line("grading_started", 0, "none")>>) /\ UNCHANGED <<row, faults>>
    <3>1. registered' = registered /\ finished' = finished
      BY <2>2 DEF Emit
    <3> QED
      BY <1>2, <2>1, <2>2, <3>1 DEF Unsettled, Waited, TaskStates, Settles
  <2>3. CASE EngineExcept(<<>>, faults + 1)
    <3>1. <<>> \in Seq(Events) /\ faults + 1 \in Nat
      OBVIOUS
    <3> QED
      BY <2>1, <2>3, <3>1, <1>4
  <2> QED
    BY <1>7, <2>2, <2>3 DEF BatchDone
<1>8. CASE Graded
  <2> DEFINE graded == <<Line("grading_completed", 0, "none")>>
  <2>1. task = "judging" /\ deleter \notin {"waiting", "done"} /\ UNCHANGED <<cancelled, deleter>>
    BY <1>8 DEF Graded, Waited
  <2>2. ASSUME NEW status \in {"completed", "error"}, row' = status, task' = "done", UNCHANGED faults,
               Close(graded \o <<EvalComplete(status)>>)
        PROVE  RowInv' /\ Settles
    <3>1. finished' = TRUE
      BY <2>2 DEF Close
    <3>2. row' \in RowStates /\ task' \in TaskStates /\ row \notin TerminalStatus
      BY <2>1, <2>2 DEF RowStates, TaskStates, TerminalStatus, Unsettled
    <3> QED
      BY <1>2, <2>1, <2>2, <3>1, <3>2 DEF Unsettled, Waited, Settles
  <2>3. CASE EngineExcept(graded, faults + 1)
    <3>1. graded \in Seq(Events) /\ faults + 1 \in Nat
      BY LinesAreEvents
    <3> QED
      BY <2>1, <2>3, <3>1, <1>4
  <2> QED
    BY <1>8, <2>2, <2>3 DEF Graded
<1>9. CASE CancelDelivered
  <2>1. task \in {"batch", "judging"} /\ cancelled /\ SettleCancelled /\ UNCHANGED <<cancelled, deleter>>
    BY <1>9 DEF CancelDelivered
  <2>2. /\ task' = "done" /\ finished' = TRUE /\ faults' \in Nat
        /\ row' = "cancelled" \/ UNCHANGED row
        /\ faults' = 0 => row' = "cancelled" /\ log' = log \o <<EvalComplete("cancelled")>>
    BY <2>1, CancelSettles
  <2>3. row' \in RowStates /\ task' \in TaskStates /\ row \notin TerminalStatus
    BY <2>1, <2>2 DEF RowStates, TaskStates, TerminalStatus, Unsettled
  <2>4. faults' = 0 => ToldCancelled'
    BY <2>2, LogEndsOnWord DEF ToldCancelled
  <2>5. Waited'
    BY <2>1, <2>2, <2>4 DEF Waited
  <2> QED
    BY <1>2, <2>2, <2>3, <2>5 DEF Unsettled, Settles
<1>10. ASSUME NEW r \in Runs, ChildStart(r) \/ ChildFinish(r) PROVE RowInv' /\ Settles
  <2>1. UNCHANGED <<row, task, cancelled, deleter, faults, registered, finished>>
    BY <1>10 DEF ChildStart, ChildFinish, Emit, jobVars
  <2>2. ToldCancelled => ToldCancelled'
    BY <1>3, <2>1 DEF ToldCancelled
  <2> QED
    BY <1>2, <2>1, <2>2 DEF Unsettled, Waited, Settles
<1> QED
  BY <1>5, <1>6, <1>7, <1>8, <1>9, <1>10 DEF EngineStep

\* Every step keeps the row, the task and the DELETE consistent.
LEMMA RowStepInv == RowInv /\ [Next]_vars => RowInv' /\ Settles
<1> SUFFICES ASSUME RowInv, [Next]_vars PROVE RowInv' /\ Settles
  OBVIOUS
<1> USE DEF jobVars, engineVars
<1>1. CASE EngineStep
  BY <1>1, EngineKeepsRow
<1>2. CASE UNCHANGED <<row, registered, log, finished, cancelled, task, deleter, faults>>
  BY <1>2 DEF RowInv, RowStates, TaskStates, Unsettled, Waited, ToldCancelled, Settles
<1>3. ASSUME NEW c \in Clients, ClientStep(c) \/ Disconnect(c) PROVE RowInv' /\ Settles
  BY <1>2, <1>3 DEF ClientStep, Lookup, ReplayFinished, Subscribe, Deliver, Disconnect
<1>4. CASE CreateRow
  BY <1>4 DEF CreateRow, RowInv, RowStates, TaskStates, TerminalStatus, Unsettled, Waited, ToldCancelled, Settles
<1>5. CASE Register
  BY <1>5 DEF Register, RowInv, RowStates, TaskStates, TerminalStatus, Unsettled, Waited, ToldCancelled, Settles
<1>6. CASE Delete
  <2>1. UNCHANGED <<registered, log, finished, task>> /\ task \notin {"none", "start"} /\ deleter = "idle"
    BY <1>6 DEF Delete
  <2>2. CASE registered /\ ~finished /\ cancelled' = TRUE /\ deleter' = "waiting" /\ UNCHANGED <<row, faults>>
    BY <2>1, <2>2 DEF RowInv, Unsettled, Waited, Settles
  <2>3. CASE /\ ~(registered /\ ~finished) /\ Orphaned /\ UNCHANGED cancelled
             /\ \/ row' = "cancelled" /\ deleter' = "settled" /\ UNCHANGED faults
                \/ Fail /\ deleter' = "failed" /\ UNCHANGED row
    <3>1. task \notin {"batch", "judging"}
      BY <2>3 DEF RowInv, Unsettled
    <3>2. row' \in RowStates /\ faults' \in Nat /\ row \notin TerminalStatus
      BY <2>3 DEF RowInv, RowStates, TerminalStatus, Orphaned, Fail
    <3>3. deleter' \notin {"waiting", "done"}
      BY <2>3
    <3> QED
      BY <2>1, <2>3, <3>1, <3>2, <3>3 DEF RowInv, Unsettled, Waited, Settles
  <2>4. CASE deleter' = "conflict" /\ UNCHANGED <<row, cancelled, faults>>
    BY <2>1, <2>4 DEF RowInv, Unsettled, Waited, Settles
  <2> QED
    BY <1>6, <2>2, <2>3, <2>4 DEF Delete
<1>7. CASE DeleteReturns
  BY <1>7 DEF DeleteReturns, RowInv, Unsettled, Waited, ToldCancelled, Settles
<1>8. CASE Prune
  BY <1>8 DEF Prune, RowInv, Unsettled, Waited, ToldCancelled, Settles
<1>9. CASE Crash
  BY <1>9 DEF Crash, RowInv, TaskStates, Unsettled, Waited, ToldCancelled, Settles
<1>10. CASE UNCHANGED vars
  BY <1>2, <1>10 DEF vars
<1> QED
  BY <1>1, <1>3, <1>4, <1>5, <1>6, <1>7, <1>8, <1>9, <1>10 DEF Next

\* They are consistent throughout.
LEMMA RowInvariant == Spec => []RowInv
<1>1. RowInv /\ [Next]_vars => RowInv'
  BY RowStepInv
<1> QED
  BY <1>1, RowInitInv, PTL DEF Spec

\* Neither the engine, nor repeats that outlive their batch, nor a DELETE that
\* finds no job changes a status that is terminal (engine.py's saves and
\* control's check of an orphaned row), whatever saves fail and wherever the
\* process dies.
THEOREM SettledRowsStand == Spec => SettledRowStands
<1>1. RowInv /\ [Next]_vars => [(row \in TerminalStatus) => UNCHANGED row]_row
  BY RowStepInv DEF Settles
<1> QED
  BY <1>1, RowInvariant, PTL DEF Spec, SettledRowStands

\* A DELETE that has waited for the job answers only once the row reads
\* cancelled and the final event says so (jobs.cancel, _settle_cancelled).
THEOREM DeletesMeanCancelled == Spec => []DeleteMeansCancelled
<1>1. RowInv => DeleteMeansCancelled
  BY DEF RowInv, Waited, ToldCancelled, DeleteMeansCancelled
<1> QED
  BY <1>1, RowInvariant, PTL

-----------------------------------------------------------------------------
(* Where streams end *)

IsWord(entry) == entry.type = "eval_complete"

\* What an ended stream was sent, or will have been when its queue ends.
Reach(s) == IF s.at \in {"drain", "replay"} THEN Len(s.lines) + Len(s.queue) - 1
            ELSE Len(s.lines)

Ending == {"drain", "replay", "ended", "replayed"}

\* The final event of the log is in its reach, and the end of it for a stream
\* that was there when the job closed.
HasWord(s, l) ==
    \E k \in 1..Len(l) : /\ IsWord(l[k])
                         /\ k <= Reach(s)
                         /\ s.at \in {"drain", "ended"} => k = Reach(s)

Wordless(l) == \A i \in 1..Len(l) : ~IsWord(l[i])

\* One final event, with the status of the row.
OneWord(l, status) ==
    \E k \in 1..Len(l) : /\ l[k] = EvalComplete(status)
                         /\ \A i \in 1..Len(l) : IsWord(l[i]) => i = k

CompleteInv ==
    /\ StreamInv /\ RowInv
    /\ finished \in BOOLEAN
    /\ finished => task \in {"done", "dead"}
    /\ ~finished => Wordless(log)
    /\ \A c \in Clients : client[c].at \in Ending => finished
    /\ faults = 0 /\ finished =>
          /\ row \in TerminalStatus
          /\ OneWord(log, row)
          /\ \A c \in Clients : client[c].at \in Ending => HasWord(client[c], log)

\* What a step of the engine does to a log that is closed once: more lines of
\* runs; the final event, after the save that it announces; or no final event,
\* because that save failed.
SaysMore == \/ \E entries \in Seq(Events) : Wordless(entries) /\ Emit(entries)
            \/ UNCHANGED <<log, client, finished>>
Announces == \E entries \in Seq(Events), status \in TerminalStatus :
                /\ Wordless(entries)
                /\ Close(entries \o <<EvalComplete(status)>>)
                /\ row' = status
Mute == \E entries \in Seq(Events) : Wordless(entries) /\ Close(entries) /\ faults' # 0

\* No job and no word at first.
LEMMA CompleteInit == Init => CompleteInv
<1> SUFFICES ASSUME Init PROVE CompleteInv
  OBVIOUS
<1>1. StreamInv /\ RowInv
  BY StreamInitInv, RowInitInv
<1>2. Wordless(log)
  BY DEF Init, Wordless
<1>3. finished = FALSE /\ \A c \in Clients : client[c].at = "idle"
  BY DEF Init
<1> QED
  BY <1>1, <1>2, <1>3 DEF CompleteInv, Ending

\* A line about anything else.
LEMMA OtherLines ==
    \A type \in {"eval_start", "grading_started", "grading_completed",
                 "run_started", "run_completed", "run_failed"}, r \in {0} \cup Runs :
        <<Line(type, r, "none")>> \in Seq(Events) /\ Wordless(<<Line(type, r, "none")>>)
<1> SUFFICES ASSUME NEW type \in {"eval_start", "grading_started", "grading_completed",
                                  "run_started", "run_completed", "run_failed"},
                    NEW r \in {0} \cup Runs
             PROVE  /\ <<Line(type, r, "none")>> \in Seq(Events)
                    /\ Wordless(<<Line(type, r, "none")>>)
  OBVIOUS
<1>1. Line(type, r, "none") \in Events /\ Line(type, r, "none").type = type
  BY LaneAssumption DEF Line, Events, Runs
<1> QED
  BY <1>1 DEF Wordless, IsWord

\* The except clause announces, or its save has failed.
LEMMA ExceptAnnounces ==
    ASSUME NEW entries \in Seq(Events), Wordless(entries), NEW used \in Nat,
           EngineExcept(entries, used)
    PROVE  Announces \/ Mute
<1>1. CASE row' = "error" /\ Close(entries \o <<EvalComplete("error")>>)
  BY <1>1 DEF Announces, TerminalStatus
<1>2. CASE faults' = used + 1 /\ Close(entries)
  <2>1. faults' # 0
    BY <1>2
  <2> QED
    BY <1>2, <2>1 DEF Mute
<1> QED
  BY <1>1, <1>2 DEF EngineExcept

\* The engine closes a job that it has not closed, and never opens one again.
LEMMA EngineSays ==
    ASSUME CompleteInv, EngineStep
    PROVE  \/ SaysMore /\ (finished => UNCHANGED row) /\ (task' \in {task, "batch", "judging"})
           \/ ~finished /\ task' = "done" /\ (Announces \/ Mute)
<1> DEFINE Ends == ~finished /\ task' = "done" /\ (Announces \/ Mute)
           More == /\ SaysMore /\ (finished => UNCHANGED row)
                   /\ (task' \in {task, "batch", "judging"})
<1>1. /\ faults \in Nat /\ faults + 1 \in Nat /\ <<>> \in Seq(Events) /\ Wordless(<<>>)
      /\ finished \in BOOLEAN /\ (task \in {"start", "batch", "judging"} => ~finished)
  BY DEF CompleteInv, RowInv, Wordless
<1>2. ASSUME task \in {"start", "batch", "judging"}, NEW e \in Seq(Events), Wordless(e),
             NEW used \in Nat, EngineExcept(e, used)
      PROVE  Ends
  BY <1>1, <1>2, ExceptAnnounces DEF EngineExcept
<1>3. CASE EngineStart
  <2>1. CASE Emit(<<Line("eval_start", 0, "none")>>) /\ task' = "batch"
    BY <1>1, <1>3, <2>1, OtherLines DEF EngineStart, SaysMore
  <2>2. CASE EngineExcept(<<>>, faults + 1)
    BY <1>1, <1>2, <1>3, <2>2 DEF EngineStart
  <2> QED
    BY <1>3, <2>1, <2>2 DEF EngineStart
<1>4. CASE BatchRaises
  BY <1>1, <1>2, <1>4 DEF BatchRaises
<1>5. CASE BatchDone
  <2>1. CASE Emit(<<Line("grading_started", 0, "none")>>) /\ task' = "judging"
    BY <1>1, <1>5, <2>1, OtherLines DEF BatchDone, SaysMore
  <2>2. CASE EngineExcept(<<>>, faults + 1)
    BY <1>1, <1>2, <1>5, <2>2 DEF BatchDone
  <2> QED
    BY <1>5, <2>1, <2>2 DEF BatchDone
<1>6. CASE Graded
  <2> DEFINE graded == <<Line("grading_completed", 0, "none")>>
  <2>1. graded \in Seq(Events) /\ Wordless(graded) /\ task = "judging"
    BY <1>6, OtherLines DEF Graded
  <2>2. CASE \E status \in {"completed", "error"} :
                row' = status /\ Close(graded \o <<EvalComplete(status)>>) /\ task' = "done"
    <3>1. PICK status \in {"completed", "error"} :
                row' = status /\ Close(graded \o <<EvalComplete(status)>>) /\ task' = "done"
      BY <2>2
    <3>2. Announces
      BY <2>1, <3>1 DEF Announces, TerminalStatus
    <3> QED
      BY <1>1, <2>1, <3>1, <3>2
  <2>3. CASE EngineExcept(graded, faults + 1)
    BY <1>1, <1>2, <2>1, <2>3
  <2> QED
    BY <1>6, <2>2, <2>3 DEF Graded
<1>7. CASE CancelDelivered
  <2>1. task \in {"batch", "judging"} /\ SettleCancelled /\ task' = "done"
    BY <1>7 DEF CancelDelivered, SettleCancelled
  <2>2. CASE row' = "cancelled" /\ Close(<<EvalComplete("cancelled")>>)
    <3>1. <<EvalComplete("cancelled")>> \in Seq(Events)
      BY LinesAreEvents DEF TerminalStatus
    <3>2. <<>> \o <<EvalComplete("cancelled")>> = <<EvalComplete("cancelled")>>
      BY <3>1, ConcatProperties
    <3> QED
      BY <1>1, <2>1, <2>2, <3>2 DEF Announces, TerminalStatus
  <2>3. CASE Fail /\ Close(<<>>)
    <3>1. faults' # 0
      BY <1>1, <2>3 DEF Fail
    <3> QED
      BY <1>1, <2>1, <2>3, <3>1 DEF Mute
  <2> QED
    BY <2>1, <2>2, <2>3 DEF SettleCancelled
<1>8. ASSUME NEW r \in Runs, ChildStart(r) \/ ChildFinish(r) PROVE More
  <2>1. UNCHANGED <<row, task>>
    BY <1>8 DEF ChildStart, ChildFinish
  <2>2. SaysMore
    BY <1>8, OtherLines DEF ChildStart, ChildFinish, SaysMore, jobVars
  <2> QED
    BY <2>1, <2>2
<1> QED
  BY <1>3, <1>4, <1>5, <1>6, <1>7, <1>8 DEF EngineStep

\* More lines of runs leave the final event alone.
LEMMA MoreKeepsWord ==
    ASSUME NEW l \in Seq(Events), NEW entries \in Seq(Events), Wordless(entries)
    PROVE  /\ Wordless(l) => Wordless(l \o entries)
           /\ \A status : OneWord(l, status) => OneWord(l \o entries, status)
           /\ \A s : HasWord(s, l) => HasWord(s, l \o entries)
<1> DEFINE m == l \o entries
<1>1. /\ Len(m) = Len(l) + Len(entries) /\ Len(l) \in Nat /\ Len(entries) \in Nat
      /\ \A i \in 1..Len(l) : m[i] = l[i]
      /\ \A k \in 1..Len(entries) : m[Len(l) + k] = entries[k]
  BY ConcatParts
<1> HIDE DEF m
<1>2. \A i \in 1..Len(m) : IsWord(m[i]) => i \in 1..Len(l) /\ IsWord(l[i])
  <2> SUFFICES ASSUME NEW i \in 1..Len(m), IsWord(m[i])
               PROVE  i \in 1..Len(l) /\ IsWord(l[i])
    OBVIOUS
  <2>1. i \in 1..Len(l) + Len(entries)
    BY <1>1
  <2>2. i \in 1..Len(l) \/ \E k \in 1..Len(entries) : i = Len(l) + k
    BY <1>1, <2>1, PartOf
  <2> QED
    BY <1>1, <2>2 DEF Wordless
<1>3. \A i \in 1..Len(l) : i \in 1..Len(m)
  BY <1>1
<1>4. Wordless(l) => Wordless(m)
  BY <1>2 DEF Wordless
<1>5. \A status : OneWord(l, status) => OneWord(m, status)
  BY <1>1, <1>2, <1>3 DEF OneWord
<1>6. \A s : HasWord(s, l) => HasWord(s, m)
  BY <1>1, <1>3 DEF HasWord
<1> QED
  BY <1>4, <1>5, <1>6 DEF m

\* The final event is the first and the last of its kind.
LEMMA WordIsLast ==
    ASSUME NEW l \in Seq(Events), Wordless(l), NEW entries \in Seq(Events), Wordless(entries),
           NEW status \in TerminalStatus, NEW m, m = l \o (entries \o <<EvalComplete(status)>>)
    PROVE  m \in Seq(Events) /\ m # <<>> /\ IsWord(m[Len(m)]) /\ OneWord(m, status)
<1> DEFINE p == l \o entries
           w == EvalComplete(status)
<1>1. w \in Events /\ w.type = "eval_complete"
  BY LinesAreEvents DEF EvalComplete, Line
<1> HIDE DEF w
<1>2. p \in Seq(Events) /\ <<w>> \in Seq(Events) /\ Wordless(p) /\ m = p \o <<w>>
  BY <1>1, ConcatProperties, ConcatAssociative, MoreKeepsWord DEF w
<1> HIDE DEF p
<1>3. /\ m \in Seq(Events) /\ Len(m) = Len(p) + 1 /\ Len(p) \in Nat /\ m[Len(p) + 1] = w
      /\ \A i \in 1..Len(p) : m[i] = p[i]
  <2>1. m = Append(p, w)
    BY <1>1, <1>2, AppendIsConcat
  <2>2. /\ Append(p, w) \in Seq(Events) /\ Len(Append(p, w)) = Len(p) + 1
        /\ Append(p, w)[Len(p) + 1] = w
        /\ \A i \in 1..Len(p) : Append(p, w)[i] = p[i]
    BY <1>1, <1>2, AppendProperties
  <2>3. Len(p) \in Nat
    BY <1>2
  <2> QED
    BY <2>1, <2>2, <2>3, Zenon
<1>4. \A i \in 1..Len(m) : IsWord(m[i]) => i = Len(m)
  BY <1>2, <1>3 DEF Wordless
<1>5. Len(m) \in 1..Len(m) /\ m[Len(m)] = w /\ m # <<>>
  BY <1>3
<1> QED
  BY <1>1, <1>3, <1>4, <1>5 DEF IsWord, OneWord, w

\* A stream that is told of the end has the final event at its end.
LEMMA AnnouncedIsHeard ==
    ASSUME CompleteInv, ~finished, NEW entries \in Seq(Events), Close(entries),
           NEW c \in Clients, client'[c].at \in Ending,
           log' # <<>>, IsWord(log'[Len(log')])
    PROVE  HasWord(client'[c], log')
<1> DEFINE s == client[c]
           q == s.queue \o entries \o <<EOF>>
<1>1. /\ s \in ClientRecords /\ Follows(s, log) /\ log \in Seq(Events) /\ s.at \notin Ending
      /\ log' = log \o entries
      /\ client'[c] = IF s.at = "live" THEN [s EXCEPT !.at = "drain", !.queue = q] ELSE s
  BY DEF CompleteInv, StreamInv, StreamTypes, Close
<1>2. s.at = "live" /\ client'[c] = [s EXCEPT !.at = "drain", !.queue = q]
  BY <1>1
<1>3. Len(s.lines) + Len(s.queue) = Len(log)
  BY <1>1, <1>2 DEF Follows, QueueIsAll
<1>4. /\ s.lines \in Seq(Events) /\ s.queue \in Seq(Events \cup {EOF})
      /\ entries \in Seq(Events \cup {EOF}) /\ <<EOF>> \in Seq(Events \cup {EOF})
      /\ s.queue \o entries \in Seq(Events \cup {EOF})
      /\ q \in Seq(Events \cup {EOF})
  BY <1>1, SeqMonotonic, QueuesGrow DEF ClientRecords
<1>5. /\ Len(s.queue \o entries) = Len(s.queue) + Len(entries)
      /\ Len(q) = Len(s.queue \o entries) + 1
      /\ Len(log') = Len(log) + Len(entries)
      /\ Len(s.lines) \in Nat /\ Len(s.queue) \in Nat /\ Len(entries) \in Nat /\ Len(log) \in Nat
  <2>1. Len(<<EOF>>) = 1
    OBVIOUS
  <2>2. Len(s.queue \o entries) = Len(s.queue) + Len(entries)
    BY <1>4, ConcatParts
  <2>3. Len(q) = Len(s.queue \o entries) + 1
    BY <1>4, <2>1, ConcatParts
  <2>4. Len(log') = Len(log) + Len(entries)
    BY <1>1, ConcatParts
  <2> QED
    BY <1>1, <1>4, <2>2, <2>3, <2>4
<1>6. /\ client'[c].at = "drain" /\ client'[c].lines = s.lines /\ client'[c].queue = q
  BY <1>1, <1>2 DEF ClientRecords
<1> HIDE DEF q, s
<1>7. Len(s.lines) + Len(q) - 1 = Len(log')
  <2>1. ASSUME NEW a \in Nat, NEW b \in Nat, NEW e \in Nat
        PROVE  a + ((b + e) + 1) - 1 = (a + b) + e
    OBVIOUS
  <2>2. Len(q) = (Len(s.queue) + Len(entries)) + 1
    BY <1>5
  <2>3. Len(s.lines) + Len(q) - 1 = (Len(s.lines) + Len(s.queue)) + Len(entries)
    <3> DEFINE a == Len(s.lines)
               b == Len(s.queue)
               e == Len(entries)
               n == Len(q)
    <3>1. a \in Nat /\ b \in Nat /\ e \in Nat /\ n = (b + e) + 1
      BY <1>5, <2>2
    <3> HIDE DEF a, b, e, n
    <3>2. a + n - 1 = (a + b) + e
      BY <3>1
    <3> QED
      BY <3>2 DEF a, b, e, n
  <2> QED
    BY <1>3, <1>5, <2>3
<1>8. Reach(client'[c]) = Len(log')
  BY <1>6, <1>7 DEF Reach
<1>9. Len(log') \in 1..Len(log')
  <2>1. log' \in Seq(Events)
    BY <1>1, ConcatProperties
  <2> QED
    BY <2>1
<1> QED
  BY <1>8, <1>9 DEF HasWord

\* What is sent counts for what waited: the reach of a stream stays.
LEMMA DeliverReaches ==
    ASSUME StreamInv, NEW c \in Clients, Deliver(c), client[c].at \in {"drain", "replay"}
    PROVE  /\ Reach(client'[c]) = Reach(client[c])
           /\ client'[c].at \in {"drain", "ended"} <=> client[c].at = "drain"
<1> DEFINE s == client[c]
           entry == Head(s.queue)
<1>1. /\ s \in ClientRecords /\ s.at \in {"drain", "replay"} /\ s.queue # <<>>
      /\ Follows(s, log)
      /\ client'[c] = [s EXCEPT !.queue = Tail(@),
                                !.lines = IF entry = EOF THEN @ ELSE Append(@, entry),
                                !.at = IF entry # EOF THEN @
                                       ELSE IF @ = "replay" THEN "replayed" ELSE "ended"]
  BY DEF Deliver, StreamInv, StreamTypes
<1> HIDE DEF s
<1>2. /\ s.lines \in Seq(Events) /\ s.queue \in Seq(Events \cup {EOF})
      /\ Len(s.queue) \in Nat /\ Len(s.queue) >= 1 /\ Len(s.lines) \in Nat
      /\ entry = s.queue[1] /\ entry \in Events \cup {EOF}
      /\ Len(Tail(s.queue)) = Len(s.queue) - 1
  BY <1>1, HeadTailProperties DEF ClientRecords
<1>3. entry = EOF <=> Len(s.queue) = 1
  <2>1. \A i \in 1..Len(s.queue) : s.queue[i] = EOF <=> i = Len(s.queue)
    BY <1>1 DEF Follows, IsSealed
  <2>2. 1 \in 1..Len(s.queue)
    BY <1>2
  <2> HIDE DEF entry
  <2> QED
    BY <1>2, <2>1, <2>2
<1> HIDE DEF entry
<1>4. CASE entry = EOF
  <2>1. /\ client'[c].lines = s.lines
        /\ client'[c].at = IF s.at = "replay" THEN "replayed" ELSE "ended"
    BY <1>1, <1>4 DEF ClientRecords
  <2>2. Reach(client'[c]) = Len(s.lines)
    BY <1>1, <2>1 DEF Reach
  <2>3. Reach(s) = Len(s.lines) + 1 - 1
    BY <1>1, <1>3, <1>4 DEF Reach
  <2>4. Reach(client'[c]) = Reach(s)
    BY <1>2, <2>2, <2>3
  <2> QED
    BY <1>1, <2>1, <2>4 DEF s
<1>5. CASE entry # EOF
  <2>1. /\ client'[c].lines = Append(s.lines, entry) /\ client'[c].queue = Tail(s.queue)
        /\ client'[c].at = s.at
    BY <1>1, <1>5 DEF ClientRecords
  <2>2. Len(Append(s.lines, entry)) = Len(s.lines) + 1
    BY <1>2
  <2>3. Reach(client'[c]) = (Len(s.lines) + 1) + (Len(s.queue) - 1) - 1
    BY <1>1, <1>2, <2>1, <2>2 DEF Reach
  <2>4. Reach(s) = Len(s.lines) + Len(s.queue) - 1
    BY <1>1 DEF Reach
  <2>5. Reach(client'[c]) = Reach(s)
    <3>1. ASSUME NEW a \in Nat, NEW b \in Nat PROVE (a + 1) + (b - 1) - 1 = a + b - 1
      OBVIOUS
    <3> QED
      BY <1>2, <2>3, <2>4, <3>1
  <2> QED
    BY <1>1, <2>1, <2>5 DEF s
<1> QED
  BY <1>4, <1>5

\* How the engine's steps keep it.
LEMMA EngineKeepsComplete ==
    ASSUME CompleteInv, EngineStep
    PROVE  CompleteInv'
<1>1. StreamInv' /\ RowInv'
  BY StreamStepInv, EngineKeepsRow DEF CompleteInv, Next
<1>2. faults' = 0 => faults = 0
  <2>1. faults \in Nat /\ \A f \in Nat : f + 1 # 0 /\ f + 2 # 0
    BY DEF CompleteInv, RowInv
  <2>2. ASSUME NEW used \in {faults, faults + 1}, faults' = used \/ faults' = used + 1, faults' = 0
        PROVE  faults = 0
    BY <2>1, <2>2
  <2>3. \A entries, used : EngineExcept(entries, used) => faults' = used \/ faults' = used + 1
    BY DEF EngineExcept
  <2>4. SettleCancelled => faults' \in {faults, faults + 1}
    BY DEF SettleCancelled, Fail
  <2>5. faults' \in {faults, faults + 1, (faults + 1) + 1}
    BY <2>3, <2>4 DEF EngineStep, EngineStart, ChildStart, ChildFinish, BatchRaises,
                      BatchDone, Graded, CancelDelivered
  <2> QED
    BY <2>1, <2>5
<1>3. log \in Seq(Events) /\ finished \in BOOLEAN
  BY DEF CompleteInv, RowInv
<1>4. CASE SaysMore /\ (finished => UNCHANGED row) /\ task' \in {task, "batch", "judging"}
  <2>1. finished' = finished
    BY <1>4 DEF SaysMore, Emit
  <2>2. finished => task' \in {"done", "dead"}
    BY <1>1, <1>4, <2>1 DEF CompleteInv, RowInv, Unsettled
  <2>3. CASE UNCHANGED <<log, client, finished>>
    BY <1>1, <1>2, <1>4, <2>2, <2>3 DEF CompleteInv
  <2>4. ASSUME NEW entries \in Seq(Events), Wordless(entries), Emit(entries)
        PROVE  CompleteInv'
    <3>1. log' = log \o entries
      BY <2>4 DEF Emit
    <3>2. ASSUME NEW c \in Clients, client'[c].at \in Ending
          PROVE  client'[c] = client[c]
      BY <2>4, <3>2 DEF Emit, Ending, CompleteInv, StreamInv, StreamTypes, ClientRecords
    <3>3. ~finished' => Wordless(log')
      BY <1>3, <2>1, <2>4, <3>1, MoreKeepsWord DEF CompleteInv
    <3>4. \A c \in Clients : client'[c].at \in Ending => finished'
      BY <2>1, <3>2 DEF CompleteInv
    <3>5. ASSUME faults' = 0, finished'
          PROVE  /\ row' \in TerminalStatus /\ OneWord(log', row')
                 /\ \A c \in Clients : client'[c].at \in Ending => HasWord(client'[c], log')
      BY <1>2, <1>3, <1>4, <2>1, <2>4, <3>1, <3>2, <3>5, MoreKeepsWord DEF CompleteInv
    <3>6. finished' \in BOOLEAN /\ (finished' => task' \in {"done", "dead"})
      BY <1>3, <2>1, <2>2
    <3> QED
      BY <1>1, <3>3, <3>4, <3>5, <3>6 DEF CompleteInv
  <2> QED
    BY <1>4, <2>3, <2>4 DEF SaysMore
<1>5. CASE ~finished /\ task' = "done" /\ Announces
  <2>1. PICK entries \in Seq(Events), status \in TerminalStatus :
           Wordless(entries) /\ Close(entries \o <<EvalComplete(status)>>) /\ row' = status
    BY <1>5 DEF Announces
  <2>2. log' = log \o (entries \o <<EvalComplete(status)>>) /\ finished' = TRUE
    BY <2>1 DEF Close
  <2>3. log' # <<>> /\ IsWord(log'[Len(log')]) /\ OneWord(log', row')
    BY <1>3, <1>5, <2>1, <2>2, WordIsLast DEF CompleteInv
  <2>4. entries \o <<EvalComplete(status)>> \in Seq(Events)
    BY LinesAreEvents, ConcatProperties
  <2>5. \A c \in Clients : client'[c].at \in Ending => HasWord(client'[c], log')
    BY <1>5, <2>1, <2>3, <2>4, AnnouncedIsHeard
  <2> QED
    BY <1>1, <1>5, <2>1, <2>2, <2>3, <2>5 DEF CompleteInv
<1>6. CASE ~finished /\ task' = "done" /\ Mute
  <2>1. finished' = TRUE /\ faults' # 0
    BY <1>6 DEF Mute, Close
  <2> QED
    BY <1>1, <1>6, <2>1 DEF CompleteInv
<1> QED
  BY <1>4, <1>5, <1>6, EngineSays

\* Every step keeps it.
LEMMA CompleteStep == CompleteInv /\ [Next]_vars => CompleteInv'
<1> SUFFICES ASSUME CompleteInv, [Next]_vars PROVE CompleteInv'
  OBVIOUS
<1> USE DEF jobVars, engineVars
<1>1. StreamInv' /\ RowInv'
  BY StreamStepInv, RowStepInv DEF CompleteInv
<1>2. CASE EngineStep
  BY <1>2, EngineKeepsComplete
<1>3. ASSUME NEW c \in Clients, ClientStep(c) \/ Disconnect(c) PROVE CompleteInv'
  <2>1. UNCHANGED <<row, log, finished, task, faults>>
    BY <1>3 DEF ClientStep, Lookup, ReplayFinished, Subscribe, Deliver, Disconnect
  <2>2. \A d \in Clients \ {c} : client'[d] = client[d]
    BY <1>3 DEF ClientStep, Lookup, Goto, ReplayFinished, Subscribe, Deliver, Disconnect,
                CompleteInv, StreamInv, StreamTypes
  <2>3. client'[c].at \in Ending => finished
    <3>1. client[c] \in ClientRecords
      BY DEF CompleteInv, StreamInv, StreamTypes
    <3>2. CASE Lookup(c)
      BY <3>1, <3>2 DEF Lookup, Goto, CompleteInv, StreamInv, StreamTypes, ClientRecords, Ending
    <3>3. CASE ReplayFinished(c)
      BY <3>1, <3>3 DEF ReplayFinished, Goto, CompleteInv, StreamInv, StreamTypes, ClientRecords, Ending
    <3>4. CASE Subscribe(c)
      BY <3>1, <3>4 DEF Subscribe, CompleteInv, StreamInv, StreamTypes, ClientRecords, Ending
    <3>5. CASE Deliver(c)
      <4>1. CASE client[c].at \in Ending
        BY <4>1 DEF CompleteInv
      <4>2. CASE client[c].at = "live"
        <5>1. Head(client[c].queue) # EOF
          <6>1. /\ client[c].queue # <<>> /\ client[c].queue \in Seq(Events \cup {EOF})
                /\ QueueIsAll(client[c], log)
            BY <3>1, <3>5, <4>2 DEF Deliver, CompleteInv, StreamInv, Follows, ClientRecords
          <6>2. 1 \in 1..Len(client[c].queue) /\ Head(client[c].queue) = client[c].queue[1]
            BY <6>1
          <6> QED
            BY <6>1, <6>2 DEF QueueIsAll
        <5>2. client'[c].at = "live"
          BY <3>1, <3>5, <4>2, <5>1 DEF Deliver, CompleteInv, StreamInv, StreamTypes, ClientRecords
        <5> QED
          BY <5>2 DEF Ending
      <4> QED
        BY <3>5, <4>1, <4>2 DEF Deliver, Ending
    <3>6. CASE Disconnect(c)
      BY <3>1, <3>6 DEF Disconnect, CompleteInv, StreamInv, StreamTypes, Ending
    <3> QED
      BY <1>3, <3>2, <3>3, <3>4, <3>5, <3>6 DEF ClientStep
  <2>4. ASSUME faults = 0, finished, client'[c].at \in Ending PROVE HasWord(client'[c], log)
    <3>1. client[c] \in ClientRecords /\ log \in Seq(Events)
      BY DEF CompleteInv, StreamInv, StreamTypes
    <3>2. CASE Lookup(c)
      BY <3>1, <3>2, <2>4 DEF Lookup, Goto, CompleteInv, StreamInv, StreamTypes, ClientRecords, Ending
    <3>3. CASE ReplayFinished(c)
      BY <3>1, <3>3, <2>4 DEF ReplayFinished, Goto, CompleteInv, StreamInv, StreamTypes, ClientRecords, Ending
    <3>4. CASE Subscribe(c)
      <4>1. /\ client'[c].at = "replay" /\ client'[c].lines = <<>>
            /\ client'[c].queue = log \o <<EOF>>
        BY <3>1, <3>4, <2>4
           DEF Subscribe, Replay, Follows, CompleteInv, StreamInv, StreamTypes, ClientRecords
      <4>2. Len(log \o <<EOF>>) = Len(log) + 1 /\ Len(log) \in Nat
        BY <3>1, SeqMonotonic, ConcatParts
      <4>3. Reach(client'[c]) = Len(log)
        BY <4>1, <4>2 DEF Reach
      <4>4. PICK k \in 1..Len(log) : log[k] = EvalComplete(row)
        BY <2>4 DEF CompleteInv, OneWord
      <4> QED
        BY <4>1, <4>2, <4>3, <4>4 DEF HasWord, IsWord, EvalComplete, Line
    <3>5. CASE Deliver(c)
      <4>1. client[c].at \in {"drain", "replay"}
        <5>1. client[c].at \in {"live", "drain", "replay"}
          BY <3>5 DEF Deliver
        <5>2. client[c].at # "live"
          <6> SUFFICES ASSUME client[c].at = "live" PROVE FALSE
            OBVIOUS
          <6>1. /\ client[c].queue # <<>> /\ client[c].queue \in Seq(Events \cup {EOF})
                /\ QueueIsAll(client[c], log)
            BY <3>1, <3>5 DEF Deliver, CompleteInv, StreamInv, Follows, ClientRecords
          <6>2. 1 \in 1..Len(client[c].queue) /\ Head(client[c].queue) = client[c].queue[1]
            BY <6>1
          <6>3. Head(client[c].queue) # EOF
            BY <6>1, <6>2 DEF QueueIsAll
          <6>4. client'[c].at = "live"
            BY <3>1, <3>5, <6>3 DEF Deliver, CompleteInv, StreamInv, StreamTypes, ClientRecords
          <6> QED
            BY <2>4, <6>4 DEF Ending
        <5> QED
          BY <5>1, <5>2
      <4>2. HasWord(client[c], log)
        BY <2>4, <4>1 DEF CompleteInv, Ending
      <4>3. /\ Reach(client'[c]) = Reach(client[c])
            /\ client'[c].at \in {"drain", "ended"} <=> client[c].at = "drain"
        BY <3>5, <4>1, DeliverReaches DEF CompleteInv
      <4> QED
        BY <4>2, <4>3 DEF HasWord
    <3>6. CASE Disconnect(c)
      BY <3>1, <3>6, <2>4 DEF Disconnect, CompleteInv, StreamInv, StreamTypes, Ending
    <3> QED
      BY <1>3, <3>2, <3>3, <3>4, <3>5, <3>6 DEF ClientStep
  <2> QED
    BY <1>1, <2>1, <2>2, <2>3, <2>4 DEF CompleteInv
<1>4. CASE Crash
  <2>1. UNCHANGED <<row, log, finished, faults>> /\ task' = "dead"
    BY <1>4 DEF Crash
  <2>2. \A c \in Clients : client'[c].at \in Ending => client'[c] = client[c]
    BY <1>4 DEF Crash, Ending
  <2> QED
    BY <1>1, <2>1, <2>2 DEF CompleteInv
<1>5. CASE /\ UNCHANGED <<log, client, finished, faults>> /\ (finished => UNCHANGED task)
           /\ finished /\ faults = 0 => UNCHANGED row
  BY <1>1, <1>5 DEF CompleteInv
<1>6. CASE CreateRow \/ Register \/ DeleteReturns \/ Prune \/ UNCHANGED vars
  <2>1. /\ finished => task # "none"
        /\ finished /\ faults = 0 => row # "absent"
    BY DEF CompleteInv, TerminalStatus
  <2> QED
    BY <1>5, <1>6, <2>1 DEF CreateRow, Register, DeleteReturns, Prune, vars
<1>7. CASE Delete
  <2>1. UNCHANGED <<log, client, finished, task>>
    BY <1>7 DEF Delete
  <2>2. faults \in Nat /\ (faults' = 0 => faults = 0)
    BY <1>7 DEF Delete, Fail, CompleteInv, RowInv
  <2>3. faults = 0 /\ finished => row' = row
    BY <1>7 DEF Delete, Orphaned, CompleteInv, TerminalStatus
  <2> QED
    BY <1>1, <2>1, <2>2, <2>3 DEF CompleteInv
<1> QED
  BY <1>2, <1>3, <1>4, <1>6, <1>7 DEF Next

\* It holds throughout.
LEMMA CompleteInvariant == Spec => []CompleteInv
  BY CompleteInit, CompleteStep, PTL DEF Spec

\* A stream that has come to its end as the job closed ends on eval_complete, with
\* the status of the row; a replay has that line too, and once: close() is called
\* after the last emit, and subscribe() takes the log and the queue in one step.
THEOREM EndedStreamsAreComplete == Spec => []EndedStreamIsComplete
<1>1. CompleteInv => EndedStreamIsComplete
  <2> SUFFICES ASSUME CompleteInv, NEW c \in Clients,
                      client[c].at \in {"ended", "replayed"}, faults = 0
               PROVE  LET lines == client[c].lines
                      IN /\ Cardinality(Completes(lines)) = 1
                         /\ \A i \in Completes(lines) :
                              /\ lines[i].status = row
                              /\ client[c].at = "ended" => i = Len(lines)
    BY DEF EndedStreamIsComplete
  <2> DEFINE s == client[c]
  <2>1. /\ s \in ClientRecords /\ SentIsLog(s, log) /\ log \in Seq(Events)
        /\ OneWord(log, row) /\ HasWord(s, log)
    BY DEF CompleteInv, StreamInv, StreamTypes, Follows, Ending
  <2>2. PICK k \in 1..Len(log) : /\ log[k] = EvalComplete(row)
                                 /\ \A i \in 1..Len(log) : IsWord(log[i]) => i = k
    BY <2>1 DEF OneWord
  <2>3. Reach(s) = Len(s.lines) /\ Len(s.lines) \in Nat
    <3>1. s.lines \in Seq(Events)
      BY <2>1 DEF ClientRecords
    <3>2. s.at \notin {"drain", "replay"}
      OBVIOUS
    <3> HIDE DEF s
    <3> QED
      BY <3>1, <3>2 DEF Reach
  <2>4. k <= Len(s.lines) /\ (s.at = "ended" => k = Len(s.lines))
    BY <2>1, <2>2, <2>3 DEF HasWord
  <2>5. \A i \in 1..Len(s.lines) : i \in 1..Len(log) /\ s.lines[i] = log[i]
    BY <2>1, <2>3 DEF SentIsLog
  <2>6. k \in 1..Len(s.lines) /\ s.lines[k] = EvalComplete(row)
    BY <2>2, <2>3, <2>4, <2>5
  <2>7. Completes(s.lines) = {k}
    BY <2>2, <2>5, <2>6 DEF Completes, IsWord, EvalComplete, Line
  <2>8. Cardinality(Completes(s.lines)) = 1
    BY <2>7, FS_Singleton
  <2> QED
    BY <2>4, <2>6, <2>7, <2>8 DEF EvalComplete, Line
<1> QED
  BY <1>1, CompleteInvariant, PTL
=============================================================================
