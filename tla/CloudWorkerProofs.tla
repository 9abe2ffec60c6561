-------------------------- MODULE CloudWorkerProofs --------------------------
(***************************************************************************)
(* The worker of CloudWorker, for any number of repeats and any faults.     *)
(*                                                                          *)
(* First why a row is settled, and as what: a synchronous section is one of *)
(* a few shapes (Section), and a cancellation or a deadline's reason in it  *)
(* has its cause in the store (Grounds).                                    *)
(*                                                                          *)
(* Then what readers of the table rely on: a run that is announced as       *)
(* completed is stored, a row that reads terminal has its log closed and is *)
(* the lifecycle's, few runs start after a cancel, the log is in order, and *)
(* a settled row lists the runs it announced.                               *)
(***************************************************************************)
EXTENDS CloudWorker, SequenceTheorems, FiniteSetTheorems, TLAPS

-----------------------------------------------------------------------------
(* Types *)

Reasons == {"boundary", "inflight"}
Errors == {"none", "internal", "no_runs"} \cup Reasons
IdArguments == SUBSET SUBSET Runs

EventTypes == {"eval_start", "run_started", "run_completed", "run_failed",
               "grading_started", "grading_completed", "eval_complete"}
Events == [type : EventTypes, run : 0..NRuns, status : TerminalStatus \cup {"none"}]
PlainEvents == {e \in Events : e.type # "eval_complete" /\ e.status = "none"}

RowTypes ==
    /\ meta \in [status : {"running"} \cup TerminalStatus, error : Errors,
                 runs : SUBSET Runs, seqCount : Nat]
    /\ log \in Seq(Events)
    /\ runItems \in SUBSET Runs
    /\ cancelFlag \in BOOLEAN
    /\ kind \in {"determinism", "grade"}

StoreTypes ==
    st \in [seq : Nat, saved : SUBSET Runs, emitted : BOOLEAN, terminal : BOOLEAN,
            pending : [status : {"none"} \cup TerminalStatus, error : Errors,
                       ids : IdArguments],
            finalizing : BOOLEAN, latched : BOOLEAN, armed : {"none"} \cup Reasons,
            unread : SUBSET Runs]

TaskTypes ==
    /\ exec \in {"early", "waiting", "hardstop", "settling", "returned", "killed"}
    /\ engine \in {"start", "loaded", "batch", "progress", "judging", "done",
                   "stopped", "raised"}
    /\ outcome \in [status : {"none"} \cup TerminalStatus, error : Errors]
    /\ reported \in {"none"} \cup TerminalStatus
    /\ frame \in [of : {"execute", "quiet", "engine", "handler", "child"}, run : 0..NRuns]
    /\ good \in SUBSET Runs
    /\ clock \in 0..2 /\ tripped \in BOOLEAN

-----------------------------------------------------------------------------
(* Sections *)

\* A status and an error that may be settled with: a cancellation has a user's
\* request or a deadline behind it, and a deadline's reason has been armed.
Justified(s, e) ==
    /\ s = "cancelled" => st.latched \/ st.armed # "none"
    /\ e \in Reasons => s = "error" /\ st.armed # "none"

PlainCalls ==
    {Save(s, "none", ids) : s \in {"none", "running"}, ids \in IdArguments}
        \cup {Emit(e) : e \in PlainEvents} \cup {SaveRun(r) : r \in Runs}

Reopens(c) == c.op = "save" /\ c.status = "running"

\* A section that settles nothing; only its first call may write `running`.
PlainSection(q) == q \in Seq(PlainCalls) /\ \A i \in 2..Len(q) : ~Reopens(q[i])

GradingCompleted == Event("grading_completed", 0, "none")

\* A section that will settle the row.
SettlingSection(q) ==
    \E s \in TerminalStatus, e \in Errors, ids \in IdArguments :
        /\ Justified(s, e)
        /\ \/ q = <<Save(s, e, ids), Emit(EvalComplete(s))>>
           \/ q = <<Save(s, e, ids), Finalize>>
           \/ q = <<Settle(s, e, ids)>>
           \/ q = <<Emit(GradingCompleted), Save(s, e, ids), Emit(EvalComplete(s))>>

\* A section whose status is buffered and whose eval_complete comes next.
AnnouncingSection(q) ==
    \E s \in TerminalStatus :
        /\ q = <<Emit(EvalComplete(s))>>
        /\ ~st.terminal => st.pending.status = Translate(s)

\* A section inside finalize.
FlippingSection(q) ==
    /\ \/ q = <<Emit(EvalComplete(st.pending.status)), Flip>>
       \/ q = <<Finalize, Flip>>
       \/ q = <<Flip>>
    /\ ~st.terminal /\ st.finalizing /\ st.pending.status # "none"

Section(q) ==
    \/ PlainSection(q) \/ SettlingSection(q) \/ AnnouncingSection(q)
    \/ q = <<Finalize>> \/ FlippingSection(q)

-----------------------------------------------------------------------------
(* Why a row is settled, and as what *)

Unsettled ==
    /\ meta.status = "running" /\ meta.error = "none"
    /\ ~st.terminal /\ ~st.emitted /\ ~st.finalizing /\ st.pending = NoPending

\* Only before the engine has started, or as it starts, is `running` written.
StartsUnsettled ==
    /\ exec \in {"early", "waiting"} /\ engine = "start" => todo = <<>> /\ Unsettled
    /\ todo # <<>> /\ Reopens(Head(todo)) => Unsettled
    /\ exec = "early" => engine = "start"
    /\ engine = "start" => ~batchFailed

Grounds ==
    /\ st.latched => cancelFlag
    /\ st.armed # "none" => clock > 0
    /\ tripped => st.armed # "none"
    /\ outcome.error \notin Reasons
    /\ outcome.status = "cancelled" => st.latched \/ tripped
    /\ engine = "done" => outcome.status # "none"
    /\ exec = "hardstop" /\ reported = "cancelled" => st.latched
    /\ exec = "hardstop" /\ reported = "error" => st.armed # "none"
    /\ exec = "hardstop" => reported \in {"cancelled", "error"}
    /\ todo # <<>> => (exec = "settling") = (frame.of \in {"execute", "quiet"})
    /\ st.pending.status = "cancelled" => st.latched /\ st.armed = "none"
    /\ st.pending.error \in Reasons => st.pending.status = "error" /\ st.armed # "none"
    /\ st.pending.status = "none" => st.pending = NoPending
    /\ meta.error \in Reasons => meta.status = "error" /\ clock > 0
    /\ meta.status = "cancelled" => cancelFlag

\* While the engine works, eval_complete is neither written nor next; and a
\* section that goes on after a line is one of those.
Working == {"start", "loaded", "batch", "progress", "judging"}
PlainEmit(c) == c.op = "emit" /\ c.event.type # "eval_complete"

Speaking ==
    /\ exec = "waiting" /\ engine \in Working => PlainSection(todo) /\ ~st.emitted
    /\ (\E i \in 1..(Len(todo) - 1) : PlainEmit(todo[i])) => ~st.emitted

CauseInv ==
    /\ RowTypes /\ StoreTypes /\ TaskTypes
    /\ Section(todo) /\ StartsUnsettled /\ Speaking /\ Grounds

-----------------------------------------------------------------------------
(* What is left of a section after each kind of call *)

\* The head and the tail of the short sections.
LEMMA ShortSections ==
    /\ \A a : <<a>> # <<>> /\ Head(<<a>>) = a /\ <<>> \o Tail(<<a>>) = <<>>
    /\ \A a, b : <<a, b>> # <<>> /\ Head(<<a, b>>) = a /\ <<>> \o Tail(<<a, b>>) = <<b>>
    /\ \A a, b, c : /\ <<a, b, c>> # <<>> /\ Head(<<a, b, c>>) = a
                    /\ <<>> \o Tail(<<a, b, c>>) = <<b, c>>
  OBVIOUS

\* What a finalize puts before what is left.
LEMMA ShortConcats ==
    /\ \A a, b : <<a>> \o Tail(<<b>>) = <<a>>
    /\ \A a, b, c : <<a, b>> \o Tail(<<c>>) = <<a, b>>
    /\ \A a, b, c : <<a>> \o Tail(<<b, c>>) = <<a, c>>
<1>1. ASSUME NEW a, NEW b PROVE <<a>> \o Tail(<<b>>) = <<a>>
  BY Tail(<<b>>) = <<>>
<1>2. ASSUME NEW a, NEW b, NEW c PROVE <<a, b>> \o Tail(<<c>>) = <<a, b>>
  BY Tail(<<c>>) = <<>>
<1>3. ASSUME NEW a, NEW b, NEW c PROVE <<a>> \o Tail(<<b, c>>) = <<a, c>>
  <2>1. <<a>> \o <<c>> = <<a, c>>
    <3>1. <<a>> \in Seq({a, c}) /\ <<c>> \in Seq({a, c}) /\ <<a, c>> \in Seq({a, c})
      OBVIOUS
    <3>2. /\ <<a>> \o <<c>> \in Seq({a, c})
          /\ Len(<<a>> \o <<c>>) = Len(<<a, c>>)
          /\ \A i \in 1..Len(<<a, c>>) : (<<a>> \o <<c>>)[i] = <<a, c>>[i]
      BY <3>1
    <3> QED
      BY <3>1, <3>2, SeqEqual
  <2>2. Tail(<<b, c>>) = <<c>>
    OBVIOUS
  <2> QED
    BY <2>1, <2>2, Zenon
<1> QED
  BY <1>1, <1>2, <1>3

\* The calls of a plain section, and what follows them.
LEMMA PlainTail ==
    ASSUME NEW q, PlainSection(q), q # <<>>
    PROVE  /\ Head(q) \in PlainCalls /\ Head(q) = q[1]
           /\ PlainSection(<<>> \o Tail(q))
           /\ <<>> \o Tail(q) = Tail(q) /\ Len(Tail(q)) = Len(q) - 1
           /\ \A i \in 1..Len(Tail(q)) : Tail(q)[i] = q[i + 1] /\ ~Reopens(Tail(q)[i])
<1>1. q \in Seq(PlainCalls) /\ Len(q) \in Nat /\ Len(q) >= 1
  BY DEF PlainSection
<1>2. /\ Head(q) \in PlainCalls /\ Head(q) = q[1] /\ Tail(q) \in Seq(PlainCalls)
      /\ Len(Tail(q)) = Len(q) - 1 /\ <<>> \o Tail(q) = Tail(q)
  BY <1>1
<1>3. \A i \in 1..Len(Tail(q)) : Tail(q)[i] = q[i + 1] /\ i + 1 \in 2..Len(q)
  BY <1>1, <1>2
<1>4. \A i \in 1..Len(Tail(q)) : ~Reopens(Tail(q)[i])
  BY <1>3 DEF PlainSection
<1>5. 2..Len(Tail(q)) \subseteq 1..Len(Tail(q))
  BY <1>1, <1>2
<1> QED
  BY <1>2, <1>3, <1>4, <1>5 DEF PlainSection

\* What a plain call is.
LEMMA PlainOps ==
    ASSUME NEW c \in PlainCalls
    PROVE  /\ c.op \in {"save", "emit", "run"}
           /\ c.op = "save" => c.status \in {"none", "running"} /\ c.ids \in IdArguments
           /\ c.op = "emit" => c.event \in PlainEvents
           /\ c.op = "run" => c.run \in Runs
  BY DEF PlainCalls, Save, Emit, SaveRun

\* What follows a plain call: nothing that reopens the row.
Onward == PlainSection(<<>> \o Tail(todo))
              /\ (<<>> \o Tail(todo) # <<>> => ~Reopens(Head(<<>> \o Tail(todo))))

\* What is left of a plain section is plain and reopens nothing.
LEMMA PlainOnward ==
    ASSUME PlainSection(todo), todo # <<>>
    PROVE  Head(todo) \in PlainCalls /\ Onward
<1> DEFINE t == Tail(todo)
<1>1. /\ Head(todo) \in PlainCalls /\ PlainSection(<<>> \o t) /\ <<>> \o t = t
      /\ \A i \in 1..Len(t) : ~Reopens(t[i])
  BY PlainTail
<1>2. t # <<>> => Head(t) = t[1] /\ 1 \in 1..Len(t)
  BY <1>1 DEF PlainSection
<1> QED
  BY <1>1, <1>2 DEF Onward

\* A save that settles, with the call that announces it.
SettlesWith(o, rest) ==
    /\ o.status \in TerminalStatus /\ o.error \in Errors /\ o.ids \in IdArguments
    /\ Justified(o.status, o.error)
    /\ rest \in {<<Emit(EvalComplete(o.status))>>, <<Finalize>>}

\* A save is either plain or the one that settles.
LEMMA AtSave ==
    ASSUME Section(todo), Calling("save")
    PROVE  \/ /\ Head(todo).status \in {"none", "running"} /\ Head(todo).ids \in IdArguments
              /\ Onward
           \/ SettlesWith(Head(todo), <<>> \o Tail(todo))
<1>1. CASE PlainSection(todo)
  BY <1>1, PlainOnward, PlainOps DEF Calling
<1>2. CASE SettlingSection(todo)
  <2>1. PICK s \in TerminalStatus, e \in Errors, ids \in IdArguments :
           /\ Justified(s, e)
           /\ \/ todo = <<Save(s, e, ids), Emit(EvalComplete(s))>>
              \/ todo = <<Save(s, e, ids), Finalize>>
              \/ todo = <<Settle(s, e, ids)>>
              \/ todo = <<Emit(GradingCompleted), Save(s, e, ids), Emit(EvalComplete(s))>>
    BY <1>2 DEF SettlingSection
  <2>2. Settle(s, e, ids).op # "save" /\ Emit(GradingCompleted).op # "save"
    BY DEF Settle, Emit
  <2>3. /\ Head(todo) = Save(s, e, ids)
        /\ <<>> \o Tail(todo) \in {<<Emit(EvalComplete(s))>>, <<Finalize>>}
    <3>1. CASE todo = <<Save(s, e, ids), Emit(EvalComplete(s))>>
      BY <3>1, ShortSections
    <3>2. CASE todo = <<Save(s, e, ids), Finalize>>
      BY <3>2, ShortSections
    <3>3. ~(todo = <<Settle(s, e, ids)>>)
      BY <2>2, ShortSections DEF Calling
    <3>4. ~(todo = <<Emit(GradingCompleted), Save(s, e, ids), Emit(EvalComplete(s))>>)
      BY <2>2, ShortSections DEF Calling
    <3> QED
      BY <2>1, <3>1, <3>2, <3>3, <3>4
  <2> QED
    BY <2>1, <2>3 DEF SettlesWith, Save
<1>3. CASE AnnouncingSection(todo)
  BY <1>3, ShortSections DEF AnnouncingSection, Calling, Emit
<1>4. CASE todo = <<Finalize>>
  BY <1>4, ShortSections DEF Calling, Finalize
<1>5. CASE FlippingSection(todo)
  BY <1>5, ShortSections DEF FlippingSection, Calling, Finalize, Flip, Emit
<1> QED
  BY <1>1, <1>2, <1>3, <1>4, <1>5 DEF Section

\* A save that does not settle is in a plain section.
LEMMA SaveIsPlain ==
    ASSUME Section(todo), Calling("save"), Head(todo).status \in {"none", "running"}
    PROVE  PlainSection(todo)
<1>1. CASE SettlingSection(todo)
  BY <1>1, ShortSections DEF SettlingSection, Calling, Emit, Save, Settle, TerminalStatus
<1>2. CASE AnnouncingSection(todo)
  BY <1>2, ShortSections DEF AnnouncingSection, Calling, Emit
<1>3. CASE todo = <<Finalize>> \/ FlippingSection(todo)
  BY <1>3, ShortSections DEF FlippingSection, Calling, Finalize, Flip, Emit
<1> QED
  BY <1>1, <1>2, <1>3 DEF Section

\* A line is plain, the judge's, or an eval_complete about to be flipped.
LEMMA AtEmit ==
    ASSUME Section(todo), Calling("emit")
    PROVE  \/ /\ Head(todo).event \in PlainEvents /\ PlainSection(todo) /\ Onward
           \/ /\ Head(todo).event = GradingCompleted
              /\ \E s \in TerminalStatus, e \in Errors, ids \in IdArguments :
                    /\ Justified(s, e)
                    /\ todo = <<Emit(GradingCompleted), Save(s, e, ids), Emit(EvalComplete(s))>>
           \/ \E s \in TerminalStatus :
                 /\ todo = <<Emit(EvalComplete(s))>> /\ Head(todo).event = EvalComplete(s)
                 /\ ~st.terminal => st.pending.status = Translate(s)
           \/ /\ todo = <<Emit(EvalComplete(st.pending.status)), Flip>>
              /\ Head(todo).event = EvalComplete(st.pending.status)
              /\ ~st.terminal /\ st.finalizing /\ st.pending.status # "none"
<1>1. CASE PlainSection(todo)
  BY <1>1, PlainOnward, PlainOps DEF Calling
<1>2. CASE SettlingSection(todo)
  <2>1. PICK s \in TerminalStatus, e \in Errors, ids \in IdArguments :
           /\ Justified(s, e)
           /\ \/ todo = <<Save(s, e, ids), Emit(EvalComplete(s))>>
              \/ todo = <<Save(s, e, ids), Finalize>>
              \/ todo = <<Settle(s, e, ids)>>
              \/ todo = <<Emit(GradingCompleted), Save(s, e, ids), Emit(EvalComplete(s))>>
    BY <1>2 DEF SettlingSection
  <2>2. Settle(s, e, ids).op # "emit" /\ Save(s, e, ids).op # "emit"
    BY DEF Settle, Save
  <2>3. /\ Head(todo) = Emit(GradingCompleted)
        /\ todo = <<Emit(GradingCompleted), Save(s, e, ids), Emit(EvalComplete(s))>>
    <3>1. CASE todo = <<Emit(GradingCompleted), Save(s, e, ids), Emit(EvalComplete(s))>>
      BY <3>1, ShortSections
    <3>2. ~(todo = <<Save(s, e, ids), Emit(EvalComplete(s))>>)
      BY <2>2, ShortSections DEF Calling
    <3>3. ~(todo = <<Save(s, e, ids), Finalize>>)
      BY <2>2, ShortSections DEF Calling
    <3>4. ~(todo = <<Settle(s, e, ids)>>)
      BY <2>2, ShortSections DEF Calling
    <3> QED
      BY <2>1, <3>1, <3>2, <3>3, <3>4
  <2> QED
    BY <2>1, <2>3 DEF Emit
<1>3. CASE AnnouncingSection(todo)
  BY <1>3, ShortSections DEF AnnouncingSection, Emit
<1>4. CASE todo = <<Finalize>>
  BY <1>4, ShortSections DEF Calling, Finalize
<1>5. CASE FlippingSection(todo)
  BY <1>5, ShortSections DEF FlippingSection, Calling, Finalize, Flip, Emit
<1> QED
  BY <1>1, <1>2, <1>3, <1>4, <1>5 DEF Section

\* A finalize is due alone, or re-entered before the flip.
LEMMA AtFinalize ==
    ASSUME Section(todo), Calling("finalize")
    PROVE  todo = <<Finalize>> \/ (todo = <<Finalize, Flip>> /\ FlippingSection(todo))
<1>1. CASE PlainSection(todo)
  BY <1>1, PlainOnward, PlainOps DEF Calling
<1>2. CASE SettlingSection(todo)
  BY <1>2, ShortSections DEF SettlingSection, Calling, Emit, Save, Settle
<1>3. CASE AnnouncingSection(todo)
  BY <1>3, ShortSections DEF AnnouncingSection, Calling, Emit
<1>5. CASE FlippingSection(todo)
  BY <1>5, ShortSections DEF FlippingSection, Calling, Flip, Emit
<1> QED
  BY <1>1, <1>2, <1>3, <1>5 DEF Section

\* A flip is the last call of a finalize.
LEMMA AtFlip ==
    ASSUME Section(todo), Calling("flip")
    PROVE  todo = <<Flip>> /\ FlippingSection(todo)
<1>1. CASE PlainSection(todo)
  BY <1>1, PlainOnward, PlainOps DEF Calling
<1>2. CASE SettlingSection(todo)
  BY <1>2, ShortSections DEF SettlingSection, Calling, Emit, Save, Settle
<1>3. CASE AnnouncingSection(todo)
  BY <1>3, ShortSections DEF AnnouncingSection, Calling, Emit
<1>4. CASE todo = <<Finalize>>
  BY <1>4, ShortSections DEF Calling, Finalize
<1>5. CASE FlippingSection(todo)
  BY <1>5, ShortSections DEF FlippingSection, Calling, Finalize, Emit
<1> QED
  BY <1>1, <1>2, <1>3, <1>4, <1>5 DEF Section

\* A settlement is a section of its own.
LEMMA AtSettle ==
    ASSUME Section(todo), Calling("settle")
    PROVE  \E s \in TerminalStatus, e \in Errors, ids \in IdArguments :
              Justified(s, e) /\ todo = <<Settle(s, e, ids)>> /\ Head(todo) = Settle(s, e, ids)
<1>1. CASE PlainSection(todo)
  BY <1>1, PlainOnward, PlainOps DEF Calling
<1>2. CASE SettlingSection(todo)
  BY <1>2, ShortSections DEF SettlingSection, Calling, Emit, Save
<1>3. CASE AnnouncingSection(todo)
  BY <1>3, ShortSections DEF AnnouncingSection, Calling, Emit
<1>4. CASE todo = <<Finalize>>
  BY <1>4, ShortSections DEF Calling, Finalize
<1>5. CASE FlippingSection(todo)
  BY <1>5, ShortSections DEF FlippingSection, Calling, Finalize, Emit, Flip
<1> QED
  BY <1>1, <1>2, <1>3, <1>4, <1>5 DEF Section

\* A run is stored in a plain section.
LEMMA AtRun ==
    ASSUME Section(todo), Calling("run")
    PROVE  Head(todo) \in PlainCalls /\ Head(todo).run \in Runs /\ PlainSection(todo) /\ Onward
<1>1. CASE PlainSection(todo)
  BY <1>1, PlainOnward, PlainOps DEF Calling
<1>2. CASE SettlingSection(todo)
  BY <1>2, ShortSections DEF SettlingSection, Calling, Emit, Save, Settle
<1>3. CASE AnnouncingSection(todo)
  BY <1>3, ShortSections DEF AnnouncingSection, Calling, Emit
<1>4. CASE todo = <<Finalize>>
  BY <1>4, ShortSections DEF Calling, Finalize
<1>5. CASE FlippingSection(todo)
  BY <1>5, ShortSections DEF FlippingSection, Calling, Finalize, Emit, Flip
<1> QED
  BY <1>1, <1>2, <1>3, <1>4, <1>5 DEF Section

-----------------------------------------------------------------------------
(* Why a row is settled: the store's calls *)

\* The sections that settle a row, whatever comes before.
LEMMA SettlingSections ==
    ASSUME NEW s \in TerminalStatus, NEW e \in Errors, NEW ids \in IdArguments,
           Justified(s, e)
    PROVE  /\ SettlingSection(<<Save(s, e, ids), Emit(EvalComplete(s))>>)
           /\ SettlingSection(<<Save(s, e, ids), Finalize>>)
           /\ SettlingSection(<<Settle(s, e, ids)>>)
           /\ SettlingSection(<<Emit(GradingCompleted), Save(s, e, ids),
                                Emit(EvalComplete(s))>>)
  BY DEF SettlingSection

\* None of them reopens the row.
LEMMA SettlingIsFirst ==
    ASSUME NEW q, SettlingSection(q) \/ AnnouncingSection(q) \/ FlippingSection(q)
                     \/ q = <<Finalize>>
    PROVE  q # <<>> /\ ~Reopens(Head(q))
<1>1. CASE SettlingSection(q)
  BY <1>1, ShortSections DEF SettlingSection, Reopens, Save, Settle, Emit, TerminalStatus
<1>2. CASE AnnouncingSection(q)
  BY <1>2, ShortSections DEF AnnouncingSection, Reopens, Emit
<1>3. CASE FlippingSection(q)
  BY <1>3, ShortSections DEF FlippingSection, Reopens, Emit, Flip, Finalize
<1>4. CASE q = <<Finalize>>
  BY <1>4, ShortSections DEF Reopens, Finalize
<1> QED
  BY <1>1, <1>2, <1>3, <1>4

\* The arguments that the settling paths name.
LEMMA Arguments ==
    /\ NotGiven \in IdArguments
    /\ \A S \in SUBSET Runs : Given(S) \in IdArguments
    /\ {"none", "internal", "no_runs", "boundary", "inflight"} \subseteq Errors
    /\ TerminalStatus = {"completed", "error", "cancelled"}
  BY DEF NotGiven, Given, IdArguments, Errors, Reasons, TerminalStatus

\* What an exception leaves: nothing, or the settlement of an error.
Failing(q) ==
    \/ q = <<>>
    \/ q = <<Save("error", "internal", NotGiven), Emit(EvalComplete("error"))>>
    \/ q = <<Settle("error", "internal", NotGiven)>>

\* Where an exception goes, by the coroutine whose section it leaves.
LEMMA RaiseEffect ==
    ASSUME CauseInv, todo # <<>>, Raise
    PROVE  /\ exec' = exec
           /\ engine' \in {engine, "done", "raised"}
           /\ engine' = "start" => (batchFailed' => batchFailed)
           /\ outcome' \in {outcome, [status |-> "error", error |-> "internal"]}
           /\ engine' = "done" => outcome'.status # "none"
           /\ reported' \in {reported, "error"}
           /\ exec = "hardstop" => reported' = reported
           /\ frame' \in [of : {"execute", "quiet", "engine", "handler", "child"}, run : 0..NRuns]
           /\ todo' # <<>> => (exec = "settling") = (frame'.of \in {"execute", "quiet"})
           /\ Failing(todo') /\ (todo' # <<>> => engine' = "done" \/ exec = "settling")
<1> USE DEF CauseInv, TaskTypes, Grounds
<1>0. 0 \in 0..NRuns
  BY WorkerAssumption
<1>1. CASE frame.of = "engine" /\ EngineExcept /\ UNCHANGED <<exec, child, batchFailed, reported>>
  BY <1>0, <1>1 DEF EngineExcept, Begin, Owner, Failing
<1>2. CASE frame.of = "handler" /\ todo' = <<>> /\ engine' = "raised"
               /\ UNCHANGED <<exec, child, batchFailed, outcome, reported, frame>>
  BY <1>2 DEF Failing
<1>3. CASE frame.of = "child" /\ todo' = <<>> /\ ChildRaises(frame.run)
               /\ UNCHANGED <<exec, engine, outcome, reported, frame>>
  BY <1>3 DEF Failing, ChildRaises
<1>4. CASE frame.of = "execute" /\ Begin(Owner("quiet"), <<Settle("error", "internal", NotGiven)>>)
               /\ reported' = "error" /\ UNCHANGED <<exec, engine, child, batchFailed, outcome>>
  BY <1>0, <1>4 DEF Begin, Owner, Failing
<1>5. CASE frame.of = "quiet" /\ todo' = <<>> /\ UNCHANGED taskVars
  BY <1>5 DEF Failing, taskVars
<1> QED
  BY <1>1, <1>2, <1>3, <1>4, <1>5 DEF Raise

\* What comes before the last of at most two.
LEMMA BeforeLast == \A n \in {1, 2} : \A i \in 1..(n - 1) : i = 1 /\ n = 2
  OBVIOUS

\* Whatever the table did of a call that raises, the causes stand.
LEMMA RaiseKeeps ==
    ASSUME CauseInv, todo # <<>>, Raise, RowTypes', StoreTypes',
           UNCHANGED <<cancelFlag, clock, tripped, good>>, st'.emitted = st.emitted,
           st'.latched = st.latched, st'.armed = st.armed, st'.pending = st.pending,
           meta'.error \in Reasons => meta'.status = "error" /\ clock > 0,
           meta'.status = "cancelled" => cancelFlag
    PROVE  CauseInv'
<1>1. /\ exec' = exec
      /\ engine' \in {engine, "done", "raised"}
      /\ engine' = "start" => (batchFailed' => batchFailed)
      /\ outcome' \in {outcome, [status |-> "error", error |-> "internal"]}
      /\ engine' = "done" => outcome'.status # "none"
      /\ reported' \in {reported, "error"}
      /\ exec = "hardstop" => reported' = reported
      /\ frame' \in [of : {"execute", "quiet", "engine", "handler", "child"}, run : 0..NRuns]
      /\ todo' # <<>> => (exec = "settling") = (frame'.of \in {"execute", "quiet"})
      /\ Failing(todo') /\ (todo' # <<>> => engine' = "done" \/ exec = "settling")
  BY RaiseEffect
<1>2. TaskTypes'
  BY <1>1, Arguments DEF CauseInv, TaskTypes
<1>3. Section(todo)' /\ (todo' # <<>> => ~Reopens(Head(todo')))
  <2>1. CASE todo' = <<>>
    BY <2>1 DEF Section, PlainSection
  <2>2. CASE todo' # <<>>
    <3>1. "error" \in TerminalStatus /\ "internal" \in Errors /\ NotGiven \in IdArguments
      BY Arguments
    <3>2. Justified("error", "internal")'
      BY DEF Justified, Reasons
    <3>3. SettlingSection(todo)'
      BY <1>1, <2>2, <3>1, <3>2 DEF Failing, SettlingSection
    <3>4. ~Reopens(Head(todo'))
      BY <1>1, <2>2, ShortSections DEF Failing, Reopens, Save, Settle
    <3> QED
      BY <3>3, <3>4 DEF Section
  <2> QED
    BY <2>1, <2>2
<1>4. StartsUnsettled'
  BY <1>1, <1>3 DEF CauseInv, StartsUnsettled, TaskTypes
<1>5. Grounds'
  BY <1>1 DEF CauseInv, Grounds, Reasons, NoPending
<1>6. Speaking'
  <2>1. exec' = "waiting" /\ engine' \in Working => todo' = <<>> /\ ~st'.emitted
    BY <1>1 DEF CauseInv, Speaking, Working
  <2>2. \A i \in 1..(Len(todo') - 1) : ~PlainEmit(todo'[i])
    <3>1. CASE todo' = <<>>
      BY <3>1
    <3>2. CASE todo' = <<Save("error", "internal", NotGiven), Emit(EvalComplete("error"))>>
      <4>1. Len(todo') = 2 /\ todo'[1] = Save("error", "internal", NotGiven)
        BY <3>2
      <4>2. ~PlainEmit(Save("error", "internal", NotGiven))
        BY DEF PlainEmit, Save
      <4>3. \A i \in 1..(Len(todo') - 1) : i = 1
        BY <4>1, BeforeLast
      <4> QED
        BY <4>1, <4>2, <4>3
    <3>3. CASE todo' = <<Settle("error", "internal", NotGiven)>>
      BY <3>3
    <3> QED
      BY <1>1, <3>1, <3>2, <3>3 DEF Failing
  <2>3. PlainSection(<<>>)
    BY DEF PlainSection
  <2>4. exec' = "waiting" /\ engine' \in Working => PlainSection(todo') /\ ~st'.emitted
    BY <2>1, <2>3
  <2> QED
    BY <2>2, <2>4 DEF Speaking
<1> QED
  BY <1>2, <1>3, <1>4, <1>5, <1>6 DEF CauseInv

\* The parts of the causes that no call that ends well touches.
LEMMA ProceedKeeps ==
    ASSUME CauseInv, todo # <<>>, UNCHANGED taskVars, RowTypes', StoreTypes',
           UNCHANGED <<cancelFlag, clock, tripped, good>>,
           st'.latched = st.latched, st'.armed = st.armed,
           Section(todo)', Speaking', todo' # <<>> => ~Reopens(Head(todo')),
           st'.pending.status = "cancelled" => st.latched /\ st.armed = "none",
           st'.pending.error \in Reasons => st'.pending.status = "error" /\ st.armed # "none",
           st'.pending.status = "none" => st'.pending = NoPending,
           meta'.error \in Reasons => meta'.status = "error" /\ clock > 0,
           meta'.status = "cancelled" => cancelFlag
    PROVE  CauseInv'
<1>1. TaskTypes'
  BY DEF CauseInv, TaskTypes, taskVars
<1>2. StartsUnsettled'
  BY DEF CauseInv, StartsUnsettled, taskVars
<1>3. Grounds'
  BY DEF CauseInv, Grounds, taskVars
<1> QED
  BY <1>1, <1>2, <1>3 DEF CauseInv

\* What is left of a plain section says no more than the section did.
LEMMA SpeakingOnward ==
    ASSUME CauseInv, todo # <<>>, PlainSection(todo), UNCHANGED taskVars,
           todo' = <<>> \o Tail(todo), st'.emitted = st.emitted
    PROVE  Speaking'
<1>1. /\ PlainSection(todo') /\ todo' = Tail(todo) /\ Len(todo') = Len(todo) - 1
      /\ \A i \in 1..Len(todo') : todo'[i] = todo[i + 1]
  BY PlainTail
<1>2. Len(todo') \in Nat /\ Len(todo) \in Nat
  BY <1>1 DEF PlainSection
<1>3. \A i \in 1..(Len(todo') - 1) : i + 1 \in 1..(Len(todo) - 1) /\ i \in 1..Len(todo')
  BY <1>1, <1>2
<1>4. exec' = "waiting" /\ engine' \in Working => PlainSection(todo') /\ ~st'.emitted
  BY <1>1 DEF CauseInv, Speaking, taskVars
<1>5. (\E i \in 1..(Len(todo') - 1) : PlainEmit(todo'[i])) => ~st'.emitted
  BY <1>1, <1>3 DEF CauseInv, Speaking
<1> QED
  BY <1>4, <1>5 DEF Speaking

\* A section that settles is not plain.
LEMMA SettlingIsNotPlain ==
    ASSUME NEW q, SettlingSection(q) \/ AnnouncingSection(q) \/ FlippingSection(q)
                     \/ q = <<Finalize>>
    PROVE  ~PlainSection(q)
<1> SUFFICES ASSUME PlainSection(q) PROVE FALSE
  OBVIOUS
<1>0. /\ q \in Seq(PlainCalls)
      /\ \A i \in 1..Len(q) : q[i] \in PlainCalls
      /\ \A c \in PlainCalls :
            /\ c.op \in {"save", "emit", "run"}
            /\ c.op = "save" => c.status \in {"none", "running"}
            /\ c.op = "emit" => c.event.type # "eval_complete"
  BY PlainOps DEF PlainSection, PlainEvents
<1>1. CASE SettlingSection(q)
  <2>1. PICK s \in TerminalStatus, e \in Errors, ids \in IdArguments :
           \/ q = <<Save(s, e, ids), Emit(EvalComplete(s))>>
           \/ q = <<Save(s, e, ids), Finalize>>
           \/ q = <<Settle(s, e, ids)>>
           \/ q = <<Emit(GradingCompleted), Save(s, e, ids), Emit(EvalComplete(s))>>
    BY <1>1 DEF SettlingSection
  <2>2. Save(s, e, ids) \notin PlainCalls /\ Settle(s, e, ids) \notin PlainCalls
    BY <1>0 DEF Save, Settle, TerminalStatus
  <2>3. CASE q = <<Save(s, e, ids), Emit(EvalComplete(s))>>
    <3>1. Len(q) = 2 /\ q[1] = Save(s, e, ids)
      BY <2>3
    <3> QED
      BY <1>0, <2>2, <3>1
  <2>4. CASE q = <<Save(s, e, ids), Finalize>>
    <3>1. Len(q) = 2 /\ q[1] = Save(s, e, ids)
      BY <2>4
    <3> QED
      BY <1>0, <2>2, <3>1
  <2>5. CASE q = <<Settle(s, e, ids)>>
    <3>1. Len(q) = 1 /\ q[1] = Settle(s, e, ids)
      BY <2>5
    <3> QED
      BY <1>0, <2>2, <3>1
  <2>6. CASE q = <<Emit(GradingCompleted), Save(s, e, ids), Emit(EvalComplete(s))>>
    <3>1. Len(q) = 3 /\ q[2] = Save(s, e, ids)
      BY <2>6
    <3> QED
      BY <1>0, <2>2, <3>1
  <2> QED
    BY <2>1, <2>3, <2>4, <2>5, <2>6
<1>2. Emit(EvalComplete(st.pending.status)) \notin PlainCalls /\ Finalize \notin PlainCalls
      /\ Flip \notin PlainCalls /\ \A s : Emit(EvalComplete(s)) \notin PlainCalls
  BY <1>0 DEF Emit, EvalComplete, Event, Finalize, Flip
<1>3. CASE AnnouncingSection(q)
  BY <1>0, <1>2, <1>3 DEF AnnouncingSection
<1>4. CASE q = <<Finalize>>
  BY <1>0, <1>2, <1>4
<1>5. CASE FlippingSection(q)
  BY <1>0, <1>2, <1>5 DEF FlippingSection
<1> QED
  BY <1>1, <1>3, <1>4, <1>5

\* A single call, or one after another that is no line, says nothing before
\* the end.
LEMMA SpeakingLast ==
    ASSUME CauseInv, todo # <<>>, ~PlainSection(todo), UNCHANGED taskVars,
           \/ todo' = <<>>
           \/ Len(todo') = 1
           \/ Len(todo') = 2 /\ todo'[1].op # "emit"
    PROVE  Speaking'
<1>1. \A i \in 1..(Len(todo') - 1) : ~PlainEmit(todo'[i])
  <2>1. ASSUME NEW n, n = Len(todo'), NEW i \in 1..(n - 1), todo' # <<>>
        PROVE  i = 1 /\ todo'[1].op # "emit"
    BY <2>1, BeforeLast
  <2>2. CASE todo' = <<>>
    BY <2>2
  <2> QED
    BY <2>1, <2>2 DEF PlainEmit
<1>2. ~(exec' = "waiting" /\ engine' \in Working)
  BY DEF CauseInv, Speaking, taskVars
<1> QED
  BY <1>1, <1>2 DEF Speaking

\* A buffered status keeps its cause: the armed reason translates a
\* cancellation into an error.
LEMMA SaveCauses ==
    ASSUME CauseInv, SaveEvaluation
    PROVE  CauseInv'
<1> DEFINE o == Head(todo)
           status == Translate(o.status)
           error == IF Translated(o.status) THEN st.armed ELSE o.error
<1>1. Section(todo) /\ todo # <<>> /\ Calling("save") /\ RowTypes /\ StoreTypes
  BY DEF SaveEvaluation, Calling, CauseInv
<1>2. UNCHANGED <<log, runItems, kind, cancelFlag, clock, tripped, good>>
  BY DEF SaveEvaluation, userVars, timeVars, dataVars
<1>3. \/ /\ o.status \in {"none", "running"} /\ o.ids \in IdArguments /\ Onward
      \/ SettlesWith(o, <<>> \o Tail(todo))
  BY <1>1, AtSave
<1>4. CASE st.terminal /\ Raise /\ UNCHANGED <<st, meta, faults>>
  <2>1. RowTypes' /\ StoreTypes'
    BY <1>1, <1>2, <1>4 DEF RowTypes, StoreTypes
  <2> QED
    BY <1>1, <1>2, <1>4, <2>1, RaiseKeeps DEF CauseInv, Grounds
<1>5. CASE /\ ~st.terminal /\ status \in TerminalStatus
           /\ st' = [st EXCEPT !.pending = [status |-> status, error |-> error,
                                            ids |-> o.ids]]
           /\ Proceed(<<>>) /\ UNCHANGED <<meta, faults>>
  <2>1. SettlesWith(o, <<>> \o Tail(todo))
    BY <1>3, <1>5 DEF Translate, Translated, TerminalStatus
  <2>2. /\ st'.pending = [status |-> status, error |-> error, ids |-> o.ids]
        /\ st'.latched = st.latched /\ st'.armed = st.armed /\ st'.terminal = st.terminal
    BY <1>1, <1>5 DEF StoreTypes
  <2>3. error \in Errors /\ o.ids \in IdArguments /\ o.status \in TerminalStatus
    BY <1>1, <2>1 DEF SettlesWith, StoreTypes, Errors, Translated
  <2>4. RowTypes' /\ StoreTypes'
    BY <1>1, <1>2, <1>5, <2>3 DEF RowTypes, StoreTypes
  <2>5. todo' \in {<<Emit(EvalComplete(o.status))>>, <<Finalize>>} /\ UNCHANGED taskVars
    BY <1>5, <2>1 DEF Proceed, SettlesWith
  <2>6. Section(todo)'
    <3>1. CASE todo' = <<Finalize>>
      BY <3>1 DEF Section
    <3>2. CASE todo' = <<Emit(EvalComplete(o.status))>>
      <4>1. PICK s \in TerminalStatus : s = o.status
        BY <2>3
      <4>2. Translate(s)' = st'.pending.status
        BY <2>2, <4>1 DEF Translate, Translated
      <4>3. todo' = <<Emit(EvalComplete(s))>>
        BY <3>2, <4>1
      <4>4. AnnouncingSection(todo)'
        BY <4>2, <4>3 DEF AnnouncingSection
      <4> QED
        BY <4>4 DEF Section
    <3> QED
      BY <2>5, <3>1, <3>2
  <2>7. todo' # <<>> => ~Reopens(Head(todo'))
    BY <2>5, ShortSections DEF Reopens, Emit, Finalize
  <2>9. Speaking'
    <3>1. ~PlainSection(todo)
      BY <1>1, <2>3, PlainOnward, PlainOps DEF TerminalStatus, Calling
    <3> QED
      BY <1>1, <2>5, <3>1, SpeakingLast
  <2>8. /\ st'.pending.status = "cancelled" => st.latched /\ st.armed = "none"
        /\ st'.pending.error \in Reasons => st'.pending.status = "error" /\ st.armed # "none"
        /\ st'.pending.status # "none"
    BY <2>1, <2>2, <1>5 DEF SettlesWith, Justified, Translate, Translated, TerminalStatus
  <2> QED
    BY <1>1, <1>2, <1>5, <2>2, <2>4, <2>5, <2>6, <2>7, <2>8, <2>9, ProceedKeeps DEF CauseInv, Grounds
<1>6. CASE status \notin TerminalStatus
  <2>1. /\ o.status \in {"none", "running"} /\ o.ids \in IdArguments /\ Onward
        /\ status = o.status
    BY <1>3, <1>6 DEF SettlesWith, Translate, Translated, TerminalStatus
  <2>0. PlainSection(todo)
    BY <1>1, <2>1, SaveIsPlain
  <2>2. o.status = "running" => Unsettled
    <3>1. o.status = "running" => Reopens(o)
      BY <1>1 DEF Calling, Reopens
    <3> QED
      BY <1>1, <3>1 DEF CauseInv, StartsUnsettled
  <2>3. /\ WriteFields(o) \in [status : {"running"} \cup TerminalStatus, error : Errors,
                               runs : SUBSET Runs, seqCount : Nat]
        /\ WriteFields(o).error = meta.error
        /\ WriteFields(o).status = meta.status
    <3>1. (IF o.ids = NotGiven THEN meta.runs ELSE UNION o.ids) \in SUBSET Runs
      BY <1>1, <2>1 DEF RowTypes, IdArguments
    <3> QED
      BY <1>1, <2>1, <2>2, <3>1 DEF RowTypes, WriteFields, Unsettled
  <2>4. CASE meta' = WriteFields(o) /\ Proceed(<<>>) /\ UNCHANGED <<st, faults>>
    <3>1. RowTypes' /\ StoreTypes'
      BY <1>1, <1>2, <2>3, <2>4 DEF RowTypes, StoreTypes
    <3>2. Section(todo)' /\ (todo' # <<>> => ~Reopens(Head(todo'))) /\ UNCHANGED taskVars
      BY <2>1, <2>4 DEF Proceed, Onward, Section, PlainSection, Reopens
    <3>3. Speaking'
      BY <1>1, <2>4, <2>0, <3>2, SpeakingOnward DEF Proceed
    <3> QED
      BY <1>1, <1>2, <2>3, <2>4, <3>1, <3>2, <3>3, ProceedKeeps DEF CauseInv, Grounds
  <2>5. CASE meta' \in {WriteFields(o), meta} /\ Raise /\ UNCHANGED st
    <3>1. RowTypes' /\ StoreTypes'
      BY <1>1, <1>2, <2>3, <2>5 DEF RowTypes, StoreTypes
    <3> QED
      BY <1>1, <1>2, <2>3, <2>5, <3>1, RaiseKeeps DEF CauseInv, Grounds
  <2>6. CASE st.terminal
    BY <2>6, <1>4 DEF SaveEvaluation
  <2> QED
    BY <1>6, <2>4, <2>5, <2>6 DEF SaveEvaluation
<1> QED
  BY <1>4, <1>5, <1>6 DEF SaveEvaluation

\* An event that is put where the next one goes makes a log of events.
LEMMA PutKeepsLog ==
    ASSUME log \in Seq(Events), NEW n \in Nat, NEW event \in Events
    PROVE  /\ PutEvent(n, event) \in Seq(Events)
           /\ n <= Len(log) =>
                 /\ Len(PutEvent(n, event)) = IF n < Len(log) THEN Len(log) ELSE n + 1
                 /\ PutEvent(n, event)[n + 1] = event
                 /\ \A i \in 1..Len(log) : i # n + 1 => PutEvent(n, event)[i] = log[i]
<1>1. CASE n < Len(log)
  <2>1. n + 1 \in 1..Len(log)
    BY <1>1
  <2> QED
    BY <1>1, <2>1, ExceptSeq DEF PutEvent
<1>2. CASE ~(n < Len(log))
  <2>1. /\ Append(log, event) \in Seq(Events) /\ Len(Append(log, event)) = Len(log) + 1
        /\ Append(log, event)[Len(log) + 1] = event
        /\ \A i \in 1..Len(log) : Append(log, event)[i] = log[i]
    OBVIOUS
  <2>2. n <= Len(log) => n = Len(log)
    BY <1>2
  <2> QED
    BY <1>2, <2>1, <2>2 DEF PutEvent
<1> QED
  BY <1>1, <1>2

\* The line that is put, the stop's reason applied.
LineOf(given) == IF given.type = "eval_complete"
                     THEN [given EXCEPT !.status = Translate(@)] ELSE given

\* The line that is put is an event.
LEMMA LinesAreEvents ==
    ASSUME Section(todo), Calling("emit"), StoreTypes
    PROVE  LineOf(Head(todo).event) \in Events
<1>1. \A s \in TerminalStatus : EvalComplete(s) \in Events /\ Translate(s) \in TerminalStatus
  BY WorkerAssumption DEF EvalComplete, Event, Events, EventTypes, Translate, TerminalStatus
<1>2. GradingCompleted \in Events /\ GradingCompleted.type # "eval_complete"
  BY WorkerAssumption DEF GradingCompleted, Event, Events, EventTypes
<1>3. st.pending.status # "none" => st.pending.status \in TerminalStatus
  BY DEF StoreTypes
<1>4. \/ Head(todo).event \in PlainEvents \/ Head(todo).event = GradingCompleted
      \/ \E s \in TerminalStatus : Head(todo).event = EvalComplete(s)
  BY <1>3, AtEmit
<1>5. ASSUME NEW s \in TerminalStatus
      PROVE  LineOf(EvalComplete(s)) \in Events
  BY <1>1 DEF LineOf, EvalComplete, Event, Events
<1> QED
  BY <1>2, <1>4, <1>5 DEF LineOf, PlainEvents

\* A line changes no cause; one that completes a buffered status leads to finalize.
LEMMA EmitCauses ==
    ASSUME CauseInv, EmitEvent
    PROVE  CauseInv'
<1> DEFINE event == LineOf(Head(todo).event)
           emitted == st.emitted \/ event.type = "eval_complete"
           more == IF emitted /\ st.pending # NoPending THEN <<Finalize>> ELSE <<>>
<1>1. Section(todo) /\ todo # <<>> /\ Calling("emit") /\ RowTypes /\ StoreTypes
  BY DEF EmitEvent, Calling, CauseInv
<1>2. UNCHANGED <<runItems, kind, cancelFlag, clock, tripped, good>>
  BY DEF EmitEvent, userVars, timeVars, dataVars
<1>3. event \in Events /\ PutEvent(st.seq, event) \in Seq(Events)
  BY <1>1, LinesAreEvents, PutKeepsLog DEF RowTypes, StoreTypes
<1>4. \/ /\ Raise /\ UNCHANGED <<st, meta>> /\ log' \in {PutEvent(st.seq, event), log}
      \/ /\ ~st.terminal
         /\ log' = PutEvent(st.seq, event)
         /\ st' = [st EXCEPT !.seq = @ + 1, !.emitted = emitted]
         /\ meta' \in {meta, [meta EXCEPT !.seqCount = st.seq + 1]}
         /\ Proceed(more)
  BY DEF EmitEvent, LineOf
<1>5. CASE Raise /\ UNCHANGED <<st, meta>> /\ log' \in {PutEvent(st.seq, event), log}
  <2>1. RowTypes' /\ StoreTypes'
    BY <1>1, <1>2, <1>3, <1>5 DEF RowTypes, StoreTypes
  <2> QED
    BY <1>1, <1>2, <1>5, <2>1, RaiseKeeps DEF CauseInv, Grounds
<1>6. CASE /\ ~st.terminal
           /\ log' = PutEvent(st.seq, event)
           /\ st' = [st EXCEPT !.seq = @ + 1, !.emitted = emitted]
           /\ meta' \in {meta, [meta EXCEPT !.seqCount = st.seq + 1]}
           /\ Proceed(more)
  <2>1. /\ st' \in [seq : Nat, saved : SUBSET Runs, emitted : BOOLEAN, terminal : BOOLEAN,
                    pending : [status : {"none"} \cup TerminalStatus, error : Errors,
                               ids : IdArguments],
                    finalizing : BOOLEAN, latched : BOOLEAN, armed : {"none"} \cup Reasons,
                    unread : SUBSET Runs]
        /\ st'.latched = st.latched /\ st'.armed = st.armed /\ st'.pending = st.pending
        /\ st'.terminal = st.terminal /\ st'.finalizing = st.finalizing
        /\ st'.emitted = emitted
    <3>1. emitted \in BOOLEAN
      BY <1>1 DEF StoreTypes
    <3>2. st' = [st EXCEPT !.seq = @ + 1, !.emitted = emitted]
      BY <1>6
    <3> HIDE DEF emitted
    <3>3. st.seq + 1 \in Nat
      BY <1>1 DEF StoreTypes
    <3>4. st' = [st EXCEPT !.seq = st.seq + 1, !.emitted = emitted]
      BY <3>2
    <3>5. /\ st'.latched = st.latched /\ st'.armed = st.armed /\ st'.pending = st.pending
          /\ st'.terminal = st.terminal /\ st'.finalizing = st.finalizing
      BY <1>1, <3>4 DEF StoreTypes
    <3>6. st'.emitted = emitted
      BY <1>1, <3>4 DEF StoreTypes
    <3> QED
      BY <1>1, <3>1, <3>3, <3>4, <3>5, <3>6 DEF StoreTypes
  <2>2. /\ meta' \in [status : {"running"} \cup TerminalStatus, error : Errors,
                      runs : SUBSET Runs, seqCount : Nat]
        /\ meta'.status = meta.status /\ meta'.error = meta.error
    BY <1>1, <1>6 DEF RowTypes, StoreTypes
  <2>3. RowTypes' /\ StoreTypes'
    BY <1>1, <1>2, <1>3, <1>6, <2>1, <2>2 DEF RowTypes, StoreTypes
  <2>4. UNCHANGED taskVars /\ todo' = more \o Tail(todo)
    BY <1>6 DEF Proceed
  <2>5. Section(todo)' /\ Speaking' /\ (todo' # <<>> => ~Reopens(Head(todo')))
    <3>1. CASE Head(todo).event \in PlainEvents /\ PlainSection(todo) /\ Onward
      <4>1. emitted = st.emitted
        <5>1. event.type # "eval_complete"
          BY <3>1 DEF LineOf, PlainEvents
        <5>2. st.emitted \in BOOLEAN
          BY <1>1 DEF StoreTypes
        <5> HIDE DEF event
        <5> QED
          BY <5>1, <5>2
      <4>2. CASE st.emitted /\ st.pending # NoPending
        <5>1. ~(1 \in 1..(Len(todo) - 1))
          <6>1. todo[1] = Head(todo)
            BY <1>1, <3>1, PlainTail
          <6>2. PlainEmit(todo[1])
            BY <1>1, <3>1, <6>1 DEF PlainEmit, PlainEvents, Calling
          <6> QED
            BY <4>2, <6>2 DEF CauseInv, Speaking
        <5>2. Tail(todo) = <<>>
          BY <1>1, <3>1, <5>1 DEF PlainSection
        <5>3. todo' = <<Finalize>>
          <6>1. more = <<Finalize>>
            BY <4>1, <4>2
          <6>2. <<Finalize>> \o <<>> = <<Finalize>>
            OBVIOUS
          <6> QED
            BY <2>4, <5>2, <6>1, <6>2
        <5>4. Speaking'
          <6>1. \A i \in 1..(Len(todo') - 1) : ~PlainEmit(todo'[i])
            BY <5>3
          <6>2. ~(exec' = "waiting" /\ engine' \in Working)
            BY <2>4, <4>2 DEF CauseInv, Speaking, taskVars
          <6> QED
            BY <6>1, <6>2 DEF Speaking
        <5> QED
          BY <5>3, <5>4, SettlingIsFirst DEF Section
      <4>3. CASE ~(st.emitted /\ st.pending # NoPending)
        <5>1. todo' = <<>> \o Tail(todo)
          BY <2>4, <4>1, <4>3
        <5>2. Speaking'
          BY <1>1, <2>1, <2>4, <3>1, <4>1, <5>1, SpeakingOnward
        <5> QED
          BY <3>1, <5>1, <5>2 DEF Onward, Section, PlainSection, Reopens
      <4> QED
        BY <4>2, <4>3
    <3>2. ASSUME NEW s \in TerminalStatus, NEW e \in Errors, NEW ids \in IdArguments,
                 Justified(s, e), Head(todo).event = GradingCompleted,
                 todo = <<Emit(GradingCompleted), Save(s, e, ids), Emit(EvalComplete(s))>>
          PROVE  Section(todo)' /\ Speaking' /\ (todo' # <<>> => ~Reopens(Head(todo')))
      <4>1. ~st.emitted
        <5>1. 1 \in 1..(Len(todo) - 1) /\ todo[1] = Emit(GradingCompleted)
          BY <3>2
        <5>2. PlainEmit(Emit(GradingCompleted))
          BY DEF PlainEmit, Emit, GradingCompleted, Event
        <5> QED
          BY <5>1, <5>2 DEF CauseInv, Speaking
      <4>2. ~emitted
        BY <3>2, <4>1 DEF LineOf, GradingCompleted, Event
      <4>3. todo' = <<Save(s, e, ids), Emit(EvalComplete(s))>>
        BY <2>4, <3>2, <4>2, ShortSections
      <4>4. SettlingSection(todo)'
        BY <2>1, <3>2, <4>3 DEF SettlingSection, Justified
      <4>5. Speaking'
        <5>1. ~PlainSection(todo)
          BY <3>2, SettlingIsNotPlain, SettlingSections
        <5>2. Len(todo') = 2 /\ todo'[1] = Save(s, e, ids) /\ Save(s, e, ids).op # "emit"
          BY <4>3 DEF Save
        <5> QED
          BY <1>1, <2>4, <5>1, <5>2, SpeakingLast
      <4>6. ~Reopens(Head(todo'))
        BY <4>3, ShortSections DEF Reopens, Save, TerminalStatus
      <4> QED
        BY <4>4, <4>5, <4>6 DEF Section
    <3>3. ASSUME NEW s \in TerminalStatus, todo = <<Emit(EvalComplete(s))>>,
                 ~st.terminal => st.pending.status = Translate(s)
          PROVE  Section(todo)' /\ Speaking' /\ (todo' # <<>> => ~Reopens(Head(todo')))
      <4>1. todo' = <<>> \/ todo' = <<Finalize>>
        BY <2>4, <3>3, ShortSections, ShortConcats
      <4>2. ~PlainSection(todo)
        BY <3>3, SettlingIsNotPlain DEF AnnouncingSection
      <4>3. Speaking'
        <5>1. todo' = <<>> \/ Len(todo') = 1
          BY <4>1
        <5> QED
          BY <1>1, <2>4, <4>2, <5>1, SpeakingLast
      <4>4. PlainSection(<<>>)'
        BY DEF PlainSection
      <4>5. Section(todo)'
        BY <4>1, <4>4 DEF Section
      <4>6. todo' # <<>> => ~Reopens(Head(todo'))
        BY <4>1, SettlingIsFirst
      <4> QED
        BY <4>3, <4>5, <4>6
    <3>4. CASE /\ todo = <<Emit(EvalComplete(st.pending.status)), Flip>>
               /\ Head(todo).event = EvalComplete(st.pending.status)
               /\ ~st.terminal /\ st.finalizing /\ st.pending.status # "none"
      <4>1. emitted /\ st.pending # NoPending
        BY <3>4 DEF LineOf, EvalComplete, Event, NoPending
      <4>2. todo' = <<Finalize, Flip>>
        BY <2>4, <3>4, <4>1, ShortConcats
      <4>3. FlippingSection(todo)'
        BY <2>1, <3>4, <4>2 DEF FlippingSection
      <4>4. ~PlainSection(todo)
        BY <3>4, SettlingIsNotPlain DEF FlippingSection
      <4>5. Speaking'
        <5>1. Len(todo') = 2 /\ todo'[1].op # "emit"
          BY <4>2 DEF Finalize
        <5> QED
          BY <1>1, <2>4, <4>4, <5>1, SpeakingLast
      <4>6. ~Reopens(Head(todo'))
        BY <4>2, ShortSections DEF Reopens, Finalize
      <4> QED
        BY <4>3, <4>5, <4>6 DEF Section
    <3> QED
      BY <1>1, <3>1, <3>2, <3>3, <3>4, AtEmit
  <2> QED
    BY <1>1, <1>2, <2>1, <2>2, <2>3, <2>4, <2>5, ProceedKeeps DEF CauseInv, Grounds
<1> QED
  BY <1>4, <1>5, <1>6

\* finalize goes on with what is buffered.
LEMMA FinalizeCauses ==
    ASSUME CauseInv, FinalizeEvaluation
    PROVE  CauseInv'
<1>1. Section(todo) /\ todo # <<>> /\ Calling("finalize") /\ RowTypes /\ StoreTypes
  BY DEF FinalizeEvaluation, Calling, CauseInv
<1>2. UNCHANGED <<meta, log, runItems, kind, cancelFlag, clock, tripped, good>>
  BY DEF FinalizeEvaluation, tableVars, userVars, timeVars, dataVars
<1>3. todo = <<Finalize>> \/ (todo = <<Finalize, Flip>> /\ FlippingSection(todo))
  BY <1>1, AtFinalize
<1>4. ~PlainSection(todo)
  BY <1>3, SettlingIsNotPlain
<1>5. CASE CanFinalize /\ st' = [st EXCEPT !.finalizing = TRUE] /\ Proceed(FinalizeCalls)
  <2>1. /\ todo = <<Finalize>> /\ ~st.terminal /\ ~st.finalizing /\ st.pending # NoPending
        /\ st.pending.status # "none"
    BY <1>3, <1>5 DEF CanFinalize, FlippingSection, CauseInv, Grounds
  <2>2. /\ st'.latched = st.latched /\ st'.armed = st.armed /\ st'.pending = st.pending
        /\ st'.terminal = st.terminal /\ st'.finalizing = TRUE /\ st'.emitted = st.emitted
        /\ StoreTypes'
    BY <1>1, <1>5 DEF StoreTypes
  <2>3. RowTypes'
    BY <1>1, <1>2 DEF RowTypes
  <2>4. /\ UNCHANGED taskVars
        /\ todo' \in {<<Flip>>, <<Emit(EvalComplete(st.pending.status)), Flip>>}
    BY <1>5, <2>1, ShortConcats DEF Proceed, FinalizeCalls
  <2>5. FlippingSection(todo)'
    BY <2>1, <2>2, <2>4 DEF FlippingSection
  <2>6. Speaking'
    <3>1. \A i \in 1..(Len(todo') - 1) : ~PlainEmit(todo'[i])
      <4>1. CASE todo' = <<Flip>>
        BY <4>1
      <4>2. CASE todo' = <<Emit(EvalComplete(st.pending.status)), Flip>>
        <5>1. Len(todo') = 2 /\ todo'[1] = Emit(EvalComplete(st.pending.status))
          BY <4>2
        <5>2. ~PlainEmit(Emit(EvalComplete(st.pending.status)))
          BY DEF PlainEmit, Emit, EvalComplete, Event
        <5>3. \A i \in 1..(Len(todo') - 1) : i = 1
          BY <5>1, BeforeLast
        <5> QED
          BY <5>1, <5>2, <5>3
      <4> QED
        BY <2>4, <4>1, <4>2
    <3>2. ~(exec' = "waiting" /\ engine' \in Working)
      BY <1>4, <2>4 DEF CauseInv, Speaking, taskVars
    <3> QED
      BY <3>1, <3>2 DEF Speaking
  <2>7. Section(todo)' /\ (todo' # <<>> => ~Reopens(Head(todo')))
    <3>1. ~Reopens(Head(todo'))
      BY <2>4, ShortSections DEF Reopens, Emit, Flip
    <3> QED
      BY <2>5, <3>1 DEF Section
  <2> QED
    BY <1>1, <1>2, <2>2, <2>3, <2>4, <2>6, <2>7, ProceedKeeps DEF CauseInv, Grounds
<1>6. CASE ~CanFinalize /\ Proceed(<<>>) /\ UNCHANGED st
  <2>1. RowTypes' /\ StoreTypes' /\ UNCHANGED taskVars
    BY <1>1, <1>2, <1>6 DEF RowTypes, StoreTypes, Proceed
  <2>2. \/ todo = <<Finalize>> /\ todo' = <<>>
        \/ todo = <<Finalize, Flip>> /\ todo' = <<Flip>> /\ FlippingSection(todo)
    BY <1>3, <1>6, ShortSections DEF Proceed
  <2>3. Section(todo)' /\ (todo' # <<>> => ~Reopens(Head(todo')))
    <3>1. CASE todo' = <<>>
      BY <3>1 DEF Section, PlainSection
    <3>2. CASE todo' = <<Flip>> /\ FlippingSection(todo)
      <4>1. FlippingSection(todo)'
        BY <1>6, <3>2 DEF FlippingSection
      <4>2. ~Reopens(Head(todo'))
        BY <3>2, ShortSections DEF Reopens, Flip
      <4> QED
        BY <4>1, <4>2 DEF Section
    <3> QED
      BY <2>2, <3>1, <3>2
  <2>4. Speaking'
    <3>1. todo' = <<>> \/ Len(todo') = 1
      BY <2>2
    <3> QED
      BY <1>1, <1>4, <2>1, <3>1, SpeakingLast
  <2> QED
    BY <1>1, <1>2, <1>6, <2>1, <2>3, <2>4, ProceedKeeps DEF CauseInv, Grounds
<1> QED
  BY <1>5, <1>6 DEF FinalizeEvaluation

\* The flip writes the buffered status, whose cause is known.
LEMMA FlipCauses ==
    ASSUME CauseInv, FlipStatus
    PROVE  CauseInv'
<1>1. Section(todo) /\ todo # <<>> /\ Calling("flip") /\ RowTypes /\ StoreTypes /\ Grounds
  BY DEF FlipStatus, Calling, CauseInv
<1>2. UNCHANGED <<log, runItems, kind, cancelFlag, clock, tripped, good>>
  BY DEF FlipStatus, userVars, timeVars, dataVars
<1>3. todo = <<Flip>> /\ FlippingSection(todo) /\ ~PlainSection(todo)
  BY <1>1, AtFlip, SettlingIsNotPlain
<1>4. /\ Flipped \in [status : {"running"} \cup TerminalStatus, error : Errors,
                      runs : SUBSET Runs, seqCount : Nat]
      /\ Flipped.status = st.pending.status /\ Flipped.error = st.pending.error
  <2>1. (IF st.pending.ids = NotGiven THEN st.saved ELSE UNION st.pending.ids) \in SUBSET Runs
    BY <1>1 DEF StoreTypes, IdArguments
  <2>2. st.pending.status \in TerminalStatus /\ st.pending.error \in Errors /\ st.seq \in Nat
    BY <1>1, <1>3 DEF StoreTypes, FlippingSection
  <2> QED
    BY <2>1, <2>2 DEF Flipped
<1>5. /\ Flipped.error \in Reasons => Flipped.status = "error" /\ clock > 0
      /\ Flipped.status = "cancelled" => cancelFlag
  BY <1>1, <1>4 DEF Grounds
<1>6. CASE /\ meta' = Flipped
           /\ st' = [st EXCEPT !.pending = NoPending, !.finalizing = FALSE, !.terminal = TRUE]
           /\ Proceed(<<>>)
  <2>1. NoPending \in [status : {"none"} \cup TerminalStatus, error : Errors, ids : IdArguments]
    BY Arguments DEF NoPending
  <2>2. /\ st'.latched = st.latched /\ st'.armed = st.armed /\ st'.pending = NoPending
        /\ st'.emitted = st.emitted /\ StoreTypes'
    <3>1. st' = [st EXCEPT !.pending = NoPending, !.finalizing = FALSE, !.terminal = TRUE]
      BY <1>6
    <3> HIDE DEF NoPending
    <3> QED
      BY <1>1, <2>1, <3>1 DEF StoreTypes
  <2>3. RowTypes' /\ UNCHANGED taskVars /\ todo' = <<>>
    BY <1>1, <1>2, <1>3, <1>4, <1>6, ShortSections DEF RowTypes, Proceed
  <2>4. Section(todo)' /\ Speaking'
    BY <1>1, <1>3, <2>3, SpeakingLast DEF Section, PlainSection
  <2> QED
    BY <1>1, <1>2, <1>5, <1>6, <2>2, <2>3, <2>4, ProceedKeeps DEF NoPending, Reasons
<1>7. CASE meta' \in {Flipped, meta} /\ Raise /\ UNCHANGED st
  <2>1. RowTypes' /\ StoreTypes'
    BY <1>1, <1>2, <1>4, <1>7 DEF RowTypes, StoreTypes
  <2> QED
    BY <1>1, <1>2, <1>5, <1>7, <2>1, RaiseKeeps DEF Grounds
<1> QED
  BY <1>6, <1>7 DEF FlipStatus

\* A settlement finalizes what is buffered or saves a status of its own.
LEMMA SettleCauses ==
    ASSUME CauseInv, SettleEvaluation
    PROVE  CauseInv'
<1>1. Section(todo) /\ todo # <<>> /\ Calling("settle") /\ RowTypes /\ StoreTypes
  BY DEF SettleEvaluation, Calling, CauseInv
<1>2. UNCHANGED <<st, meta, log, runItems, kind, cancelFlag, clock, tripped, good>>
  BY DEF SettleEvaluation, tableVars, userVars, timeVars, dataVars
<1>3. RowTypes' /\ StoreTypes'
  BY <1>1, <1>2 DEF RowTypes, StoreTypes
<1>4. PICK s \in TerminalStatus, e \in Errors, ids \in IdArguments :
         Justified(s, e) /\ todo = <<Settle(s, e, ids)>> /\ Head(todo) = Settle(s, e, ids)
  BY <1>1, AtSettle
<1>5. ~PlainSection(todo)
  BY <1>4, SettlingSections, SettlingIsNotPlain
<1>6. /\ UNCHANGED taskVars
      /\ todo' \in {<<>>, <<Finalize>>, <<Save(s, e, ids), Finalize>>}
  <2>1. /\ Head(todo).status = s /\ Head(todo).error = e /\ Head(todo).ids = ids
    BY <1>4 DEF Settle
  <2>2. /\ <<>> \o Tail(todo) = <<>> /\ <<Finalize>> \o Tail(todo) = <<Finalize>>
        /\ <<Save(s, e, ids), Finalize>> \o Tail(todo) = <<Save(s, e, ids), Finalize>>
    BY <1>4, ShortSections, ShortConcats
  <2> QED
    BY <2>1, <2>2 DEF SettleEvaluation, Proceed, Complete
<1>7. Section(todo)'
  <2>1. CASE todo' = <<>>
    BY <2>1 DEF Section, PlainSection
  <2>2. CASE todo' = <<Finalize>>
    BY <2>2 DEF Section
  <2>3. CASE todo' = <<Save(s, e, ids), Finalize>>
    BY <1>2, <1>4, <2>3 DEF Section, SettlingSection, Justified
  <2> QED
    BY <1>6, <2>1, <2>2, <2>3
<1>8. todo' # <<>> => ~Reopens(Head(todo'))
  BY <1>6, ShortSections DEF Reopens, Save, Finalize, TerminalStatus
<1>9. Speaking'
  <2>1. todo' = <<>> \/ Len(todo') = 1 \/ (Len(todo') = 2 /\ todo'[1].op # "emit")
    <3>1. CASE todo' = <<Save(s, e, ids), Finalize>>
      BY <3>1 DEF Save
    <3> QED
      BY <1>6, <3>1
  <2> QED
    BY <1>1, <1>5, <1>6, <2>1, SpeakingLast
<1> QED
  BY <1>1, <1>2, <1>3, <1>6, <1>7, <1>8, <1>9, ProceedKeeps DEF CauseInv, Grounds

\* A run that is stored, or cannot be read, changes no cause.
LEMMA RunCauses ==
    ASSUME CauseInv, SaveRunItem
    PROVE  CauseInv'
<1> DEFINE r == Head(todo).run
<1>1. Section(todo) /\ todo # <<>> /\ Calling("run") /\ RowTypes /\ StoreTypes
  BY DEF SaveRunItem, Calling, CauseInv
<1>2. UNCHANGED <<meta, log, kind, cancelFlag, clock, tripped, good>>
  BY DEF SaveRunItem, userVars, timeVars, dataVars
<1>3. r \in Runs /\ PlainSection(todo) /\ Onward
  BY <1>1, AtRun
<1>4. CASE /\ Proceed(<<>>)
           /\ st' \in {[st EXCEPT !.saved = @ \cup {r}], [st EXCEPT !.unread = @ \cup {r}]}
           /\ runItems' \in {runItems, runItems \cup {r}}
  <2>1. /\ st'.latched = st.latched /\ st'.armed = st.armed /\ st'.pending = st.pending
        /\ st'.emitted = st.emitted /\ StoreTypes'
    BY <1>1, <1>3, <1>4 DEF StoreTypes
  <2>2. RowTypes' /\ UNCHANGED taskVars /\ todo' = <<>> \o Tail(todo)
    BY <1>1, <1>2, <1>3, <1>4 DEF RowTypes, Proceed
  <2>3. Speaking'
    BY <1>1, <1>3, <2>1, <2>2, SpeakingOnward
  <2>4. Section(todo)' /\ (todo' # <<>> => ~Reopens(Head(todo')))
    BY <1>3, <2>2 DEF Onward, Section, PlainSection, Reopens
  <2> QED
    BY <1>1, <1>2, <2>1, <2>2, <2>3, <2>4, ProceedKeeps DEF CauseInv, Grounds
<1>5. CASE Raise /\ UNCHANGED st /\ runItems' \in {runItems, runItems \cup {r}}
  <2>1. RowTypes' /\ StoreTypes'
    BY <1>1, <1>2, <1>3, <1>5 DEF RowTypes, StoreTypes
  <2> QED
    BY <1>1, <1>2, <1>5, <2>1, RaiseKeeps DEF CauseInv, Grounds
<1> QED
  BY <1>4, <1>5 DEF SaveRunItem, PutRun, LookupFails

-----------------------------------------------------------------------------
(* Why a row is settled: the scheduler and the environment *)

\* What a look at the cancel flag or at the clock may do to the store.
Calm ==
    /\ StoreTypes'
    /\ st'.emitted = st.emitted /\ st'.terminal = st.terminal
    /\ st'.pending = st.pending /\ st'.finalizing = st.finalizing
    /\ st'.seq = st.seq /\ st'.unread = st.unread
    /\ st.latched => st'.latched /\ st'.armed = st.armed
    /\ st'.latched => cancelFlag
    /\ st.armed # "none" => st'.armed # "none"
    /\ st'.armed # "none" => clock > 0

\* A step that leaves the store alone.
LEMMA UnchangedIsCalm ==
    ASSUME CauseInv, UNCHANGED st
    PROVE  Calm
  BY DEF CauseInv, StoreTypes, Grounds, Calm

\* A look at the cancel flag latches what a user asked for.
LEMMA RequestIsCalm ==
    ASSUME CauseInv, NEW seen \in BOOLEAN, CancelRequested(seen)
    PROVE  Calm /\ (seen => st'.latched) /\ st'.armed = st.armed
<1>1. StoreTypes /\ Grounds /\ cancelFlag \in BOOLEAN
  BY DEF CauseInv, RowTypes
<1>2. CASE seen = (st.latched \/ cancelFlag) /\ st' = [st EXCEPT !.latched = seen]
  BY <1>1, <1>2 DEF StoreTypes, Grounds, Calm
<1>3. CASE ~seen /\ UNCHANGED st
  BY <1>3, UnchangedIsCalm
<1> QED
  BY <1>2, <1>3 DEF CancelRequested

\* A reason is armed only when time has run down.
LEMMA StopIsCalm ==
    ASSUME CauseInv, NEW reason \in Reasons, StopWith(reason), ~st.latched, clock > 0
    PROVE  Calm /\ st'.armed = reason
  BY DEF CauseInv, StoreTypes, Grounds, Calm, StopWith, Reasons

\* A poll that says stop has a request or the deadline behind it.
LEMMA PollIsCalm ==
    ASSUME CauseInv, NEW stop \in BOOLEAN, Poll(stop)
    PROVE  /\ Calm /\ tripped' \in BOOLEAN
           /\ tripped' => st'.armed # "none"
           /\ tripped => tripped'
           /\ stop => st'.latched \/ tripped'
<1>1. Grounds /\ tripped \in BOOLEAN /\ clock \in 0..2
  BY DEF CauseInv, TaskTypes
<1>2. CASE CancelRequested(TRUE) /\ stop /\ UNCHANGED tripped
  BY <1>1, <1>2, RequestIsCalm DEF Grounds
<1>3. CASE CancelRequested(FALSE) /\ ~stop /\ ~tripped /\ clock = 0 /\ UNCHANGED tripped
  BY <1>1, <1>3, RequestIsCalm DEF Grounds
<1>4. CASE ~st.latched /\ (tripped \/ clock >= 1) /\ stop /\ tripped' = TRUE /\ StopWith("boundary")
  <2>1. clock > 0
    BY <1>1, <1>4 DEF Grounds
  <2>2. "boundary" \in Reasons
    BY DEF Reasons
  <2> QED
    BY <1>4, <2>1, <2>2, StopIsCalm DEF Reasons
<1> QED
  BY <1>2, <1>3, <1>4 DEF Poll

\* No line comes before the end of these sections.
LEMMA SettlingIsQuiet ==
    \A s, e, ids, q :
        q \in {<<Save(s, e, ids), Emit(EvalComplete(s))>>, <<Save(s, e, ids), Finalize>>,
               <<Settle(s, e, ids)>>} =>
            \A i \in 1..(Len(q) - 1) : ~PlainEmit(q[i])
<1> SUFFICES ASSUME NEW s, NEW e, NEW ids, NEW q,
                    q \in {<<Save(s, e, ids), Emit(EvalComplete(s))>>,
                           <<Save(s, e, ids), Finalize>>, <<Settle(s, e, ids)>>},
                    NEW i \in 1..(Len(q) - 1)
             PROVE  ~PlainEmit(q[i])
  OBVIOUS
<1>1. Len(q) \in {1, 2} /\ (Len(q) = 2 => q[1] = Save(s, e, ids))
  OBVIOUS
<1>2. i = 1 /\ Len(q) = 2
  BY <1>1, BeforeLast
<1> QED
  BY <1>1, <1>2 DEF PlainEmit, Save

\* A step of the scheduler looks, and starts a section.
Orderly == Calm /\ (PlainSection(todo') \/ SettlingSection(todo)')

\* A coroutine that gets the processor and settles.
LEMMA SettlesNow ==
    ASSUME CauseInv, NEW s \in TerminalStatus, NEW e \in Errors, NEW ids \in IdArguments,
           Calm, RowTypes', TaskTypes', Grounds',
           s = "cancelled" => st'.latched \/ st'.armed # "none",
           e \in Reasons => s = "error" /\ st'.armed # "none",
           todo' \in {<<Save(s, e, ids), Emit(EvalComplete(s))>>, <<Save(s, e, ids), Finalize>>,
                      <<Settle(s, e, ids)>>},
           exec' # "early", exec' = "waiting" => engine' \notin Working,
           engine' = "start" => ~batchFailed'
    PROVE  CauseInv' /\ Orderly
<1>1. SettlingSection(todo)'
  BY DEF SettlingSection, Justified
<1>2. ~Reopens(Head(todo'))
  BY ShortSections DEF Reopens, Save, Settle, TerminalStatus
<1>3. StartsUnsettled'
  BY <1>2 DEF StartsUnsettled, Working
<1>4. Speaking'
  <2>1. \A i \in 1..(Len(todo') - 1) : ~PlainEmit(todo'[i])
    BY SettlingIsQuiet
  <2> QED
    BY <2>1 DEF Speaking
<1> QED
  BY <1>1, <1>3, <1>4 DEF CauseInv, Section, Calm, Orderly

\* A coroutine that gets the processor and does not.
LEMMA SettlesLater ==
    ASSUME CauseInv, Calm, RowTypes', TaskTypes', Grounds',
           PlainSection(todo'),
           todo' # <<>> /\ Reopens(Head(todo')) => Unsettled,
           UNCHANGED meta,
           exec' \in {"early", "waiting"} /\ engine' = "start" => todo' = <<>> /\ Unsettled,
           exec' = "early" => engine' = "start", engine' = "start" => ~batchFailed',
           exec' = "waiting" /\ engine' \in Working => ~st.emitted,
           st.emitted => \A i \in 1..(Len(todo') - 1) : ~PlainEmit(todo'[i])
    PROVE  CauseInv' /\ Orderly
<1>1. Section(todo)'
  BY DEF Section, PlainSection
<1>2. Unsettled => Unsettled'
  BY DEF Unsettled, Calm
<1>3. StartsUnsettled'
  BY <1>2 DEF StartsUnsettled
<1>4. Speaking'
  BY DEF Speaking, Calm
<1> QED
  BY <1>1, <1>3, <1>4 DEF CauseInv, Calm, Orderly

\* A request seen at once is settled as cancelled.
LEMMA ExecStartCauses ==
    ASSUME CauseInv, ExecStart
    PROVE  CauseInv' /\ Orderly
<1>1. /\ UNCHANGED <<meta, log, runItems, kind, cancelFlag, batchFailed, engine, outcome, good, clock, tripped>>
      /\ exec = "early" /\ engine = "start" /\ todo = <<>> /\ Unsettled
      /\ RowTypes /\ TaskTypes /\ Grounds /\ (engine = "start" => ~batchFailed)
  BY DEF ExecStart, CauseInv, StartsUnsettled, tableVars, userVars, dataVars, timeVars
<1>2. RowTypes'
  BY <1>1 DEF RowTypes
<1>3. CASE /\ CancelRequested(TRUE)
           /\ Begin(Owner("execute"), Complete("cancelled", "none", Given({})))
           /\ exec' = "settling" /\ reported' = "cancelled"
  <2>1. Calm /\ st'.latched
    BY <1>3, RequestIsCalm
  <2>2. /\ todo' = <<Save("cancelled", "none", Given({})), Finalize>>
        /\ frame' = [of |-> "execute", run |-> 0]
    BY <1>3 DEF Begin, Owner, Complete
  <2>3. TaskTypes'
    BY <1>1, <1>3, <2>2, WorkerAssumption DEF TaskTypes, TerminalStatus
  <2>4. Grounds'
    BY <1>1, <1>3, <2>1, <2>2 DEF Grounds, Calm
  <2>5. "cancelled" \in TerminalStatus /\ "none" \in Errors \ Reasons /\ Given({}) \in IdArguments
    BY Arguments DEF Reasons
  <2>6. exec' # "early" /\ exec' # "waiting" /\ ~batchFailed'
    BY <1>1, <1>3
  <2> QED
    BY <1>2, <2>1, <2>2, <2>3, <2>4, <2>5, <2>6, SettlesNow
<1>4. CASE CancelRequested(FALSE) /\ exec' = "waiting" /\ UNCHANGED <<todo, frame, reported>>
  <2>1. Calm
    BY <1>4, RequestIsCalm
  <2>2. TaskTypes' /\ Grounds'
    BY <1>1, <1>4, <2>1 DEF TaskTypes, Grounds, Calm
  <2> QED
    <3>1. PlainSection(todo') /\ todo' = <<>> /\ ~st.emitted
      BY <1>1, <1>4 DEF PlainSection, Unsettled
    <3>2. \A i \in 1..(Len(todo') - 1) : ~PlainEmit(todo'[i])
      BY <3>1
    <3> QED
      BY <1>1, <1>2, <1>4, <2>1, <2>2, <3>1, <3>2, SettlesLater
<1> QED
  BY <1>3, <1>4 DEF ExecStart

\* The hard stop settles with the request it saw or the reason it armed.
LEMMA HardStopCauses ==
    ASSUME CauseInv, HardStop
    PROVE  CauseInv' /\ Orderly
<1>1. /\ UNCHANGED <<meta, log, runItems, kind, cancelFlag, batchFailed, outcome, good, clock, tripped>>
      /\ exec = "waiting" /\ todo = <<>> /\ clock = 2 /\ exec' = "hardstop" /\ engine' = "stopped"
      /\ RowTypes /\ TaskTypes /\ Grounds /\ (engine = "start" => ~batchFailed)
  BY DEF HardStop, CauseInv, StartsUnsettled, tableVars, userVars, dataVars, timeVars, Idle
<1>2. RowTypes'
  BY <1>1 DEF RowTypes
<1>3. /\ todo' = <<Save("cancelled", "none", Given(good)), Emit(EvalComplete("cancelled"))>>
      /\ frame' = [of |-> "handler", run |-> 0]
  BY DEF HardStop, Begin, Owner
<1>4. /\ Calm
      /\ \/ st'.latched /\ reported' = "cancelled"
         \/ st'.armed # "none" /\ reported' = "error"
  <2>1. CASE CancelRequested(TRUE) /\ reported' = "cancelled"
    BY <2>1, RequestIsCalm
  <2>2. CASE ~st.latched /\ StopWith("inflight") /\ reported' = "error"
    BY <1>1, <2>2, StopIsCalm DEF Reasons
  <2> QED
    BY <2>1, <2>2 DEF HardStop
<1>5. TaskTypes' /\ Grounds'
  BY <1>1, <1>3, <1>4, WorkerAssumption DEF TaskTypes, TerminalStatus, Grounds, Calm
<1>6. "cancelled" \in TerminalStatus /\ "none" \in Errors \ Reasons /\ Given(good) \in IdArguments
  BY <1>1, Arguments DEF Reasons, TaskTypes
<1> QED
  BY <1>1, <1>2, <1>3, <1>4, <1>5, <1>6, SettlesNow

\* What the hard stop decided is what is settled after it.
LEMMA AfterHardStopCauses ==
    ASSUME CauseInv, AfterHardStop
    PROVE  CauseInv' /\ Orderly
<1> DEFINE e == IF reported = "error" THEN "inflight" ELSE "none"
<1>1. /\ UNCHANGED <<meta, log, runItems, kind, cancelFlag, batchFailed, st, engine, outcome, reported, good,
                     clock, tripped>>
      /\ exec = "hardstop" /\ exec' = "settling"
      /\ todo' = <<Settle(reported, e, NotGiven)>> /\ frame' = [of |-> "execute", run |-> 0]
      /\ RowTypes /\ TaskTypes /\ Grounds /\ (engine = "start" => ~batchFailed)
  BY DEF AfterHardStop, CauseInv, StartsUnsettled, tableVars, userVars, dataVars, timeVars, Begin, Owner
<1>2. RowTypes' /\ TaskTypes' /\ Grounds'
  BY <1>1, WorkerAssumption DEF RowTypes, TaskTypes, Grounds
<1>3. /\ reported \in TerminalStatus /\ e \in Errors /\ NotGiven \in IdArguments
      /\ reported = "cancelled" => st'.latched \/ st'.armed # "none"
      /\ e \in Reasons => reported = "error" /\ st'.armed # "none"
  BY <1>1, Arguments DEF Grounds, Reasons
<1>4. Calm
  BY <1>1, UnchangedIsCalm
<1> QED
  BY <1>1, <1>2, <1>3, <1>4, SettlesNow

\* A cancelled outcome after the deadline tripped is settled as an error.
LEMMA AfterEngineCauses ==
    ASSUME CauseInv, AfterEngine
    PROVE  CauseInv' /\ Orderly
<1> DEFINE atDeadline == outcome.status = "cancelled" /\ tripped
<1>1. /\ UNCHANGED <<meta, log, runItems, kind, cancelFlag, batchFailed, st, engine, outcome, good, clock, tripped>>
      /\ exec = "waiting" /\ engine = "done" /\ exec' = "settling"
      /\ frame' = [of |-> "execute", run |-> 0]
      /\ RowTypes /\ TaskTypes /\ Grounds /\ (engine = "start" => ~batchFailed)
  BY DEF AfterEngine, CauseInv, StartsUnsettled, tableVars, userVars, dataVars, timeVars, Begin, Owner
<1>2. /\ reported' = IF atDeadline THEN "error" ELSE outcome.status
      /\ todo' = IF atDeadline THEN <<Settle("error", "boundary", NotGiven)>>
                 ELSE <<Settle(outcome.status, outcome.error, Given(good))>>
  BY DEF AfterEngine, Begin
<1>3. outcome.status \in TerminalStatus
  BY <1>1 DEF TaskTypes, Grounds
<1>4. RowTypes' /\ TaskTypes' /\ Grounds'
  BY <1>1, <1>2, <1>3, Arguments, WorkerAssumption DEF RowTypes, TaskTypes, Grounds
<1>5. Calm
  BY <1>1, UnchangedIsCalm
<1>6. CASE atDeadline
  <2>1. "error" \in TerminalStatus /\ "boundary" \in Errors /\ NotGiven \in IdArguments
    BY Arguments
  <2>2. st'.armed # "none"
    BY <1>1, <1>6 DEF Grounds
  <2> QED
    BY <1>1, <1>2, <1>4, <1>5, <1>6, <2>1, <2>2, SettlesNow
<1>7. CASE ~atDeadline
  <2>1. outcome.error \in Errors /\ Given(good) \in IdArguments
    BY <1>1, Arguments DEF TaskTypes
  <2>2. outcome.status = "cancelled" => st'.latched
    BY <1>1, <1>7 DEF Grounds
  <2>3. outcome.error \notin Reasons
    BY <1>1 DEF Grounds
  <2> QED
    BY <1>1, <1>2, <1>3, <1>4, <1>5, <1>7, <2>1, <2>2, <2>3, SettlesNow
<1> QED
  BY <1>6, <1>7

\* An engine that raised is settled as an error.
LEMMA AfterEngineRaisedCauses ==
    ASSUME CauseInv, AfterEngineRaised
    PROVE  CauseInv' /\ Orderly
<1>1. /\ UNCHANGED <<meta, log, runItems, kind, cancelFlag, batchFailed, st, engine, outcome, good, clock, tripped>>
      /\ exec' = "settling" /\ reported' = "error"
      /\ todo' = <<Settle("error", "internal", NotGiven)>>
      /\ frame' = [of |-> "quiet", run |-> 0]
      /\ RowTypes /\ TaskTypes /\ Grounds /\ (engine = "start" => ~batchFailed)
  BY DEF AfterEngineRaised, CauseInv, StartsUnsettled, tableVars, userVars, dataVars, timeVars, Begin, Owner
<1>2. RowTypes' /\ TaskTypes' /\ Grounds'
  BY <1>1, Arguments, WorkerAssumption DEF RowTypes, TaskTypes, Grounds
<1>3. "error" \in TerminalStatus /\ "internal" \in Errors \ Reasons /\ NotGiven \in IdArguments
  BY Arguments DEF Reasons
<1>4. Calm
  BY <1>1, UnchangedIsCalm
<1> QED
  BY <1>1, <1>2, <1>3, <1>4, SettlesNow

\* execute() returns, or is killed.
LEMMA EndCauses ==
    ASSUME CauseInv, ExecReturn \/ Kill
    PROVE  CauseInv' /\ Orderly
<1>1. /\ UNCHANGED <<meta, log, runItems, kind, cancelFlag, batchFailed, st, engine, outcome, reported, good,
                     clock, tripped, frame>>
      /\ exec' \in {"returned", "killed"} /\ todo' = <<>>
      /\ RowTypes /\ TaskTypes /\ Grounds /\ (engine = "start" => ~batchFailed)
  BY DEF ExecReturn, Kill, CauseInv, StartsUnsettled, tableVars, userVars, dataVars, timeVars, Idle
<1>2. RowTypes' /\ TaskTypes' /\ Grounds'
  BY <1>1 DEF RowTypes, TaskTypes, Grounds
<1>3. Calm
  BY <1>1, UnchangedIsCalm
<1> QED
  BY <1>1, <1>2, <1>3, SettlesLater DEF PlainSection

\* running, eval_start and the stored runs make a plain section.
LEMMA OpeningIsPlain ==
    ASSUME NEW ok \in SUBSET Runs
    PROVE  LET opening == <<Save("running", "none", NotGiven),
                            Emit(Event("eval_start", 0, "none"))>>
           IN PlainSection(opening) /\ PlainSection(opening \o LoadedCalls(ok))
<1> DEFINE opening == <<Save("running", "none", NotGiven),
                        Emit(Event("eval_start", 0, "none"))>>
           loaded == LoadedCalls(ok)
<1>1. NRuns \in Nat /\ 0 \in 0..NRuns /\ Runs \subseteq 0..NRuns
  BY WorkerAssumption DEF Runs
<1>2. /\ Event("eval_start", 0, "none") \in PlainEvents
      /\ \A r \in Runs : /\ Event("run_completed", r, "none") \in PlainEvents
                         /\ Event("run_failed", r, "none") \in PlainEvents
  BY <1>1 DEF Event, PlainEvents, Events, EventTypes
<1>3. /\ Save("running", "none", NotGiven) \in PlainCalls
      /\ \A e \in PlainEvents : Emit(e) \in PlainCalls /\ ~Reopens(Emit(e))
  BY Arguments DEF PlainCalls, Reopens, Emit
<1>4. opening \in Seq(PlainCalls) /\ Len(opening) = 2
      /\ \A i \in 2..Len(opening) : ~Reopens(opening[i])
  <2>1. opening \in Seq(PlainCalls) /\ Len(opening) = 2
        /\ opening[2] = Emit(Event("eval_start", 0, "none"))
    BY <1>2, <1>3
  <2>2. \A i \in 2..2 : i = 2
    OBVIOUS
  <2> QED
    BY <1>2, <1>3, <2>1, <2>2
<1>5. /\ loaded \in Seq(PlainCalls) /\ Len(loaded) = NRuns
      /\ \A i \in 1..NRuns : ~Reopens(loaded[i])
  <2>1. loaded \in [1..NRuns -> PlainCalls]
    BY <1>2, <1>3 DEF LoadedCalls, Runs
  <2>2. \A i \in 1..NRuns : ~Reopens(loaded[i])
    BY <1>2, <1>3 DEF LoadedCalls, Runs
  <2> HIDE DEF loaded
  <2>3. loaded \in Seq(PlainCalls) /\ Len(loaded) = NRuns
    BY <1>1, <2>1
  <2> QED
    BY <2>2, <2>3
<1>6. PlainSection(opening \o loaded)
  <2> HIDE DEF opening, loaded
  <2>1. /\ opening \o loaded \in Seq(PlainCalls) /\ Len(opening \o loaded) = 2 + NRuns
        /\ \A i \in 1..2 + NRuns :
              (opening \o loaded)[i] = IF i <= 2 THEN opening[i] ELSE loaded[i - 2]
    <3>1. /\ opening \o loaded \in Seq(PlainCalls)
          /\ Len(opening \o loaded) = Len(opening) + Len(loaded)
          /\ \A i \in 1..Len(opening) + Len(loaded) :
                (opening \o loaded)[i] = IF i <= Len(opening) THEN opening[i]
                                         ELSE loaded[i - Len(opening)]
      BY <1>4, <1>5, ConcatProperties
    <3>2. Len(opening) = 2 /\ Len(loaded) = NRuns
      BY <1>4, <1>5
    <3> QED
      BY <3>1, <3>2
  <2>2. ASSUME NEW i \in 2..2 + NRuns PROVE ~Reopens((opening \o loaded)[i])
    <3>1. CASE i = 2
      BY <1>1, <1>4, <2>1, <3>1
    <3>2. CASE i # 2
      <4>1. i \in 1..2 + NRuns /\ i - 2 \in 1..NRuns /\ ~(i <= 2)
        BY <1>1, <3>2
      <4> QED
        BY <1>5, <2>1, <4>1
    <3> QED
      BY <3>1, <3>2
  <2> QED
    BY <2>1, <2>2 DEF PlainSection
<1> QED
  BY <1>4, <1>6 DEF PlainSection

\* The engine opens with a plain section, on an unsettled row.
LEMMA EngineStartCauses ==
    ASSUME CauseInv, EngineStart
    PROVE  CauseInv' /\ Orderly
<1> DEFINE opening == <<Save("running", "none", NotGiven),
                        Emit(Event("eval_start", 0, "none"))>>
<1>1. /\ UNCHANGED <<meta, log, runItems, kind, cancelFlag, st, exec, batchFailed, outcome,
                     reported, clock, tripped>>
      /\ exec = "waiting" /\ engine = "start" /\ todo = <<>> /\ Unsettled
      /\ RowTypes /\ TaskTypes /\ Grounds
  BY DEF EngineStart, Idle, CauseInv, StartsUnsettled, tableVars, userVars, timeVars
<1>2. \E ok \in SUBSET Runs :
         /\ todo' \in {opening, opening \o LoadedCalls(ok)}
         /\ frame' = [of |-> "engine", run |-> 0]
         /\ engine' \in {"batch", "loaded"} /\ good' \in SUBSET Runs
  <2>1. CASE Begin(Owner("engine"), opening) /\ engine' = "batch" /\ UNCHANGED dataVars
    BY <1>1, <2>1 DEF Begin, Owner, dataVars, TaskTypes
  <2>2. CASE /\ Begin(Owner("engine"), opening \o LoadedCalls(good'))
             /\ good' \in Loadable /\ engine' = "loaded"
    BY <2>2 DEF Begin, Owner, Loadable
  <2> QED
    BY <2>1, <2>2 DEF EngineStart
<1>3. PICK ok \in SUBSET Runs : todo' \in {opening, opening \o LoadedCalls(ok)}
  BY <1>2
<1>4. PlainSection(todo')
  BY <1>3, OpeningIsPlain
<1>5. RowTypes' /\ TaskTypes' /\ Grounds'
  BY <1>1, <1>2, WorkerAssumption DEF RowTypes, TaskTypes, Grounds
<1>6. Calm /\ ~st.emitted
  BY <1>1, UnchangedIsCalm DEF Unsettled
<1> QED
  BY <1>1, <1>2, <1>4, <1>5, <1>6, SettlesLater

\* An engine that cannot be built raises.
LEMMA EngineUnavailableCauses ==
    ASSUME CauseInv, EngineUnavailable
    PROVE  CauseInv' /\ Orderly
<1>1. /\ UNCHANGED <<meta, log, runItems, kind, cancelFlag, st, exec, batchFailed, outcome,
                     reported, frame, todo, good, clock, tripped>>
      /\ exec = "waiting" /\ engine = "start" /\ engine' = "raised" /\ todo = <<>> /\ Unsettled
      /\ RowTypes /\ TaskTypes /\ Grounds
  BY DEF EngineUnavailable, Idle, CauseInv, StartsUnsettled, tableVars, userVars, dataVars, timeVars
<1>2. RowTypes' /\ TaskTypes' /\ Grounds' /\ Calm /\ ~st.emitted
  BY <1>1, UnchangedIsCalm DEF RowTypes, TaskTypes, Grounds, Unsettled
<1> QED
  BY <1>1, <1>2, SettlesLater DEF PlainSection

\* A child's exception settles an error.
LEMMA BatchRaisesCauses ==
    ASSUME CauseInv, BatchRaises
    PROVE  CauseInv' /\ Orderly
<1>1. /\ UNCHANGED <<meta, log, runItems, kind, cancelFlag, st, exec, batchFailed,
                     reported, good, clock, tripped>>
      /\ exec = "waiting" /\ engine' = "done"
      /\ todo' = <<Save("error", "internal", NotGiven), Emit(EvalComplete("error"))>>
      /\ frame' = [of |-> "handler", run |-> 0]
      /\ outcome' = [status |-> "error", error |-> "internal"]
      /\ RowTypes /\ TaskTypes /\ Grounds
  BY DEF BatchRaises, EngineExcept, Begin, Owner, CauseInv, tableVars, userVars, dataVars, timeVars
<1>2. RowTypes' /\ TaskTypes' /\ Grounds'
  BY <1>1, Arguments, WorkerAssumption DEF RowTypes, TaskTypes, Grounds, Reasons
<1>3. "error" \in TerminalStatus /\ "internal" \in Errors \ Reasons /\ NotGiven \in IdArguments
  BY Arguments DEF Reasons
<1>4. Calm /\ "done" \notin Working
  BY <1>1, UnchangedIsCalm DEF Working
<1> QED
  BY <1>1, <1>2, <1>3, <1>4, SettlesNow

\* A section of one plain call.
LEMMA OneCall ==
    ASSUME NEW c \in PlainCalls
    PROVE  PlainSection(<<c>>) /\ \A i \in 1..(Len(<<c>>) - 1) : ~PlainEmit(<<c>>[i])
  BY DEF PlainSection

\* The successes are recorded by a plain save.
LEMMA BatchDoneCauses ==
    ASSUME CauseInv, BatchDone
    PROVE  CauseInv' /\ Orderly
<1> DEFINE c == Save("none", "none", Given(good))
<1>1. /\ UNCHANGED <<meta, log, runItems, kind, cancelFlag, st, exec, batchFailed, outcome,
                     reported, good, clock, tripped>>
      /\ exec = "waiting" /\ engine \in {"batch", "loaded"} /\ engine' = "progress"
      /\ todo' = <<c>> /\ frame' = [of |-> "engine", run |-> 0]
      /\ RowTypes /\ TaskTypes /\ Grounds /\ Speaking
  BY DEF BatchDone, Begin, Owner, CauseInv, tableVars, userVars, dataVars, timeVars
<1>2. RowTypes' /\ TaskTypes' /\ Grounds' /\ Calm
  BY <1>1, UnchangedIsCalm, WorkerAssumption DEF RowTypes, TaskTypes, Grounds
<1>3. c \in PlainCalls /\ ~Reopens(c)
  BY <1>1, Arguments DEF PlainCalls, TaskTypes, Reopens, Save
<1>4. ~st.emitted
  BY <1>1 DEF Speaking, Working
<1>5. PlainSection(todo') /\ ~Reopens(Head(todo'))
  BY <1>1, <1>3, OneCall, ShortSections
<1> QED
  BY <1>1, <1>2, <1>4, <1>5, SettlesLater

\* The last poll cancels with a cause, or grading starts.
LEMMA BeforeGradingCauses ==
    ASSUME CauseInv, BeforeGrading
    PROVE  CauseInv' /\ Orderly
<1> DEFINE c == Emit(Event("grading_started", 0, "none"))
<1>1. /\ UNCHANGED <<meta, log, runItems, kind, cancelFlag, exec, batchFailed, reported, good, clock>>
      /\ exec = "waiting" /\ engine = "progress"
      /\ RowTypes /\ TaskTypes /\ Grounds /\ Speaking
  BY DEF BeforeGrading, CauseInv, tableVars, userVars, dataVars
<1>2. RowTypes' /\ ~st.emitted
  BY <1>1 DEF RowTypes, Speaking, Working
<1>3. CASE /\ Poll(TRUE) /\ engine' = "done"
           /\ outcome' = [status |-> "cancelled", error |-> "none"]
           /\ Begin(Owner("handler"), <<Save("cancelled", "none", Given(good)),
                                        Emit(EvalComplete("cancelled"))>>)
  <2>1. /\ Calm /\ tripped' \in BOOLEAN /\ (tripped' => st'.armed # "none")
        /\ st'.latched \/ tripped'
    BY <1>3, PollIsCalm
  <2>2. /\ todo' = <<Save("cancelled", "none", Given(good)), Emit(EvalComplete("cancelled"))>>
        /\ frame' = [of |-> "handler", run |-> 0]
    BY <1>3 DEF Begin, Owner
  <2>3. "cancelled" \in TerminalStatus /\ "none" \in Errors \ Reasons /\ Given(good) \in IdArguments
    BY <1>1, Arguments DEF Reasons, TaskTypes
  <2>4. TaskTypes' /\ Grounds'
    BY <1>1, <1>3, <2>1, <2>2, <2>3, WorkerAssumption DEF TaskTypes, Grounds, Calm
  <2>5. "done" \notin Working
    BY DEF Working
  <2> QED
    BY <1>1, <1>2, <1>3, <2>1, <2>2, <2>3, <2>4, <2>5, SettlesNow
<1>4. CASE /\ Poll(FALSE) /\ engine' = "judging" /\ UNCHANGED outcome
           /\ Begin(Owner("engine"), <<Emit(Event("grading_started", 0, "none"))>>)
  <2>1. /\ Calm /\ tripped' \in BOOLEAN /\ (tripped' => st'.armed # "none")
        /\ tripped => tripped'
    BY <1>4, PollIsCalm
  <2>2. todo' = <<c>> /\ frame' = [of |-> "engine", run |-> 0]
    BY <1>4 DEF Begin, Owner
  <2>3. c \in PlainCalls /\ ~Reopens(c)
    <3>1. Event("grading_started", 0, "none") \in PlainEvents
      BY WorkerAssumption DEF Event, PlainEvents, Events, EventTypes
    <3> QED
      BY <3>1 DEF PlainCalls, Reopens, Emit
  <2>4. TaskTypes' /\ Grounds'
    BY <1>1, <1>4, <2>1, <2>2, WorkerAssumption DEF TaskTypes, Grounds, Calm
  <2>5. PlainSection(todo') /\ ~Reopens(Head(todo'))
    BY <2>2, <2>3, OneCall, ShortSections
  <2> QED
    BY <1>1, <1>2, <1>4, <2>1, <2>4, <2>5, SettlesLater
<1> QED
  BY <1>3, <1>4 DEF BeforeGrading

\* A graded evaluation settles without a reason.
LEMMA GradedCauses ==
    ASSUME CauseInv, Graded
    PROVE  CauseInv' /\ Orderly
<1> DEFINE end == IF good # {} THEN [status |-> "completed", error |-> "none"]
                  ELSE [status |-> "error", error |-> "no_runs"]
<1>1. /\ UNCHANGED <<meta, log, runItems, kind, cancelFlag, st, exec, batchFailed, reported, good,
                     clock, tripped>>
      /\ exec = "waiting" /\ engine = "judging" /\ engine' = "done" /\ outcome' = end
      /\ todo' = <<Emit(GradingCompleted), Save(end.status, end.error, NotGiven),
                   Emit(EvalComplete(end.status))>>
      /\ frame' = [of |-> "engine", run |-> 0]
      /\ RowTypes /\ TaskTypes /\ Grounds /\ Speaking
  BY DEF Graded, CauseInv, tableVars, userVars, dataVars, timeVars, Begin, Owner, GradingCompleted
<1>2. RowTypes' /\ Calm /\ ~st.emitted
  BY <1>1, UnchangedIsCalm DEF RowTypes, Speaking, Working
<1>3. /\ end.status \in TerminalStatus \ {"cancelled"} /\ end.error \in Errors \ Reasons
      /\ NotGiven \in IdArguments
  BY Arguments DEF Reasons, TerminalStatus
<1>4. TaskTypes' /\ Grounds'
  <2> HIDE DEF end
  <2>1. outcome' \in [status : {"none"} \cup TerminalStatus, error : Errors]
    BY <1>1, Arguments DEF end
  <2>2. outcome'.status # "cancelled" /\ outcome'.status # "none" /\ outcome'.error \notin Reasons
    BY <1>1, Arguments DEF end, Reasons
  <2> QED
    BY <1>1, <2>1, <2>2, WorkerAssumption DEF TaskTypes, Grounds
<1> HIDE DEF end
<1>5. SettlingSection(todo)'
  BY <1>1, <1>3 DEF SettlingSection, Justified
<1>6. StartsUnsettled'
  <2>1. ~Reopens(Head(todo'))
    BY <1>1, ShortSections DEF Reopens, Emit
  <2> QED
    BY <1>1, <2>1 DEF StartsUnsettled
<1>7. Speaking'
  BY <1>1, <1>2 DEF Speaking, Working
<1> QED
  BY <1>2, <1>4, <1>5, <1>6, <1>7 DEF CauseInv, Section, Calm, Orderly

\* A child's section is its lines, the last of them at its end.
LEMMA ChildSections ==
    ASSUME NEW r \in Runs, NEW ok \in BOOLEAN, NEW recorded \in BOOLEAN
    PROVE  /\ \A q \in {<<Emit(Event("run_started", r, "none"))>>, PublishCalls(r, ok, recorded)} :
                 /\ PlainSection(q) /\ (q # <<>> => ~Reopens(Head(q)))
                 /\ \A i \in 1..(Len(q) - 1) : ~PlainEmit(q[i])
           /\ PlainSection(<<>>) /\ \A i \in 1..(Len(<<>>) - 1) : ~PlainEmit(<<>>[i])
<1>1. r \in 0..NRuns /\ r \in Nat
  BY WorkerAssumption DEF Runs
<1>2. \A t \in {"run_started", "run_completed", "run_failed"} :
         Emit(Event(t, r, "none")) \in PlainCalls /\ ~Reopens(Emit(Event(t, r, "none")))
  BY <1>1 DEF Event, PlainEvents, Events, EventTypes, PlainCalls, Reopens, Emit
<1>3. SaveRun(r) \in PlainCalls /\ ~Reopens(SaveRun(r)) /\ ~PlainEmit(SaveRun(r))
  BY DEF PlainCalls, Reopens, PlainEmit, SaveRun
<1>4. ASSUME NEW t \in {"run_started", "run_completed", "run_failed"}
      PROVE  LET q == <<Emit(Event(t, r, "none"))>>
             IN /\ PlainSection(q) /\ ~Reopens(Head(q))
                /\ \A i \in 1..(Len(q) - 1) : ~PlainEmit(q[i])
  BY <1>2, OneCall, ShortSections
<1>5. ASSUME NEW t \in {"run_completed", "run_failed"}
      PROVE  LET q == <<SaveRun(r), Emit(Event(t, r, "none"))>>
             IN /\ PlainSection(q) /\ ~Reopens(Head(q))
                /\ \A i \in 1..(Len(q) - 1) : ~PlainEmit(q[i])
  <2> DEFINE e == Emit(Event(t, r, "none"))
             q == <<SaveRun(r), e>>
  <2>1. q \in Seq(PlainCalls) /\ Len(q) = 2 /\ q[1] = SaveRun(r) /\ q[2] = e
    BY <1>2, <1>3
  <2>2. ~Reopens(e)
    BY <1>2
  <2> HIDE DEF e
  <2>3. \A i \in 1..(Len(q) - 1) : i = 1
    BY <2>1, BeforeLast
  <2>4. \A i \in 2..Len(q) : i = 2
    BY <2>1
  <2>5. Head(q) = SaveRun(r)
    BY ShortSections
  <2> QED
    BY <1>3, <2>1, <2>2, <2>3, <2>4, <2>5 DEF PlainSection, e
<1>6. PublishCalls(r, ok, recorded) \in
         {<<Emit(Event(t, r, "none"))>> : t \in {"run_completed", "run_failed"}}
            \cup {<<SaveRun(r), Emit(Event(t, r, "none"))>> : t \in {"run_completed", "run_failed"}}
  <2>1. \A a, b : <<>> \o <<b>> = <<b>> /\ <<a>> \o <<b>> = <<a, b>>
    <3>1. ASSUME NEW a, NEW b PROVE <<>> \o <<b>> = <<b>> /\ <<a>> \o <<b>> = <<a, b>>
      BY Tail(<<a, b>>) = <<b>>, ShortConcats, ShortSections
    <3> QED
      BY <3>1
  <2>2. PublishCalls(r, ok, recorded) =
           (IF recorded THEN <<SaveRun(r)>> ELSE <<>>)
              \o <<Emit(Event(IF ok THEN "run_completed" ELSE "run_failed", r, "none"))>>
    BY DEF PublishCalls
  <2>3. PICK t \in {"run_completed", "run_failed"} : t = IF ok THEN "run_completed" ELSE "run_failed"
    OBVIOUS
  <2>4. PublishCalls(r, ok, recorded) \in
           {<<Emit(Event(t, r, "none"))>>, <<SaveRun(r), Emit(Event(t, r, "none"))>>}
    BY <2>1, <2>2, <2>3
  <2> QED
    BY <2>4
<1>7. PlainSection(<<>>) /\ \A i \in 1..(Len(<<>>) - 1) : ~PlainEmit(<<>>[i])
  BY DEF PlainSection
<1> QED
  BY <1>4, <1>5, <1>6, <1>7

\* A child starts or publishes with a plain section.
LEMMA ChildCauses ==
    ASSUME CauseInv, NEW r \in Runs, ChildStart(r) \/ ChildFinish(r)
    PROVE  CauseInv' /\ Orderly
<1>1. /\ UNCHANGED <<meta, log, runItems, kind, cancelFlag, exec, engine, outcome, reported, clock>>
      /\ exec \in {"waiting", "hardstop"} /\ engine # "start" /\ todo = <<>>
      /\ RowTypes /\ TaskTypes /\ Grounds /\ Speaking
  BY DEF ChildStart, ChildFinish, Scheduled, Running, Idle, CauseInv, StartsUnsettled,
         tableVars, userVars, timeVars
<1>2. RowTypes' /\ good' \in SUBSET Runs
  BY <1>1 DEF RowTypes, TaskTypes, ChildStart, ChildFinish, dataVars
<1>3. /\ Calm /\ tripped' \in BOOLEAN /\ (tripped' => st'.armed # "none")
      /\ tripped => tripped'
  <2>1. CASE ChildStart(r)
    BY <2>1, PollIsCalm DEF ChildStart
  <2>2. CASE ChildFinish(r)
    <3>1. UNCHANGED <<st, tripped>>
      BY <2>2 DEF ChildFinish, timeVars
    <3> QED
      BY <1>1, <3>1, UnchangedIsCalm DEF Grounds, TaskTypes
  <2> QED
    BY <2>1, <2>2
<1>4. /\ todo' = <<>> /\ frame' = frame
      \/ /\ \/ todo' = <<Emit(Event("run_started", r, "none"))>>
            \/ \E ok, recorded \in BOOLEAN : todo' = PublishCalls(r, ok, recorded)
         /\ frame' = [of |-> "child", run |-> r]
  BY <1>1 DEF ChildStart, ChildFinish, Begin, Child
<1>5. /\ PlainSection(todo') /\ (todo' # <<>> => ~Reopens(Head(todo')))
      /\ \A i \in 1..(Len(todo') - 1) : ~PlainEmit(todo'[i])
  BY <1>4, ChildSections
<1>6. TaskTypes'
  <2>1. r \in 0..NRuns
    BY WorkerAssumption DEF Runs
  <2> QED
    BY <1>1, <1>2, <1>3, <1>4, <2>1 DEF TaskTypes
<1>7. Grounds'
  BY <1>1, <1>3, <1>4 DEF Grounds, Calm
<1>8. exec' = "waiting" /\ engine' \in Working => ~st.emitted
  BY <1>1 DEF Speaking
<1> QED
  BY <1>1, <1>2, <1>3, <1>5, <1>6, <1>7, <1>8, SettlesLater

\* The clock and the user.
LEMMA OutsideCauses ==
    ASSUME CauseInv, Tick \/ CancelCheck \/ CancelPut \/ UNCHANGED vars
    PROVE  CauseInv'
<1>1. /\ UNCHANGED <<meta, log, runItems, kind, st, exec, engine, batchFailed, outcome, reported,
                     frame, good, todo, tripped>>
      /\ cancelFlag' \in {cancelFlag, TRUE} /\ clock' \in 0..2 /\ clock' >= clock
  <2>1. clock \in 0..2 /\ MaxClock \in 0..2 /\ clock >= clock
    BY WorkerAssumption DEF CauseInv, TaskTypes
  <2>2. CASE Tick
    BY <2>1, <2>2 DEF Tick, workerVars, tableVars, taskVars, dataVars, userVars
  <2>3. CASE CancelCheck
    BY <2>1, <2>3 DEF CancelCheck, workerVars, tableVars, taskVars, dataVars
  <2>4. CASE CancelPut
    BY <2>1, <2>4 DEF CancelPut, workerVars, tableVars, taskVars, dataVars
  <2>5. CASE UNCHANGED vars
    BY <2>1, <2>5 DEF vars, tableVars, taskVars, dataVars, userVars, timeVars
  <2> QED
    BY <2>2, <2>3, <2>4, <2>5
<1>0. RowTypes /\ StoreTypes /\ TaskTypes /\ Grounds
  BY DEF CauseInv
<1>2. RowTypes' /\ StoreTypes' /\ TaskTypes' /\ Grounds'
  <2>1. RowTypes' /\ StoreTypes'
    BY <1>0, <1>1 DEF RowTypes, StoreTypes
  <2>2. TaskTypes'
    BY <1>0, <1>1 DEF TaskTypes
  <2>3. clock > 0 => clock' > 0
    BY <1>0, <1>1 DEF TaskTypes
  <2>4. cancelFlag => cancelFlag'
    BY <1>1
  <2>5. Grounds'
    BY <1>0, <1>1, <2>3, <2>4, Zenon DEF Grounds
  <2> QED
    BY <2>1, <2>2, <2>5
<1>3. Section(todo)' /\ StartsUnsettled' /\ Speaking'
  <2>1. Section(todo)'
    BY <1>1 DEF CauseInv, Section, PlainSection, SettlingSection, AnnouncingSection,
          FlippingSection, Justified, Translate, Translated, Reopens
  <2> QED
    BY <1>1, <2>1 DEF CauseInv, StartsUnsettled, Speaking, Unsettled, PlainSection, Reopens,
          PlainEmit
<1> QED
  BY <1>2, <1>3 DEF CauseInv

\* Nothing is settled at the start.
LEMMA CauseInit == Init => CauseInv
<1> SUFFICES ASSUME Init PROVE CauseInv
  OBVIOUS
<1>1. RowTypes /\ StoreTypes /\ TaskTypes
  <2>1. kind \in {"determinism", "grade"} /\ 0 \in 0..NRuns
    BY WorkerAssumption DEF Init
  <2>2. RowTypes
    <3>1. meta = [status |-> "running", error |-> "none", runs |-> {}, seqCount |-> 0]
          /\ log = <<>>
      BY DEF Init
    <3>4. cancelFlag \in BOOLEAN
      BY Zenon DEF Init
    <3>2. runItems \in SUBSET Runs
      BY DEF Init
    <3>3. meta \in [status : {"running"} \cup TerminalStatus, error : Errors,
                    runs : SUBSET Runs, seqCount : Nat]
      BY <3>1, Arguments
    <3> QED
      BY <2>1, <3>1, <3>2, <3>3, <3>4 DEF RowTypes
  <2>3. NoPending \in [status : {"none"} \cup TerminalStatus, error : Errors, ids : IdArguments]
    BY Arguments DEF NoPending
  <2>4. StoreTypes
    <3> HIDE DEF NoPending
    <3> QED
      BY <2>3 DEF Init, StoreTypes
  <2>5. TaskTypes
    <3>1. /\ outcome = [status |-> "none", error |-> "none"]
          /\ frame = [of |-> "execute", run |-> 0]
          /\ exec = "early" /\ engine = "start" /\ reported = "none" /\ good = {}
          /\ clock = 0
      BY DEF Init, NoOutcome
    <3>3. tripped \in BOOLEAN
      BY Zenon DEF Init
    <3>2. outcome \in [status : {"none"} \cup TerminalStatus, error : Errors]
      BY <3>1, Arguments
    <3> QED
      BY <2>1, <3>1, <3>2, <3>3 DEF TaskTypes
  <2> QED
    BY <2>2, <2>4, <2>5
<1>2. PlainSection(todo) /\ StartsUnsettled /\ Speaking
  BY DEF Init, PlainSection, StartsUnsettled, Speaking, Unsettled
<1>3. Grounds
  BY DEF Init, Grounds, NoPending, NoOutcome, Reasons
<1> QED
  BY <1>1, <1>2, <1>3 DEF CauseInv, Section

\* Every step keeps the causes.
LEMMA CauseStep == CauseInv /\ [Next]_vars => CauseInv'
  BY SaveCauses, EmitCauses, FinalizeCauses, FlipCauses, SettleCauses, RunCauses,
     ExecStartCauses, HardStopCauses, AfterHardStopCauses, AfterEngineCauses,
     AfterEngineRaisedCauses, EndCauses, EngineStartCauses, EngineUnavailableCauses,
     BatchRaisesCauses, BatchDoneCauses, BeforeGradingCauses, GradedCauses, ChildCauses,
     OutsideCauses
     DEF Next, WorkerStep, StoreCall, ExecStep, EngineStep

\* The causes hold throughout.
LEMMA CauseHolds == Spec => []CauseInv
  BY CauseInit, CauseStep, PTL DEF Spec

\* A deadline is not a cancellation: whatever calls fail, only a user's request
\* makes the row cancelled, and a deadline's reason stands only on an error.
THEOREM OnlyRequestsCancel == Spec => []CancelledOnlyOnRequest
<1>1. CauseInv => CancelledOnlyOnRequest
  BY DEF CauseInv, Grounds, Reasons, CancelledOnlyOnRequest
<1> QED
  BY <1>1, CauseHolds, PTL

-----------------------------------------------------------------------------
(* Announced runs are stored *)

Announces(c) == c.op = "emit" /\ c.event.type = "run_completed"
Stored(r) == r \in runItems \cup st.unread
StoredNext(r) == r \in runItems' \cup st'.unread

\* No call of the section announces a run that is not stored yet ...
Stocked(q) == \A i \in 1..Len(q) : Announces(q[i]) => Stored(q[i].event.run)

\* ... but for one that the call before it stores.
Backed(q) ==
    \A i \in 1..Len(q) : Announces(q[i]) =>
        Stored(q[i].event.run) \/ (i = 2 /\ q[1] = SaveRun(q[i].event.run))

StoredInv ==
    /\ kind = "grade" => runItems = Runs
    /\ AnnouncedRunIsStored
    /\ Backed(todo)

\* A section that announces no run at all.
Quiet(q) == \A i \in 1..Len(q) : ~Announces(q[i])

\* Every section is a sequence.
LEMMA SectionIsSeq ==
    ASSUME Section(todo)
    PROVE  \E S : todo \in Seq(S)
<1>1. CASE PlainSection(todo)
  BY <1>1 DEF PlainSection
<1>2. ASSUME NEW a, NEW b, NEW c, todo \in {<<a>>, <<a, b>>, <<a, b, c>>}
      PROVE  \E S : todo \in Seq(S)
  <2>1. <<a>> \in Seq({a, b, c}) /\ <<a, b>> \in Seq({a, b, c})
    OBVIOUS
  <2>2. <<a, b, c>> \in Seq({a, b, c})
    OBVIOUS
  <2> QED
    BY <1>2, <2>1, <2>2
<1>3. CASE SettlingSection(todo)
  <2>1. PICK s \in TerminalStatus, e \in Errors, ids \in IdArguments :
           \/ todo = <<Save(s, e, ids), Emit(EvalComplete(s))>>
           \/ todo = <<Save(s, e, ids), Finalize>>
           \/ todo = <<Settle(s, e, ids)>>
           \/ todo = <<Emit(GradingCompleted), Save(s, e, ids), Emit(EvalComplete(s))>>
    BY <1>3 DEF SettlingSection
  <2>2. \E a, b, c : todo \in {<<a>>, <<a, b>>, <<a, b, c>>}
    BY <2>1, Zenon
  <2> QED
    BY <1>2, <2>2
<1>4. CASE AnnouncingSection(todo)
  <2>1. \E a, b, c : todo \in {<<a>>, <<a, b>>, <<a, b, c>>}
    BY <1>4, Zenon DEF AnnouncingSection
  <2> QED
    BY <1>2, <2>1
<1>5. CASE todo = <<Finalize>> \/ FlippingSection(todo)
  <2>1. \E a, b, c : todo \in {<<a>>, <<a, b>>, <<a, b, c>>}
    BY <1>5, Zenon DEF FlippingSection
  <2> QED
    BY <1>2, <2>1
<1> QED
  BY <1>1, <1>3, <1>4, <1>5 DEF Section

\* A call that ends well leaves the rest of its section, after calls that
\* announce nothing.
LEMMA StoredOnward ==
    ASSUME Section(todo), todo # <<>>, Backed(todo),
           NEW M, NEW more \in Seq(M), Quiet(more), todo' = more \o Tail(todo),
           runItems \subseteq runItems', st.unread \subseteq st'.unread,
           Head(todo).op = "run" => StoredNext(Head(todo).run)
    PROVE  Backed(todo)'
<1>1. PICK S : todo \in Seq(S)
  BY SectionIsSeq
<1>2. /\ Len(todo) \in Nat /\ Len(todo) >= 1 /\ Head(todo) = todo[1]
      /\ Tail(todo) \in Seq(S) /\ Len(Tail(todo)) = Len(todo) - 1
      /\ \A i \in 1..Len(Tail(todo)) : Tail(todo)[i] = todo[i + 1]
  BY <1>1
<1>3. ASSUME NEW i \in 1..Len(Tail(todo)), Announces(Tail(todo)[i])
      PROVE  StoredNext(Tail(todo)[i].event.run)
  <2>1. i + 1 \in 1..Len(todo) /\ Tail(todo)[i] = todo[i + 1]
    BY <1>2
  <2>2. CASE Stored(todo[i + 1].event.run)
    BY <2>1, <2>2 DEF Stored, StoredNext
  <2>3. CASE todo[1] = SaveRun(todo[i + 1].event.run)
    BY <1>2, <2>1, <2>3 DEF SaveRun, StoredNext
  <2> QED
    BY <1>3, <2>1, <2>2, <2>3 DEF Backed
<1>4. /\ Len(more) \in Nat /\ Len(todo') = Len(more) + Len(Tail(todo))
      /\ \A i \in 1..Len(more) + Len(Tail(todo)) :
            todo'[i] = IF i <= Len(more) THEN more[i] ELSE Tail(todo)[i - Len(more)]
  <2>1. more \in Seq(M \cup S) /\ Tail(todo) \in Seq(M \cup S)
    BY <1>2
  <2> QED
    BY <2>1, ConcatProperties
<1>5. ASSUME NEW i \in 1..Len(todo'), Announces(todo'[i])
      PROVE  StoredNext(todo'[i].event.run)
  <2>1. CASE i <= Len(more)
    BY <1>4, <1>5, <2>1 DEF Quiet
  <2>2. CASE ~(i <= Len(more))
    <3>1. i - Len(more) \in 1..Len(Tail(todo))
      BY <1>2, <1>4, <2>2
    <3> QED
      BY <1>3, <1>4, <1>5, <2>2, <3>1
  <2> QED
    BY <2>1, <2>2
<1> QED
  BY <1>5 DEF Backed, Stored, StoredNext, Announces

\* The calls that announce no run, alone or together.
LEMMA QuietCalls ==
    /\ \A s, e, ids : ~Announces(Save(s, e, ids)) /\ ~Announces(Settle(s, e, ids))
    /\ \A s : ~Announces(Emit(EvalComplete(s)))
    /\ ~Announces(Finalize) /\ ~Announces(Flip) /\ ~Announces(Emit(GradingCompleted))
  BY DEF Announces, Save, Settle, Emit, EvalComplete, Event, Finalize, Flip, GradingCompleted

\* Together they announce none either.
LEMMA ShortQuiet ==
    ASSUME NEW a, NEW b, NEW c, ~Announces(a), ~Announces(b), ~Announces(c)
    PROVE  /\ Quiet(<<>>) /\ Quiet(<<a>>) /\ Quiet(<<a, b>>) /\ Quiet(<<a, b, c>>)
           /\ <<>> \in Seq({a, b, c}) /\ <<a>> \in Seq({a, b, c}) /\ <<a, b>> \in Seq({a, b, c})
<1>1. Quiet(<<>>) /\ Quiet(<<a>>)
  BY DEF Quiet
<1>2. Quiet(<<a, b>>)
  <2>1. \A i \in 1..2 : i = 1 \/ i = 2
    OBVIOUS
  <2>2. Len(<<a, b>>) = 2 /\ <<a, b>>[1] = a /\ <<a, b>>[2] = b
    OBVIOUS
  <2> QED
    BY <2>1, <2>2 DEF Quiet
<1>3. Quiet(<<a, b, c>>)
  <2>1. \A i \in 1..3 : i = 1 \/ i = 2 \/ i = 3
    OBVIOUS
  <2>2. Len(<<a, b, c>>) = 3 /\ <<a, b, c>>[1] = a /\ <<a, b, c>>[2] = b /\ <<a, b, c>>[3] = c
    OBVIOUS
  <2> QED
    BY <2>1, <2>2 DEF Quiet
<1>4. <<>> \in Seq({a, b, c}) /\ <<a>> \in Seq({a, b, c}) /\ <<a, b>> \in Seq({a, b, c})
  OBVIOUS
<1> QED
  BY <1>1, <1>2, <1>3, <1>4

\* The sections that settle a row, and those an exception leaves.
LEMMA SettlingAnnouncesNone ==
    ASSUME NEW q, SettlingSection(q) \/ Failing(q)
    PROVE  Quiet(q)
<1>1. CASE SettlingSection(q)
  <2>1. PICK s \in TerminalStatus, e \in Errors, ids \in IdArguments :
           \/ q = <<Save(s, e, ids), Emit(EvalComplete(s))>>
           \/ q = <<Save(s, e, ids), Finalize>>
           \/ q = <<Settle(s, e, ids)>>
           \/ q = <<Emit(GradingCompleted), Save(s, e, ids), Emit(EvalComplete(s))>>
    BY <1>1 DEF SettlingSection
  <2> QED
    BY <2>1, QuietCalls, ShortQuiet
<1>2. CASE Failing(q)
  BY <1>2, QuietCalls, ShortQuiet DEF Failing
<1> QED
  BY <1>1, <1>2

\* A line that is put announces at most its own run.
LEMMA AnnouncedOnward ==
    ASSUME log \in Seq(Events), NEW n \in Nat, NEW event \in Events,
           log' = PutEvent(n, event), AnnouncedRunIsStored,
           event.type = "run_completed" => Stored(event.run),
           runItems \subseteq runItems', st.unread \subseteq st'.unread
    PROVE  AnnouncedRunIsStored'
<1>1. ASSUME NEW i \in 1..Len(log'), log'[i].type = "run_completed"
      PROVE  StoredNext(log'[i].run)
  <2>1. log'[i] = event \/ (i \in 1..Len(log) /\ log'[i] = log[i])
    <3>1. CASE n < Len(log)
      BY <3>1, n + 1 \in 1..Len(log) DEF PutEvent
    <3>2. CASE ~(n < Len(log))
      BY <3>2 DEF PutEvent
    <3> QED
      BY <3>1, <3>2
  <2>2. CASE log'[i] = event
    BY <1>1, <2>2 DEF Stored, StoredNext
  <2>3. CASE i \in 1..Len(log) /\ log'[i] = log[i]
    <3>1. log[i].run \in Announced("run_completed")
      BY <1>1, <2>3 DEF Announced, Positions
    <3> QED
      BY <2>3, <3>1 DEF AnnouncedRunIsStored, StoredNext
  <2> QED
    BY <2>1, <2>2, <2>3
<1> QED
  BY <1>1 DEF AnnouncedRunIsStored, Announced, Positions, StoredNext

-----------------------------------------------------------------------------
(* Announced runs are stored: the store's calls *)

\* A call that raises, whatever the table did of it.
LEMMA RaiseStores ==
    ASSUME CauseInv, todo # <<>>, Raise, AnnouncedRunIsStored',
           kind = "grade" => runItems' = Runs, UNCHANGED kind
    PROVE  StoredInv'
<1>1. Quiet(todo')
  BY RaiseEffect, SettlingAnnouncesNone
<1> QED
  BY <1>1 DEF StoredInv, Backed, Quiet

\* The log and the stored runs stand while neither is touched.
LEMMA LogStands ==
    ASSUME AnnouncedRunIsStored, UNCHANGED log,
           runItems \subseteq runItems', st.unread \subseteq st'.unread
    PROVE  AnnouncedRunIsStored'
  BY DEF AnnouncedRunIsStored, Announced, Positions

\* Every store call but emit.
LEMMA SaveStores ==
    ASSUME CauseInv, StoredInv, SaveEvaluation
    PROVE  StoredInv'
<1>1. /\ Section(todo) /\ todo # <<>> /\ Head(todo).op = "save" /\ StoreTypes
      /\ UNCHANGED <<log, runItems, kind>> /\ st'.unread = st.unread
  BY DEF SaveEvaluation, Calling, CauseInv, userVars, StoreTypes
<1>2. AnnouncedRunIsStored'
  BY <1>1, LogStands DEF StoredInv
<1>3. CASE Raise
  BY <1>1, <1>2, <1>3, RaiseStores DEF StoredInv
<1>4. CASE Proceed(<<>>)
  <2>1. todo' = <<>> \o Tail(todo) /\ <<>> \in Seq({1}) /\ Quiet(<<>>)
    BY <1>4 DEF Proceed, Quiet
  <2>2. Backed(todo)'
    BY <1>1, <2>1, StoredOnward DEF StoredInv
  <2> QED
    BY <1>1, <1>2, <2>2 DEF StoredInv
<1> QED
  BY <1>3, <1>4 DEF SaveEvaluation

\* A line announces a run only when the run is stored.
LEMMA EmitStores ==
    ASSUME CauseInv, StoredInv, EmitEvent
    PROVE  StoredInv'
<1> DEFINE event == LineOf(Head(todo).event)
           emitted == st.emitted \/ event.type = "eval_complete"
           more == IF emitted /\ st.pending # NoPending THEN <<Finalize>> ELSE <<>>
<1>1. /\ Section(todo) /\ todo # <<>> /\ Calling("emit") /\ RowTypes /\ StoreTypes
      /\ UNCHANGED <<runItems, kind>>
  BY DEF EmitEvent, Calling, CauseInv, userVars
<1>2. event \in Events
  BY <1>1, LinesAreEvents
<1>3. event.type = "run_completed" => Stored(event.run)
  <2>1. event.type = "run_completed" => event = Head(todo).event
    <3>1. Head(todo).event.type = "eval_complete" => event.type = "eval_complete"
      <4>1. Head(todo).event.type = "eval_complete" =>
               \E s : Head(todo).event = EvalComplete(s)
        BY <1>1, AtEmit DEF PlainEvents, GradingCompleted, Event
      <4> QED
        BY <4>1 DEF LineOf, EvalComplete, Event
    <3> QED
      BY <3>1 DEF LineOf
  <2>2. PICK S : todo \in Seq(S)
    BY <1>1, SectionIsSeq
  <2>3. 1 \in 1..Len(todo) /\ todo[1] = Head(todo)
    BY <1>1, <2>2
  <2>4. event.type = "run_completed" => Announces(todo[1])
    BY <1>1, <2>1, <2>3 DEF Announces, Calling
  <2> HIDE DEF event
  <2> QED
    BY <2>1, <2>3, <2>4 DEF StoredInv, Backed
<1>4. /\ st'.unread = st.unread
      /\ log' \in {log, PutEvent(st.seq, event)}
      /\ Raise \/ Proceed(more)
  BY <1>1 DEF EmitEvent, LineOf, StoreTypes
<1>5. AnnouncedRunIsStored'
  <2>1. CASE UNCHANGED log
    BY <1>1, <1>4, <2>1, LogStands DEF StoredInv
  <2>2. CASE log' = PutEvent(st.seq, event)
    <3>1. log \in Seq(Events) /\ st.seq \in Nat
      BY <1>1 DEF RowTypes, StoreTypes
    <3> HIDE DEF event
    <3> QED
      BY <1>1, <1>2, <1>3, <1>4, <2>2, <3>1, AnnouncedOnward DEF StoredInv
  <2> QED
    BY <1>4, <2>1, <2>2
<1>6. CASE Raise
  BY <1>1, <1>5, <1>6, RaiseStores DEF StoredInv
<1>7. CASE Proceed(more)
  <2>1. todo' = more \o Tail(todo) /\ more \in Seq({Finalize}) /\ Quiet(more)
    <3>1. <<>> \in Seq({Finalize}) /\ <<Finalize>> \in Seq({Finalize})
      OBVIOUS
    <3>2. Quiet(<<>>) /\ Quiet(<<Finalize>>)
      BY QuietCalls, ShortQuiet
    <3>3. more \in {<<>>, <<Finalize>>} /\ todo' = more \o Tail(todo)
      BY <1>7 DEF Proceed
    <3> HIDE DEF more
    <3> QED
      BY <3>1, <3>2, <3>3
  <2>2. Head(todo).op # "run"
    BY <1>1 DEF Calling
  <2> HIDE DEF more
  <2>3. Backed(todo)'
    BY <1>1, <1>4, <2>1, <2>2, StoredOnward DEF StoredInv
  <2> QED
    BY <1>1, <1>5, <2>3 DEF StoredInv
<1> QED
  BY <1>4, <1>6, <1>7

\* finalize, the flip and a settlement announce no run.
LEMMA SettlementStores ==
    ASSUME CauseInv, StoredInv, FinalizeEvaluation \/ FlipStatus \/ SettleEvaluation
    PROVE  StoredInv'
<1>1. /\ Section(todo) /\ todo # <<>> /\ Head(todo).op # "run" /\ StoreTypes
      /\ UNCHANGED <<log, runItems, kind>> /\ st'.unread = st.unread
  BY DEF FinalizeEvaluation, FlipStatus, SettleEvaluation, Calling, CauseInv, tableVars,
         userVars, StoreTypes
<1>2. AnnouncedRunIsStored'
  BY <1>1, LogStands DEF StoredInv
<1>3. CASE Raise
  BY <1>1, <1>2, <1>3, RaiseStores DEF StoredInv
<1>4. \/ Raise
      \/ \E s, e, ids : \E more \in {<<>>, <<Finalize>>, <<Flip>>, <<Emit(EvalComplete(s)), Flip>>,
                                     <<Save(s, e, ids), Finalize>>} :
            Proceed(more)
  <2>1. CASE FinalizeEvaluation
    BY <2>1 DEF FinalizeEvaluation, FinalizeCalls
  <2>2. CASE FlipStatus
    BY <2>2 DEF FlipStatus
  <2>3. CASE SettleEvaluation
    BY <2>3 DEF SettleEvaluation, Complete
  <2> QED
    BY <2>1, <2>2, <2>3
<1>5. ASSUME NEW s, NEW e, NEW ids,
             NEW more \in {<<>>, <<Finalize>>, <<Flip>>, <<Emit(EvalComplete(s)), Flip>>,
                           <<Save(s, e, ids), Finalize>>},
             Proceed(more)
      PROVE  StoredInv'
  <2>1. todo' = more \o Tail(todo) /\ Quiet(more)
    BY <1>5, QuietCalls, ShortQuiet DEF Proceed
  <2>2. \E M : more \in Seq(M)
    <3>1. PICK a, b : more \in {<<>>, <<a>>, <<a, b>>}
      BY Zenon
    <3>2. <<>> \in Seq({a, b}) /\ <<a>> \in Seq({a, b}) /\ <<a, b>> \in Seq({a, b})
      OBVIOUS
    <3>3. more \in Seq({a, b})
      BY <3>1, <3>2
    <3> QED
      BY <3>3
  <2>3. Backed(todo)'
    BY <1>1, <2>1, <2>2, StoredOnward DEF StoredInv
  <2> QED
    BY <1>1, <1>2, <2>3 DEF StoredInv
<1> QED
  BY <1>3, <1>4, <1>5

\* A run is stored, or is one whose row could not be read.
LEMMA RunStores ==
    ASSUME CauseInv, StoredInv, SaveRunItem
    PROVE  StoredInv'
<1> DEFINE r == Head(todo).run
<1>1. /\ Section(todo) /\ todo # <<>> /\ Calling("run") /\ StoreTypes /\ RowTypes
      /\ UNCHANGED <<log, kind>>
  BY DEF SaveRunItem, Calling, CauseInv, userVars
<1>2. r \in Runs
  BY <1>1, AtRun
<1>3. /\ runItems' \in {runItems, runItems \cup {r}} /\ st.unread \subseteq st'.unread
      /\ Raise \/ (Proceed(<<>>) /\ StoredNext(r))
  BY <1>1 DEF SaveRunItem, PutRun, LookupFails, StoreTypes, StoredNext
<1>4. AnnouncedRunIsStored' /\ (kind = "grade" => runItems' = Runs)
  BY <1>1, <1>2, <1>3, LogStands DEF StoredInv
<1>5. CASE Raise
  BY <1>1, <1>4, <1>5, RaiseStores
<1>6. CASE Proceed(<<>>) /\ StoredNext(r)
  <2>1. todo' = <<>> \o Tail(todo) /\ <<>> \in Seq({1}) /\ Quiet(<<>>)
    BY <1>6 DEF Proceed, Quiet
  <2>2. Backed(todo)'
    BY <1>1, <1>3, <1>6, <2>1, StoredOnward DEF StoredInv
  <2> QED
    BY <1>1, <1>4, <2>2 DEF StoredInv
<1> QED
  BY <1>3, <1>5, <1>6

-----------------------------------------------------------------------------
(* Announced runs are stored: the scheduler *)

\* A coroutine that gets the processor with a section that announces only what
\* is stored.
LEMMA BeginStores ==
    ASSUME StoredInv, UNCHANGED <<log, runItems, kind>>, st'.unread = st.unread,
           \A i \in 1..Len(todo') : Announces(todo'[i]) =>
               Stored(todo'[i].event.run) \/ (i = 2 /\ todo'[1] = SaveRun(todo'[i].event.run))
    PROVE  StoredInv'
<1>1. AnnouncedRunIsStored'
  BY LogStands DEF StoredInv
<1>2. Backed(todo)'
  BY DEF Backed, Stored, Announces
<1> QED
  BY <1>1, <1>2 DEF StoredInv

\* The stored runs of a "grade" evaluation are announced as they are loaded.
LEMMA LoadedAreStored ==
    ASSUME NEW ok \in SUBSET Runs, runItems = Runs,
           NEW opening, opening = <<Save("running", "none", NotGiven),
                                    Emit(Event("eval_start", 0, "none"))>>
    PROVE  /\ Quiet(opening) /\ Stocked(opening \o LoadedCalls(ok))
<1> DEFINE loaded == LoadedCalls(ok)
<1>1. ~Announces(Emit(Event("eval_start", 0, "none")))
  BY DEF Announces, Emit, Event
<1>2. Quiet(opening) /\ Len(opening) = 2 /\ opening \in Seq({opening[1], opening[2]})
  <2>1. Quiet(opening)
    BY <1>1, QuietCalls, ShortQuiet
  <2>2. Len(opening) = 2 /\ opening \in Seq({opening[1], opening[2]})
    OBVIOUS
  <2> QED
    BY <2>1, <2>2
<1>3. loaded \in [1..NRuns -> {loaded[r] : r \in Runs}] /\ NRuns \in Nat
  BY WorkerAssumption DEF LoadedCalls, Runs
<1>4. \A i \in 1..NRuns : Stored(loaded[i].event.run)
  BY DEF LoadedCalls, Runs, Stored, Emit, Event
<1> HIDE DEF loaded
<1>5. loaded \in Seq({loaded[r] : r \in Runs}) /\ Len(loaded) = NRuns
  BY <1>3
<1>6. /\ Len(opening \o loaded) = 2 + NRuns
      /\ \A i \in 1..2 + NRuns :
            (opening \o loaded)[i] = IF i <= 2 THEN opening[i] ELSE loaded[i - 2]
  <2> DEFINE S == {loaded[r] : r \in Runs} \cup {opening[1], opening[2]}
  <2>1. opening \in Seq(S) /\ loaded \in Seq(S)
    BY <1>2, <1>5
  <2>2. /\ Len(opening \o loaded) = Len(opening) + Len(loaded)
        /\ \A i \in 1..Len(opening) + Len(loaded) :
              (opening \o loaded)[i] = IF i <= Len(opening) THEN opening[i]
                                       ELSE loaded[i - Len(opening)]
    BY <2>1, ConcatProperties
  <2> QED
    BY <1>2, <1>5, <2>2
<1>7. ASSUME NEW i \in 1..2 + NRuns, Announces((opening \o loaded)[i])
      PROVE  Stored((opening \o loaded)[i].event.run)
  <2>1. CASE i <= 2
    BY <1>2, <1>6, <1>7, <2>1 DEF Quiet
  <2>2. CASE ~(i <= 2)
    BY <1>3, <1>4, <1>6, <2>2, i - 2 \in 1..NRuns
  <2> QED
    BY <2>1, <2>2
<1> QED
  BY <1>2, <1>6, <1>7 DEF Stocked, loaded

\* The engine's opening announces the stored runs of a grading.
LEMMA EngineStartStores ==
    ASSUME CauseInv, StoredInv, EngineStart
    PROVE  StoredInv'
<1> DEFINE opening == <<Save("running", "none", NotGiven),
                        Emit(Event("eval_start", 0, "none"))>>
<1>1. UNCHANGED <<log, runItems, kind, st>>
  BY DEF EngineStart, tableVars, userVars
<1>2. CASE todo' = opening
  <2>1. ~Announces(Emit(Event("eval_start", 0, "none")))
    BY DEF Announces, Emit, Event
  <2>2. Quiet(opening)
    BY <2>1, QuietCalls, ShortQuiet
  <2> QED
    BY <1>1, <1>2, <2>2, BeginStores DEF Quiet
<1>3. CASE kind = "grade" /\ todo' = opening \o LoadedCalls(good') /\ good' \in Loadable
  <2>1. PICK ok \in SUBSET Runs : todo' = opening \o LoadedCalls(ok)
    BY <1>3 DEF Loadable
  <2>2. Stocked(todo') /\ runItems = Runs
    BY <1>3, <2>1, LoadedAreStored DEF StoredInv
  <2> QED
    BY <1>1, <2>2, BeginStores DEF Stocked
<1> QED
  BY <1>2, <1>3 DEF EngineStart, Begin

\* A child stores its run before it announces it.
LEMMA ChildStores ==
    ASSUME CauseInv, StoredInv, NEW r \in Runs, ChildStart(r) \/ ChildFinish(r)
    PROVE  StoredInv'
<1>1. UNCHANGED <<log, runItems, kind>> /\ st'.unread = st.unread
  <2>1. Calm
    BY ChildCauses DEF Orderly
  <2> QED
    BY <2>1 DEF ChildStart, ChildFinish, tableVars, userVars, Calm
<1>2. \/ todo' = <<>>
      \/ todo' = <<Emit(Event("run_started", r, "none"))>>
      \/ \E ok, recorded \in BOOLEAN : (ok => recorded) /\ todo' = PublishCalls(r, ok, recorded)
  BY DEF ChildStart, ChildFinish, Begin, Scheduled, Idle
<1>3. CASE todo' = <<>>
  BY <1>1, <1>3, BeginStores
<1>4. ASSUME NEW t \in {"run_started", "run_failed"}, NEW q,
             q \in {<<Emit(Event(t, r, "none"))>>, <<SaveRun(r), Emit(Event(t, r, "none"))>>}
      PROVE  Quiet(q)
  <2>1. ~Announces(Emit(Event(t, r, "none"))) /\ ~Announces(SaveRun(r))
    BY DEF Announces, Emit, Event, SaveRun
  <2> QED
    BY <1>4, <2>1, ShortQuiet
<1>5. CASE todo' = <<Emit(Event("run_started", r, "none"))>>
  BY <1>1, <1>4, <1>5, BeginStores DEF Quiet
<1>6. ASSUME NEW ok \in BOOLEAN, NEW recorded \in BOOLEAN, ok => recorded,
             todo' = PublishCalls(r, ok, recorded)
      PROVE  StoredInv'
  <2> DEFINE c == Emit(Event("run_completed", r, "none"))
             f == Emit(Event("run_failed", r, "none"))
  <2>1. todo' = <<f>> \/ todo' = <<SaveRun(r), f>> \/ todo' = <<SaveRun(r), c>>
    <3>1. \A a, b : <<>> \o <<b>> = <<b>> /\ <<a>> \o <<b>> = <<a, b>>
      <4>1. ASSUME NEW a, NEW b PROVE <<>> \o <<b>> = <<b>> /\ <<a>> \o <<b>> = <<a, b>>
        BY Tail(<<a, b>>) = <<b>>, ShortConcats, ShortSections
      <4> QED
        BY <4>1
    <3> QED
      BY <1>6, <3>1 DEF PublishCalls
  <2>2. CASE todo' \in {<<f>>, <<SaveRun(r), f>>}
    BY <1>1, <1>4, <2>2, BeginStores DEF Quiet
  <2>3. CASE todo' = <<SaveRun(r), c>>
    <3>1. Len(todo') = 2 /\ todo'[1] = SaveRun(r) /\ todo'[2] = c
      BY <2>3
    <3>2. \A i \in 1..2 : i = 1 \/ i = 2
      OBVIOUS
    <3>3. ~Announces(SaveRun(r)) /\ c.event.run = r
      BY DEF Announces, SaveRun, Emit, Event
    <3> HIDE DEF c
    <3>4. \A i \in 1..Len(todo') : Announces(todo'[i]) =>
             i = 2 /\ todo'[1] = SaveRun(todo'[i].event.run)
      BY <3>1, <3>2, <3>3
    <3> QED
      BY <1>1, <3>4, BeginStores
  <2> QED
    BY <2>1, <2>2, <2>3
<1> QED
  BY <1>2, <1>3, <1>5, <1>6

\* Every other step of the scheduler starts a section that settles, or one
\* that announces no run.
LEMMA SchedulerStores ==
    ASSUME CauseInv, StoredInv, ExecStep \/ EngineStep \/ Kill
    PROVE  StoredInv'
<1>1. CASE EngineStart
  BY <1>1, EngineStartStores
<1>2. CASE \E r \in Runs : ChildStart(r) \/ ChildFinish(r)
  BY <1>2, ChildStores
<1>3. CASE ExecStep \/ Kill \/ EngineUnavailable \/ BatchRaises \/ BatchDone
              \/ BeforeGrading \/ Graded
  <2>1. UNCHANGED <<log, runItems, kind>> /\ Calm
    <3>1. Calm
      BY <1>3, ExecStartCauses, HardStopCauses, AfterHardStopCauses, AfterEngineCauses,
         AfterEngineRaisedCauses, EndCauses, EngineUnavailableCauses, BatchRaisesCauses,
         BatchDoneCauses, BeforeGradingCauses, GradedCauses DEF ExecStep, Orderly
    <3> QED
      BY <1>3, <3>1 DEF ExecStep, ExecStart, HardStop, AfterHardStop, AfterEngine,
         AfterEngineRaised, ExecReturn, Kill, EngineUnavailable, BatchRaises, BatchDone,
         BeforeGrading, Graded, tableVars, userVars
  <2>2. \/ todo' = <<>>
        \/ \E ids : todo' = <<Save("none", "none", ids)>>
        \/ todo' = <<Emit(Event("grading_started", 0, "none"))>>
        \/ \E s, e, ids :
              todo' \in {<<Save(s, e, ids), Emit(EvalComplete(s))>>, <<Save(s, e, ids), Finalize>>,
                         <<Settle(s, e, ids)>>,
                         <<Emit(GradingCompleted), Save(s, e, ids), Emit(EvalComplete(s))>>}
    <3>1. CASE ExecStart \/ HardStop
      BY <3>1 DEF ExecStart, HardStop, Begin, Idle, Complete, CauseInv, StartsUnsettled
    <3>2. CASE AfterHardStop \/ AfterEngine \/ AfterEngineRaised
      BY <3>2 DEF AfterHardStop, AfterEngine, AfterEngineRaised, Begin
    <3>3. CASE ExecReturn \/ Kill \/ EngineUnavailable \/ BatchDone
      BY <3>3 DEF ExecReturn, Kill, EngineUnavailable, BatchDone, Begin, Idle
    <3>4. CASE BatchRaises \/ BeforeGrading
      BY <3>4 DEF BatchRaises, EngineExcept, BeforeGrading, Begin
    <3>5. CASE Graded
      BY <3>5 DEF Graded, Begin, GradingCompleted
    <3> QED
      BY <1>3, <3>1, <3>2, <3>3, <3>4, <3>5 DEF ExecStep
  <2>3. ~Announces(Emit(Event("grading_started", 0, "none")))
    BY DEF Announces, Emit, Event
  <2>4. Quiet(todo')
    BY <2>2, <2>3, QuietCalls, ShortQuiet
  <2> QED
    BY <2>1, <2>4, BeginStores DEF Quiet, Calm
<1> QED
  BY <1>1, <1>2, <1>3 DEF EngineStep

\* The invariant holds throughout.
LEMMA StoredHolds == Spec => []StoredInv
<1>1. Init => StoredInv
  BY DEF Init, StoredInv, AnnouncedRunIsStored, Announced, Positions, Backed
<1>2. CauseInv /\ StoredInv /\ [Next]_vars => StoredInv'
  <2> SUFFICES ASSUME CauseInv, StoredInv, [Next]_vars PROVE StoredInv'
    OBVIOUS
  <2>1. CASE StoreCall
    BY <2>1, SaveStores, EmitStores, SettlementStores, RunStores DEF StoreCall
  <2>2. CASE ExecStep \/ EngineStep \/ Kill
    BY <2>2, SchedulerStores
  <2>3. CASE Tick \/ CancelCheck \/ CancelPut \/ UNCHANGED vars
    <3>1. UNCHANGED <<log, runItems, kind, st, todo>>
      BY <2>3 DEF Tick, CancelCheck, CancelPut, vars, workerVars, tableVars, userVars
    <3> QED
      BY <3>1, BeginStores DEF StoredInv, Backed
  <2> QED
    BY <2>1, <2>2, <2>3 DEF Next, WorkerStep
<1> QED
  BY <1>1, <1>2, CauseHolds, PTL DEF Spec

\* Whoever reacts to run_completed finds the run, whatever calls fail and
\* wherever the invocation dies, unless the worker could not read its own row.
THEOREM AnnouncedRunsAreStored == Spec => []AnnouncedRunIsStored
  BY StoredHolds, PTL DEF StoredInv

-----------------------------------------------------------------------------
(* The log is closed before the row *)

\* What a failed flip may not do is land all the same.
CleanFlip == ~Ambiguous \/ "flip" \notin Faulty

\* The log ends with the eval_complete of the status that is buffered.
ClosedLog ==
    /\ log # <<>> /\ Len(log) = st.seq
    /\ log[Len(log)].type = "eval_complete"
    /\ log[Len(log)].status = st.pending.status

Flips == {<<Flip>>, <<Finalize, Flip>>}

\* A put whose answer was lost leaves a line that the next put replaces.  Once
\* eval_complete is durable, finalize and the flip come before anything else.
LogInv ==
    /\ Len(log) \in {st.seq, st.seq + 1}
    /\ st.terminal => TerminalRowIsClosed /\ meta.status # "running"
    /\ ~st.terminal => meta.status = "running"
    /\ st.emitted /\ ~st.finalizing /\ ~st.terminal =>
          exec = "killed" \/ (todo = <<Finalize>> /\ ClosedLog /\ st.pending.status # "none")
    /\ todo \in Flips => ClosedLog
    /\ exec = "killed" => todo = <<>>

\* The sections that are not inside finalize.
LEMMA NoFlipYet ==
    ASSUME NEW q, PlainSection(q) \/ SettlingSection(q) \/ Failing(q)
    PROVE  q \notin Flips
<1>1. Head(<<Flip>>).op = "flip" /\ Head(<<Finalize, Flip>>).op = "finalize"
  BY ShortSections DEF Flip, Finalize
<1>2. CASE PlainSection(q)
  <2>1. q # <<>> => Head(q).op \in {"save", "emit", "run"}
    BY <1>2, PlainTail, PlainOps
  <2> QED
    BY <1>1, <2>1, ShortSections DEF Flips
<1>3. CASE SettlingSection(q)
  <2>1. Head(q).op \in {"save", "settle", "emit"}
    BY <1>3, ShortSections DEF SettlingSection, Save, Settle, Emit
  <2> QED
    BY <1>1, <2>1 DEF Flips
<1>4. CASE Failing(q)
  <2>1. q # <<>> => Head(q).op \in {"save", "settle"}
    BY <1>4, ShortSections DEF Failing, Save, Settle
  <2> QED
    BY <1>1, <2>1, ShortSections DEF Flips
<1> QED
  BY <1>2, <1>3, <1>4

\* A finalize alone is not yet inside finalize.
LEMMA FinalizeFlipsNothing == <<Finalize>> \notin Flips
<1>1. <<Finalize>> # <<Flip>>
  BY ShortSections DEF Finalize, Flip
<1>2. <<Finalize>> # <<Finalize, Flip>>
  BY Len(<<Finalize>>) = 1, Len(<<Finalize, Flip>>) = 2
<1> QED
  BY <1>1, <1>2 DEF Flips

\* While a call other than finalize is due, no announced status waits to be
\* flipped.
LEMMA NothingWaits ==
    ASSUME LogInv, todo # <<>>, Head(todo).op # "finalize"
    PROVE  ~(st.emitted /\ ~st.finalizing /\ ~st.terminal) /\ exec # "killed"
<1>1. Head(<<Finalize>>).op = "finalize"
  BY ShortSections DEF Finalize
<1> QED
  BY <1>1 DEF LogInv

\* A call that raises and changes nothing of the log, the row or the store.
LEMMA RaiseCloses ==
    ASSUME CauseInv, LogInv, todo # <<>>, Head(todo).op # "finalize", Raise,
           UNCHANGED <<st, log>>, meta'.status = meta.status, meta'.seqCount = meta.seqCount
    PROVE  LogInv'
<1>1. Failing(todo') /\ exec' = exec
  BY RaiseEffect
<1>2. todo' \notin Flips /\ ~(st.emitted /\ ~st.finalizing /\ ~st.terminal) /\ exec # "killed"
  BY <1>1, NoFlipYet, NothingWaits
<1> QED
  BY <1>1, <1>2 DEF LogInv, Flips, TerminalRowIsClosed

\* A call that ends well and changes nothing of them.
LEMMA ProceedCloses ==
    ASSUME CauseInv, LogInv, todo # <<>>, Head(todo).op # "finalize", UNCHANGED <<log, taskVars>>,
           st'.seq = st.seq, st'.emitted = st.emitted, st'.finalizing = st.finalizing,
           st'.terminal = st.terminal, meta'.status = meta.status,
           st.terminal => UNCHANGED meta, todo' \notin Flips
    PROVE  LogInv'
<1>1. ~(st.emitted /\ ~st.finalizing /\ ~st.terminal) /\ exec # "killed"
  BY NothingWaits
<1> QED
  BY <1>1 DEF LogInv, Flips, TerminalRowIsClosed, taskVars

\* A save writes no terminal status.
LEMMA SaveCloses ==
    ASSUME CauseInv, LogInv, SaveEvaluation
    PROVE  LogInv'
<1> DEFINE o == Head(todo)
<1>1. /\ Section(todo) /\ todo # <<>> /\ Calling("save") /\ o.op = "save" /\ UNCHANGED log
      /\ StoreTypes /\ RowTypes
  BY DEF SaveEvaluation, Calling, CauseInv
<1>2. CASE st.terminal /\ Raise /\ UNCHANGED <<st, meta>>
  BY <1>1, <1>2, RaiseCloses
<1>3. CASE ~st.terminal /\ UNCHANGED meta /\ Proceed(<<>>)
             /\ \E p : st' = [st EXCEPT !.pending = p]
  <2>1. /\ st'.seq = st.seq /\ st'.emitted = st.emitted /\ st'.finalizing = st.finalizing
        /\ st'.terminal = st.terminal /\ todo' = <<>> \o Tail(todo) /\ UNCHANGED taskVars
    BY <1>1, <1>3 DEF StoreTypes, Proceed
  <2>2. PlainSection(todo') \/ todo' = <<Finalize>> \/ \E s : todo' = <<Emit(EvalComplete(s))>>
    BY <1>1, <2>1, AtSave DEF Onward, SettlesWith
  <2>3. todo' \notin Flips
    <3>1. \A s : <<Emit(EvalComplete(s))>> \notin Flips
      BY ShortSections DEF Flips, Finalize, Flip, Emit
    <3> QED
      BY <2>2, <3>1, NoFlipYet, FinalizeFlipsNothing
  <2> QED
    BY <1>1, <1>3, <2>1, <2>3, ProceedCloses
<1>4. CASE ~st.terminal /\ Translate(o.status) \notin TerminalStatus
  <2>1. /\ o.status \in {"none", "running"} /\ Onward
        /\ meta' \in {meta, WriteFields(o)} /\ UNCHANGED st
        /\ (Raise \/ Proceed(<<>>))
    <3>1. o.status \in {"none", "running"} /\ Onward
      BY <1>1, <1>4, AtSave DEF SettlesWith, Translate, Translated, TerminalStatus
    <3> QED
      BY <1>4, <3>1 DEF SaveEvaluation
  <2>2. meta.status = "running" /\ meta'.status = "running" /\ meta'.seqCount = meta.seqCount
    BY <1>1, <1>4, <2>1 DEF LogInv, WriteFields, RowTypes
  <2>3. CASE Raise
    BY <1>1, <2>1, <2>2, <2>3, RaiseCloses
  <2>4. CASE Proceed(<<>>)
    <3>1. todo' \notin Flips /\ UNCHANGED taskVars
      BY <2>1, <2>4, NoFlipYet DEF Proceed, Onward
    <3> QED
      BY <1>1, <1>4, <2>1, <2>2, <3>1, ProceedCloses
  <2> QED
    BY <2>1, <2>3, <2>4
<1> QED
  BY <1>2, <1>3, <1>4 DEF SaveEvaluation

\* An eval_complete that lands is the log's last line and carries the buffered
\* status; a put whose answer was lost is replaced by the next one.
LEMMA EmitCloses ==
    ASSUME CauseInv, LogInv, EmitEvent
    PROVE  LogInv'
<1> DEFINE event == LineOf(Head(todo).event)
           emitted == st.emitted \/ event.type = "eval_complete"
           more == IF emitted /\ st.pending # NoPending THEN <<Finalize>> ELSE <<>>
<1>1. /\ Section(todo) /\ todo # <<>> /\ Calling("emit") /\ Head(todo).op # "finalize"
      /\ RowTypes /\ StoreTypes
  BY DEF EmitEvent, Calling, CauseInv
<1>2. event \in Events /\ st.seq \in Nat /\ Len(log) \in {st.seq, st.seq + 1}
  BY <1>1, LinesAreEvents DEF LogInv, StoreTypes
<1>3. /\ PutEvent(st.seq, event) # <<>>
      /\ Len(PutEvent(st.seq, event)) = st.seq + 1
      /\ PutEvent(st.seq, event)[st.seq + 1] = event
  <2> HIDE DEF event
  <2>1. log \in Seq(Events) /\ st.seq <= Len(log)
    BY <1>1, <1>2 DEF RowTypes
  <2>2. /\ Len(PutEvent(st.seq, event)) = IF st.seq < Len(log) THEN Len(log) ELSE st.seq + 1
        /\ PutEvent(st.seq, event)[st.seq + 1] = event
    BY <1>2, <2>1, PutKeepsLog
  <2>3. Len(PutEvent(st.seq, event)) = st.seq + 1
    BY <1>2, <2>2
  <2> QED
    BY <1>2, <2>2, <2>3
<1>4. \/ st.terminal /\ Raise /\ UNCHANGED <<st, meta, log>>
      \/ /\ ~st.terminal /\ Raise /\ UNCHANGED <<st, meta>> /\ log' \in {PutEvent(st.seq, event), log}
      \/ /\ ~st.terminal
         /\ log' = PutEvent(st.seq, event)
         /\ st' = [st EXCEPT !.seq = @ + 1, !.emitted = emitted]
         /\ meta' \in {meta, [meta EXCEPT !.seqCount = st.seq + 1]}
         /\ Proceed(more)
  BY DEF EmitEvent, LineOf
<1>5. CASE st.terminal /\ Raise /\ UNCHANGED <<st, meta, log>>
  BY <1>1, <1>5, RaiseCloses
<1>6. CASE ~st.terminal /\ Raise /\ UNCHANGED <<st, meta>> /\ log' \in {PutEvent(st.seq, event), log}
  <2>1. Failing(todo') /\ exec' = exec
    BY <1>1, <1>6, RaiseEffect
  <2>2. todo' \notin Flips /\ ~(st.emitted /\ ~st.finalizing) /\ exec # "killed"
    BY <1>1, <1>6, <2>1, NoFlipYet, NothingWaits
  <2>3. Len(log') \in {st.seq, st.seq + 1}
    BY <1>2, <1>3, <1>6
  <2> QED
    BY <1>6, <2>1, <2>2, <2>3 DEF LogInv, Flips
<1>7. CASE /\ ~st.terminal
           /\ log' = PutEvent(st.seq, event)
           /\ st' = [st EXCEPT !.seq = @ + 1, !.emitted = emitted]
           /\ meta' \in {meta, [meta EXCEPT !.seqCount = st.seq + 1]}
           /\ Proceed(more)
  <2>1. /\ st'.seq = st.seq + 1 /\ st'.emitted = emitted /\ st'.pending = st.pending
        /\ st'.terminal = st.terminal /\ st'.finalizing = st.finalizing
    <3>1. st' = [st EXCEPT !.seq = @ + 1, !.emitted = emitted]
      BY <1>7
    <3> HIDE DEF emitted
    <3> QED
      BY <1>1, <3>1 DEF StoreTypes
  <2>2. meta'.status = meta.status
    BY <1>1, <1>7 DEF RowTypes
  <2>3. exec' = exec /\ exec # "killed" /\ ~(st.emitted /\ ~st.finalizing)
    BY <1>1, <1>7, NothingWaits DEF Proceed, taskVars
  <2>4. todo' = more \o Tail(todo)
    BY <1>7 DEF Proceed
  <2>5. CASE event.type # "eval_complete" /\ (PlainSection(todo) \/ todo' \notin Flips)
    <3>1. emitted = st.emitted
      BY <1>1, <2>5 DEF StoreTypes
    <3>2. todo' \notin Flips
      <4>1. CASE PlainSection(todo)
        <5>1. /\ Tail(todo) \in Seq(PlainCalls) /\ PlainSection(<<>> \o Tail(todo))
              /\ Flip \notin PlainCalls
          BY <1>1, <4>1, PlainTail, PlainOps DEF PlainSection, Flip
        <5>2. <<Finalize>> \o Tail(todo) \notin Flips
          <6>1. CASE Tail(todo) = <<>>
            <7>1. <<Finalize>> \o <<>> = <<Finalize>>
              OBVIOUS
            <7> QED
              BY <6>1, <7>1, FinalizeFlipsNothing
          <6>2. CASE Tail(todo) # <<>>
            <7>1. (<<Finalize>> \o Tail(todo))[2] = Tail(todo)[1] /\ Tail(todo)[1] \in PlainCalls
                  /\ Len(<<Finalize>> \o Tail(todo)) >= 2
              <8>1. /\ <<Finalize>> \in Seq(PlainCalls \cup {Finalize})
                    /\ Tail(todo) \in Seq(PlainCalls \cup {Finalize})
                BY <5>1
              <8>2. Len(Tail(todo)) >= 1 /\ Len(<<Finalize>>) = 1
                BY <5>1, <6>2
              <8> QED
                BY <5>1, <8>1, <8>2, ConcatProperties
            <7>2. <<Finalize, Flip>>[2] = Flip /\ Len(<<Flip>>) = 1
              OBVIOUS
            <7>3. <<Finalize>> \o Tail(todo) # <<Flip>>
              BY <7>1, <7>2
            <7>4. <<Finalize>> \o Tail(todo) # <<Finalize, Flip>>
              BY <5>1, <7>1, <7>2
            <7> QED
              BY <7>3, <7>4 DEF Flips
          <6> QED
            BY <6>1, <6>2
        <5> QED
          BY <2>4, <5>1, <5>2, NoFlipYet
      <4> QED
        BY <2>5, <4>1
    <3>3. Len(log') \in {st'.seq, st'.seq + 1}
      BY <1>2, <1>3, <1>7, <2>1
    <3> QED
      BY <1>7, <2>1, <2>2, <2>3, <3>1, <3>2, <3>3 DEF LogInv, Flips
  <2>6. CASE /\ event.type = "eval_complete" /\ event.status = st.pending.status
             /\ st.pending.status # "none"
             /\ (todo' = <<Finalize>> \/ (st.finalizing /\ todo' = <<Finalize, Flip>>))
    <3>1. ClosedLog'
      BY <1>2, <1>3, <1>7, <2>1, <2>6 DEF ClosedLog
    <3>2. Len(log') \in {st'.seq, st'.seq + 1}
      BY <1>2, <1>3, <1>7, <2>1
    <3> QED
      BY <1>7, <2>1, <2>2, <2>3, <2>6, <3>1, <3>2 DEF LogInv, Flips
  <2>7. CASE Head(todo).event \in PlainEvents /\ PlainSection(todo)
    BY <2>5, <2>7 DEF LineOf, PlainEvents
  <2>8. ASSUME NEW s \in TerminalStatus, NEW e \in Errors, NEW ids \in IdArguments,
               Head(todo).event = GradingCompleted, Justified(s, e),
               todo = <<Emit(GradingCompleted), Save(s, e, ids), Emit(EvalComplete(s))>>
        PROVE  LogInv'
    <3>1. event.type # "eval_complete"
      BY <2>8 DEF LineOf, GradingCompleted, Event
    <3>2. ~emitted
      <4>1. 1 \in 1..(Len(todo) - 1) /\ todo[1] = Emit(GradingCompleted)
        BY <2>8
      <4>2. PlainEmit(Emit(GradingCompleted))
        BY DEF PlainEmit, Emit, GradingCompleted, Event
      <4> QED
        BY <3>1, <4>1, <4>2 DEF CauseInv, Speaking
    <3>3. todo' = <<Save(s, e, ids), Emit(EvalComplete(s))>>
      BY <2>4, <2>8, <3>2, ShortSections
    <3>4. todo' \notin Flips
      BY <2>8, <3>3, SettlingSections, NoFlipYet
    <3> QED
      BY <2>5, <3>1, <3>4
  <2>9. ASSUME NEW s \in TerminalStatus, todo = <<Emit(EvalComplete(s))>>,
               Head(todo).event = EvalComplete(s), st.pending.status = Translate(s)
        PROVE  LogInv'
    <3>1. /\ event.type = "eval_complete" /\ event.status = st.pending.status
          /\ st.pending.status # "none"
      BY <2>9 DEF LineOf, EvalComplete, Event, Translate, TerminalStatus
    <3>2. todo' = <<Finalize>>
      BY <2>4, <2>9, <3>1, ShortConcats DEF NoPending
    <3> QED
      BY <2>6, <3>1, <3>2
  <2>10. CASE /\ todo = <<Emit(EvalComplete(st.pending.status)), Flip>>
              /\ Head(todo).event = EvalComplete(st.pending.status)
              /\ st.finalizing /\ st.pending.status # "none"
    <3>1. event.type = "eval_complete" /\ event.status = Translate(st.pending.status)
      BY <2>10 DEF LineOf, EvalComplete, Event
    <3>2. Translate(st.pending.status) = st.pending.status
      BY DEF Translate, Translated, CauseInv, Grounds
    <3>3. todo' = <<Finalize, Flip>>
      <4>1. more = <<Finalize>>
        BY <2>10, <3>1 DEF NoPending
      <4> HIDE DEF more
      <4> QED
        BY <2>4, <2>10, <4>1, ShortConcats
    <3> QED
      BY <2>6, <2>10, <3>1, <3>2, <3>3
  <2> QED
    BY <1>1, <1>7, <2>7, <2>8, <2>9, <2>10, AtEmit
<1> QED
  BY <1>4, <1>5, <1>6, <1>7

\* finalize flips only behind a durable eval_complete.
LEMMA FinalizeCloses ==
    ASSUME CauseInv, LogInv, FinalizeEvaluation
    PROVE  LogInv'
<1>1. /\ Section(todo) /\ todo # <<>> /\ Calling("finalize") /\ StoreTypes /\ exec # "killed"
      /\ UNCHANGED <<meta, log>>
  BY DEF FinalizeEvaluation, Calling, CauseInv, LogInv, tableVars
<1>2. todo = <<Finalize>> \/ (todo = <<Finalize, Flip>> /\ FlippingSection(todo))
  BY <1>1, AtFinalize
<1>3. CASE CanFinalize /\ st' = [st EXCEPT !.finalizing = TRUE] /\ Proceed(FinalizeCalls)
  <2>1. todo = <<Finalize>> /\ ~st.terminal /\ ~st.finalizing
    BY <1>2, <1>3 DEF CanFinalize, FlippingSection
  <2>2. /\ st'.seq = st.seq /\ st'.pending = st.pending /\ st'.terminal = st.terminal
        /\ st'.finalizing = TRUE /\ st'.emitted = st.emitted
    BY <1>1, <1>3 DEF StoreTypes
  <2>3. exec' = exec /\ todo' = FinalizeCalls
    BY <1>3, <2>1, ShortConcats DEF Proceed, FinalizeCalls, taskVars
  <2>4. todo' \in Flips => ClosedLog
    <3>1. CASE st.emitted
      BY <1>1, <2>1, <3>1 DEF LogInv
    <3>2. CASE ~st.emitted
      <4>1. Head(todo').op = "emit"
        BY <2>3, <3>2, ShortSections DEF FinalizeCalls, Emit
      <4>2. \A q \in Flips : Head(q).op # "emit"
        BY ShortSections DEF Flips, Flip, Finalize
      <4> QED
        BY <4>1, <4>2
    <3> QED
      BY <3>1, <3>2
  <2> QED
    BY <1>1, <2>1, <2>2, <2>3, <2>4 DEF LogInv, ClosedLog
<1>4. CASE ~CanFinalize /\ Proceed(<<>>) /\ UNCHANGED st
  <2>1. exec' = exec
    BY <1>4 DEF Proceed, taskVars
  <2>2. ~(st.emitted /\ ~st.finalizing /\ ~st.terminal)
    BY <1>1, <1>4 DEF LogInv, CanFinalize, NoPending
  <2>3. todo' \in Flips => ClosedLog
    <3>1. todo = <<Finalize>> => todo' = <<>>
      BY <1>4, ShortSections DEF Proceed
    <3>2. <<>> \notin Flips
      BY DEF Flips
    <3>3. <<Finalize, Flip>> \in Flips
      BY DEF Flips
    <3> QED
      BY <1>2, <3>1, <3>2, <3>3 DEF LogInv
  <2> QED
    BY <1>1, <1>4, <2>1, <2>2, <2>3 DEF LogInv, ClosedLog, TerminalRowIsClosed
<1> QED
  BY <1>3, <1>4 DEF FinalizeEvaluation

\* The flip writes the status of the last line and the length of the log.
LEMMA FlipCloses ==
    ASSUME CauseInv, LogInv, FlipStatus, CleanFlip
    PROVE  LogInv'
<1>1. /\ Section(todo) /\ todo # <<>> /\ Calling("flip") /\ StoreTypes /\ UNCHANGED log
      /\ Head(todo).op # "finalize"
  BY DEF FlipStatus, Calling, CauseInv
<1>2. /\ todo = <<Flip>> /\ ClosedLog
      /\ ~st.terminal /\ st.finalizing /\ st.pending.status \in TerminalStatus
  <2>1. todo = <<Flip>> /\ FlippingSection(todo)
    BY <1>1, AtFlip
  <2>2. <<Flip>> \in Flips
    BY DEF Flips
  <2> QED
    BY <1>1, <2>1, <2>2 DEF LogInv, FlippingSection, StoreTypes
<1>3. CASE /\ meta' = Flipped
           /\ st' = [st EXCEPT !.pending = NoPending, !.finalizing = FALSE, !.terminal = TRUE]
           /\ Proceed(<<>>)
  <2>1. /\ st'.seq = st.seq /\ st'.terminal = TRUE /\ meta'.status = st.pending.status
        /\ meta'.seqCount = st.seq
    <3>1. meta'.status = st.pending.status /\ meta'.seqCount = st.seq
      BY <1>3 DEF Flipped
    <3>2. st' = [st EXCEPT !.pending = NoPending, !.finalizing = FALSE, !.terminal = TRUE]
      BY <1>3
    <3> HIDE DEF NoPending
    <3> QED
      BY <1>1, <3>1, <3>2 DEF StoreTypes
  <2>2. todo' = <<>> /\ <<>> \notin Flips
    BY <1>2, <1>3, ShortSections DEF Proceed, Flips
  <2>3. TerminalRowIsClosed' /\ meta'.status # "running"
    BY <1>1, <1>2, <2>1 DEF TerminalRowIsClosed, ClosedLog, TerminalStatus
  <2> QED
    BY <1>1, <2>1, <2>2, <2>3 DEF LogInv
<1>4. CASE Fault("flip") /\ (\E landed \in Landings : meta' = IF landed THEN Flipped ELSE meta)
             /\ Raise /\ UNCHANGED st
  <2>1. meta' = meta
    BY <1>4 DEF CleanFlip, Fault, Landings
  <2> QED
    BY <1>1, <1>4, <2>1, RaiseCloses
<1> QED
  BY <1>3, <1>4 DEF FlipStatus

\* A settlement touches neither the log nor the row.
LEMMA SettleCloses ==
    ASSUME CauseInv, LogInv, SettleEvaluation
    PROVE  LogInv'
<1>1. /\ Section(todo) /\ todo # <<>> /\ Calling("settle") /\ Head(todo).op # "finalize"
      /\ UNCHANGED <<st, meta, log>>
  BY DEF SettleEvaluation, Calling, CauseInv, tableVars
<1>2. PICK s \in TerminalStatus, e \in Errors, ids \in IdArguments :
         Justified(s, e) /\ todo = <<Settle(s, e, ids)>> /\ Head(todo) = Settle(s, e, ids)
  BY <1>1, AtSettle
<1>3. /\ UNCHANGED taskVars
      /\ todo' \in {<<>>, <<Finalize>>, <<Save(s, e, ids), Finalize>>}
  <2>1. /\ Head(todo).status = s /\ Head(todo).error = e /\ Head(todo).ids = ids
    BY <1>2 DEF Settle
  <2>2. /\ <<>> \o Tail(todo) = <<>> /\ <<Finalize>> \o Tail(todo) = <<Finalize>>
        /\ <<Save(s, e, ids), Finalize>> \o Tail(todo) = <<Save(s, e, ids), Finalize>>
    BY <1>2, ShortSections, ShortConcats
  <2> QED
    BY <2>1, <2>2 DEF SettleEvaluation, Proceed, Complete
<1>4. todo' \notin Flips
  BY <1>2, <1>3, SettlingSections, NoFlipYet, FinalizeFlipsNothing DEF Failing
<1> QED
  BY <1>1, <1>3, <1>4, ProceedCloses

\* A stored run touches neither.
LEMMA RunCloses ==
    ASSUME CauseInv, LogInv, SaveRunItem
    PROVE  LogInv'
<1>1. /\ Section(todo) /\ todo # <<>> /\ Calling("run") /\ Head(todo).op # "finalize"
      /\ StoreTypes /\ UNCHANGED <<meta, log>>
  BY DEF SaveRunItem, Calling, CauseInv
<1>2. /\ st'.seq = st.seq /\ st'.emitted = st.emitted /\ st'.finalizing = st.finalizing
      /\ st'.terminal = st.terminal
      /\ Proceed(<<>>) \/ (Raise /\ UNCHANGED st)
  BY <1>1 DEF SaveRunItem, PutRun, LookupFails, StoreTypes
<1>3. CASE Proceed(<<>>)
  <2>1. PlainSection(todo') /\ UNCHANGED taskVars
    BY <1>1, <1>3, AtRun DEF Proceed, Onward
  <2> QED
    BY <1>1, <1>2, <2>1, NoFlipYet, ProceedCloses
<1>4. CASE Raise /\ UNCHANGED st
  BY <1>1, <1>4, RaiseCloses
<1> QED
  BY <1>2, <1>3, <1>4

\* The scheduler starts a section outside finalize, and a kill drops one.
LEMMA SchedulerCloses ==
    ASSUME CauseInv, LogInv, ExecStep \/ EngineStep \/ Kill
    PROVE  LogInv'
<1>1. Orderly
  BY ExecStartCauses, HardStopCauses, AfterHardStopCauses, AfterEngineCauses,
     AfterEngineRaisedCauses, EndCauses, EngineStartCauses, EngineUnavailableCauses,
     BatchRaisesCauses, BatchDoneCauses, BeforeGradingCauses, GradedCauses, ChildCauses
     DEF ExecStep, EngineStep
<1>2. UNCHANGED <<meta, log>>
  BY DEF ExecStep, ExecStart, HardStop, AfterHardStop, AfterEngine, AfterEngineRaised,
         ExecReturn, Kill, EngineStep, EngineStart, EngineUnavailable, BatchRaises, BatchDone,
         BeforeGrading, Graded, ChildStart, ChildFinish, tableVars
<1>3. todo' \notin Flips
  <2>1. CASE PlainSection(todo')
    BY <2>1, NoFlipYet
  <2>2. CASE SettlingSection(todo)'
    <3>1. Head(todo').op \in {"save", "settle", "emit"}
      BY <2>2, ShortSections DEF SettlingSection, Save, Settle, Emit
    <3>2. \A q \in Flips : Head(q).op \in {"flip", "finalize"}
      BY ShortSections DEF Flips, Flip, Finalize
    <3> QED
      BY <3>1, <3>2
  <2> QED
    BY <1>1, <2>1, <2>2 DEF Orderly
<1>4. \/ todo = <<>> /\ exec # "killed" /\ exec' # "killed"
      \/ todo' = <<>> /\ exec' = "killed"
  <2>1. CASE Kill
    BY <2>1 DEF Kill
  <2>2. CASE ExecStart
    BY <2>2 DEF ExecStart, CauseInv, StartsUnsettled
  <2>3. CASE HardStop \/ AfterHardStop \/ AfterEngine \/ AfterEngineRaised \/ ExecReturn
    BY <2>3 DEF HardStop, AfterHardStop, AfterEngine, AfterEngineRaised, ExecReturn, Idle, Running
  <2>4. CASE EngineStep
    BY <2>4 DEF EngineStep, EngineStart, EngineUnavailable, BatchRaises, BatchDone, BeforeGrading,
       Graded, ChildStart, ChildFinish, Scheduled, Running, Idle
  <2> QED
    BY <2>1, <2>2, <2>3, <2>4 DEF ExecStep
<1>5. ~(st.emitted /\ ~st.finalizing /\ ~st.terminal) \/ exec' = "killed"
  <2>1. <<>> # <<Finalize>>
    OBVIOUS
  <2> QED
    BY <1>4, <2>1 DEF LogInv
<1> QED
  BY <1>1, <1>2, <1>3, <1>4, <1>5 DEF LogInv, Orderly, Calm, TerminalRowIsClosed

\* Every step keeps the log closed before the row.
LEMMA LogStep ==
    ASSUME CleanFlip, CauseInv, LogInv, [Next]_vars
    PROVE  LogInv'
<1>1. CASE StoreCall
  BY <1>1, SaveCloses, EmitCloses, FinalizeCloses, FlipCloses, SettleCloses, RunCloses
     DEF StoreCall
<1>2. CASE ExecStep \/ EngineStep \/ Kill
  BY <1>2, SchedulerCloses
<1>3. CASE Tick \/ CancelCheck \/ CancelPut \/ UNCHANGED vars
  <2>1. UNCHANGED <<meta, log, st, todo, exec>>
    BY <1>3 DEF Tick, CancelCheck, CancelPut, vars, workerVars, tableVars, taskVars
  <2> QED
    BY <2>1 DEF LogInv, Flips, ClosedLog, TerminalRowIsClosed
<1> QED
  BY <1>1, <1>2, <1>3 DEF Next, WorkerStep

\* The log is empty and the row running at the start.
LEMMA LogInit == Init => LogInv
  BY DEF Init, LogInv, Flips

\* A row that reads terminal has its eval_complete in the log already, as its
\* last line and with the row's own status, for every kind of failure but a
\* flip that landed although its answer was lost.
THEOREM RowIsClosed ==
    ASSUME CleanFlip
    PROVE  Spec => []TerminalRowIsClosed
<1>1. LogInv => TerminalRowIsClosed
  BY DEF LogInv, TerminalRowIsClosed, TerminalStatus
<1> QED
  BY <1>1, LogInit, LogStep, CauseHolds, PTL DEF Spec

-----------------------------------------------------------------------------
(* An invocation that returns has settled its row *)

\* The event puts and the flip get through.
SettlingWorks == "put" \notin Faulty /\ "flip" \notin Faulty

\* The rest of a finalize that has begun.
InFinalize(q) == q \in Flips \/ q = <<Emit(EvalComplete(st.pending.status)), Flip>>

\* What execute has left of the settlement of its row.
StillSettles(q) ==
    \/ \E s \in TerminalStatus, e \in Errors, ids \in IdArguments :
          q \in {<<Settle(s, e, ids)>>, <<Save(s, e, ids), Finalize>>}
    \/ q = <<Finalize>> /\ st.pending.status # "none"
    \/ InFinalize(q)

\* The log has one eval_complete at most, at its end, and from there the flip
\* is next; execute goes on until the row is terminal.
SettleInv ==
    /\ Len(log) = st.seq
    /\ \A i \in 1..Len(log) : log[i].type = "eval_complete" => st.emitted /\ i = Len(log)
    /\ st.emitted => log # <<>> /\ log[Len(log)].type = "eval_complete"
    /\ st.emitted /\ ~st.terminal =>
          exec = "killed" \/ (todo \in Flips \cup {<<Finalize>>} /\ ClosedLog)
    /\ st.finalizing /\ ~st.terminal => exec = "killed" \/ InFinalize(todo)
    /\ exec = "settling" /\ ~st.terminal => StillSettles(todo)
    /\ exec = "returned" => st.terminal

Bases == CauseInv /\ LogInv /\ SettleInv

\* What the call that is due says of the store.
LEMMA AtCall ==
    ASSUME Bases, todo # <<>>
    PROVE  /\ exec # "killed" /\ (exec = "returned" => st.terminal)
           /\ ~st.terminal /\ Head(todo).op \in {"save", "settle", "run", "emit"} => ~st.emitted
           /\ ~st.terminal /\ Head(todo).op \in {"save", "settle", "run"} => ~st.finalizing
           /\ ~st.terminal /\ Head(todo).op = "run" => exec # "settling"
           /\ ~st.terminal /\ st.finalizing /\ Head(todo).op = "emit" =>
                 todo = <<Emit(EvalComplete(st.pending.status)), Flip>>
           /\ ~st.terminal /\ exec = "settling" /\ Head(todo).op = "emit" =>
                 todo = <<Emit(EvalComplete(st.pending.status)), Flip>>
           /\ ~st.terminal /\ exec = "settling" /\ Head(todo).op = "save" =>
                 \E s \in TerminalStatus, e \in Errors, ids \in IdArguments :
                    todo = <<Save(s, e, ids), Finalize>>
           /\ exec = "settling" /\ ~st.terminal /\ todo = <<Finalize>> => st.pending.status # "none"
<1>1. /\ \A q \in Flips \cup {<<Finalize>>} : Head(q).op \in {"flip", "finalize"}
      /\ Head(<<Emit(EvalComplete(st.pending.status)), Flip>>).op = "emit"
      /\ \A s, e, ids : /\ Head(<<Settle(s, e, ids)>>).op = "settle"
                        /\ Head(<<Save(s, e, ids), Finalize>>).op = "save"
  BY ShortSections DEF Flips, Flip, Finalize, Emit, Settle, Save
<1>2. Head(<<Finalize>>).op = "finalize" /\ <<Finalize>> \notin Flips
  BY ShortSections, FinalizeFlipsNothing DEF Finalize
<1>3. exec # "killed"
  BY DEF Bases, LogInv
<1>4. exec = "settling" /\ ~st.terminal =>
         \/ Head(todo).op \in {"settle", "flip", "finalize"}
         \/ todo = <<Emit(EvalComplete(st.pending.status)), Flip>>
         \/ \E s \in TerminalStatus, e \in Errors, ids \in IdArguments :
               todo = <<Save(s, e, ids), Finalize>>
  BY <1>1, <1>2 DEF Bases, SettleInv, StillSettles, InFinalize
<1>5. exec = "settling" /\ ~st.terminal /\ todo = <<Finalize>> => st.pending.status # "none"
  BY <1>1, <1>2 DEF Bases, SettleInv, StillSettles, InFinalize
<1>6. st.finalizing /\ ~st.terminal =>
         \/ Head(todo).op \in {"flip", "finalize"}
         \/ todo = <<Emit(EvalComplete(st.pending.status)), Flip>>
  BY <1>1, <1>3 DEF Bases, SettleInv, InFinalize
<1>7. st.emitted /\ ~st.terminal => Head(todo).op \in {"flip", "finalize"}
  BY <1>1, <1>3 DEF Bases, SettleInv
<1>8. exec = "returned" => st.terminal
  BY DEF Bases, SettleInv
<1> QED
  BY <1>1, <1>3, <1>4, <1>5, <1>6, <1>7, <1>8

\* A call that leaves the log and the flags of the store as they are.
LEMMA KeepsSettling ==
    ASSUME SettleInv, UNCHANGED log, exec' = exec,
           st'.seq = st.seq, st'.emitted = st.emitted, st'.finalizing = st.finalizing,
           st'.terminal = st.terminal,
           ~st.terminal => ~st.emitted /\ ~st.finalizing,
           exec = "settling" /\ ~st.terminal => StillSettles(todo)'
    PROVE  SettleInv'
  BY DEF SettleInv

\* A save of a settlement is followed by its finalize.
LEMMA SaveSettles ==
    ASSUME Bases, SaveEvaluation, CauseInv'
    PROVE  SettleInv'
<1> DEFINE o == Head(todo)
<1>1. /\ Section(todo) /\ todo # <<>> /\ Calling("save") /\ o.op = "save" /\ UNCHANGED log
      /\ StoreTypes /\ exec' = exec
  <2>1. Raise \/ Proceed(<<>>)
    BY DEF SaveEvaluation
  <2>2. todo # <<>>
    BY DEF SaveEvaluation, Calling
  <2>3. exec' = exec
    BY <2>1, <2>2, RaiseEffect DEF Proceed, taskVars, Bases
  <2> QED
    BY <2>3 DEF SaveEvaluation, Calling, Bases, CauseInv
<1>2. /\ st'.seq = st.seq /\ st'.emitted = st.emitted /\ st'.finalizing = st.finalizing
      /\ st'.terminal = st.terminal
  BY <1>1 DEF SaveEvaluation, StoreTypes
<1>3. ~st.terminal => ~st.emitted /\ ~st.finalizing
  BY <1>1, AtCall
<1>4. ASSUME exec = "settling", ~st.terminal
      PROVE  StillSettles(todo)'
  <2>1. PICK s \in TerminalStatus, e \in Errors, ids \in IdArguments :
           todo = <<Save(s, e, ids), Finalize>>
    BY <1>1, <1>4, AtCall
  <2>2. o.status = s
    BY <2>1, ShortSections DEF Save
  <2>3. Translate(o.status) \in TerminalStatus
    BY <2>2 DEF Translate, TerminalStatus
  <2>4. todo' = <<Finalize>> /\ st'.pending.status = Translate(o.status)
    BY <1>1, <1>4, <2>1, <2>3, ShortSections DEF SaveEvaluation, Proceed, StoreTypes
  <2> QED
    BY <2>3, <2>4 DEF StillSettles, TerminalStatus
<1> QED
  BY <1>1, <1>2, <1>3, <1>4, KeepsSettling DEF Bases

\* No run is stored while the row is being settled.
LEMMA RunSettles ==
    ASSUME Bases, SaveRunItem
    PROVE  SettleInv'
<1>1. todo # <<>> /\ Head(todo).op = "run" /\ UNCHANGED log /\ StoreTypes
  BY DEF SaveRunItem, Calling, Bases, CauseInv
<1>2. exec' = exec
  <2>1. Raise \/ Proceed(<<>>)
    BY DEF SaveRunItem, PutRun, LookupFails
  <2> QED
    BY <1>1, <2>1, RaiseEffect DEF Proceed, taskVars, Bases
<1>3. /\ st'.seq = st.seq /\ st'.emitted = st.emitted /\ st'.finalizing = st.finalizing
      /\ st'.terminal = st.terminal
  BY <1>1 DEF SaveRunItem, PutRun, LookupFails, StoreTypes
<1> QED
  BY <1>1, <1>2, <1>3, AtCall, KeepsSettling DEF Bases

\* A settlement goes on until something is buffered.
LEMMA SettleSettles ==
    ASSUME Bases, SettleEvaluation
    PROVE  SettleInv'
<1>1. /\ Section(todo) /\ todo # <<>> /\ Calling("settle") /\ Head(todo).op = "settle"
      /\ UNCHANGED <<st, log>>
  BY DEF SettleEvaluation, Calling, Bases, CauseInv, tableVars
<1>2. PICK s \in TerminalStatus, e \in Errors, ids \in IdArguments :
         todo = <<Settle(s, e, ids)>> /\ Head(todo) = Settle(s, e, ids)
  BY <1>1, AtSettle
<1>3. /\ exec' = exec
      /\ ~st.terminal =>
            \/ todo' = <<Finalize>> /\ st.pending # NoPending
            \/ todo' = <<Save(s, e, ids), Finalize>>
  <2>1. /\ Head(todo).status = s /\ Head(todo).error = e /\ Head(todo).ids = ids
    BY <1>2 DEF Settle
  <2>2. /\ <<Finalize>> \o Tail(todo) = <<Finalize>>
        /\ <<Save(s, e, ids), Finalize>> \o Tail(todo) = <<Save(s, e, ids), Finalize>>
    BY <1>2, ShortConcats
  <2> QED
    BY <2>1, <2>2 DEF SettleEvaluation, Proceed, Complete, CanFinalize, taskVars
<1>4. ASSUME ~st.terminal
      PROVE  StillSettles(todo)'
  <2>1. st.pending # NoPending => st.pending.status # "none"
    BY DEF Bases, CauseInv, Grounds
  <2> QED
    BY <1>1, <1>3, <1>4, <2>1 DEF StillSettles
<1> QED
  BY <1>1, <1>3, <1>4, AtCall, KeepsSettling DEF Bases

\* A line is put at the end of the log, and an eval_complete leads to the flip.
LEMMA EmitSettles ==
    ASSUME Bases, EmitEvent, SettlingWorks, CauseInv', LogInv'
    PROVE  SettleInv'
<1> DEFINE event == LineOf(Head(todo).event)
           emitted == st.emitted \/ event.type = "eval_complete"
           more == IF emitted /\ st.pending # NoPending THEN <<Finalize>> ELSE <<>>
<1>1. /\ Section(todo) /\ todo # <<>> /\ Calling("emit") /\ Head(todo).op = "emit"
      /\ log \in Seq(Events) /\ StoreTypes /\ event \in Events /\ Len(log) = st.seq
  BY LinesAreEvents DEF EmitEvent, Calling, Bases, CauseInv, RowTypes, SettleInv
<1>2. \/ st.terminal /\ Raise /\ UNCHANGED <<st, log>>
      \/ /\ ~st.terminal
         /\ log' = PutEvent(st.seq, event)
         /\ st' = [st EXCEPT !.seq = @ + 1, !.emitted = emitted]
         /\ Proceed(more)
  BY DEF EmitEvent, LineOf, SettlingWorks, Fault
<1>3. CASE st.terminal /\ Raise /\ UNCHANGED <<st, log>>
  <2>1. exec' = exec
    BY <1>1, <1>3, RaiseEffect DEF Bases
  <2> QED
    BY <1>3, <2>1, KeepsSettling DEF Bases
<1>4. CASE /\ ~st.terminal
           /\ log' = PutEvent(st.seq, event)
           /\ st' = [st EXCEPT !.seq = @ + 1, !.emitted = emitted]
           /\ Proceed(more)
  <2>1. /\ st'.seq = st.seq + 1 /\ st'.emitted = emitted /\ st'.pending = st.pending
        /\ st'.terminal = st.terminal /\ st'.finalizing = st.finalizing
    <3>1. st' = [st EXCEPT !.seq = @ + 1, !.emitted = emitted]
      BY <1>4
    <3> HIDE DEF emitted
    <3> QED
      BY <1>1, <3>1 DEF StoreTypes
  <2>2. ~st.emitted /\ exec # "killed" /\ exec # "returned" /\ exec' = exec
    BY <1>1, <1>4, AtCall DEF Proceed, taskVars
  <2>3. /\ Len(log') = st.seq + 1 /\ log' # <<>> /\ log'[Len(log')] = event
        /\ \A i \in 1..Len(log') : i # Len(log') => i \in 1..Len(log) /\ log'[i] = log[i]
    <3>1. log' = Append(log, event)
      BY <1>1, <1>4 DEF PutEvent
    <3> HIDE DEF event
    <3> QED
      BY <1>1, <3>1
  <2>4. \A i \in 1..Len(log) : log[i].type # "eval_complete"
    BY <2>2 DEF Bases, SettleInv
  <2>5. /\ Len(log') = st'.seq
        /\ \A i \in 1..Len(log') : log'[i].type = "eval_complete" => st'.emitted /\ i = Len(log')
        /\ st'.emitted => log' # <<>> /\ log'[Len(log')].type = "eval_complete"
    <3>1. Len(log') = st'.seq
      BY <2>1, <2>3
    <3>2. st'.emitted <=> event.type = "eval_complete"
      BY <2>1, <2>2
    <3> HIDE DEF event
    <3> QED
      BY <2>3, <2>4, <3>1, <3>2
  <2>6. st.finalizing \/ exec = "settling" =>
           /\ todo = <<Emit(EvalComplete(st.pending.status)), Flip>>
           /\ todo' = <<Finalize, Flip>>
    <3>1. ASSUME st.finalizing \/ exec = "settling"
          PROVE  todo = <<Emit(EvalComplete(st.pending.status)), Flip>>
      BY <1>1, <1>4, <3>1, AtCall
    <3>2. ASSUME todo = <<Emit(EvalComplete(st.pending.status)), Flip>>
          PROVE  todo' = <<Finalize, Flip>>
      <4>1. Head(todo).event = EvalComplete(st.pending.status)
        BY <3>2, ShortSections DEF Emit
      <4>2. emitted
        BY <4>1 DEF LineOf, EvalComplete, Event
      <4>3. FlippingSection(todo)
        <5>1. Emit(EvalComplete(st.pending.status)) \notin PlainCalls
          BY PlainOps DEF Emit, EvalComplete, Event, PlainEvents
        <5>2. ~PlainSection(todo)
          BY <3>2, <5>1, PlainTail, ShortSections
        <5>3. Len(todo) = 2 /\ todo[2] = Flip
          BY <3>2
        <5>4. ~SettlingSection(todo) /\ ~AnnouncingSection(todo) /\ todo # <<Finalize>>
          <6>1. ~SettlingSection(todo)
            <7>1. SUFFICES ASSUME NEW s \in TerminalStatus, NEW e \in Errors, NEW ids \in IdArguments,
                           \/ todo = <<Save(s, e, ids), Emit(EvalComplete(s))>>
                           \/ todo = <<Save(s, e, ids), Finalize>>
                           \/ todo = <<Settle(s, e, ids)>>
                           \/ todo = <<Emit(GradingCompleted), Save(s, e, ids), Emit(EvalComplete(s))>>
                         PROVE  FALSE
              BY DEF SettlingSection
            <7>2. Flip # Finalize /\ Flip # Emit(EvalComplete(s))
              BY DEF Flip, Finalize, Emit
            <7>3. todo # <<Save(s, e, ids), Emit(EvalComplete(s))>> /\ todo # <<Save(s, e, ids), Finalize>>
              BY <5>3, <7>2
            <7>4. /\ todo # <<Settle(s, e, ids)>>
                  /\ todo # <<Emit(GradingCompleted), Save(s, e, ids), Emit(EvalComplete(s))>>
              BY <5>3
            <7> QED
              BY <7>1, <7>3, <7>4
          <6>2. ~AnnouncingSection(todo) /\ todo # <<Finalize>>
            BY <5>3 DEF AnnouncingSection
          <6> QED
            BY <6>1, <6>2
        <5> QED
          BY <1>1, <5>2, <5>4 DEF Section
      <4>4. more = <<Finalize>>
        BY <4>2, <4>3 DEF FlippingSection, NoPending
      <4> HIDE DEF more
      <4> QED
        BY <1>4, <3>2, <4>4, ShortConcats DEF Proceed
    <3> QED
      BY <3>1, <3>2
  <2>7. st'.emitted /\ ~st'.terminal => todo' \in Flips \cup {<<Finalize>>} /\ ClosedLog'
    <3>1. CASE st.finalizing
      BY <2>6, <3>1 DEF LogInv, Flips
    <3>2. CASE ~st.finalizing
      BY <2>1, <2>2, <3>2 DEF LogInv
    <3> QED
      BY <3>1, <3>2
  <2>8. st.finalizing \/ exec = "settling" => InFinalize(todo)' /\ StillSettles(todo)'
    BY <2>6 DEF InFinalize, StillSettles, Flips
  <2> QED
    BY <2>1, <2>2, <2>5, <2>7, <2>8 DEF SettleInv
<1> QED
  BY <1>2, <1>3, <1>4

\* finalize leads to the flip.
LEMMA FinalizeSettles ==
    ASSUME Bases, FinalizeEvaluation
    PROVE  SettleInv'
<1>1. /\ Section(todo) /\ todo # <<>> /\ Calling("finalize") /\ StoreTypes /\ exec # "killed"
      /\ UNCHANGED log
  BY AtCall DEF FinalizeEvaluation, Calling, Bases, CauseInv, tableVars
<1>2. todo = <<Finalize>> \/ (todo = <<Finalize, Flip>> /\ FlippingSection(todo))
  BY <1>1, AtFinalize
<1>3. CASE CanFinalize /\ st' = [st EXCEPT !.finalizing = TRUE] /\ Proceed(FinalizeCalls)
  <2>1. todo = <<Finalize>> /\ ~st.terminal
    BY <1>2, <1>3 DEF CanFinalize, FlippingSection
  <2>2. /\ st'.seq = st.seq /\ st'.pending = st.pending /\ st'.terminal = st.terminal
        /\ st'.finalizing = TRUE /\ st'.emitted = st.emitted
    BY <1>1, <1>3 DEF StoreTypes
  <2>3. exec' = exec /\ todo' = FinalizeCalls
    BY <1>3, <2>1, ShortConcats DEF Proceed, FinalizeCalls, taskVars
  <2>4. InFinalize(todo)' /\ (st.emitted => todo' \in Flips)
    BY <2>2, <2>3 DEF InFinalize, FinalizeCalls, Flips
  <2>5. StillSettles(todo)'
    BY <2>4 DEF StillSettles
  <2> QED
    BY <1>1, <2>1, <2>2, <2>3, <2>4, <2>5 DEF Bases, SettleInv, ClosedLog
<1>4. CASE ~CanFinalize /\ Proceed(<<>>) /\ UNCHANGED st
  <2>1. exec' = exec
    BY <1>4 DEF Proceed, taskVars
  <2>2. CASE todo = <<Finalize>>
    <3>1. <<Finalize>> \notin Flips
      BY FinalizeFlipsNothing
    <3>2. st.finalizing /\ ~st.terminal => FALSE
      <4>1. <<Finalize>> # <<Emit(EvalComplete(st.pending.status)), Flip>>
        BY Len(<<Finalize>>) = 1, Len(<<Emit(EvalComplete(st.pending.status)), Flip>>) = 2
      <4> QED
        BY <1>1, <2>2, <3>1, <4>1 DEF Bases, SettleInv, InFinalize
    <3>3. st.emitted /\ ~st.terminal => st.pending.status # "none"
      BY <1>1, <3>2 DEF Bases, LogInv
    <3>4. ~st.terminal => ~st.emitted /\ ~st.finalizing
      BY <1>4, <3>2, <3>3 DEF CanFinalize, NoPending
    <3>5. ~st.terminal => exec # "settling"
      <4>1. exec = "settling" /\ ~st.terminal => st.pending.status # "none"
        BY <1>1, <2>2, AtCall
      <4> QED
        BY <1>4, <3>4, <4>1 DEF CanFinalize, NoPending
    <3> QED
      BY <1>1, <1>4, <2>1, <3>4, <3>5, KeepsSettling DEF Bases
  <2>3. CASE todo = <<Finalize, Flip>>
    <3>1. todo' = <<Flip>>
      BY <1>4, <2>3, ShortSections DEF Proceed
    <3>2. /\ todo' \in Flips /\ InFinalize(todo)' /\ StillSettles(todo)'
      BY <3>1 DEF Flips, InFinalize, StillSettles
    <3> QED
      BY <1>1, <1>4, <2>1, <3>2 DEF Bases, SettleInv, ClosedLog
  <2> QED
    BY <1>2, <2>2, <2>3
<1> QED
  BY <1>3, <1>4 DEF FinalizeEvaluation

\* The flip settles the row.
LEMMA FlipSettles ==
    ASSUME Bases, FlipStatus, SettlingWorks
    PROVE  SettleInv'
<1>1. StoreTypes /\ UNCHANGED log
  BY DEF FlipStatus, Bases, CauseInv
<1>2. st' = [st EXCEPT !.pending = NoPending, !.finalizing = FALSE, !.terminal = TRUE]
      /\ exec' = exec
  BY DEF FlipStatus, SettlingWorks, Fault, Proceed, taskVars
<1>3. st'.seq = st.seq /\ st'.emitted = st.emitted /\ st'.terminal = TRUE
  <2> HIDE DEF NoPending
  <2> QED
    BY <1>1, <1>2 DEF StoreTypes
<1> QED
  BY <1>1, <1>2, <1>3 DEF Bases, SettleInv

\* What execute has left: a settlement, until the row is terminal.
LEMMA SchedulerSettles ==
    ASSUME Bases, ExecStep \/ EngineStep \/ Kill
    PROVE  SettleInv'
<1>1. Calm
  BY ExecStartCauses, HardStopCauses, AfterHardStopCauses, AfterEngineCauses,
     AfterEngineRaisedCauses, EndCauses, EngineStartCauses, EngineUnavailableCauses,
     BatchRaisesCauses, BatchDoneCauses, BeforeGradingCauses, GradedCauses, ChildCauses
     DEF ExecStep, EngineStep, Orderly, Bases
<1>2. UNCHANGED log
  BY DEF ExecStep, ExecStart, HardStop, AfterHardStop, AfterEngine, AfterEngineRaised,
         ExecReturn, Kill, EngineStep, EngineStart, EngineUnavailable, BatchRaises, BatchDone,
         BeforeGrading, Graded, ChildStart, ChildFinish, tableVars
<1>3. \/ todo = <<>> /\ exec # "killed"
      \/ exec' = "killed"
  <2>1. CASE Kill
    BY <2>1 DEF Kill
  <2>2. CASE ExecStart
    BY <2>2 DEF ExecStart, Bases, CauseInv, StartsUnsettled
  <2>3. CASE HardStop \/ AfterHardStop \/ AfterEngine \/ AfterEngineRaised \/ ExecReturn
    BY <2>3 DEF HardStop, AfterHardStop, AfterEngine, AfterEngineRaised, ExecReturn, Idle, Running
  <2>4. CASE EngineStep
    BY <2>4 DEF EngineStep, EngineStart, EngineUnavailable, BatchRaises, BatchDone, BeforeGrading,
       Graded, ChildStart, ChildFinish, Scheduled, Running, Idle
  <2> QED
    BY <2>1, <2>2, <2>3, <2>4 DEF ExecStep
<1>4. ~st.terminal => exec' = "killed" \/ (~st.emitted /\ ~st.finalizing)
  <2>1. <<>> \notin Flips \cup {<<Finalize>>} /\ ~InFinalize(<<>>)
    BY DEF Flips, InFinalize
  <2> QED
    BY <1>3, <2>1 DEF Bases, SettleInv
<1>5. exec' = "settling" => StillSettles(todo)'
  <2>1. CASE ExecStart
    <3>1. exec' = "settling" => todo' = <<Save("cancelled", "none", Given({})), Finalize>>
      BY <2>1 DEF ExecStart, Begin, Complete
    <3> QED
      BY <3>1, Arguments DEF StillSettles
  <2>2. CASE AfterHardStop
    <3>1. todo' = <<Settle(reported, IF reported = "error" THEN "inflight" ELSE "none", NotGiven)>>
      BY <2>2 DEF AfterHardStop, Begin
    <3>2. reported \in {"cancelled", "error"}
      BY <2>2 DEF AfterHardStop, Bases, CauseInv, Grounds
    <3>3. PICK s \in TerminalStatus, e \in Errors : todo' = <<Settle(s, e, NotGiven)>>
      BY <3>1, <3>2, Arguments
    <3> QED
      BY <3>3, Arguments DEF StillSettles
  <2>3. CASE AfterEngine
    <3>1. \/ todo' = <<Settle("error", "boundary", NotGiven)>>
          \/ todo' = <<Settle(outcome.status, outcome.error, Given(good))>>
      BY <2>3 DEF AfterEngine, Begin
    <3>2. outcome.status \in TerminalStatus /\ outcome.error \in Errors /\ Given(good) \in IdArguments
      BY <2>3, Arguments DEF AfterEngine, Bases, CauseInv, Grounds, TaskTypes
    <3>3. PICK s \in TerminalStatus, e \in Errors, ids \in IdArguments : todo' = <<Settle(s, e, ids)>>
      BY <3>1, <3>2, Arguments
    <3> QED
      BY <3>3 DEF StillSettles
  <2>4. CASE AfterEngineRaised
    <3>1. todo' = <<Settle("error", "internal", NotGiven)>>
      BY <2>4 DEF AfterEngineRaised, Begin
    <3>2. PICK s \in TerminalStatus, e \in Errors, ids \in IdArguments : todo' = <<Settle(s, e, ids)>>
      BY <3>1, Arguments
    <3> QED
      BY <3>2 DEF StillSettles
  <2>5. CASE HardStop \/ ExecReturn \/ Kill
    BY <2>5 DEF HardStop, ExecReturn, Kill
  <2>6. CASE EngineStep
    BY <2>6 DEF EngineStep, EngineStart, EngineUnavailable, BatchRaises, BatchDone, BeforeGrading,
       Graded, ChildStart, ChildFinish, Scheduled, Running
  <2> QED
    BY <2>1, <2>2, <2>3, <2>4, <2>5, <2>6 DEF ExecStep
<1>6. exec' = "returned" => st.terminal
  <2>1. CASE ExecReturn
    <3>1. ~StillSettles(<<>>)
      BY DEF StillSettles, InFinalize, Flips
    <3> QED
      BY <2>1, <3>1 DEF ExecReturn, Idle, Bases, SettleInv
  <2>2. CASE ExecStep /\ ~ExecReturn
    BY <2>2 DEF ExecStep, ExecStart, HardStop, AfterHardStop, AfterEngine, AfterEngineRaised
  <2>3. CASE Kill
    BY <2>3 DEF Kill
  <2>4. CASE EngineStep
    BY <2>4 DEF EngineStep, EngineStart, EngineUnavailable, BatchRaises, BatchDone, BeforeGrading,
       Graded, ChildStart, ChildFinish, Scheduled, Running
  <2> QED
    BY <2>1, <2>2, <2>3, <2>4
<1> QED
  BY <1>1, <1>2, <1>4, <1>5, <1>6 DEF Bases, SettleInv, Calm

\* The three invariants together.
LEMMA BasesStep ==
    ASSUME SettlingWorks, Bases, [Next]_vars
    PROVE  Bases'
<1>1. CauseInv'
  BY CauseStep DEF Bases
<1>2. LogInv'
  BY LogStep DEF Bases, SettlingWorks, CleanFlip
<1>3. SettleInv'
  <2>1. CASE StoreCall
    BY <1>1, <1>2, <2>1, SaveSettles, EmitSettles, FinalizeSettles, FlipSettles, SettleSettles,
       RunSettles DEF StoreCall
  <2>2. CASE ExecStep \/ EngineStep \/ Kill
    BY <2>2, SchedulerSettles
  <2>3. CASE Tick \/ CancelCheck \/ CancelPut \/ UNCHANGED vars
    <3>1. UNCHANGED <<log, st, todo, exec>>
      BY <2>3 DEF Tick, CancelCheck, CancelPut, vars, workerVars, tableVars, taskVars
    <3> QED
      BY <3>1 DEF Bases, SettleInv, StillSettles, InFinalize, Flips, ClosedLog
  <2> QED
    BY <2>1, <2>2, <2>3 DEF Next, WorkerStep
<1> QED
  BY <1>1, <1>2, <1>3 DEF Bases

\* All three hold at the start.
LEMMA BasesInit == Init => Bases
<1>1. Init => SettleInv
  BY DEF Init, SettleInv
<1> QED
  BY <1>1, CauseInit, LogInit DEF Bases

\* An invocation that returns leaves a settled row behind, whatever reads and
\* run writes fail, and whether a user or a deadline stops it.
THEOREM ReturnSettles ==
    ASSUME SettlingWorks
    PROVE  Spec => []ReturnedIsSettled
<1>1. Bases => ReturnedIsSettled
  BY DEF Bases, LogInv, SettleInv, CauseInv, RowTypes, ReturnedIsSettled
<1> QED
  BY <1>1, BasesInit, BasesStep, PTL DEF Spec

-----------------------------------------------------------------------------
(* The worker implements the lifecycle *)

\* What readers see as the closing line, before a step and after it.
LEMMA ClosingIsLast ==
    /\ SettleInv => Closing = IF st.emitted THEN log[Len(log)].status ELSE "none"
    /\ SettleInv' => Closing' = IF st'.emitted THEN log'[Len(log')].status ELSE "none"
<1>1. ASSUME SettleInv
      PROVE  Closing = IF st.emitted THEN log[Len(log)].status ELSE "none"
  <2>1. st.emitted => Len(log) \in 1..Len(log)
    BY <1>1 DEF SettleInv
  <2>2. st.emitted <=> Positions("eval_complete") # {}
    BY <1>1, <2>1 DEF SettleInv, Positions
  <2> QED
    BY <2>2 DEF Closing
<1>2. ASSUME SettleInv'
      PROVE  Closing' = IF st'.emitted THEN log'[Len(log')].status ELSE "none"
  <2>1. st'.emitted => Len(log') \in 1..Len(log')
    BY <1>2 DEF SettleInv
  <2>2. st'.emitted <=> Positions("eval_complete")' # {}
    BY <1>2, <2>1 DEF SettleInv, Positions
  <2> QED
    BY <2>2 DEF Closing
<1> QED
  BY <1>1, <1>2

\* A step that neither writes a line nor flips the row is hidden from readers.
LEMMA Hidden ==
    ASSUME Bases, Bases', UNCHANGED log, st'.emitted = st.emitted, st'.terminal = st.terminal,
           st.terminal => UNCHANGED meta
    PROVE  UNCHANGED <<meta.status, Closing>>
<1>1. Closing' = Closing
  BY ClosingIsLast DEF Bases
<1>2. meta'.status = meta.status
  BY DEF Bases, LogInv
<1> QED
  BY <1>1, <1>2

\* An eval_complete that lands closes the log; any other line is hidden.
LEMMA EmitIsClose ==
    ASSUME SettlingWorks, Bases, Bases', EmitEvent
    PROVE  Lifecycle!Next \/ UNCHANGED <<meta.status, Closing>>
<1> DEFINE event == LineOf(Head(todo).event)
<1>1. /\ Section(todo) /\ todo # <<>> /\ Calling("emit") /\ Head(todo).op = "emit"
      /\ log \in Seq(Events) /\ StoreTypes /\ Len(log) = st.seq
  BY DEF EmitEvent, Calling, Bases, CauseInv, RowTypes, SettleInv
<1>2. \/ st.terminal /\ UNCHANGED <<st, log, meta>>
      \/ /\ ~st.terminal
         /\ log' = Append(log, event)
         /\ st' = [st EXCEPT !.seq = @ + 1,
                             !.emitted = st.emitted \/ event.type = "eval_complete"]
  BY <1>1 DEF EmitEvent, LineOf, SettlingWorks, Fault, PutEvent
<1>3. CASE st.terminal /\ UNCHANGED <<st, log, meta>>
  BY <1>3, Hidden
<1>4. CASE /\ ~st.terminal
           /\ log' = Append(log, event)
           /\ st' = [st EXCEPT !.seq = @ + 1,
                               !.emitted = st.emitted \/ event.type = "eval_complete"]
  <2>1. ~st.emitted
    BY <1>1, <1>4, AtCall
  <2>2. st'.terminal = st.terminal /\ (st'.emitted <=> event.type = "eval_complete")
    BY <1>1, <1>4, <2>1 DEF StoreTypes
  <2>3. log'[Len(log')] = event
    <3> HIDE DEF event
    <3> QED
      BY <1>1, <1>4
  <2>4. meta.status = "running" /\ meta'.status = "running"
    BY <1>4, <2>2 DEF Bases, LogInv
  <2>5. Closing = "none" /\ Closing' = IF st'.emitted THEN event.status ELSE "none"
    BY <2>1, <2>3, ClosingIsLast DEF Bases
  <2>6. event.type = "eval_complete" => event.status \in TerminalStatus
    <3>1. event.type = "eval_complete" => \E s \in TerminalStatus : Head(todo).event = EvalComplete(s)
      <4>1. st.pending.status # "none" => st.pending.status \in TerminalStatus
        BY <1>1 DEF StoreTypes
      <4> QED
        BY <1>1, <4>1, AtEmit DEF LineOf, PlainEvents, GradingCompleted, Event
    <3>2. ASSUME NEW s \in TerminalStatus, Head(todo).event = EvalComplete(s)
          PROVE  event.status \in TerminalStatus
      BY <3>2 DEF LineOf, EvalComplete, Event, Translate, TerminalStatus
    <3> QED
      BY <3>1, <3>2
  <2> HIDE DEF event
  <2>7. CASE st'.emitted
    <3>1. Lifecycle!Close(event.status) /\ event.status \in TerminalStatus
      BY <2>2, <2>4, <2>5, <2>6, <2>7 DEF Lifecycle!Close
    <3> QED
      BY <3>1 DEF Lifecycle!Next
  <2>8. CASE ~st'.emitted
    BY <2>4, <2>5, <2>8
  <2> QED
    BY <2>7, <2>8
<1> QED
  BY <1>2, <1>3, <1>4

\* The flip gives the row the closing line's status.
LEMMA FlipIsSettle ==
    ASSUME SettlingWorks, Bases, Bases', FlipStatus
    PROVE  Lifecycle!Next
<1>1. Section(todo) /\ Calling("flip") /\ StoreTypes /\ UNCHANGED log
  BY DEF FlipStatus, Bases, CauseInv
<1>2. /\ st' = [st EXCEPT !.pending = NoPending, !.finalizing = FALSE, !.terminal = TRUE]
      /\ meta' = Flipped
  BY DEF FlipStatus, SettlingWorks, Fault
<1>3. st'.emitted = st.emitted
  <2> HIDE DEF NoPending
  <2> QED
    BY <1>1, <1>2 DEF StoreTypes
<1>4. /\ ClosedLog /\ ~st.terminal /\ st.pending.status # "none"
  <2>1. todo = <<Flip>> /\ FlippingSection(todo)
    BY <1>1, AtFlip
  <2>2. <<Flip>> \in Flips
    BY DEF Flips
  <2> QED
    BY <1>1, <2>1, <2>2 DEF Bases, LogInv, FlippingSection
<1>5. st.emitted /\ meta.status = "running"
  <2>1. Len(log) \in 1..Len(log)
    BY <1>4 DEF ClosedLog, Bases, CauseInv, RowTypes
  <2> QED
    BY <1>4, <2>1 DEF Bases, SettleInv, LogInv, ClosedLog
<1>6. Closing = st.pending.status /\ Closing' = Closing
  BY <1>1, <1>3, <1>4, <1>5, ClosingIsLast DEF Bases, ClosedLog
<1>7. meta'.status = st.pending.status
  BY <1>2 DEF Flipped
<1> QED
  BY <1>4, <1>5, <1>6, <1>7 DEF Lifecycle!Next, Lifecycle!Settle

\* Readers see nothing of any other step.
LEMMA OtherIsHidden ==
    ASSUME SettlingWorks, Bases, Bases', [Next]_vars, ~EmitEvent, ~FlipStatus
    PROVE  UNCHANGED <<meta.status, Closing>>
<1>1. StoreTypes
  BY DEF Bases, CauseInv
<1>2. CASE StoreCall
  <2>1. /\ UNCHANGED log /\ st'.emitted = st.emitted /\ st'.terminal = st.terminal
        /\ st.terminal => UNCHANGED meta
    BY <1>1, <1>2 DEF StoreCall, SaveEvaluation, FinalizeEvaluation, SettleEvaluation, SaveRunItem,
       PutRun, LookupFails, StoreTypes, tableVars
  <2> QED
    BY <2>1, Hidden
<1>3. CASE ExecStep \/ EngineStep \/ Kill
  <2>1. Calm
    BY <1>3, ExecStartCauses, HardStopCauses, AfterHardStopCauses, AfterEngineCauses,
       AfterEngineRaisedCauses, EndCauses, EngineStartCauses, EngineUnavailableCauses,
       BatchRaisesCauses, BatchDoneCauses, BeforeGradingCauses, GradedCauses, ChildCauses
       DEF ExecStep, EngineStep, Orderly, Bases
  <2>2. UNCHANGED <<meta, log>>
    BY <1>3 DEF ExecStep, ExecStart, HardStop, AfterHardStop, AfterEngine, AfterEngineRaised,
           ExecReturn, Kill, EngineStep, EngineStart, EngineUnavailable, BatchRaises, BatchDone,
           BeforeGrading, Graded, ChildStart, ChildFinish, tableVars
  <2> QED
    BY <2>1, <2>2, Hidden DEF Calm
<1>4. CASE Tick \/ CancelCheck \/ CancelPut \/ UNCHANGED vars
  <2>1. UNCHANGED <<meta, log, st>>
    BY <1>4 DEF Tick, CancelCheck, CancelPut, vars, workerVars, tableVars
  <2> QED
    BY <2>1, Hidden
<1> QED
  BY <1>2, <1>3, <1>4 DEF Next, WorkerStep

\* The worker implements what readers are promised: the log is closed once,
\* then the row takes the status of the closing line, then nothing changes.
THEOREM ImplementsLifecycle ==
    ASSUME SettlingWorks
    PROVE  Spec => Lifecycle!Spec
<1>1. Init => Lifecycle!Init
  BY DEF Init, Lifecycle!Init, Closing, Positions
<1>2. Bases /\ Bases' /\ [Next]_vars => [Lifecycle!Next]_(Lifecycle!lifecycleVars)
  BY EmitIsClose, FlipIsSettle, OtherIsHidden DEF Lifecycle!lifecycleVars
<1> QED
  BY <1>1, <1>2, BasesInit, BasesStep, PTL DEF Spec, Lifecycle!Spec

-----------------------------------------------------------------------------
(* The calls of a section *)

CallsOf(q) == {q[i] : i \in 1..Len(q)}

\* One call after at most one other.
LEMMA ShortJoins == \A a, b : <<>> \o <<b>> = <<b>> /\ <<a>> \o <<b>> = <<a, b>>
<1>1. ASSUME NEW a, NEW b PROVE <<>> \o <<b>> = <<b>> /\ <<a>> \o <<b>> = <<a, b>>
  BY Tail(<<a, b>>) = <<b>>, ShortConcats, ShortSections
<1> QED
  BY <1>1

\* The calls of the short sections.
LEMMA ShortCalls ==
    /\ CallsOf(<<>>) = {}
    /\ \A a : CallsOf(<<a>>) = {a}
    /\ \A a, b : CallsOf(<<a, b>>) = {a, b}
    /\ \A a, b, c : CallsOf(<<a, b, c>>) = {a, b, c}
<1>1. CallsOf(<<>>) = {}
  BY DEF CallsOf
<1>2. ASSUME NEW a PROVE CallsOf(<<a>>) = {a}
  BY DEF CallsOf
<1>3. ASSUME NEW a, NEW b PROVE CallsOf(<<a, b>>) = {a, b}
  <2>1. Len(<<a, b>>) = 2 /\ <<a, b>>[1] = a /\ <<a, b>>[2] = b
    OBVIOUS
  <2>2. 1..2 = {1, 2}
    OBVIOUS
  <2> QED
    BY <2>1, <2>2 DEF CallsOf
<1>4. ASSUME NEW a, NEW b, NEW c PROVE CallsOf(<<a, b, c>>) = {a, b, c}
  <2>1. Len(<<a, b, c>>) = 3 /\ <<a, b, c>>[1] = a /\ <<a, b, c>>[2] = b /\ <<a, b, c>>[3] = c
    OBVIOUS
  <2>2. 1..3 = {1, 2, 3}
    OBVIOUS
  <2> QED
    BY <2>1, <2>2 DEF CallsOf
<1> QED
  BY <1>1, <1>2, <1>3, <1>4

\* The calls of two sequences, one after the other.
LEMMA JoinedCalls ==
    ASSUME NEW S, NEW t \in Seq(S), NEW M, NEW more \in Seq(M)
    PROVE  CallsOf(more \o t) = CallsOf(more) \cup CallsOf(t)
<1>1. /\ Len(more) \in Nat /\ Len(t) \in Nat /\ Len(more \o t) = Len(more) + Len(t)
      /\ \A i \in 1..Len(more) + Len(t) :
            (more \o t)[i] = IF i <= Len(more) THEN more[i] ELSE t[i - Len(more)]
  <2>1. more \in Seq(M \cup S) /\ t \in Seq(M \cup S)
    OBVIOUS
  <2> QED
    BY <2>1, ConcatProperties
<1> DEFINE n == Len(t)
           m == Len(more)
           w == more \o t
<1>2. n \in Nat /\ m \in Nat
  BY <1>1
<1>3. /\ CallsOf(w) = {w[i] : i \in 1..(m + n)} /\ CallsOf(t) = {t[i] : i \in 1..n}
      /\ CallsOf(more) = {more[i] : i \in 1..m}
      /\ \A i \in 1..(m + n) : w[i] = IF i <= m THEN more[i] ELSE t[i - m]
  BY <1>1 DEF CallsOf
<1> HIDE DEF n, m, w
<1>4. \A i \in 1..(m + n) : i \in 1..m \/ (~(i <= m) /\ i - m \in 1..n)
  BY <1>2
<1>5. \A i \in 1..m : i \in 1..(m + n) /\ i <= m
  BY <1>2
<1>6. \A i \in 1..n : i + m \in 1..(m + n) /\ ~(i + m <= m) /\ (i + m) - m = i
  BY <1>2
<1>7. \A i \in 1..m : w[i] = more[i]
  BY <1>3, <1>5
<1>8. \A i \in 1..n : w[i + m] = t[i]
  BY <1>3, <1>6
<1>9. \A i \in 1..(m + n) : (i \in 1..m /\ w[i] = more[i]) \/ (i - m \in 1..n /\ w[i] = t[i - m])
  BY <1>3, <1>4, <1>5
<1>10. ASSUME NEW c, c \in CallsOf(w) PROVE c \in CallsOf(more) \cup CallsOf(t)
  BY <1>3, <1>9, <1>10
<1>11. ASSUME NEW c, c \in CallsOf(more) \cup CallsOf(t) PROVE c \in CallsOf(w)
  <2>1. CASE c \in CallsOf(more)
    <3>1. PICK i \in 1..m : c = more[i]
      BY <1>3, <2>1
    <3> QED
      BY <1>3, <1>5, <1>7, <3>1
  <2>2. CASE c \in CallsOf(t)
    <3>1. PICK i \in 1..n : c = t[i]
      BY <1>3, <2>2
    <3>2. i + m \in 1..(m + n) /\ w[i + m] = c
      BY <1>6, <1>8, <3>1
    <3> QED
      BY <1>3, <3>2
  <2> QED
    BY <1>11, <2>1, <2>2
<1> QED
  BY <1>10, <1>11 DEF w

\* The calls of what is left of a section, with what is put before it.
LEMMA ConcatCalls ==
    ASSUME NEW S, NEW q \in Seq(S), q # <<>>, NEW M, NEW more \in Seq(M)
    PROVE  /\ CallsOf(more \o Tail(q)) = CallsOf(more) \cup CallsOf(Tail(q))
           /\ CallsOf(q) = {Head(q)} \cup CallsOf(Tail(q))
<1> DEFINE t == Tail(q)
<1>1. /\ t \in Seq(S) /\ Len(t) = Len(q) - 1 /\ Len(q) \in Nat /\ Len(q) >= 1 /\ Head(q) = q[1]
      /\ \A i \in 1..Len(t) : t[i] = q[i + 1]
  OBVIOUS
<1>2. CallsOf(q) = {Head(q)} \cup CallsOf(t)
  <2> DEFINE n == Len(q)
  <2>1. n \in Nat /\ n >= 1 /\ Len(t) = n - 1
    BY <1>1
  <2> HIDE DEF n, t
  <2>2. \A i \in 1..n : i = 1 \/ i - 1 \in 1..(n - 1)
    BY <2>1
  <2>3. \A i \in 1..(n - 1) : i + 1 \in 1..n
    BY <2>1
  <2>4. 1 \in 1..n
    BY <2>1
  <2>5. \A i \in 1..n : i = 1 \/ q[i] = t[i - 1]
    BY <1>1, <2>1, <2>2
  <2>6. CallsOf(q) = {q[i] : i \in 1..n} /\ CallsOf(t) = {t[i] : i \in 1..(n - 1)}
    BY <2>1 DEF CallsOf, n
  <2>7. q[1] = Head(q)
    BY <1>1
  <2>8. ASSUME NEW c, c \in CallsOf(q) PROVE c \in {Head(q)} \cup CallsOf(t)
    BY <2>2, <2>5, <2>6, <2>7, <2>8
  <2>9. \A i \in 1..(n - 1) : t[i] = q[i + 1]
    BY <1>1, <2>1
  <2>10. CallsOf(t) \subseteq CallsOf(q)
    BY <2>3, <2>6, <2>9
  <2>11. Head(q) \in CallsOf(q)
    BY <2>4, <2>6, <2>7
  <2> QED
    BY <2>8, <2>10, <2>11
<1> QED
  BY <1>1, <1>2, JoinedCalls

\* What a call may put before the rest of its section.
Expansion(more, o) ==
    \/ more \in {<<>>, <<Finalize>>, <<Flip>>}
    \/ \E s \in {"none"} \cup TerminalStatus : more = <<Emit(EvalComplete(s)), Flip>>
    \/ o.op = "settle" /\ more = <<Save(o.status, o.error, o.ids), Finalize>>

\* A call raises, or is replaced by what it expands to.
LEMMA CallEffect ==
    ASSUME CauseInv, StoreCall
    PROVE  /\ todo # <<>>
           /\ \/ Raise /\ Failing(todo')
              \/ /\ UNCHANGED taskVars
                 /\ \E more : /\ Expansion(more, Head(todo)) /\ todo' = more \o Tail(todo)
                              /\ Head(todo).op \in {"save", "run"} => more = <<>>
                              /\ Head(todo).op = "emit" => more \in {<<>>, <<Finalize>>}
<1> DEFINE Ends == \E more : /\ Expansion(more, Head(todo)) /\ Proceed(more)
                             /\ Head(todo).op \in {"save", "run"} => more = <<>>
                             /\ Head(todo).op = "emit" => more \in {<<>>, <<Finalize>>}
<1>1. todo # <<>>
  BY DEF StoreCall, SaveEvaluation, EmitEvent, FinalizeEvaluation, FlipStatus, SettleEvaluation,
         SaveRunItem, Calling
<1>2. \A more : more \in {<<>>, <<Finalize>>, <<Flip>>} => Expansion(more, Head(todo))
  BY DEF Expansion
<1>3. CASE SaveEvaluation
  <2>1. Raise \/ Proceed(<<>>)
    BY <1>3 DEF SaveEvaluation
  <2>2. Head(todo).op = "save"
    BY <1>3 DEF SaveEvaluation, Calling
  <2> QED
    BY <1>1, <1>2, <2>1, <2>2, RaiseEffect DEF Proceed
<1>4. CASE EmitEvent
  <2>1. Raise \/ \E more \in {<<>>, <<Finalize>>} : Proceed(more)
    BY <1>4 DEF EmitEvent
  <2>2. Head(todo).op = "emit"
    BY <1>4 DEF EmitEvent, Calling
  <2> QED
    BY <1>1, <1>2, <2>1, <2>2, RaiseEffect DEF Proceed
<1>5. CASE FinalizeEvaluation
  <2>1. \E more : Proceed(more) /\ Expansion(more, Head(todo))
    <3>1. st.pending.status \in {"none"} \cup TerminalStatus
      BY DEF CauseInv, StoreTypes
    <3>2. Expansion(FinalizeCalls, Head(todo))
      BY <3>1 DEF FinalizeCalls, Expansion
    <3> QED
      BY <1>2, <1>5, <3>2 DEF FinalizeEvaluation
  <2>2. Head(todo).op = "finalize"
    BY <1>5 DEF FinalizeEvaluation, Calling
  <2> QED
    BY <1>1, <2>1, <2>2 DEF Proceed
<1>6. CASE FlipStatus
  <2>1. Raise \/ Proceed(<<>>)
    BY <1>6 DEF FlipStatus
  <2>2. Head(todo).op = "flip"
    BY <1>6 DEF FlipStatus, Calling
  <2> QED
    BY <1>1, <1>2, <2>1, <2>2, RaiseEffect DEF Proceed
<1>7. CASE SettleEvaluation
  <2>1. Head(todo).op = "settle"
    BY <1>7 DEF SettleEvaluation, Calling
  <2>2. \E more : Proceed(more) /\ Expansion(more, Head(todo))
    BY <1>7, <2>1 DEF SettleEvaluation, Complete, Expansion
  <2> QED
    BY <1>1, <2>1, <2>2 DEF Proceed
<1>8. CASE SaveRunItem
  <2>1. Raise \/ Proceed(<<>>)
    BY <1>8 DEF SaveRunItem, PutRun, LookupFails
  <2>2. Head(todo).op = "run"
    BY <1>8 DEF SaveRunItem, Calling
  <2> QED
    BY <1>1, <1>2, <2>1, <2>2, RaiseEffect DEF Proceed
<1> QED
  BY <1>3, <1>4, <1>5, <1>6, <1>7, <1>8 DEF StoreCall

\* A call that was not due before a store call settles the row.
Settles(c, o) ==
    \/ c \in {Finalize, Flip, Save("error", "internal", NotGiven),
              Settle("error", "internal", NotGiven)}
    \/ \E s \in {"none"} \cup TerminalStatus : c = Emit(EvalComplete(s))
    \/ o.op = "settle" /\ c = Save(o.status, o.error, o.ids)

\* The calls left after a call are left of its section, or settle the row.
LEMMA CallsOnward ==
    ASSUME CauseInv, StoreCall
    PROVE  /\ todo # <<>> /\ CallsOf(todo) = {Head(todo)} \cup CallsOf(Tail(todo))
           /\ \A c \in CallsOf(todo') : c \in CallsOf(Tail(todo)) \/ Settles(c, Head(todo))
<1>1. PICK S : todo \in Seq(S)
  BY SectionIsSeq DEF CauseInv
<1>2. todo # <<>>
  BY CallEffect
<1>3. <<>> \in Seq({1})
  OBVIOUS
<1>4. CallsOf(todo) = {Head(todo)} \cup CallsOf(Tail(todo))
  BY <1>1, <1>2, <1>3, ConcatCalls
<1>5. CASE Failing(todo')
  BY <1>2, <1>4, <1>5, ShortCalls DEF Failing, Settles, TerminalStatus
<1>6. ASSUME NEW more, Expansion(more, Head(todo)), todo' = more \o Tail(todo)
      PROVE  \A c \in CallsOf(todo') : c \in CallsOf(Tail(todo)) \/ Settles(c, Head(todo))
  <2>1. (\E M : more \in Seq(M)) /\ \A c \in CallsOf(more) : Settles(c, Head(todo))
    <3>1. CASE more \in {<<>>, <<Finalize>>, <<Flip>>}
      <4>1. \A a, b : <<>> \in Seq({a, b}) /\ <<a>> \in Seq({a, b}) /\ <<b>> \in Seq({a, b})
        OBVIOUS
      <4>2. more \in Seq({Finalize, Flip})
        BY <3>1, <4>1
      <4> QED
        BY <3>1, <4>2, ShortCalls DEF Settles
    <3>2. ASSUME NEW s \in {"none"} \cup TerminalStatus, more = <<Emit(EvalComplete(s)), Flip>>
          PROVE  (\E M : more \in Seq(M)) /\ \A c \in CallsOf(more) : Settles(c, Head(todo))
      <4>1. more \in Seq({Emit(EvalComplete(s)), Flip})
        BY <3>2
      <4> QED
        BY <3>2, <4>1, ShortCalls DEF Settles
    <3>3. CASE Head(todo).op = "settle"
               /\ more = <<Save(Head(todo).status, Head(todo).error, Head(todo).ids), Finalize>>
      <4> DEFINE c == Save(Head(todo).status, Head(todo).error, Head(todo).ids)
      <4>1. more \in Seq({c, Finalize})
        BY <3>3
      <4> QED
        BY <3>3, <4>1, ShortCalls DEF Settles
    <3> QED
      BY <1>6, <3>1, <3>2, <3>3 DEF Expansion
  <2>2. PICK M : more \in Seq(M)
    BY <2>1
  <2>3. CallsOf(todo') = CallsOf(more) \cup CallsOf(Tail(todo))
    BY <1>1, <1>2, <1>6, <2>2, ConcatCalls
  <2> QED
    BY <2>1, <2>3
<1> QED
  BY <1>2, <1>4, <1>5, <1>6, CallEffect

-----------------------------------------------------------------------------
(* The sections that tell of runs *)

TellsRun(c) == c.op = "emit" /\ c.event.type \in {"run_started", "run_completed", "run_failed"}
Starts(c) == c.op = "emit" /\ c.event.type = "run_started"
EndsRun(c) == c.op = "emit" /\ c.event.type \in {"run_completed", "run_failed"}
BeginsGrading(c) == c.op = "emit" /\ c.event.type = "grading_started"

Mute(q) == \A c \in CallsOf(q) : ~TellsRun(c)

StartLine(r) == Event("run_started", r, "none")
EndLine(type, r) == Event(type, r, "none")
Ends == {"run_completed", "run_failed"}

\* A section tells of no run, or it is a child's, or it tells of stored runs.
RunSection(q) ==
    \/ Mute(q)
    \/ \E r \in Runs : q = <<Emit(StartLine(r))>>
    \/ \E r \in Runs, t \in Ends :
          q \in {<<Emit(EndLine(t, r))>>, <<SaveRun(r), Emit(EndLine(t, r))>>}
    \/ kind = "grade" /\ \A c \in CallsOf(q) : ~Starts(c)

\* The calls that tell of no run.
LEMMA MuteCalls ==
    /\ \A s, e, ids : /\ ~TellsRun(Save(s, e, ids)) /\ ~TellsRun(Settle(s, e, ids))
                      /\ ~BeginsGrading(Save(s, e, ids)) /\ ~BeginsGrading(Settle(s, e, ids))
    /\ \A s : ~TellsRun(Emit(EvalComplete(s))) /\ ~BeginsGrading(Emit(EvalComplete(s)))
    /\ ~TellsRun(Finalize) /\ ~TellsRun(Flip) /\ ~TellsRun(Emit(GradingCompleted))
    /\ ~BeginsGrading(Finalize) /\ ~BeginsGrading(Flip) /\ ~BeginsGrading(Emit(GradingCompleted))
    /\ \A r : ~TellsRun(SaveRun(r)) /\ ~BeginsGrading(SaveRun(r))
    /\ \A c, o : Settles(c, o) => ~TellsRun(c) /\ ~BeginsGrading(c)
    /\ \A c : TellsRun(c) <=> Starts(c) \/ EndsRun(c)
<1>1. /\ \A s, e, ids : /\ ~TellsRun(Save(s, e, ids)) /\ ~TellsRun(Settle(s, e, ids))
                        /\ ~BeginsGrading(Save(s, e, ids)) /\ ~BeginsGrading(Settle(s, e, ids))
      /\ \A s : ~TellsRun(Emit(EvalComplete(s))) /\ ~BeginsGrading(Emit(EvalComplete(s)))
      /\ ~TellsRun(Finalize) /\ ~TellsRun(Flip) /\ ~TellsRun(Emit(GradingCompleted))
      /\ ~BeginsGrading(Finalize) /\ ~BeginsGrading(Flip) /\ ~BeginsGrading(Emit(GradingCompleted))
      /\ \A r : ~TellsRun(SaveRun(r)) /\ ~BeginsGrading(SaveRun(r))
  BY DEF TellsRun, BeginsGrading, Save, Settle, Emit, EvalComplete, Event, Finalize, Flip,
         GradingCompleted, SaveRun
<1>2. \A c, o : Settles(c, o) => ~TellsRun(c) /\ ~BeginsGrading(c)
  BY <1>1 DEF Settles
<1> QED
  BY <1>1, <1>2 DEF Starts, EndsRun, TellsRun

\* A start is announced in a section of its own.
LEMMA StartIsAlone ==
    ASSUME NEW q, RunSection(q), \E c \in CallsOf(q) : Starts(c)
    PROVE  \E r \in Runs : q = <<Emit(StartLine(r))>>
<1>1. PICK c \in CallsOf(q) : Starts(c)
  OBVIOUS
<1>2. ~Mute(q)
  BY <1>1, MuteCalls DEF Mute
<1>3. ASSUME NEW r \in Runs, NEW t \in Ends,
             q \in {<<Emit(EndLine(t, r))>>, <<SaveRun(r), Emit(EndLine(t, r))>>}
      PROVE  FALSE
  <2>1. c = SaveRun(r) \/ c = Emit(EndLine(t, r))
    BY <1>1, <1>3, ShortCalls
  <2> QED
    BY <1>1, <2>1 DEF Starts, SaveRun, Emit, EndLine, Event, Ends
<1> QED
  BY <1>1, <1>2, <1>3 DEF RunSection

\* A line keeps the type and the run of the event it is given.
LEMMA LineKeepsType ==
    ASSUME CauseInv, Calling("emit")
    PROVE  /\ LineOf(Head(todo).event).type = Head(todo).event.type
           /\ Head(todo).event.type # "eval_complete" => LineOf(Head(todo).event) = Head(todo).event
<1>1. \/ Head(todo).event.type # "eval_complete"
      \/ \E s : Head(todo).event = EvalComplete(s)
  BY AtEmit DEF CauseInv, PlainEvents, GradingCompleted, Event
<1> QED
  BY <1>1 DEF LineOf, EvalComplete, Event

\* A store call leaves no more to tell of runs than there was.
LEMMA CallsTellLess ==
    ASSUME CauseInv, RunSection(todo), StoreCall, kind' = kind
    PROVE  /\ RunSection(todo)'
           /\ Mute(todo) => Mute(todo')
           /\ (\E c \in CallsOf(todo) : Starts(c)) => Mute(todo')
           /\ \A c \in CallsOf(todo') : TellsRun(c) \/ BeginsGrading(c) => c \in CallsOf(Tail(todo))
<1>1. /\ todo # <<>> /\ CallsOf(todo) = {Head(todo)} \cup CallsOf(Tail(todo))
      /\ \A c \in CallsOf(todo') : c \in CallsOf(Tail(todo)) \/ Settles(c, Head(todo))
  BY CallsOnward
<1>2. \A c \in CallsOf(todo') : TellsRun(c) \/ BeginsGrading(c) => c \in CallsOf(Tail(todo))
  BY <1>1, MuteCalls
<1>3. Mute(todo) => Mute(todo')
  BY <1>1, <1>2 DEF Mute
<1>4. ASSUME NEW r \in Runs, todo = <<Emit(StartLine(r))>> \/ \E t \in Ends : todo = <<Emit(EndLine(t, r))>>
      PROVE  Mute(todo')
  <2>1. PICK c : todo = <<c>>
    BY <1>4
  <2>2. CallsOf(Tail(todo)) = {}
    <3>1. Tail(<<c>>) = <<>>
      OBVIOUS
    <3> QED
      BY <2>1, <3>1, ShortCalls
  <2> QED
    BY <1>2, <2>2 DEF Mute
<1>5. ASSUME NEW r \in Runs, NEW t \in Ends, todo = <<SaveRun(r), Emit(EndLine(t, r))>>
      PROVE  Mute(todo') \/ todo' = <<Emit(EndLine(t, r))>>
  <2>1. Head(todo) = SaveRun(r) /\ <<>> \o Tail(todo) = <<Emit(EndLine(t, r))>>
    BY <1>5, ShortSections
  <2>2. Head(todo).op = "run"
    BY <2>1 DEF SaveRun
  <2>3. CASE Failing(todo')
    BY <2>3, ShortCalls, MuteCalls DEF Failing, Mute
  <2>4. CASE todo' = <<>> \o Tail(todo)
    BY <2>1, <2>4
  <2> QED
    BY <2>2, <2>3, <2>4, CallEffect
<1>6. (\A c \in CallsOf(todo) : ~Starts(c)) => \A c \in CallsOf(todo') : ~Starts(c)
  BY <1>1, <1>2, MuteCalls
<1>7. RunSection(todo)'
  BY <1>3, <1>4, <1>5, <1>6 DEF RunSection
<1>8. (\E c \in CallsOf(todo) : Starts(c)) => Mute(todo')
  BY <1>4, StartIsAlone
<1> QED
  BY <1>2, <1>3, <1>7, <1>8

\* The sections that a step of the scheduler starts.
LEMMA SchedulerSections ==
    ASSUME CauseInv, ExecStep \/ EngineStep \/ Kill
    PROVE  /\ RunSection(todo')
           /\ Mute(todo') \/ EngineStart \/ \E r \in Runs : ChildStart(r) \/ ChildFinish(r)
           /\ \A c \in CallsOf(todo') : BeginsGrading(c) => BeforeGrading /\ engine' = "judging"
           /\ \A c \in CallsOf(todo') : Starts(c) => 
                 \E r \in Runs : ChildStart(r) /\ Poll(FALSE) /\ todo' = <<Emit(StartLine(r))>>
           /\ \A c \in CallsOf(todo') : EndsRun(c) =>
                 (kind = "grade" /\ EngineStart) \/ \E r \in Runs : ChildFinish(r) /\ c.event.run = r
<1> USE DEF RunSection
<1>1. CASE EngineStart
  <2> DEFINE opening == <<Save("running", "none", NotGiven), Emit(Event("eval_start", 0, "none"))>>
  <2>1. \A c \in CallsOf(opening) : ~TellsRun(c) /\ ~BeginsGrading(c)
    <3>1. LET e == Emit(Event("eval_start", 0, "none")) IN ~TellsRun(e) /\ ~BeginsGrading(e)
      BY DEF TellsRun, BeginsGrading, Emit, Event
    <3> QED
      BY <3>1, ShortCalls, MuteCalls
  <2>2. CASE todo' = opening
    BY <1>1, <2>1, <2>2, MuteCalls DEF Mute
  <2>3. CASE kind = "grade" /\ todo' = opening \o LoadedCalls(good')
    <3> DEFINE loaded == LoadedCalls(good')
               L == {loaded[r] : r \in Runs}
    <3>1. \A r \in Runs : ~Starts(loaded[r]) /\ ~BeginsGrading(loaded[r])
      BY DEF LoadedCalls, Starts, BeginsGrading, Emit, Event
    <3>2. loaded \in [1..NRuns -> L] /\ NRuns \in Nat
      BY WorkerAssumption DEF LoadedCalls, Runs
    <3>3. opening \in Seq({opening[1], opening[2]})
      OBVIOUS
    <3> HIDE DEF loaded, opening
    <3>4. loaded \in Seq(L) /\ Len(loaded) = NRuns
      BY <3>2
    <3>5. \A c \in CallsOf(loaded) : ~Starts(c) /\ ~BeginsGrading(c)
      BY <3>1, <3>4 DEF CallsOf, Runs
    <3>6. CallsOf(todo') = CallsOf(opening) \cup CallsOf(loaded)
      BY <2>3, <3>3, <3>4, JoinedCalls DEF loaded
    <3> QED
      BY <1>1, <2>1, <2>3, <3>5, <3>6, MuteCalls
  <2> QED
    BY <1>1, <2>2, <2>3 DEF EngineStart, Begin
<1>2. ASSUME NEW r \in Runs, ChildStart(r)
      PROVE  /\ todo' = <<>> \/ (Poll(FALSE) /\ todo' = <<Emit(StartLine(r))>>)
             /\ RunSection(todo') /\ \A c \in CallsOf(todo') : ~BeginsGrading(c) /\ ~EndsRun(c)
  <2>1. todo' = <<>> \/ (Poll(FALSE) /\ todo' = <<Emit(StartLine(r))>>)
    BY <1>2 DEF ChildStart, Begin, Scheduled, Idle, StartLine
  <2>2. ~BeginsGrading(Emit(StartLine(r)))
    BY DEF BeginsGrading, Emit, StartLine, Event
  <2>3. CASE todo' = <<>>
    BY <2>3, ShortCalls DEF Mute
  <2>4. CASE Poll(FALSE) /\ todo' = <<Emit(StartLine(r))>>
    <3>1. RunSection(todo')
      BY <2>4
    <3>2. \A c \in CallsOf(todo') : c = Emit(StartLine(r))
      BY <2>4, ShortCalls
    <3>3. ~EndsRun(Emit(StartLine(r)))
      BY DEF EndsRun, Emit, StartLine, Event
    <3> QED
      BY <2>2, <2>4, <3>1, <3>2, <3>3
  <2> QED
    BY <2>1, <2>3, <2>4
<1>3. ASSUME NEW r \in Runs, ChildFinish(r)
      PROVE  /\ RunSection(todo') /\ \A c \in CallsOf(todo') : ~BeginsGrading(c) /\ ~Starts(c)
             /\ \A c \in CallsOf(todo') : EndsRun(c) => c.event.run = r
  <2>1. \/ todo' = <<>>
        \/ \E t \in Ends : todo' \in {<<Emit(EndLine(t, r))>>, <<SaveRun(r), Emit(EndLine(t, r))>>}
    <3>1. \A a, b : <<>> \o <<b>> = <<b>> /\ <<a>> \o <<b>> = <<a, b>>
      BY ShortJoins
    <3>2. \/ todo' = <<>>
          \/ \E ok, recorded \in BOOLEAN : todo' = PublishCalls(r, ok, recorded)
      BY <1>3 DEF ChildFinish, Begin, Scheduled, Idle
    <3> QED
      BY <3>1, <3>2 DEF PublishCalls, EndLine, Ends
  <2>2. \A t \in Ends : ~BeginsGrading(Emit(EndLine(t, r))) /\ ~Starts(Emit(EndLine(t, r)))
    BY DEF BeginsGrading, Starts, Emit, EndLine, Event, Ends
  <2>3. RunSection(todo')
    BY <2>1, ShortCalls DEF Mute
  <2>4. \A c \in CallsOf(todo') : c = SaveRun(r) \/ \E t \in Ends : c = Emit(EndLine(t, r))
    BY <2>1, ShortCalls
  <2>5. \A t \in Ends : Emit(EndLine(t, r)).event.run = r
    BY DEF Emit, EndLine, Event
  <2> QED
    BY <2>2, <2>3, <2>4, <2>5, MuteCalls
<1>4. CASE ExecStep \/ Kill \/ EngineUnavailable \/ BatchRaises \/ BatchDone \/ Graded
           \/ (BeforeGrading /\ engine' # "judging")
  <2>1. \/ todo' = <<>>
        \/ \E ids : todo' = <<Save("none", "none", ids)>>
        \/ \E s, e, ids :
              todo' \in {<<Save(s, e, ids), Emit(EvalComplete(s))>>, <<Save(s, e, ids), Finalize>>,
                         <<Settle(s, e, ids)>>,
                         <<Emit(GradingCompleted), Save(s, e, ids), Emit(EvalComplete(s))>>}
    <3>1. CASE ExecStart \/ HardStop
      BY <3>1 DEF ExecStart, HardStop, Begin, Idle, Complete, CauseInv, StartsUnsettled
    <3>2. CASE AfterHardStop \/ AfterEngine \/ AfterEngineRaised
      BY <3>2 DEF AfterHardStop, AfterEngine, AfterEngineRaised, Begin
    <3>3. CASE ExecReturn \/ Kill \/ EngineUnavailable \/ BatchDone
      BY <3>3 DEF ExecReturn, Kill, EngineUnavailable, BatchDone, Begin, Idle
    <3>4. CASE BatchRaises \/ (BeforeGrading /\ engine' # "judging")
      BY <3>4 DEF BatchRaises, EngineExcept, BeforeGrading, Begin
    <3>5. CASE Graded
      BY <3>5 DEF Graded, Begin, GradingCompleted
    <3> QED
      BY <1>4, <3>1, <3>2, <3>3, <3>4, <3>5 DEF ExecStep
  <2>2. \A c \in CallsOf(todo') : ~TellsRun(c) /\ ~BeginsGrading(c)
    BY <2>1, ShortCalls, MuteCalls
  <2> QED
    BY <2>2, MuteCalls DEF Mute
<1>5. CASE BeforeGrading /\ engine' = "judging"
  <2>1. todo' = <<Emit(Event("grading_started", 0, "none"))>>
    BY <1>5 DEF BeforeGrading, Begin
  <2>2. ~TellsRun(Emit(Event("grading_started", 0, "none")))
    BY DEF TellsRun, Emit, Event
  <2>3. \A c \in CallsOf(todo') : ~TellsRun(c)
    BY <2>1, <2>2, ShortCalls
  <2>4. \A c \in CallsOf(todo') : ~Starts(c) /\ ~EndsRun(c)
    BY <2>3, MuteCalls
  <2> QED
    BY <1>5, <2>3, <2>4 DEF Mute
<1> QED
  <2>1. CASE \E r \in Runs : ChildStart(r)
    <3>1. PICK r \in Runs : ChildStart(r)
      BY <2>1
    <3> QED
      BY <1>2, <3>1, ShortCalls
  <2>2. CASE \E r \in Runs : ChildFinish(r)
    BY <1>3, <2>2
  <2> QED
    BY <1>1, <1>4, <1>5, <2>1, <2>2 DEF EngineStep

-----------------------------------------------------------------------------
(* Few runs start after a cancel *)

\* While the announcement of a start is due there is still room for it.
LateInv ==
    /\ RunSection(todo)
    /\ late \in SUBSET Runs /\ faults \in Nat
    /\ late # {} => cancelFlag
    /\ Cardinality(late) <= 1 + faults
    /\ (\E c \in CallsOf(todo) : Starts(c)) => Cardinality(late) <= faults

\* Sets of runs are finite.
LEMMA LateIsFinite ==
    ASSUME NEW S \in SUBSET Runs
    PROVE  IsFiniteSet(S) /\ Cardinality(S) \in Nat
<1>1. IsFiniteSet(Runs)
  BY FS_Interval, WorkerAssumption DEF Runs
<1> QED
  BY <1>1, FS_Subset, FS_CardinalityType

\* A failed call is counted.
LEMMA FaultsGrow ==
    ASSUME CauseInv, faults \in Nat, [Next]_vars
    PROVE  faults' \in {faults, faults + 1}
<1>1. CASE StoreCall
  BY <1>1 DEF StoreCall, SaveEvaluation, EmitEvent, FinalizeEvaluation, FlipStatus, SettleEvaluation,
     SaveRunItem, PutRun, LookupFails, Fault
<1>2. CASE ExecStep \/ Kill
  BY <1>2 DEF ExecStep, ExecStart, HardStop, AfterHardStop, AfterEngine, AfterEngineRaised,
     ExecReturn, Kill, CancelRequested, Fault
<1>3. CASE EngineStep
  BY <1>3 DEF EngineStep, EngineStart, EngineUnavailable, BatchRaises, BatchDone, BeforeGrading,
     Graded, ChildStart, ChildFinish, Poll, CancelRequested, Fault
<1>4. CASE Tick \/ CancelCheck \/ CancelPut \/ UNCHANGED vars
  BY <1>4 DEF Tick, CancelCheck, CancelPut, vars, workerVars
<1> QED
  BY <1>1, <1>2, <1>3, <1>4 DEF Next, WorkerStep

\* A line that announces a start fills the room that was left for it.
LEMMA CallsKeepLate ==
    ASSUME CauseInv, LateInv, StoreCall, [Next]_vars
    PROVE  LateInv'
<1>1. UNCHANGED <<kind, cancelFlag>>
  BY DEF StoreCall, SaveEvaluation, EmitEvent, FinalizeEvaluation, FlipStatus, SettleEvaluation,
     SaveRunItem, userVars
<1>2. faults' \in {faults, faults + 1}
  BY FaultsGrow DEF LateInv
<1>3. /\ RunSection(todo)'
      /\ (\E c \in CallsOf(todo) : Starts(c)) => Mute(todo')
      /\ \A c \in CallsOf(todo') : TellsRun(c) => c \in CallsOf(Tail(todo))
  BY <1>1, CallsTellLess DEF LateInv
<1>4. CallsOf(todo) = {Head(todo)} \cup CallsOf(Tail(todo))
  BY CallsOnward
<1>5. (\E c \in CallsOf(todo') : Starts(c)) => \E c \in CallsOf(todo) : Starts(c)
  BY <1>3, <1>4, MuteCalls
<1>6. Cardinality(late) \in Nat /\ IsFiniteSet(late)
  BY LateIsFinite DEF LateInv
<1>7. CASE late' = late
  BY <1>1, <1>2, <1>3, <1>5, <1>6, <1>7 DEF LateInv
<1>8. CASE EmitEvent /\ late' # late
  <2> DEFINE event == LineOf(Head(todo).event)
  <2>1. /\ Calling("emit") /\ cancelFlag /\ event.type = "run_started"
        /\ late' = late \cup {event.run}
    BY <1>8 DEF EmitEvent, LineOf
  <2>2. Head(todo).event.type = "run_started" /\ event = Head(todo).event
    BY <2>1, LineKeepsType
  <2>3. Head(todo) \in CallsOf(todo) /\ Starts(Head(todo))
    BY <1>4, <2>1, <2>2 DEF Starts, Calling
  <2>4. PICK r \in Runs : todo = <<Emit(StartLine(r))>>
    BY <2>3, StartIsAlone DEF LateInv
  <2>5. event.run = r
    BY <2>2, <2>4, ShortSections DEF Emit, StartLine, Event
  <2>6. Cardinality(late) <= faults
    BY <2>3 DEF LateInv
  <2>7. Cardinality(late') \in Nat /\ Cardinality(late') <= Cardinality(late) + 1
    <3>1. late' = late \cup {r}
      BY <2>1, <2>5
    <3>2. Cardinality(late \cup {r}) \in {Cardinality(late), Cardinality(late) + 1}
      BY <1>6, FS_AddElement
    <3> QED
      BY <1>6, <3>1, <3>2
  <2>8. Cardinality(late') <= 1 + faults'
    BY <1>2, <1>6, <2>6, <2>7 DEF LateInv
  <2>9. ~\E c \in CallsOf(todo') : Starts(c)
    BY <1>3, <2>3, MuteCalls DEF Mute
  <2>10. late' \in SUBSET Runs
    BY <2>1, <2>5 DEF LateInv
  <2>11. faults' \in Nat
    BY <1>2 DEF LateInv
  <2> HIDE DEF event
  <2> QED
    BY <1>1, <1>3, <2>1, <2>8, <2>9, <2>10, <2>11 DEF LateInv
<1> QED
  BY <1>7, <1>8 DEF StoreCall, SaveEvaluation, FinalizeEvaluation, FlipStatus, SettleEvaluation,
     SaveRunItem

\* A poll that lets a run start saw no flag, or failed to read it.
LEMMA SchedulerKeepsLate ==
    ASSUME CauseInv, LateInv, ExecStep \/ EngineStep \/ Kill
    PROVE  LateInv'
<1>1. UNCHANGED <<kind, cancelFlag, late>>
  BY DEF ExecStep, ExecStart, HardStop, AfterHardStop, AfterEngine, AfterEngineRaised, ExecReturn,
     Kill, EngineStep, EngineStart, EngineUnavailable, BatchRaises, BatchDone, BeforeGrading, Graded,
     ChildStart, ChildFinish, userVars
<1>2. faults' \in {faults, faults + 1}
  BY FaultsGrow DEF LateInv, Next, WorkerStep
<1>3. /\ RunSection(todo)'
      /\ (\E c \in CallsOf(todo') : Starts(c)) => Poll(FALSE)
  BY <1>1, SchedulerSections DEF RunSection
<1>4. Poll(FALSE) => late = {} \/ faults' = faults + 1
  <2>1. Poll(FALSE) => CancelRequested(FALSE)
    BY DEF Poll
  <2>2. CancelRequested(FALSE) => ~cancelFlag \/ faults' = faults + 1
    BY DEF CancelRequested, Fault, CauseInv, RowTypes, StoreTypes
  <2> QED
    BY <2>1, <2>2 DEF LateInv
<1>5. Cardinality(late) \in Nat /\ Cardinality({}) = 0
  BY LateIsFinite, FS_EmptySet DEF LateInv
<1>6. Cardinality(late) <= 1 + faults'
  BY <1>2, <1>5 DEF LateInv
<1>7. (\E c \in CallsOf(todo') : Starts(c)) => Cardinality(late) <= faults'
  <2>1. late = {} => Cardinality(late) <= faults'
    BY <1>2, <1>5 DEF LateInv
  <2>2. faults' = faults + 1 => Cardinality(late) <= faults'
    BY DEF LateInv
  <2> QED
    BY <1>3, <1>4, <2>1, <2>2
<1> QED
  BY <1>1, <1>2, <1>3, <1>6, <1>7 DEF LateInv

\* No run has started late at the start.
LEMMA LateInit == Init => LateInv
  BY ShortCalls, FS_EmptySet DEF Init, LateInv, RunSection, Mute

\* Every step keeps the room that is left.
LEMMA LateStep == CauseInv /\ LateInv /\ [Next]_vars => LateInv'
<1> SUFFICES ASSUME CauseInv, LateInv, [Next]_vars PROVE LateInv'
  OBVIOUS
<1>1. CASE StoreCall
  BY <1>1, CallsKeepLate
<1>2. CASE ExecStep \/ EngineStep \/ Kill
  BY <1>2, SchedulerKeepsLate
<1>3. CASE Tick \/ CancelCheck \/ CancelPut \/ UNCHANGED vars
  <2>1. UNCHANGED <<late, faults, todo, kind>> /\ (cancelFlag => cancelFlag')
    BY <1>3 DEF Tick, CancelCheck, CancelPut, vars, workerVars, userVars
  <2> QED
    BY <2>1 DEF LateInv, RunSection
<1> QED
  BY <1>1, <1>2, <1>3 DEF Next, WorkerStep

\* After the DELETE has put the flag one more run starts at most, and one for
\* every call that failed, whatever the other calls do.
THEOREM FewRunsStartLate == Spec => []FewLateStarts
<1>1. LateInv => FewLateStarts
  BY DEF LateInv, FewLateStarts
<1> QED
  BY <1>1, LateInit, LateStep, CauseHolds, PTL DEF Spec

-----------------------------------------------------------------------------
(* Nothing is announced out of turn *)

WasStarted(r) == \E j \in 1..Len(log) : log[j] = StartLine(r)

\* No line can be put any more.
Over == st.terminal \/ exec = "killed"

\* Nobody is left who would tell of a run.
NoMoreRuns ==
    ~batchFailed /\ engine \notin {"start", "loaded", "batch", "progress"} /\ Mute(todo)

GradingBegun ==
    Positions("grading_started") # {} \/ \E c \in CallsOf(todo) : BeginsGrading(c)

\* The run lines come before the start of grading, and each end after its start.
RunsThenGrading == \A i \in RunLines, g \in Positions("grading_started") : i < g

EndsAfterStarts ==
    \A i \in RunLines : log[i].type # "run_started" =>
        \E j \in 1..(i - 1) : log[j] = StartLine(log[i].run)

\* A repeat that runs has been announced as started, and so has one whose end
\* is announced next.
StartedRepeats ==
    /\ \A r \in Runs : child[r] = "running" =>
          WasStarted(r) \/ todo = <<Emit(StartLine(r))>> \/ Over
    /\ \A c \in CallsOf(todo) : EndsRun(c) => WasStarted(c.event.run) \/ Over

OrderInv ==
    /\ child \in [Runs -> {"unborn", "waiting", "running", "done"}]
    /\ engine \in {"start", "loaded", "progress", "judging"} => ~batchFailed
    /\ GradingBegun => NoMoreRuns
    /\ RunsThenGrading
    /\ kind # "grade" => StartedRepeats /\ EndsAfterStarts

\* What an exception does to the children.
LEMMA RaiseEnds ==
    ASSUME OrderInv, Raise
    PROVE  /\ child' \in [Runs -> {"unborn", "waiting", "running", "done"}]
           /\ \A r \in Runs : child'[r] = "running" => child[r] = "running"
           /\ engine' \in {engine, "done", "raised"} /\ exec' = exec
           /\ batchFailed' \in {batchFailed, batchFailed \/ engine = "batch"}
<1>1. CASE UNCHANGED <<child, batchFailed, exec>> /\ engine' \in {engine, "done", "raised"}
  BY <1>1 DEF OrderInv
<1>2. CASE frame.of = "child" /\ ChildRaises(frame.run) /\ UNCHANGED <<exec, engine>>
  BY <1>2 DEF OrderInv, ChildRaises
<1> QED
  BY <1>1, <1>2 DEF Raise, EngineExcept, taskVars

\* The positions of a type of line, after one more.
LEMMA NewPosition ==
    ASSUME log \in Seq(Events), NEW event, log' = Append(log, event)
    PROVE  /\ Len(log') = Len(log) + 1 /\ Len(log) \in Nat
           /\ \A i \in 1..Len(log) : log'[i] = log[i]
           /\ log'[Len(log) + 1] = event
           /\ \A t : Positions(t)' = Positions(t) \cup
                         (IF event.type = t THEN {Len(log) + 1} ELSE {})
           /\ \A t : Positions(t) \subseteq 1..Len(log)
<1> DEFINE n == Len(log)
<1>1. n \in Nat /\ Len(log') = n + 1 /\ log'[n + 1] = event
      /\ \A i \in 1..n : log'[i] = log[i]
  OBVIOUS
<1>2. ASSUME NEW t
      PROVE  Positions(t)' = Positions(t) \cup (IF event.type = t THEN {n + 1} ELSE {})
  <2>1. Positions(t)' = {i \in 1..(n + 1) : log'[i].type = t}
    BY <1>1 DEF Positions
  <2>2. Positions(t) = {i \in 1..n : log[i].type = t}
    BY DEF Positions
  <2> HIDE DEF n
  <2>3. 1..(n + 1) = 1..n \cup {n + 1}
    BY <1>1
  <2> QED
    BY <1>1, <2>1, <2>2, <2>3
<1>3. \A t : Positions(t) \subseteq 1..n
  BY DEF Positions
<1> QED
  BY <1>1, <1>2, <1>3

\* One more line, in its turn.
LEMMA OneMoreLine ==
    ASSUME log \in Seq(Events), NEW event, log' = Append(log, event),
           event.type \in {"run_started", "run_completed", "run_failed"} =>
               Positions("grading_started") = {},
           RunsThenGrading
    PROVE  /\ RunsThenGrading'
           /\ \A r : WasStarted(r) => WasStarted(r)'
           /\ event = StartLine(event.run) => WasStarted(event.run)'
           /\ /\ EndsAfterStarts
              /\ event.type \in Ends => WasStarted(event.run)
              => EndsAfterStarts'
<1> DEFINE n == Len(log)
           L == RunLines
           G == Positions("grading_started")
<1>1. /\ Len(log') = n + 1 /\ n \in Nat /\ log'[n + 1] = event
      /\ \A i \in 1..n : log'[i] = log[i]
      /\ \A t : Positions(t)' = Positions(t) \cup (IF event.type = t THEN {n + 1} ELSE {})
      /\ \A t : Positions(t) \subseteq 1..n
  BY NewPosition
<1>2. L \subseteq 1..n /\ G \subseteq 1..n
  BY <1>1 DEF RunLines
<1>3. L' = L \cup (IF event.type \in {"run_started", "run_completed", "run_failed"}
                    THEN {n + 1} ELSE {})
  BY <1>1 DEF RunLines
<1>4. G' = G \cup (IF event.type = "grading_started" THEN {n + 1} ELSE {})
  BY <1>1
<1>5. RunsThenGrading'
  <2> SUFFICES ASSUME NEW i \in L', NEW g \in G' PROVE i < g
    BY DEF RunsThenGrading
  <2>0. \A a \in L, b \in G : a < b
    BY DEF RunsThenGrading
  <2> HIDE DEF L, G, n
  <2>1. CASE i \in L /\ g \in G
    BY <2>0, <2>1
  <2>2. CASE i \in L /\ g = n + 1
    BY <1>1, <1>2, <2>2
  <2>3. CASE i \notin L
    <3>1. event.type \in {"run_started", "run_completed", "run_failed"} /\ G = {}
      BY <1>3, <2>3 DEF G
    <3> QED
      BY <1>4, <3>1
  <2> QED
    BY <1>4, <2>1, <2>2, <2>3
<1>6. \A r : WasStarted(r) => WasStarted(r)'
  <2> SUFFICES ASSUME NEW r, WasStarted(r) PROVE WasStarted(r)'
    OBVIOUS
  <2>1. PICK j \in 1..n : log[j] = StartLine(r)
    BY DEF WasStarted
  <2>2. j \in 1..(n + 1)
    BY <1>1
  <2> QED
    BY <1>1, <2>1, <2>2 DEF WasStarted, StartLine, Event
<1>7. event = StartLine(event.run) => WasStarted(event.run)'
  <2>1. n + 1 \in 1..(n + 1)
    BY <1>1
  <2> QED
    BY <1>1, <2>1 DEF WasStarted, StartLine, Event
<1>8. ASSUME EndsAfterStarts, event.type \in Ends => WasStarted(event.run)
      PROVE  EndsAfterStarts'
  <2> SUFFICES ASSUME NEW i \in L', log'[i].type # "run_started"
               PROVE  \E j \in 1..(i - 1) : log'[j] = StartLine(log'[i].run)
    BY DEF EndsAfterStarts, StartLine, Event
  <2>1. CASE i \in L
    <3>1. i \in 1..n /\ log'[i] = log[i]
      BY <1>1, <1>2, <2>1
    <3>2. PICK j \in 1..(i - 1) : log[j] = StartLine(log[i].run)
      BY <1>8, <2>1, <3>1 DEF EndsAfterStarts
    <3>3. j \in 1..n
      BY <1>1, <3>1
    <3> QED
      BY <1>1, <3>1, <3>2, <3>3
  <2>2. CASE i \notin L
    <3>1. i = n + 1 /\ event.type \in {"run_started", "run_completed", "run_failed"}
      BY <1>3, <2>2
    <3>2. log'[i] = event
      BY <1>1, <3>1
    <3>3. WasStarted(event.run)
      BY <1>8, <3>1, <3>2 DEF Ends
    <3>4. PICK j \in 1..n : log[j] = StartLine(event.run)
      BY <3>3 DEF WasStarted
    <3>5. 1..(i - 1) = 1..n
      BY <1>1, <3>1
    <3> QED
      BY <1>1, <3>2, <3>4, <3>5
  <2> QED
    BY <2>1, <2>2
<1> QED
  BY <1>5, <1>6, <1>7, <1>8

\* What a line that is put is of: the call that is due.
LEMMA EmitsInTurn ==
    ASSUME Bases, SettlingWorks, EmitEvent, ~st.terminal,
           NEW event, event = LineOf(Head(todo).event)
    PROVE  /\ log' = Append(log, event) /\ log \in Seq(Events) /\ event \in Events
           /\ Proceed(<<>>) \/ Proceed(<<Finalize>>)
           /\ Head(todo) \in CallsOf(todo)
           /\ event.type # "eval_complete" => event = Head(todo).event
           /\ event.type = "run_started" <=> Starts(Head(todo))
           /\ event.type \in Ends <=> EndsRun(Head(todo))
           /\ event.type = "grading_started" <=> BeginsGrading(Head(todo))
<1>1. /\ Section(todo) /\ StoreTypes /\ log \in Seq(Events) /\ st.seq = Len(log)
      /\ Calling("emit") /\ CauseInv
  BY DEF EmitEvent, Bases, CauseInv, RowTypes, SettleInv
<1>2. event \in Events /\ event.type = Head(todo).event.type
      /\ (event.type # "eval_complete" => event = Head(todo).event)
  BY <1>1, LinesAreEvents, LineKeepsType
<1>3. Head(todo) \in CallsOf(todo)
  BY CallsOnward, <1>1 DEF StoreCall
<1>4. log' = PutEvent(st.seq, event) /\ (Proceed(<<>>) \/ Proceed(<<Finalize>>))
  BY DEF EmitEvent, SettlingWorks, Fault, LineOf
<1>5. log' = Append(log, event)
  BY <1>1, <1>4 DEF PutEvent
<1> QED
  BY <1>1, <1>2, <1>3, <1>4, <1>5 DEF Calling, Starts, EndsRun, BeginsGrading, Ends

\* A store call, and what it leaves of the order.
LEMMA CallsKeepOrder ==
    ASSUME Bases, SettlingWorks, LateInv, OrderInv, StoreCall
    PROVE  OrderInv'
<1>1. CauseInv /\ StoreTypes /\ log \in Seq(Events) /\ UNCHANGED kind
  BY DEF Bases, CauseInv, RowTypes, StoreCall, SaveEvaluation, EmitEvent, FinalizeEvaluation,
     FlipStatus, SettleEvaluation, SaveRunItem, userVars
<1>2. /\ todo # <<>>
      /\ child' \in [Runs -> {"unborn", "waiting", "running", "done"}]
      /\ \A r \in Runs : child'[r] = "running" => child[r] = "running"
      /\ engine' \in {engine, "done", "raised"} /\ exec' = exec
      /\ batchFailed' \in {batchFailed, batchFailed \/ engine = "batch"}
  <2>1. CASE Raise
    BY <1>1, <2>1, RaiseEnds, CallEffect
  <2>2. CASE UNCHANGED taskVars
    BY <1>1, <2>2, CallEffect DEF taskVars, OrderInv
  <2> QED
    BY <1>1, <2>1, <2>2, CallEffect
<1>3. /\ RunSection(todo)'
      /\ Mute(todo) => Mute(todo')
      /\ \A c \in CallsOf(todo') : TellsRun(c) \/ BeginsGrading(c) => c \in CallsOf(Tail(todo))
      /\ CallsOf(todo) = {Head(todo)} \cup CallsOf(Tail(todo))
  BY <1>1, CallsTellLess, CallsOnward DEF LateInv
<1>4. engine' \in {"start", "loaded", "progress", "judging"} => ~batchFailed'
  BY <1>2 DEF OrderInv
<1>5. NoMoreRuns => NoMoreRuns'
  BY <1>2, <1>3 DEF NoMoreRuns
<1>6. st.terminal => st'.terminal
  BY <1>1 DEF StoreCall, SaveEvaluation, EmitEvent, FinalizeEvaluation, FlipStatus, SettleEvaluation,
     SaveRunItem, PutRun, LookupFails, StoreTypes
<1>7. Over => Over'
  BY <1>2, <1>6 DEF Over
<1>8. \A c \in CallsOf(todo') : EndsRun(c) \/ BeginsGrading(c) => c \in CallsOf(todo)
  BY <1>3, MuteCalls
<1>9. ASSUME UNCHANGED log, ~EmitEvent \/ st.terminal
      PROVE  OrderInv'
  <2>1. UNCHANGED <<RunsThenGrading, EndsAfterStarts, Positions("grading_started")>>
    BY <1>9 DEF RunsThenGrading, EndsAfterStarts, RunLines, Positions
  <2>2. \A r : WasStarted(r)' <=> WasStarted(r)
    BY <1>9 DEF WasStarted
  <2>3. GradingBegun' => NoMoreRuns'
    BY <1>5, <1>8, <2>1 DEF OrderInv, GradingBegun
  <2>4. ASSUME NEW r \in Runs, todo = <<Emit(StartLine(r))>>
        PROVE  Over
    <3>1. Head(todo).op = "emit"
      BY <2>4, ShortSections DEF Emit
    <3> QED
      BY <1>9, <3>1 DEF StoreCall, SaveEvaluation, FinalizeEvaluation, FlipStatus, SettleEvaluation,
         SaveRunItem, Calling, Over
  <2>5. kind # "grade" => StartedRepeats'
    BY <1>2, <1>7, <1>8, <2>2, <2>4 DEF OrderInv, StartedRepeats
  <2> QED
    BY <1>1, <1>2, <1>4, <2>1, <2>3, <2>5 DEF OrderInv
<1>10. ASSUME EmitEvent, ~st.terminal
       PROVE  OrderInv'
  <2>1. PICK event :
           /\ log' = Append(log, event) /\ event \in Events
           /\ Head(todo) \in CallsOf(todo)
           /\ event.type # "eval_complete" => event = Head(todo).event
           /\ event.type = "run_started" <=> Starts(Head(todo))
           /\ event.type \in Ends <=> EndsRun(Head(todo))
           /\ event.type = "grading_started" <=> BeginsGrading(Head(todo))
    BY <1>10, EmitsInTurn
  <2>2. event.type \in {"run_started", "run_completed", "run_failed"} =>
            Positions("grading_started") = {}
    <3>1. event.type \in {"run_started", "run_completed", "run_failed"} => TellsRun(Head(todo))
      BY <2>1, MuteCalls DEF Ends
    <3>2. TellsRun(Head(todo)) => ~Mute(todo)
      BY <2>1 DEF Mute
    <3> QED
      BY <3>1, <3>2 DEF OrderInv, GradingBegun, NoMoreRuns
  <2>3. exec # "killed"
    BY <1>2 DEF Bases, LogInv
  <2>4. kind # "grade" /\ event.type \in Ends => WasStarted(event.run)
    BY <1>10, <2>1, <2>3 DEF OrderInv, StartedRepeats, Over, Ends
  <2>5. /\ RunsThenGrading'
        /\ \A r : WasStarted(r) => WasStarted(r)'
        /\ event = StartLine(event.run) => WasStarted(event.run)'
        /\ kind # "grade" => EndsAfterStarts'
    BY <1>1, <2>1, <2>2, <2>4, OneMoreLine DEF OrderInv
  <2>6. GradingBegun' => GradingBegun
    <3>1. Positions("grading_started")' # {} =>
             Positions("grading_started") # {} \/ event.type = "grading_started"
      BY <1>1, <2>1, NewPosition
    <3> QED
      BY <1>8, <2>1, <3>1 DEF GradingBegun
  <2>7. ASSUME NEW r \in Runs, todo = <<Emit(StartLine(r))>>
        PROVE  WasStarted(r)'
    <3>1. Head(todo) = Emit(StartLine(r))
      BY <2>7, ShortSections
    <3>2. Starts(Head(todo)) /\ Head(todo).event = StartLine(r) /\ StartLine(r).run = r
      BY <3>1 DEF Starts, Emit, StartLine, Event
    <3> QED
      BY <2>1, <2>5, <3>2
  <2>8. kind # "grade" => StartedRepeats'
    BY <1>2, <1>7, <1>8, <2>5, <2>7 DEF OrderInv, StartedRepeats
  <2> QED
    BY <1>1, <1>2, <1>4, <1>5, <2>5, <2>6, <2>8 DEF OrderInv
<1>11. ~EmitEvent \/ st.terminal => UNCHANGED log
  BY DEF StoreCall, SaveEvaluation, EmitEvent, FinalizeEvaluation, FlipStatus, SettleEvaluation,
     SaveRunItem, tableVars
<1> QED
  BY <1>9, <1>10, <1>11

\* A step of the scheduler starts no run once grading has begun.
LEMMA SchedulerKeepsOrder ==
    ASSUME Bases, LateInv, OrderInv, ExecStep \/ EngineStep \/ Kill
    PROVE  OrderInv'
<1>1. CauseInv /\ Calm
  BY ExecStartCauses, HardStopCauses, AfterHardStopCauses, AfterEngineCauses,
     AfterEngineRaisedCauses, EndCauses, EngineStartCauses, EngineUnavailableCauses,
     BatchRaisesCauses, BatchDoneCauses, BeforeGradingCauses, GradedCauses, ChildCauses
     DEF ExecStep, EngineStep, Orderly, Bases
<1>2. UNCHANGED <<log, kind>>
  BY DEF ExecStep, ExecStart, HardStop, AfterHardStop, AfterEngine, AfterEngineRaised, ExecReturn,
     Kill, EngineStep, EngineStart, EngineUnavailable, BatchRaises, BatchDone, BeforeGrading, Graded,
     ChildStart, ChildFinish, tableVars, userVars
<1>3. /\ Mute(todo') \/ EngineStart \/ \E r \in Runs : ChildStart(r) \/ ChildFinish(r)
      /\ \A c \in CallsOf(todo') : BeginsGrading(c) => BeforeGrading /\ engine' = "judging"
      /\ \A c \in CallsOf(todo') : EndsRun(c) =>
             (kind = "grade" /\ EngineStart) \/ \E r \in Runs : ChildFinish(r) /\ c.event.run = r
  BY <1>1, SchedulerSections
<1>4. /\ Kill \/ (todo = <<>> /\ exec # "killed")
      /\ Kill => exec' = "killed"
  BY <1>1 DEF ExecStep, ExecStart, HardStop, AfterHardStop, AfterEngine, AfterEngineRaised, ExecReturn,
     Kill, EngineStep, EngineStart, EngineUnavailable, BatchRaises, BatchDone, BeforeGrading, Graded,
     ChildStart, ChildFinish, Idle, Running, Scheduled, CauseInv, StartsUnsettled
<1>5. child' \in [Runs -> {"unborn", "waiting", "running", "done"}]
  BY DEF OrderInv, ExecStep, ExecStart, HardStop, AfterHardStop, AfterEngine, AfterEngineRaised,
     ExecReturn, Kill, EngineStep, EngineStart, EngineUnavailable, BatchRaises, BatchDone,
     BeforeGrading, Graded, ChildStart, ChildFinish, ChildRaises
<1>6. engine' \in {"start", "loaded", "progress", "judging"} => ~batchFailed'
  BY DEF OrderInv, ExecStep, ExecStart, HardStop, AfterHardStop, AfterEngine, AfterEngineRaised,
     ExecReturn, Kill, EngineStep, EngineStart, EngineUnavailable, BatchRaises, BatchDone,
     BeforeGrading, Graded, ChildStart, ChildFinish, ChildRaises, EngineExcept
<1>7. UNCHANGED <<RunsThenGrading, EndsAfterStarts, Positions("grading_started")>>
  BY <1>2 DEF RunsThenGrading, EndsAfterStarts, RunLines, Positions
<1>8. \A r : WasStarted(r)' <=> WasStarted(r)
  BY <1>2 DEF WasStarted
<1>9. GradingBegun' => NoMoreRuns'
  <2>1. CASE Positions("grading_started") # {}
    <3>1. NoMoreRuns
      BY <2>1 DEF OrderInv, GradingBegun
    <3>2. /\ ~EngineStart /\ ~BatchRaises /\ ~BatchDone /\ ~BeforeGrading /\ ~EngineUnavailable
          /\ \A r \in Runs : ~ChildStart(r) /\ ~ChildFinish(r)
      BY <3>1 DEF NoMoreRuns, EngineStart, BatchRaises, BatchDone, BeforeGrading, EngineUnavailable,
         ChildStart, ChildFinish, Scheduled
    <3>3. Mute(todo')
      BY <1>3, <3>2
    <3>4. ~batchFailed' /\ engine' \notin {"start", "loaded", "batch", "progress"}
      <4>1. batchFailed' = batchFailed /\ engine' \in {engine, "stopped", "done"}
        BY <3>2 DEF ExecStep, ExecStart, HardStop, AfterHardStop, AfterEngine,
           AfterEngineRaised, ExecReturn, Kill, EngineStep, Graded
      <4> QED
        BY <3>1, <4>1 DEF NoMoreRuns
    <3> QED
      BY <3>3, <3>4 DEF NoMoreRuns
  <2>2. ASSUME NEW c \in CallsOf(todo'), BeginsGrading(c)
        PROVE  NoMoreRuns'
    <3>1. BeforeGrading /\ engine' = "judging"
      BY <1>3, <2>2
    <3>2. ~batchFailed' 
      BY <3>1 DEF BeforeGrading, OrderInv
    <3>3. Mute(todo')
      <4>1. todo' = <<Emit(Event("grading_started", 0, "none"))>>
        BY <3>1 DEF BeforeGrading, Begin
      <4>2. ~TellsRun(Emit(Event("grading_started", 0, "none")))
        BY DEF TellsRun, Emit, Event
      <4> QED
        BY <4>1, <4>2, ShortCalls DEF Mute
    <3> QED
      BY <3>1, <3>2, <3>3 DEF NoMoreRuns
  <2> QED
    BY <1>7, <2>1, <2>2 DEF GradingBegun
<1>10. ASSUME kind # "grade"
       PROVE  StartedRepeats'
  <2>1. CASE Kill
    BY <1>3, <2>1, <1>4 DEF StartedRepeats, Over
  <2>2. CASE ~Kill
    <3>1. Over => Over'
      BY <1>1, <1>4, <2>2 DEF Over, Calm
    <3>2. \A r \in Runs : child[r] = "running" => WasStarted(r) \/ Over
      <4>1. \A r : <<>> # <<Emit(StartLine(r))>>
        OBVIOUS
      <4> QED
        BY <1>4, <1>10, <2>2, <4>1 DEF OrderInv, StartedRepeats
    <3>3. ASSUME NEW r \in Runs, child'[r] = "running"
          PROVE  child[r] = "running" \/ todo' = <<Emit(StartLine(r))>>
      <4>1. CASE \E s \in Runs : ChildStart(s)
        <5>1. PICK s \in Runs : ChildStart(s)
          BY <4>1
        <5> QED
          BY <3>3, <5>1 DEF OrderInv, ChildStart, Begin, StartLine
      <4>2. CASE ~\E s \in Runs : ChildStart(s)
        BY <3>3, <4>2, <2>2 DEF OrderInv, ExecStep, ExecStart, HardStop, AfterHardStop, AfterEngine,
           AfterEngineRaised, ExecReturn, EngineStep, EngineStart, EngineUnavailable, BatchRaises,
           BatchDone, BeforeGrading, Graded, ChildFinish, ChildRaises
      <4> QED
        BY <4>1, <4>2
    <3>4. ASSUME NEW c \in CallsOf(todo'), EndsRun(c)
          PROVE  WasStarted(c.event.run) \/ Over
      <4>1. PICK r \in Runs : ChildFinish(r) /\ c.event.run = r
        BY <1>3, <1>10, <3>4
      <4> QED
        BY <3>2, <4>1 DEF ChildFinish
    <3> QED
      BY <1>8, <3>1, <3>2, <3>3, <3>4 DEF StartedRepeats
  <2> QED
    BY <2>1, <2>2
<1> QED
  BY <1>2, <1>5, <1>6, <1>7, <1>9, <1>10 DEF OrderInv

\* Nothing is announced at the start.
LEMMA OrderInit == Init => OrderInv
<1> SUFFICES ASSUME Init PROVE OrderInv
  OBVIOUS
<1>1. log = <<>> /\ todo = <<>> /\ child = [r \in Runs |-> "unborn"] /\ engine = "start" /\ ~batchFailed
  BY DEF Init
<1>2. \A t : Positions(t) = {}
  BY <1>1 DEF Positions
<1>3. RunLines = {}
  BY <1>2 DEF RunLines
<1> QED
  BY <1>1, <1>2, <1>3, ShortCalls
     DEF OrderInv, GradingBegun, RunsThenGrading, StartedRepeats, EndsAfterStarts

\* Every step keeps the order.
LEMMA OrderStep ==
    ASSUME SettlingWorks, Bases, LateInv, OrderInv, [Next]_vars
    PROVE  OrderInv'
<1>1. CASE StoreCall
  BY <1>1, CallsKeepOrder
<1>2. CASE ExecStep \/ EngineStep \/ Kill
  BY <1>2, SchedulerKeepsOrder
<1>3. CASE Tick \/ CancelCheck \/ CancelPut \/ UNCHANGED vars
  <2>1. UNCHANGED <<log, todo, kind, st, exec, engine, child, batchFailed>>
    BY <1>3 DEF Tick, CancelCheck, CancelPut, vars, workerVars, userVars, tableVars, taskVars
  <2> QED
    BY <2>1 DEF OrderInv, GradingBegun, NoMoreRuns, RunsThenGrading, StartedRepeats, EndsAfterStarts,
       RunLines, Positions, WasStarted, Over
<1> QED
  BY <1>1, <1>2, <1>3 DEF Next, WorkerStep

\* The log tells of the runs in order: eval_complete last and once, no run line
\* after the start of grading, and no end of a run before its start; whatever
\* reads and run writes fail, and wherever the invocation dies.
THEOREM NothingOutOfTurn ==
    ASSUME SettlingWorks
    PROVE  Spec => []LogInOrder
<1>1. Bases /\ OrderInv => LogInOrder
  <2> SUFFICES ASSUME Bases, OrderInv PROVE LogInOrder
    OBVIOUS
  <2>1. \A i \in Positions("eval_complete") : i = Len(log)
    BY DEF Bases, SettleInv, Positions
  <2> QED
    BY <2>1 DEF LogInOrder, OrderInv, RunsThenGrading, EndsAfterStarts, StartLine
<1>2. Bases /\ LateInv /\ OrderInv /\ [Next]_vars => Bases' /\ LateInv' /\ OrderInv'
  BY BasesStep, LateStep, OrderStep DEF Bases
<1> QED
  BY <1>1, <1>2, BasesInit, LateInit, OrderInit, PTL DEF Spec

-----------------------------------------------------------------------------
(* A settled row lists the runs that were announced *)

\* A status is buffered only in a section that goes on to the flip.
AwaitsFlip(q) ==
    \/ \E s \in TerminalStatus : q = <<Emit(EvalComplete(s))>>
    \/ q = <<Finalize>> \/ InFinalize(q)

Pending == st.pending.status # "none" /\ ~st.terminal

\* The runs that a settlement names are those that succeeded.
NamesGood(ids) == ids # NotGiven => UNION ids = good

Mirrored(r) == r \in st.saved \cup st.unread

ListInv ==
    /\ engine = "start" => good = {}
    /\ Pending => exec = "killed" \/ AwaitsFlip(todo)
    /\ Pending => NamesGood(st.pending.ids)
    /\ \A c \in CallsOf(todo) : c.op \in {"save", "settle"} => NamesGood(c.ids)
    /\ kind # "grade" =>
          /\ Announced("run_completed") \subseteq good \cap (st.saved \cup st.unread)
          /\ \A c \in CallsOf(todo) : Announces(c) =>
                /\ c.event.run \in good
                /\ Mirrored(c.event.run) \/ Head(todo) = SaveRun(c.event.run)
          /\ SettledRowListsRuns

\* A call that settles the row names the runs that succeeded, or none.
LEMMA SettlingNamesGood ==
    ASSUME NEW o, NEW c, Settles(c, o), c.op \in {"save", "settle"}
    PROVE  c.ids = NotGiven \/ (o.op = "settle" /\ c.ids = o.ids)
  BY DEF Settles, Finalize, Flip, Save, Settle, Emit

\* What is left of a section names what it named before.
LEMMA CallsNameGood ==
    ASSUME CauseInv, StoreCall, good' = good,
           \A c \in CallsOf(todo) : c.op \in {"save", "settle"} => NamesGood(c.ids)
    PROVE  \A c \in CallsOf(todo') : c.op \in {"save", "settle"} => NamesGood(c.ids)'
<1>1. /\ CallsOf(todo) = {Head(todo)} \cup CallsOf(Tail(todo))
      /\ \A c \in CallsOf(todo') : c \in CallsOf(Tail(todo)) \/ Settles(c, Head(todo))
  BY CallsOnward
<1> QED
  BY <1>1, SettlingNamesGood DEF NamesGood

\* What is due while a status waits.
LEMMA AwaitsHead ==
    ASSUME NEW q, AwaitsFlip(q)
    PROVE  q # <<>> /\ Head(q).op \in {"emit", "finalize", "flip"}
<1>1. \A s : Head(<<Emit(EvalComplete(s))>>).op = "emit" /\ Head(<<Finalize>>).op = "finalize"
  BY ShortSections DEF Emit, Finalize
<1>2. /\ Head(<<Emit(EvalComplete(st.pending.status)), Flip>>).op = "emit"
      /\ \A f \in Flips : Head(f).op \in {"finalize", "flip"} /\ f # <<>>
  BY ShortSections DEF Emit, Flips, Finalize, Flip
<1> QED
  BY <1>1, <1>2, ShortSections DEF AwaitsFlip, InFinalize

\* A status that a store call leaves waiting is on its way to the flip.
LEMMA CallsAwait ==
    ASSUME Bases, SettlingWorks, ListInv, StoreCall, Pending'
    PROVE  AwaitsFlip(todo)' /\ NamesGood(st'.pending.ids)
<1>1. /\ CauseInv /\ Section(todo) /\ StoreTypes /\ todo # <<>> /\ exec # "killed"
      /\ CallsOf(todo) = {Head(todo)} \cup CallsOf(Tail(todo))
  <2>1. CauseInv /\ todo # <<>>
    BY CallsOnward DEF Bases
  <2> QED
    BY <2>1, CallsOnward DEF Bases, CauseInv, LogInv
<1>2. Pending => AwaitsFlip(todo) /\ NamesGood(st.pending.ids)
  BY <1>1 DEF ListInv
<1>3. Pending => Head(todo).op \in {"emit", "finalize", "flip"}
  BY <1>2, AwaitsHead
<1>4. CASE SaveEvaluation
  <2> DEFINE o == Head(todo)
  <2>1. o.op = "save" /\ Calling("save")
    BY <1>4 DEF SaveEvaluation, Calling
  <2>2. ~Pending
    BY <1>3, <2>1
  <2>3. /\ ~st.terminal /\ Translate(o.status) \in TerminalStatus /\ Proceed(<<>>)
        /\ st'.pending.ids = o.ids
    BY <1>1, <1>4, <2>2 DEF SaveEvaluation, Pending, StoreTypes
  <2>4. o.status \in TerminalStatus
    BY <2>3 DEF Translate, Translated, TerminalStatus
  <2>5. todo' \in {<<Emit(EvalComplete(o.status))>>, <<Finalize>>}
    BY <1>1, <2>1, <2>3, <2>4, AtSave DEF SettlesWith, Proceed, TerminalStatus
  <2>6. NamesGood(o.ids)
    BY <1>1, <2>1 DEF ListInv
  <2> HIDE DEF o
  <2> QED
    BY <2>3, <2>4, <2>5, <2>6 DEF AwaitsFlip
<1>5. CASE EmitEvent
  <2>1. Calling("emit") /\ Head(todo).op = "emit"
    BY <1>5 DEF EmitEvent, Calling
  <2>2. ~st.terminal /\ st'.pending = st.pending
    BY <1>1, <1>5 DEF EmitEvent, Pending, StoreTypes
  <2>3. Pending
    BY <2>2 DEF Pending
  <2>4. PICK s : Head(todo) = Emit(EvalComplete(s)) /\
                 \/ todo = <<Emit(EvalComplete(s))>>
                 \/ todo = <<Emit(EvalComplete(s)), Flip>>
    <3>1. ~(todo = <<Finalize>>) /\ todo \notin Flips
      BY <2>1, ShortSections DEF Flips, Finalize, Flip
    <3>2. PICK s : todo = <<Emit(EvalComplete(s))>> \/ todo = <<Emit(EvalComplete(s)), Flip>>
      BY <1>2, <2>3, <3>1 DEF AwaitsFlip, InFinalize
    <3> QED
      BY <3>2, ShortSections
  <2>5. Head(todo).event.type = "eval_complete"
    BY <2>4 DEF Emit, EvalComplete, Event
  <2>6. LineOf(Head(todo).event).type = "eval_complete"
    BY <1>1, <2>1, <2>5, LineKeepsType
  <2>7. st.pending # NoPending
    BY <2>3 DEF Pending, NoPending
  <2>8. todo' = <<Finalize>> \o Tail(todo)
    <3> DEFINE line == LineOf(Head(todo).event)
    <3>1. Proceed(IF (st.emitted \/ line.type = "eval_complete") /\ st.pending # NoPending
                  THEN <<Finalize>> ELSE <<>>)
      BY <1>5, <2>2 DEF EmitEvent, LineOf, SettlingWorks, Fault
    <3>2. line.type = "eval_complete"
      BY <2>6
    <3> HIDE DEF line
    <3>3. Proceed(<<Finalize>>)
      BY <2>7, <3>1, <3>2, Zenon
    <3> QED
      BY <3>3 DEF Proceed
  <2>9. todo' \in {<<Finalize>>, <<Finalize, Flip>>}
    <3>1. CASE todo = <<Emit(EvalComplete(s))>>
      BY <2>8, <3>1, ShortConcats
    <3>2. CASE todo = <<Emit(EvalComplete(s)), Flip>>
      BY <2>8, <3>2, ShortConcats
    <3> QED
      BY <2>4, <3>1, <3>2
  <2> QED
    BY <1>2, <2>2, <2>3, <2>9 DEF AwaitsFlip, InFinalize, Flips
<1>6. CASE FinalizeEvaluation
  <2>1. Calling("finalize") /\ Head(todo).op = "finalize"
    BY <1>6 DEF FinalizeEvaluation, Calling
  <2>2. st'.pending = st.pending /\ st'.terminal = st.terminal /\ Pending
    BY <1>1, <1>6 DEF FinalizeEvaluation, StoreTypes, Pending
  <2>3. CASE CanFinalize
    <3>1. todo = <<Finalize>>
      BY <1>1, <2>1, <2>3, AtFinalize DEF FlippingSection, CanFinalize
    <3>2. todo' = FinalizeCalls
      <4>1. \A a, b : <<a>> \o Tail(<<Finalize>>) = <<a>> /\ <<a, b>> \o Tail(<<Finalize>>) = <<a, b>>
        BY ShortConcats
      <4> QED
        BY <1>6, <2>3, <3>1, <4>1 DEF FinalizeEvaluation, Proceed, FinalizeCalls
    <3>3. InFinalize(todo)'
      BY <2>2, <3>2 DEF FinalizeCalls, InFinalize, Flips
    <3> QED
      BY <1>2, <2>2, <3>3 DEF AwaitsFlip
  <2>4. CASE ~CanFinalize
    <3>1. st.finalizing /\ ~st.terminal
      BY <2>2, <2>4 DEF CanFinalize, Pending, NoPending
    <3>2. todo = <<Finalize, Flip>>
      <4>1. <<Finalize>> \notin Flips /\ <<Finalize>> # <<Emit(EvalComplete(st.pending.status)), Flip>>
        BY FinalizeFlipsNothing, Len(<<Finalize>>) = 1,
           Len(<<Emit(EvalComplete(st.pending.status)), Flip>>) = 2
      <4> QED
        BY <1>1, <2>1, <3>1, <4>1, AtFinalize DEF Bases, SettleInv, InFinalize
    <3>3. todo' = <<Flip>>
      BY <1>6, <2>4, <3>2, ShortSections DEF FinalizeEvaluation, Proceed
    <3> QED
      BY <1>2, <2>2, <3>3 DEF AwaitsFlip, InFinalize, Flips
  <2> QED
    BY <2>3, <2>4
<1>7. CASE FlipStatus
  <2>1. st'.terminal = TRUE
    BY <1>1, <1>7 DEF FlipStatus, SettlingWorks, Fault, StoreTypes
  <2> QED
    BY <2>1 DEF Pending
<1>8. CASE SettleEvaluation \/ SaveRunItem
  <2>1. Head(todo).op \in {"settle", "run"}
    BY <1>8 DEF SettleEvaluation, SaveRunItem, Calling
  <2>2. st'.pending = st.pending /\ st'.terminal = st.terminal
    BY <1>1, <1>8 DEF SettleEvaluation, SaveRunItem, PutRun, LookupFails, StoreTypes
  <2> QED
    BY <1>3, <2>1, <2>2 DEF Pending
<1> QED
  BY <1>4, <1>5, <1>6, <1>7, <1>8 DEF StoreCall

\* A run that is announced next is mirrored, or is mirrored first.
LEMMA CallsMirror ==
    ASSUME CauseInv, LateInv, StoreCall, UNCHANGED <<kind, good>>,
           \A c \in CallsOf(todo) : Announces(c) =>
               /\ c.event.run \in good
               /\ Mirrored(c.event.run) \/ Head(todo) = SaveRun(c.event.run)
    PROVE  \A c \in CallsOf(todo') : Announces(c) =>
               /\ c.event.run \in good'
               /\ c.event.run \in st'.saved \cup st'.unread
<1>1. StoreTypes /\ CallsOf(todo) = {Head(todo)} \cup CallsOf(Tail(todo)) /\ todo # <<>>
  BY CallsOnward DEF CauseInv
<1>2. st.saved \subseteq st'.saved /\ st.unread \subseteq st'.unread
  BY <1>1 DEF StoreCall, SaveEvaluation, EmitEvent, FinalizeEvaluation, FlipStatus, SettleEvaluation,
     SaveRunItem, PutRun, LookupFails, StoreTypes
<1> SUFFICES ASSUME NEW c \in CallsOf(todo'), Announces(c)
             PROVE  c.event.run \in good' /\ c.event.run \in st'.saved \cup st'.unread
  OBVIOUS
<1>3. TellsRun(c)
  BY DEF Announces, TellsRun
<1>4. c \in CallsOf(todo)
  BY <1>1, <1>3, CallsTellLess DEF LateInv
<1>5. CASE Mirrored(c.event.run)
  BY <1>2, <1>4, <1>5 DEF Mirrored
<1>6. CASE Head(todo) = SaveRun(c.event.run)
  <2>1. Head(todo).op = "run" /\ Head(todo).run = c.event.run
    BY <1>6 DEF SaveRun
  <2>2. SaveRunItem
    BY <2>1 DEF StoreCall, SaveEvaluation, EmitEvent, FinalizeEvaluation, FlipStatus,
       SettleEvaluation, Calling
  <2>3. ~Failing(todo')
    BY <1>3, ShortCalls, MuteCalls DEF Failing
  <2>4. ~Raise
    BY <1>1, <2>3, RaiseEffect
  <2>5. c.event.run \in st'.saved \cup st'.unread
    BY <1>1, <2>1, <2>2, <2>4 DEF SaveRunItem, PutRun, LookupFails, StoreTypes
  <2> QED
    BY <1>4, <2>5
<1> QED
  BY <1>4, <1>5, <1>6

\* A row that is settled already does not change.
LEMMA SettledStands ==
    ASSUME Bases, Bases', StoreCall, ~FlipStatus, meta'.status \in TerminalStatus
    PROVE  UNCHANGED <<meta, log>> /\ meta.status \in TerminalStatus
<1>1. StoreTypes /\ RowTypes
  BY DEF Bases, CauseInv
<1>2. st'.terminal
  BY DEF Bases, LogInv, TerminalStatus
<1>3. st.terminal
  BY <1>1, <1>2 DEF StoreCall, SaveEvaluation, EmitEvent, FinalizeEvaluation, SettleEvaluation,
     SaveRunItem, PutRun, LookupFails, StoreTypes
<1>4. UNCHANGED <<meta, log>>
  BY <1>3 DEF StoreCall, SaveEvaluation, EmitEvent, FinalizeEvaluation, SettleEvaluation,
     SaveRunItem, tableVars
<1> QED
  BY <1>1, <1>3, <1>4 DEF Bases, LogInv, RowTypes

\* Whoever has been announced as completed, before a line and after it.
LEMMA AnnouncedNext ==
    ASSUME Bases, SettlingWorks, StoreCall
    PROVE  \A r \in Announced("run_completed")' :
              \/ r \in Announced("run_completed")
              \/ Announces(Head(todo)) /\ Head(todo).event.run = r
<1>1. CASE UNCHANGED log
  BY <1>1 DEF Announced, Positions
<1>2. CASE ~UNCHANGED log
  <2>1. EmitEvent /\ ~st.terminal
    BY <1>2 DEF StoreCall, SaveEvaluation, EmitEvent, FinalizeEvaluation, FlipStatus,
       SettleEvaluation, SaveRunItem, tableVars
  <2>2. PICK event : event = LineOf(Head(todo).event)
    OBVIOUS
  <2>3. /\ log' = Append(log, event) /\ log \in Seq(Events)
        /\ event.type # "eval_complete" => event = Head(todo).event
        /\ event.type \in Ends <=> EndsRun(Head(todo))
    BY <2>1, <2>2, EmitsInTurn
  <2>4. /\ Len(log) \in Nat /\ log'[Len(log) + 1] = event
        /\ \A i \in 1..Len(log) : log'[i] = log[i]
        /\ Positions("run_completed")' = Positions("run_completed") \cup
               (IF event.type = "run_completed" THEN {Len(log) + 1} ELSE {})
        /\ Positions("run_completed") \subseteq 1..Len(log)
    BY <2>3, NewPosition
  <2>5. ASSUME NEW i \in Positions("run_completed")'
        PROVE  \/ i \in Positions("run_completed") /\ log'[i].run = log[i].run
               \/ Announces(Head(todo)) /\ Head(todo).event.run = log'[i].run
    <3>1. CASE i \in Positions("run_completed")
      BY <2>4, <3>1
    <3>2. CASE i \notin Positions("run_completed")
      <4>1. event.type = "run_completed" /\ log'[i] = event
        BY <2>4, <3>2
      <4>2. event = Head(todo).event /\ EndsRun(Head(todo))
        BY <2>3, <4>1 DEF Ends
      <4> QED
        BY <4>1, <4>2 DEF EndsRun, Announces
    <3> QED
      BY <3>1, <3>2
  <2> QED
    BY <2>5 DEF Announced
<1> QED
  BY <1>1, <1>2

\* A store call, and what it leaves of the list.
LEMMA CallsKeepList ==
    ASSUME Bases, Bases', SettlingWorks, LateInv, ListInv, StoreCall
    PROVE  ListInv'
<1>1. /\ CauseInv /\ StoreTypes /\ UNCHANGED <<kind, good>>
      /\ st.saved \subseteq st'.saved /\ st.unread \subseteq st'.unread
      /\ FlipStatus => st'.saved = st.saved
  BY DEF Bases, CauseInv, StoreTypes, StoreCall, SaveEvaluation, EmitEvent, FinalizeEvaluation,
     FlipStatus, SettleEvaluation, SaveRunItem, PutRun, LookupFails, userVars, dataVars
<1>2. /\ CallsOf(todo) = {Head(todo)} \cup CallsOf(Tail(todo)) /\ todo # <<>>
  BY <1>1, CallsOnward
<1>3. engine' \in {engine, "done", "raised"}
  BY <1>1, <1>2, RaiseEffect, CallEffect DEF taskVars
<1>4. engine' = "start" => good' = {}
  BY <1>1, <1>3 DEF ListInv
<1>5. Pending' => exec' = "killed" \/ AwaitsFlip(todo)'
  BY CallsAwait
<1>6. Pending' => NamesGood(st.pending.ids)'
  <2>1. Pending' => NamesGood(st'.pending.ids)
    BY CallsAwait
  <2> QED
    BY <1>1, <2>1 DEF NamesGood
<1>7. \A c \in CallsOf(todo') : c.op \in {"save", "settle"} => NamesGood(c.ids)'
  BY <1>1, CallsNameGood DEF ListInv
<1>8. ASSUME kind # "grade"
      PROVE  /\ Announced("run_completed")' \subseteq good' \cap (st'.saved \cup st'.unread)
             /\ \A c \in CallsOf(todo') : Announces(c) =>
                   /\ c.event.run \in good'
                   /\ c.event.run \in st'.saved \cup st'.unread
             /\ SettledRowListsRuns'
  <2>1. \A c \in CallsOf(todo) : Announces(c) =>
           /\ c.event.run \in good
           /\ Mirrored(c.event.run) \/ Head(todo) = SaveRun(c.event.run)
    BY <1>8 DEF ListInv
  <2>2. \A c \in CallsOf(todo') : Announces(c) =>
           /\ c.event.run \in good'
           /\ c.event.run \in st'.saved \cup st'.unread
    BY <1>1, <2>1, CallsMirror
  <2>3. Announced("run_completed") \subseteq good \cap (st.saved \cup st.unread)
    BY <1>8 DEF ListInv
  <2>4. Announces(Head(todo)) =>
           Head(todo).event.run \in good /\ Head(todo).event.run \in st.saved \cup st.unread
    <3>1. Announces(Head(todo)) => \A r : Head(todo) # SaveRun(r)
      BY DEF Announces, SaveRun
    <3> QED
      BY <1>2, <2>1, <3>1 DEF Mirrored
  <2>5. Announced("run_completed")' \subseteq good' \cap (st'.saved \cup st'.unread)
    BY <1>1, <2>3, <2>4, AnnouncedNext
  <2>6. SettledRowListsRuns'
    <3>1. CASE FlipStatus
      <4>1. meta'.runs = (IF st.pending.ids = NotGiven THEN st.saved ELSE UNION st.pending.ids)
        <5>1. meta' = Flipped
          BY <3>1 DEF FlipStatus, SettlingWorks, Fault
        <5> QED
          BY <5>1, ZenonT(30) DEF Flipped
      <4>2. Pending
        <5>1. Section(todo) /\ Calling("flip")
          BY <1>1, <3>1 DEF FlipStatus, CauseInv
        <5> QED
          BY <5>1, AtFlip DEF FlippingSection, Pending
      <4>3. st.pending.ids # NotGiven => UNION st.pending.ids = good
        BY <4>2 DEF ListInv, NamesGood
      <4>4. meta'.runs = st.saved \/ meta'.runs = good
        BY <4>1, <4>3
      <4> QED
        BY <1>1, <2>5, <3>1, <4>4 DEF SettledRowListsRuns
    <3>2. CASE ~FlipStatus
      <4>1. ASSUME meta'.status \in TerminalStatus
            PROVE  Announced("run_completed")' \subseteq meta'.runs \cup st'.unread
        <5>1. UNCHANGED <<meta, log>> /\ meta.status \in TerminalStatus
          BY <3>2, <4>1, SettledStands
        <5>2. Announced("run_completed") \subseteq meta.runs \cup st.unread
          BY <1>8, <5>1 DEF ListInv, SettledRowListsRuns
        <5>3. Announced("run_completed")' = Announced("run_completed")
          BY <5>1 DEF Announced, Positions
        <5> QED
          BY <1>1, <5>1, <5>2, <5>3
      <4> QED
        BY <4>1 DEF SettledRowListsRuns
    <3> QED
      BY <3>1, <3>2
  <2> QED
    BY <2>2, <2>5, <2>6
<1> QED
  BY <1>1, <1>4, <1>5, <1>6, <1>7, <1>8 DEF ListInv, Mirrored

\* A step of the scheduler names the runs that succeeded.
LEMMA SchedulerNamesGood ==
    ASSUME CauseInv, ListInv, ExecStep \/ EngineStep \/ Kill
    PROVE  \A c \in CallsOf(todo') : c.op \in {"save", "settle"} => NamesGood(c.ids)'
<1>1. UNION Given(good) = good /\ UNION Given({}) = {}
  BY DEF Given
<1>2. /\ \A s, e, ids : Save(s, e, ids).ids = ids /\ Settle(s, e, ids).ids = ids
      /\ \A e : Emit(e).op = "emit"
      /\ Finalize.op = "finalize" /\ \A r : SaveRun(r).op = "run"
  BY DEF Save, Settle, Emit, Finalize, SaveRun
<1>3. CASE EngineStart
  <2> DEFINE opening == <<Save("running", "none", NotGiven), Emit(Event("eval_start", 0, "none"))>>
  <2>1. \A c \in CallsOf(opening) : c.op \in {"save", "settle"} => c.ids = NotGiven
    BY <1>2, ShortCalls
  <2>2. CASE todo' = opening
    BY <2>1, <2>2 DEF NamesGood
  <2>3. CASE todo' = opening \o LoadedCalls(good')
    <3> DEFINE loaded == LoadedCalls(good')
               L == {loaded[r] : r \in Runs}
    <3>1. \A r \in Runs : loaded[r].op = "emit"
      BY DEF LoadedCalls, Emit
    <3>2. loaded \in [1..NRuns -> L] /\ NRuns \in Nat
      BY WorkerAssumption DEF LoadedCalls, Runs
    <3>3. opening \in Seq({opening[1], opening[2]})
      OBVIOUS
    <3> HIDE DEF loaded, opening
    <3>4. loaded \in Seq(L) /\ Len(loaded) = NRuns
      BY <3>2
    <3>5. \A c \in CallsOf(loaded) : c.op = "emit"
      BY <3>1, <3>4 DEF CallsOf, Runs
    <3>6. CallsOf(todo') = CallsOf(opening) \cup CallsOf(loaded)
      BY <2>3, <3>3, <3>4, JoinedCalls DEF loaded
    <3> QED
      BY <2>1, <3>5, <3>6 DEF NamesGood
  <2> QED
    BY <1>3, <2>2, <2>3 DEF EngineStart, Begin
<1>4. ASSUME NEW r \in Runs, ChildStart(r) \/ ChildFinish(r)
      PROVE  \A c \in CallsOf(todo') : c.op \in {"run", "emit"}
  <2>1. \/ todo' = <<>> \/ \E e : todo' = <<Emit(e)>>
        \/ \E e : todo' = <<SaveRun(r), Emit(e)>>
    <3>1. \A a, b : <<>> \o <<b>> = <<b>> /\ <<a>> \o <<b>> = <<a, b>>
      BY ShortJoins
    <3>2. \/ todo' = <<>> \/ \E e : todo' = <<Emit(e)>>
          \/ \E ok, recorded \in BOOLEAN : todo' = PublishCalls(r, ok, recorded)
      BY <1>4 DEF ChildStart, ChildFinish, Begin, Scheduled, Idle
    <3> QED
      BY <3>1, <3>2 DEF PublishCalls
  <2> QED
    BY <1>2, <2>1, ShortCalls
<1>5. CASE ExecStep \/ Kill \/ EngineUnavailable \/ BatchRaises \/ BatchDone \/ Graded \/ BeforeGrading
  <2>1. UNCHANGED good
    BY <1>5 DEF ExecStep, ExecStart, HardStop, AfterHardStop, AfterEngine, AfterEngineRaised,
       ExecReturn, Kill, EngineUnavailable, BatchRaises, BatchDone, Graded, BeforeGrading, dataVars
  <2>2. \/ todo' = <<>> \/ \E e : todo' = <<Emit(e)>>
        \/ \E s, e, ids :
              /\ ids = NotGiven \/ ids = Given(good)
              /\ todo' \in {<<Save(s, e, ids)>>,
                            <<Save(s, e, ids), Emit(EvalComplete(s))>>, <<Save(s, e, ids), Finalize>>,
                            <<Settle(s, e, ids)>>,
                            <<Emit(GradingCompleted), Save(s, e, ids), Emit(EvalComplete(s))>>}
    <3>1. CASE ExecStart
      <4>1. good = {} /\ todo = <<>>
        BY <3>1 DEF ExecStart, ListInv, CauseInv, StartsUnsettled
      <4> QED
        BY <3>1, <4>1 DEF ExecStart, Begin, Complete
    <3>2. CASE HardStop
      BY <3>2 DEF HardStop, Begin
    <3>3. CASE AfterHardStop \/ AfterEngine \/ AfterEngineRaised
      BY <3>3 DEF AfterHardStop, AfterEngine, AfterEngineRaised, Begin
    <3>4. CASE ExecReturn \/ Kill \/ EngineUnavailable \/ BatchDone
      BY <3>4 DEF ExecReturn, Kill, EngineUnavailable, BatchDone, Begin, Idle
    <3>5. CASE BatchRaises \/ BeforeGrading
      BY <3>5 DEF BatchRaises, EngineExcept, BeforeGrading, Begin
    <3>6. CASE Graded
      BY <3>6 DEF Graded, Begin, GradingCompleted
    <3> QED
      BY <1>5, <3>1, <3>2, <3>3, <3>4, <3>5, <3>6 DEF ExecStep
  <2>3. \A c \in CallsOf(todo') : c.op \in {"save", "settle"} => c.ids = NotGiven \/ c.ids = Given(good)
    BY <1>2, <2>2, ShortCalls
  <2> QED
    BY <1>1, <2>1, <2>3 DEF NamesGood
<1>6. CASE \E r \in Runs : ChildStart(r) \/ ChildFinish(r)
  BY <1>4, <1>6
<1> QED
  BY <1>3, <1>5, <1>6 DEF EngineStep

\* A step of the scheduler, and what it leaves of the list.
LEMMA SchedulerKeepsList ==
    ASSUME Bases, ListInv, ExecStep \/ EngineStep \/ Kill
    PROVE  ListInv'
<1>1. CauseInv /\ Calm
  BY ExecStartCauses, HardStopCauses, AfterHardStopCauses, AfterEngineCauses,
     AfterEngineRaisedCauses, EndCauses, EngineStartCauses, EngineUnavailableCauses,
     BatchRaisesCauses, BatchDoneCauses, BeforeGradingCauses, GradedCauses, ChildCauses
     DEF ExecStep, EngineStep, Orderly, Bases
<1>2. UNCHANGED <<log, meta, kind>>
  BY DEF ExecStep, ExecStart, HardStop, AfterHardStop, AfterEngine, AfterEngineRaised, ExecReturn,
     Kill, EngineStep, EngineStart, EngineUnavailable, BatchRaises, BatchDone, BeforeGrading, Graded,
     ChildStart, ChildFinish, tableVars, userVars
<1>3. /\ Kill \/ (todo = <<>> /\ exec # "killed")
      /\ Kill => exec' = "killed" /\ UNCHANGED good
  BY <1>1 DEF ExecStep, ExecStart, HardStop, AfterHardStop, AfterEngine, AfterEngineRaised, ExecReturn,
     Kill, EngineStep, EngineStart, EngineUnavailable, BatchRaises, BatchDone, BeforeGrading, Graded,
     ChildStart, ChildFinish, Idle, Running, Scheduled, CauseInv, StartsUnsettled, dataVars
<1>4. st'.saved = st.saved /\ st'.unread = st.unread
  <2>1. StoreTypes
    BY <1>1 DEF CauseInv
  <2> QED
    BY <2>1 DEF ExecStep, ExecStart, HardStop, AfterHardStop, AfterEngine, AfterEngineRaised, ExecReturn,
     Kill, EngineStep, EngineStart, EngineUnavailable, BatchRaises, BatchDone, BeforeGrading, Graded,
     ChildStart, ChildFinish, Poll, CancelRequested, StopWith, StoreTypes
<1>5. Pending' => exec' = "killed" /\ NamesGood(st.pending.ids)'
  <2>1. Pending' = Pending
    BY <1>1 DEF Pending, Calm
  <2>2. ~AwaitsFlip(<<>>)
    BY AwaitsHead
  <2>3. Pending => Kill
    BY <1>3, <2>2 DEF ListInv
  <2>4. st'.pending = st.pending
    BY <1>1 DEF Calm
  <2> QED
    BY <1>3, <2>1, <2>3, <2>4 DEF ListInv, NamesGood
<1>6. engine' = "start" => good' = {}
  <2>1. engine = "start" => ~batchFailed
    BY <1>1 DEF CauseInv, StartsUnsettled
  <2> QED
    BY <2>1 DEF ListInv, ExecStep, ExecStart, HardStop, AfterHardStop, AfterEngine, AfterEngineRaised,
       ExecReturn, Kill, EngineStep, EngineStart, EngineUnavailable, BatchRaises, BatchDone,
       BeforeGrading, Graded, ChildStart, ChildFinish, Scheduled, EngineExcept, dataVars
<1>7. ASSUME kind # "grade"
      PROVE  /\ good \subseteq good'
             /\ \A c \in CallsOf(todo') : Announces(c) =>
                   c.event.run \in good' /\ Head(todo') = SaveRun(c.event.run)
  <2>1. good \subseteq good'
    BY <1>7 DEF ExecStep, ExecStart, HardStop, AfterHardStop, AfterEngine, AfterEngineRaised, ExecReturn,
       Kill, EngineStep, EngineStart, EngineUnavailable, BatchRaises, BatchDone, BeforeGrading, Graded,
       ChildStart, ChildFinish, dataVars
  <2>2. ASSUME NEW c \in CallsOf(todo'), Announces(c)
        PROVE  c.event.run \in good' /\ Head(todo') = SaveRun(c.event.run)
    <3>1. EndsRun(c)
      BY <2>2 DEF Announces, EndsRun
    <3>2. PICK r \in Runs : ChildFinish(r) /\ c.event.run = r
      BY <1>1, <1>7, <3>1, SchedulerSections
    <3>3. todo' # <<>>
      BY <2>2, ShortCalls
    <3>4. PICK ok \in BOOLEAN, recorded \in BOOLEAN :
             /\ ok => recorded
             /\ good' = IF ok THEN good \cup {r} ELSE good
             /\ todo' = PublishCalls(r, ok, recorded)
      BY <1>3, <3>2, <3>3 DEF ChildFinish, Begin, Kill
    <3> DEFINE Line == Emit(Event(IF ok THEN "run_completed" ELSE "run_failed", r, "none"))
    <3>5. \/ recorded /\ todo' = <<SaveRun(r), Line>>
          \/ ~recorded /\ todo' = <<Line>>
      <4> HIDE DEF Line
      <4>1. todo' = (IF recorded THEN <<SaveRun(r)>> ELSE <<>>) \o <<Line>>
        BY <3>4 DEF PublishCalls, Line
      <4> QED
        BY <4>1, ShortJoins
    <3>6. c \in {SaveRun(r), Line}
      <4> HIDE DEF Line
      <4> QED
        BY <2>2, <3>5, ShortCalls
    <3>7. c = Line /\ ok
      BY <2>2, <3>6 DEF Announces, SaveRun, Emit, Event
    <3>8. Head(todo') = SaveRun(r)
      <4> HIDE DEF Line
      <4> QED
        BY <3>4, <3>5, <3>7, ShortSections
    <3> QED
      BY <3>2, <3>4, <3>7, <3>8
  <2> QED
    BY <2>1, <2>2
<1>8. \A c \in CallsOf(todo') : c.op \in {"save", "settle"} => NamesGood(c.ids)'
  BY <1>1, SchedulerNamesGood
<1>9. UNCHANGED Announced("run_completed")
  BY <1>2 DEF Announced, Positions
<1>10. kind # "grade" => SettledRowListsRuns'
  BY <1>2, <1>4, <1>9 DEF ListInv, SettledRowListsRuns
<1> QED
  BY <1>2, <1>4, <1>5, <1>6, <1>7, <1>8, <1>9, <1>10 DEF ListInv

LEMMA ListInit == ASSUME Init PROVE ListInv
<1>1. /\ todo = <<>> /\ log = <<>> /\ good = {} /\ ~Pending
      /\ meta.status \notin TerminalStatus
  BY DEF Init, Pending, NoPending, TerminalStatus
<1>2. CallsOf(todo) = {} /\ Announced("run_completed") = {}
  BY <1>1, ShortCalls DEF Announced, Positions
<1> QED
  BY <1>1, <1>2 DEF ListInv, SettledRowListsRuns

LEMMA ListStep ==
    ASSUME SettlingWorks, Bases, Bases', LateInv, ListInv, [Next]_vars
    PROVE  ListInv'
<1>1. CASE StoreCall
  BY <1>1, CallsKeepList
<1>2. CASE ExecStep \/ EngineStep \/ Kill
  BY <1>2, SchedulerKeepsList
<1>3. CASE Tick \/ CancelCheck \/ CancelPut \/ UNCHANGED vars
  <2>1. UNCHANGED <<meta, log, st, good, kind, todo, engine, exec>>
    BY <1>3 DEF Tick, CancelCheck, CancelPut, vars, workerVars, tableVars, taskVars, userVars,
       dataVars, timeVars
  <2> QED
    BY <2>1 DEF ListInv, Pending, NamesGood, Mirrored, SettledRowListsRuns, Announced, Positions,
       AwaitsFlip, InFinalize, CallsOf
<1> QED
  BY <1>1, <1>2, <1>3 DEF Next, WorkerStep

\* A settled row lists every run the stream announced, but for those whose
\* items an eventually consistent read has not returned yet: the settlement of
\* DynamoEvalStore.finalize and the engine's list of good runs agree.
THEOREM SettledRowsListTheirRuns ==
    ASSUME SettlingWorks
    PROVE  Spec => []SettledRowListsRuns
<1>1. SettlingWorks
  OBVIOUS
<1>2. Bases /\ [Next]_vars => Bases'
  BY BasesStep
<1>3. Bases /\ Bases' /\ LateInv /\ [Next]_vars => LateInv'
  BY LateStep DEF Bases
<1>4. Bases /\ Bases' /\ LateInv /\ ListInv /\ [Next]_vars => ListInv'
  BY <1>1, ListStep
<1>5. ListInv => SettledRowListsRuns
  BY DEF ListInv, SettledRowListsRuns
<1> QED
  BY <1>2, <1>3, <1>4, <1>5, BasesInit, LateInit, ListInit, PTL DEF Spec
=============================================================================
