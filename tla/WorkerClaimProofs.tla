-------------------------- MODULE WorkerClaimProofs --------------------------
(***************************************************************************)
(* The claim protocol of WorkerClaim, for any number of deliveries and of   *)
(* failures: at most one delivery owns the evaluation, and no row is left   *)
(* running by a delivery that gave up on it.  Where a failed invoke queues  *)
(* nothing, a terminal row stays as it is and nobody overwrites the first   *)
(* event.                                                                   *)
(***************************************************************************)
EXTENDS WorkerClaim, TLAPS

-----------------------------------------------------------------------------
(* The inductive invariant *)

\* An owner has put its token on a row that nobody can claim any more.
OwnersHold ==
    \A d \in owners : token = d /\ status \notin {"absent", "pending"}

\* Whoever executes has concluded that it owns the evaluation.
ExecutorsOwn == \A d \in Deliveries : pc[d] \in OwningStates => d \in owners

ClaimInv == TypeOK /\ OwnersHold /\ ExecutorsOwn /\ RunningHasExecutor

\* The initial state satisfies the invariant.
LEMMA InitInv == Init => ClaimInv
<1> SUFFICES ASSUME Init PROVE ClaimInv
  OBVIOUS
<1>1. \A d \in Deliveries : pc[d] = "idle"
  BY DEF Init
<1>2. TypeOK
  BY DEF Init, TypeOK, DeliveryStates, Status, Writers
<1>3. OwnersHold /\ ExecutorsOwn
  BY <1>1 DEF Init, OwnersHold, ExecutorsOwn, OwningStates
<1>4. RunningHasExecutor
  BY DEF Init, RunningHasExecutor
<1> QED
  BY <1>2, <1>3, <1>4 DEF ClaimInv

\* A step of the server keeps it: its conditional put leaves a claimed row
\* alone, and what it settles is terminal.
LEMMA ServerKeepsInv == ASSUME ClaimInv, ServerStep PROVE ClaimInv'
<1>1. TypeOK'
  <2> USE ClaimAssumption DEF ClaimInv, TypeOK, Status, TerminalStatus, Writers, Fail
  <2>1. CASE ServerBegin
    BY <2>1 DEF ServerBegin, PutPending, rowVars
  <2>2. CASE ServerInvoke
    <3>1. queued' \in BOOLEAN
      BY <2>2, Zenon DEF ServerInvoke
    <3>2. server' \in {"accepted", "abandon"} /\ faults' \in {faults, faults + 1}
          /\ UNCHANGED <<rowVars, firstEvent, pc, owners>>
      BY <2>2 DEF ServerInvoke
    <3> QED
      BY <3>1, <3>2 DEF rowVars
  <2>3. CASE ServerAbandonEvent
    BY <2>3 DEF ServerAbandonEvent, rowVars
  <2>4. CASE ServerAbandonRow
    BY <2>4 DEF ServerAbandonRow
  <2> QED
    BY <2>1, <2>2, <2>3, <2>4 DEF ServerStep
<1>2. /\ UNCHANGED <<token, pc, owners>>
      /\ status' = status \/ (status = "absent" /\ status' = "pending") \/ status' = "error"
  BY DEF ServerStep, ServerBegin, ServerInvoke, ServerAbandonEvent, ServerAbandonRow,
         PutPending, rowVars
<1>3. OwnersHold'
  BY <1>2 DEF ClaimInv, OwnersHold
<1>4. ExecutorsOwn'
  BY <1>2 DEF ClaimInv, ExecutorsOwn
<1>5. RunningHasExecutor'
  BY <1>2 DEF ClaimInv, RunningHasExecutor
<1> QED
  BY <1>1, <1>3, <1>4, <1>5 DEF ClaimInv

\* A step of a delivery keeps it.
LEMMA DeliveryKeepsInv ==
    ASSUME ClaimInv, NEW d \in Deliveries, Deliver(d) \/ WorkerStep(d) \/ Kill(d)
    PROVE  ClaimInv'
<1> USE ClaimAssumption DEF ClaimInv, TypeOK, OwnersHold, ExecutorsOwn,
        RunningHasExecutor, Status, TerminalStatus, Writers, Fail, rowVars,
        OwningStates, DeliveryStates, Goto
<1>1. CASE Deliver(d)
  BY <1>1 DEF Deliver
<1>2. CASE WorkerBegin(d)
  BY <1>2 DEF WorkerBegin, PutPending
<1>3. CASE MarkRunning(d)
  <2>1. Claimable => owners = {}
    BY DEF Claimable
  <2> QED
    BY <1>3, <2>1 DEF MarkRunning, Claimable, TakeRow
<1>4. CASE ResolveClaim(d)
  BY <1>4 DEF ResolveClaim, Claimable
<1>5. CASE OwnerRuns(d)
  BY <1>5 DEF OwnerRuns
<1>6. CASE OwnerCancels(d)
  BY <1>6 DEF OwnerCancels
<1>7. CASE OwnerAnnounces(d)
  BY <1>7 DEF OwnerAnnounces
<1>8. CASE OwnerSettles(d)
  BY <1>8 DEF OwnerSettles
<1>9. CASE Kill(d)
  BY <1>9 DEF Kill
<1> QED
  BY <1>1, <1>2, <1>3, <1>4, <1>5, <1>6, <1>7, <1>8, <1>9 DEF WorkerStep

LEMMA StepInv == ClaimInv /\ [Next]_vars => ClaimInv'
<1> SUFFICES ASSUME ClaimInv, [Next]_vars PROVE ClaimInv'
  OBVIOUS
<1>1. CASE ServerStep
  BY <1>1, ServerKeepsInv
<1>2. CASE \E d \in Deliveries : Deliver(d) \/ WorkerStep(d) \/ Kill(d)
  BY <1>2, DeliveryKeepsInv
<1>3. CASE UNCHANGED vars
  BY <1>3 DEF vars, rowVars, ClaimInv, TypeOK, OwnersHold, ExecutorsOwn,
              RunningHasExecutor
<1> QED
  BY <1>1, <1>2, <1>3 DEF Next

LEMMA ClaimInvariant == Spec => []ClaimInv
  BY InitInv, StepInv, PTL DEF Spec

-----------------------------------------------------------------------------
(* What holds whatever fails *)

\* The state is well formed: in particular META.status never leaves the
\* statuses of the contract.
THEOREM TypeCorrect == Spec => []TypeOK
<1>1. ClaimInv => TypeOK
  BY DEF ClaimInv
<1> QED
  BY <1>1, ClaimInvariant, PTL

\* mark_running and _resolve_claim together: at most one delivery concludes
\* that it owns the evaluation, for any number of copies of the event, lost
\* answers, failed reads and killed invocations.
THEOREM OneOwner == Spec => []AtMostOneOwner
<1>1. ClaimInv => AtMostOneOwner
  BY DEF ClaimInv, OwnersHold, AtMostOneOwner
<1> QED
  BY <1>1, ClaimInvariant, PTL

\* The delivery that executes carries the row's token until it is through.
THEOREM ExecutorHoldsClaim == Spec => []OwnerHoldsClaim
<1>1. ClaimInv => OwnerHoldsClaim
  BY DEF ClaimInv, OwnersHold, ExecutorsOwn, OwnerHoldsClaim
<1> QED
  BY <1>1, ClaimInvariant, PTL

\* No row is left reading running by a delivery that stood down or returned.
THEOREM NoRowLeftRunning == Spec => []RunningHasExecutor
<1>1. ClaimInv => RunningHasExecutor
  BY DEF ClaimInv
<1> QED
  BY <1>1, ClaimInvariant, PTL

-----------------------------------------------------------------------------
(* What holds when a failed invoke queues nothing *)

\* Until the event is accepted nothing but the server writes; a worker that
\* executes finds the row running and the log still empty.
HandoverInv ==
    /\ server # "accepted" => ~queued /\ \A d \in Deliveries : pc[d] = "idle"
    /\ server \in {"begin", "invoke", "abandon", "settle"} => status \notin TerminalStatus
    /\ server \in {"begin", "invoke", "abandon"} => firstEvent = None
    /\ server = "accepted" /\ Claimable => firstEvent = None
    /\ \A d \in Deliveries :
        /\ pc[d] \in {"idle", "begin", "claim"} => token # d
        /\ pc[d] \in {"own", "announce", "close"} => status = "running"
        /\ token = d /\ pc[d] \in {"readback", "own", "announce"} => firstEvent = None

LEMMA InitHandover == Init => HandoverInv
  BY ClaimAssumption DEF Init, HandoverInv, TerminalStatus, Claimable

\* The server's steps, none of which is possible once the event is accepted.
LEMMA ServerKeepsHandover ==
    ASSUME ~AmbiguousInvoke, ClaimInv, HandoverInv, ServerStep
    PROVE  HandoverInv'
<1> USE DEF HandoverInv, TerminalStatus, Claimable, rowVars
<1>1. CASE ServerBegin
  BY <1>1 DEF ServerBegin, PutPending
<1>2. CASE ServerInvoke
  BY <1>2 DEF ServerInvoke
<1>3. CASE ServerAbandonEvent
  BY <1>3 DEF ServerAbandonEvent
<1>4. CASE ServerAbandonRow
  BY <1>4 DEF ServerAbandonRow
<1> QED
  BY <1>1, <1>2, <1>3, <1>4 DEF ServerStep

\* The deliveries' steps: another executor would be a second owner.
LEMMA DeliveryKeepsHandover ==
    ASSUME ClaimInv, HandoverInv, NEW d \in Deliveries,
           Deliver(d) \/ WorkerStep(d) \/ Kill(d)
    PROVE  HandoverInv'
<1>1. server = "accepted" /\ UNCHANGED server
  BY DEF HandoverInv, Deliver, WorkerStep, WorkerBegin, MarkRunning, ResolveClaim,
         OwnerRuns, OwnerCancels, OwnerAnnounces, OwnerSettles, Kill
<1>2. \A e \in Deliveries : pc[e] \in OwningStates => token = e
  BY DEF ClaimInv, ExecutorsOwn, OwnersHold
<1>3. pc \in [Deliveries -> DeliveryStates]
  BY DEF ClaimInv, TypeOK
<1>4. Claimable => \A e \in Deliveries : pc[e] \notin OwningStates
  BY DEF ClaimInv, ExecutorsOwn, OwnersHold, Claimable
<1> USE <1>1, <1>3 DEF HandoverInv, Goto, TerminalStatus, rowVars, OwningStates
<1>5. CASE Deliver(d)
  BY <1>5 DEF Deliver, Claimable
<1>6. CASE WorkerBegin(d)
  BY <1>6, <1>4 DEF WorkerBegin, PutPending, Claimable
<1>7. CASE MarkRunning(d)
  <2>1. /\ pc'[d] \in {"own", "readback"} /\ UNCHANGED <<firstEvent, queued>>
        /\ \A e \in Deliveries : e # d => pc'[e] = pc[e]
    BY <1>7 DEF MarkRunning
  <2>2. CASE Claimable /\ TakeRow(d)
    <3>1. firstEvent' = None /\ status' = "running" /\ token' = d /\ ~Claimable'
      BY <2>1, <2>2 DEF TakeRow, Claimable
    <3>2. \A e \in Deliveries : e # d => pc'[e] \notin {"own", "announce", "close"}
      BY <2>1, <2>2, <1>4
    <3> QED
      BY <2>1, <3>1, <3>2
  <2>3. CASE UNCHANGED rowVars /\ pc'[d] = "readback"
    <3>1. token # d
      BY <1>7 DEF MarkRunning
    <3> QED
      BY <2>1, <2>3, <3>1 DEF Claimable
  <2> QED
    BY <1>7, <2>2, <2>3 DEF MarkRunning
<1>8. CASE ResolveClaim(d)
  BY <1>8 DEF ResolveClaim, Claimable
<1>9. CASE OwnerRuns(d)
  BY <1>9, <1>2 DEF OwnerRuns, Claimable
<1>10. CASE OwnerCancels(d)
  BY <1>10, <1>2 DEF OwnerCancels, Claimable
<1>11. CASE OwnerAnnounces(d)
  BY <1>11, <1>2 DEF OwnerAnnounces, Claimable
<1>12. CASE OwnerSettles(d)
  BY <1>12, <1>2 DEF OwnerSettles, Claimable
<1>13. CASE Kill(d)
  BY <1>13 DEF Kill, Claimable
<1> QED
  BY <1>5, <1>6, <1>7, <1>8, <1>9, <1>10, <1>11, <1>12, <1>13 DEF WorkerStep

LEMMA StepHandover ==
    ASSUME ~AmbiguousInvoke, ClaimInv, HandoverInv, [Next]_vars
    PROVE  HandoverInv'
<1>1. CASE ServerStep
  BY <1>1, ServerKeepsHandover
<1>2. CASE \E d \in Deliveries : Deliver(d) \/ WorkerStep(d) \/ Kill(d)
  BY <1>2, DeliveryKeepsHandover
<1>3. CASE UNCHANGED vars
  BY <1>3 DEF vars, rowVars, HandoverInv, Claimable
<1> QED
  BY <1>1, <1>2, <1>3 DEF Next

\* Where no step leaves a terminal status: the server settles a row only
\* before anybody claims it, and a worker that has not settled reads running.
LEMMA StepKeepsTerminal ==
    ASSUME ~AmbiguousInvoke, ClaimInv, HandoverInv, [Next]_vars,
           status \in TerminalStatus
    PROVE  UNCHANGED status
<1> USE DEF HandoverInv, TerminalStatus, rowVars
<1>1. CASE ServerStep
  BY <1>1 DEF ServerStep, ServerBegin, ServerInvoke, ServerAbandonEvent,
              ServerAbandonRow, PutPending
<1>2. ASSUME NEW d \in Deliveries, Deliver(d) \/ WorkerStep(d) \/ Kill(d)
      PROVE  UNCHANGED status
  BY <1>2 DEF Deliver, WorkerStep, WorkerBegin, MarkRunning, ResolveClaim, OwnerRuns,
              OwnerCancels, OwnerAnnounces, OwnerSettles, Kill, PutPending, Claimable
<1>3. CASE UNCHANGED vars
  BY <1>3 DEF vars
<1> QED
  BY <1>1, <1>2, <1>3 DEF Next

LEMMA StepKeepsFirstEvent ==
    ASSUME ~AmbiguousInvoke, ClaimInv, HandoverInv, [Next]_vars, firstEvent # None
    PROVE  UNCHANGED firstEvent
<1> USE DEF HandoverInv, rowVars
<1>1. CASE ServerStep
  BY <1>1 DEF ServerStep, ServerBegin, ServerInvoke, ServerAbandonEvent, ServerAbandonRow
<1>2. ASSUME NEW d \in Deliveries, Deliver(d) \/ WorkerStep(d) \/ Kill(d)
      PROVE  UNCHANGED firstEvent
  <2>1. pc[d] \in OwningStates => token = d
    BY DEF ClaimInv, ExecutorsOwn, OwnersHold
  <2> QED
    BY <1>2, <2>1 DEF OwningStates, Deliver, WorkerStep, WorkerBegin, MarkRunning,
       ResolveClaim, OwnerRuns, OwnerCancels, OwnerAnnounces, OwnerSettles, Kill
<1>3. CASE UNCHANGED vars
  BY <1>3 DEF vars
<1> QED
  BY <1>1, <1>2, <1>3 DEF Next

\* A terminal row is never written again: the writer rule of
\* docs/cloud-evals.md, as far as it is true.
THEOREM TerminalRowStands ==
    ASSUME ~AmbiguousInvoke PROVE Spec => TerminalIsForever
<1>1. ClaimInv /\ HandoverInv /\ [Next]_vars => HandoverInv'
  BY StepHandover
<1>2. Spec => []HandoverInv
  BY <1>1, InitHandover, ClaimInvariant, PTL DEF Spec
<1>3. ClaimInv /\ HandoverInv /\ [Next]_vars
        => [(status \in TerminalStatus) => UNCHANGED status]_status
  BY StepKeepsTerminal
<1> QED
  BY <1>2, <1>3, ClaimInvariant, PTL DEF Spec, TerminalIsForever

\* Nobody overwrites the evaluation's first event.
THEOREM FirstEventIsKept ==
    ASSUME ~AmbiguousInvoke PROVE Spec => FirstEventStands
<1>1. ClaimInv /\ HandoverInv /\ [Next]_vars => HandoverInv'
  BY StepHandover
<1>2. Spec => []HandoverInv
  BY <1>1, InitHandover, ClaimInvariant, PTL DEF Spec
<1>3. ClaimInv /\ HandoverInv /\ [Next]_vars
        => [firstEvent # None => UNCHANGED firstEvent]_firstEvent
  BY StepKeepsFirstEvent
<1> QED
  BY <1>2, <1>3, ClaimInvariant, PTL DEF Spec, FirstEventStands
=============================================================================
