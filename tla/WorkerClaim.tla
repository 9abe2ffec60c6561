----------------------------- MODULE WorkerClaim -----------------------------
(***************************************************************************)
(* From POST /evaluations to one worker owning the evaluation.              *)
(*                                                                          *)
(* The server writes the pending row and queues one event; Lambda delivers  *)
(* that event at least once, and again after a failed invocation.  Every    *)
(* delivery tries to claim the row with a conditional update that carries   *)
(* its token, and resolves a claim whose answer it cannot trust by reading  *)
(* the row back.  A delivery that owns the evaluation executes it; here the *)
(* execution is the writes to META and EVENT#0 that other parties can see   *)
(* (CloudWorker has the rest of it).                                        *)
(***************************************************************************)
EXTENDS Naturals, FiniteSets

CONSTANTS
    Deliveries,       \* invocations of the worker for this evaluation
    None,             \* no token, no writer
    MaxFaults,        \* failed table calls and killed invocations
    AmbiguousInvoke   \* TRUE when a failed invoke may have queued the event

ASSUME ClaimAssumption ==
    /\ None \notin Deliveries
    /\ MaxFaults \in Nat
    /\ AmbiguousInvoke \in BOOLEAN

TerminalStatus == {"completed", "error", "cancelled"}
Status == {"absent", "pending", "running"} \cup TerminalStatus

\* The server writes EVENT#0 too, when it abandons the evaluation.
Server == "server"
Writers == Deliveries \cup {Server, None}

VARIABLES
    status,     \* META.status
    token,      \* META.claim_token
    firstEvent, \* who wrote the EVENT#0 item last
    server,     \* cloud.submit: where it stands
    queued,     \* whether Lambda holds the event
    pc,         \* where each delivery stands
    owners,     \* history: the deliveries that concluded they own it
    faults

rowVars == <<status, token>>
vars == <<status, token, firstEvent, server, queued, pc, owners, faults>>

Init ==
    /\ status = "absent"
    /\ token = None
    /\ firstEvent = None
    /\ server = "begin"
    /\ queued = FALSE
    /\ pc = [d \in Deliveries |-> "idle"]
    /\ owners = {}
    /\ faults = 0

Fail == faults < MaxFaults /\ faults' = faults + 1

\* Mutant of PutPending: the put lacks attribute_not_exists.
PutPendingAlways ==
    /\ status' = "pending"
    /\ UNCHANGED token

\* begin(): the conditional put of the pending row; a row that exists already
\* is left alone.
PutPending ==
    /\ status' = IF status = "absent" THEN "pending" ELSE status
    /\ UNCHANGED token

-----------------------------------------------------------------------------
(* The server: cloud.submit *)

\* A failure here is a 500: nothing is invoked, though the row may exist.
ServerBegin ==
    /\ server = "begin"
    /\ \/ PutPending /\ server' = "invoke" /\ UNCHANGED faults
       \/ Fail /\ server' = "failed" /\ (PutPending \/ UNCHANGED rowVars)
    /\ UNCHANGED <<firstEvent, queued, pc, owners>>

\* lambda:Invoke with InvocationType=Event.
ServerInvoke ==
    /\ server = "invoke"
    /\ \/ queued' = TRUE /\ server' = "accepted" /\ UNCHANGED faults
       \/ /\ Fail
          /\ server' = "abandon"
          /\ queued' \in (IF AmbiguousInvoke THEN BOOLEAN ELSE {FALSE})
    /\ UNCHANGED <<rowVars, firstEvent, pc, owners>>

\* _abandon: complete("error") through a store of its own, which first puts
\* the synthesized eval_complete as EVENT#0 ...
ServerAbandonEvent ==
    /\ server = "abandon"
    /\ \/ firstEvent' = Server /\ server' = "settle" /\ UNCHANGED faults
       \/ Fail /\ server' = "failed" /\ firstEvent' \in {Server, firstEvent}
    /\ UNCHANGED <<rowVars, queued, pc, owners>>

\* ... and then sets the row to error, unconditionally.
ServerAbandonRow ==
    /\ server = "settle"
    /\ server' = "failed"
    /\ \/ status' = "error" /\ UNCHANGED faults
       \/ Fail /\ status' \in {"error", status}
    /\ UNCHANGED <<token, firstEvent, queued, pc, owners>>

-----------------------------------------------------------------------------
(* One delivery: lambda_app.handler *)

Goto(d, label) == pc' = [pc EXCEPT ![d] = label]

\* Lambda invokes the worker with the event.
Deliver(d) ==
    /\ queued
    /\ pc[d] = "idle"
    /\ Goto(d, "begin")
    /\ UNCHANGED <<rowVars, firstEvent, server, queued, owners, faults>>

\* store.begin: an exception fails the invocation.
WorkerBegin(d) ==
    /\ pc[d] = "begin"
    /\ \/ PutPending /\ Goto(d, "claim") /\ UNCHANGED faults
       \/ Fail /\ Goto(d, "raised") /\ (PutPending \/ UNCHANGED rowVars)
    /\ UNCHANGED <<firstEvent, server, queued, owners>>

\* Mutant of Claimable: no condition at all.
ClaimableAlways == TRUE

\* The condition of the claim: attribute_not_exists(status) OR status = pending.
Claimable == status \in {"absent", "pending"}

TakeRow(d) == status' = "running" /\ token' = d

\* mark_running: the conditional update; whatever goes wrong with it, a failed
\* condition included, is settled by reading the row back.
MarkRunning(d) ==
    /\ pc[d] = "claim"
    /\ \/ /\ Claimable
          /\ TakeRow(d)
          /\ Goto(d, "own")
          /\ owners' = owners \cup {d}
          /\ UNCHANGED faults
       \/ /\ ~Claimable
          /\ Goto(d, "readback")
          /\ UNCHANGED <<rowVars, owners, faults>>
       \/ /\ Fail                          \* the answer is lost
          /\ Goto(d, "readback")
          /\ \/ Claimable /\ TakeRow(d)
             \/ UNCHANGED rowVars
          /\ UNCHANGED owners
    /\ UNCHANGED <<firstEvent, server, queued>>

\* Mutant of ResolveClaim: a failed claim is somebody else's, whoever's token
\* the row carries.
ResolveClaimUnread(d) ==
    /\ pc[d] = "readback"
    /\ Goto(d, IF Claimable THEN "raised" ELSE "duplicate")
    /\ UNCHANGED <<rowVars, firstEvent, server, queued, owners, faults>>

\* Mutant of ResolveClaim: a claim that never landed is not raised again.
ResolveClaimQuietly(d) ==
    /\ pc[d] = "readback"
    /\ \/ /\ status = "running" /\ token = d
          /\ Goto(d, "own")
          /\ owners' = owners \cup {d}
       \/ /\ ~(status = "running" /\ token = d)
          /\ Goto(d, "duplicate")
          /\ UNCHANGED owners
    /\ UNCHANGED <<rowVars, firstEvent, server, queued, faults>>

\* _resolve_claim: the row itself says whose it is.
ResolveClaim(d) ==
    /\ pc[d] = "readback"
    /\ \/ /\ status = "running" /\ token = d
          /\ Goto(d, "own")
          /\ owners' = owners \cup {d}
          /\ UNCHANGED faults
       \/ /\ Claimable                     \* re-raised: Lambda redelivers
          /\ Goto(d, "raised")
          /\ UNCHANGED <<owners, faults>>
       \/ /\ ~Claimable /\ ~(status = "running" /\ token = d)
          /\ Goto(d, "duplicate")
          /\ UNCHANGED <<owners, faults>>
       \/ /\ Fail                          \* the read fails as well
          /\ Goto(d, "raised")
          /\ UNCHANGED owners
    /\ UNCHANGED <<rowVars, firstEvent, server, queued>>

\* The engine's save_evaluation(status="running"), unconditional.
OwnerRuns(d) ==
    /\ pc[d] = "own"
    /\ status' = "running"
    /\ Goto(d, "announce")
    /\ UNCHANGED <<token, firstEvent, server, queued, owners, faults>>

\* An owner that finds the cancel flag runs no engine: complete("cancelled").
OwnerCancels(d) ==
    /\ pc[d] = "own"
    /\ firstEvent' = d
    /\ Goto(d, "close")
    /\ UNCHANGED <<rowVars, server, queued, owners, faults>>

\* Its first event is EVENT#0, whatever that item holds.
OwnerAnnounces(d) ==
    /\ pc[d] = "announce"
    /\ firstEvent' = d
    /\ Goto(d, "close")
    /\ UNCHANGED <<rowVars, server, queued, owners, faults>>

\* Mutant of OwnerSettles: a failed evaluation is settled as "failed".
OwnerSettlesFailed(d) ==
    /\ pc[d] = "close"
    /\ status' \in {"completed", "failed", "cancelled"}
    /\ Goto(d, "done")
    /\ UNCHANGED <<token, firstEvent, server, queued, owners, faults>>

\* finalize: the row goes terminal, unconditionally.
OwnerSettles(d) ==
    /\ pc[d] = "close"
    /\ status' \in TerminalStatus
    /\ Goto(d, "done")
    /\ UNCHANGED <<token, firstEvent, server, queued, owners, faults>>

\* The invocation is killed.
Kill(d) ==
    /\ pc[d] \notin {"idle", "raised", "duplicate", "done", "killed"}
    /\ Fail
    /\ Goto(d, "killed")
    /\ UNCHANGED <<rowVars, firstEvent, server, queued, owners>>

WorkerStep(d) ==
    \/ WorkerBegin(d) \/ MarkRunning(d) \/ ResolveClaim(d)
    \/ OwnerRuns(d) \/ OwnerCancels(d) \/ OwnerAnnounces(d) \/ OwnerSettles(d)

ServerStep ==
    ServerBegin \/ ServerInvoke \/ ServerAbandonEvent \/ ServerAbandonRow

Next ==
    \/ ServerStep
    \/ \E d \in Deliveries : Deliver(d) \/ WorkerStep(d) \/ Kill(d)

Spec == Init /\ [][Next]_vars

\* Lambda redelivers the event as long as every invocation so far has failed;
\* any other copy may come or not.
Redeliver ==
    /\ \A d \in Deliveries : pc[d] \in {"idle", "raised", "killed"}
    /\ \E d \in Deliveries : Deliver(d)

\* An invocation that is not killed goes on.
FairSpec ==
    /\ Spec
    /\ WF_vars(Redeliver)
    /\ \A d \in Deliveries : WF_vars(WorkerStep(d))

-----------------------------------------------------------------------------
DeliveryStates == {"idle", "begin", "claim", "readback", "raised", "duplicate",
                   "own", "announce", "close", "done", "killed"}
OwningStates == {"own", "announce", "close", "done"}

TypeOK ==
    /\ status \in Status
    /\ token \in Deliveries \cup {None}
    /\ firstEvent \in Writers
    /\ server \in {"begin", "invoke", "abandon", "settle", "accepted", "failed"}
    /\ queued \in BOOLEAN
    /\ pc \in [Deliveries -> DeliveryStates]
    /\ owners \subseteq Deliveries
    /\ faults \in Nat

\* Two deliveries executing the same evaluation would buy the model runs twice
\* and overwrite each other's events: at most one delivery ever concludes that
\* it owns the evaluation, whatever fails on the way.
AtMostOneOwner == \A d, e \in owners : d = e

\* A row that reads running is being executed, or its delivery failed after the
\* claim: it is never left behind by a delivery that stood down as a duplicate
\* or that returned.
RunningHasExecutor ==
    status = "running" =>
        /\ token \in Deliveries
        /\ pc[token] \in {"readback", "own", "announce", "close", "raised", "killed"}

\* A delivery that executes holds the row's claim, so nobody else can take it.
OwnerHoldsClaim ==
    \A d \in Deliveries : pc[d] \in OwningStates => token = d /\ status # "pending"

\* is_terminal: a status is one the row can never leave.
TerminalIsForever == [][(status \in TerminalStatus) => UNCHANGED status]_status

\* Once somebody has written the evaluation's first event nobody overwrites it.
FirstEventStands == [][firstEvent # None => UNCHANGED firstEvent]_firstEvent

\* Fewer failures than deliveries: an event that was queued gets its row
\* claimed, and does not read pending forever.
QueuedIsClaimed == queued ~> ~Claimable
==============================================================================
