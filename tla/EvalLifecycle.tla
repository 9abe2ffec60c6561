---------------------------- MODULE EvalLifecycle ----------------------------
(***************************************************************************)
(* What one cloud evaluation promises to everybody who reads it.            *)
(*                                                                          *)
(* The reader of an evaluation sees two things: the status on its META row  *)
(* and the last line of its event log.  The promise (docs/cloud-evals.md,   *)
(* "Writer rules") is that the log is closed by one eval_complete line, the *)
(* row goes terminal only after that, with the status of that line, and     *)
(* neither changes again.  CloudWorker implements this.                     *)
(***************************************************************************)

CONSTANTS TerminalStatus,   \* the statuses an evaluation can never leave
          Open              \* the closing line of a log that has none

VARIABLES status,   \* "running", or the terminal status
          closing   \* the status the eval_complete line carries

lifecycleVars == <<status, closing>>

Init ==
    /\ status = "running"
    /\ closing = Open

\* The worker appends eval_complete.
Close(s) ==
    /\ status = "running"
    /\ closing = Open
    /\ closing' = s
    /\ UNCHANGED status

\* The worker flips the row to the status it has just announced.
Settle ==
    /\ status = "running"
    /\ closing # Open
    /\ status' = closing
    /\ UNCHANGED closing

Next == Settle \/ \E s \in TerminalStatus : Close(s)

Spec == Init /\ [][Next]_lifecycleVars

\* Every evaluation that was claimed comes to rest.
Fairness == WF_lifecycleVars(Next)
==============================================================================
