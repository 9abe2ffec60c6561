---------------------------- MODULE MCWorkerClaim ----------------------------
(* Small instances of WorkerClaim. *)
EXTENDS WorkerClaim

CONSTANTS d1, d2, d3

TwoDeliveries == {d1, d2}
\* MaximumRetryAttempts is 2: the event is tried three times.
ThreeDeliveries == {d1, d2, d3}
==============================================================================
