---------------------------- MODULE MCCloudWorker ----------------------------
(* Small instances of CloudWorker. *)
EXTENDS CloudWorker

AllEvalKinds == {"determinism", "grade"}
OnlyDeterminism == {"determinism"}
\* The calls whose failure leaves the settling path itself intact.
WorkFaults == {"meta", "run", "cancel", "load", "local"}
OnlyFlip == {"flip"}
==============================================================================
