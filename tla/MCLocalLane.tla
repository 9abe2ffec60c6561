----------------------------- MODULE MCLocalLane -----------------------------
(* Small instances of LocalLane. *)
EXTENDS LocalLane

CONSTANTS c1, c2

OneClient == {c1}
TwoClients == {c1, c2}
==============================================================================
