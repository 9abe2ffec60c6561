---------------------------- MODULE MCSpendCounter ----------------------------
(* Small instances of SpendCounter. *)
EXTENDS SpendCounter, TLC

CONSTANTS r1, r2, r3

TwoRequests == {r1, r2}
ThreeRequests == {r1, r2, r3}
RequestSymmetry == Permutations(ThreeRequests)
==============================================================================
