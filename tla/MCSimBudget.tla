---------------------------- MODULE MCSimBudget ----------------------------
(* Instances of SimBudget for TLC.                                          *)
EXTENDS SimBudget, TLC

(* The calls are interchangeable.                                           *)
CallSymmetry == Permutations(Calls)

=============================================================================
