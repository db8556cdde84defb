--------------------------- MODULE MCRequestLoop ---------------------------
(* Instances of RequestLoop for TLC.                                        *)
EXTENDS RequestLoop, TLC

(* The calls are interchangeable: sound for the invariants, not for the     *)
(* liveness run.                                                            *)
CallSymmetry == Permutations(Calls)

=============================================================================
