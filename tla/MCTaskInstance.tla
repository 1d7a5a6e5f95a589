--------------------------- MODULE MCTaskInstance ---------------------------
(* TaskInstance for TLC: workers are interchangeable.                      *)
EXTENDS TaskInstance, TLC

WorkerSymmetry == Permutations(Workers)
=============================================================================
