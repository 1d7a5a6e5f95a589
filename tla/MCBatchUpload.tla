--------------------------- MODULE MCBatchUpload ---------------------------
(* BatchUpload for TLC: workers are interchangeable.                       *)
EXTENDS BatchUpload, TLC

WorkerSymmetry == Permutations(Workers)
=============================================================================
