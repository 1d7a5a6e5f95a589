--------------------------- MODULE MCBackupFiles ---------------------------
(* BackupFiles for TLC: triggers, producers, seconds are interchangeable.  *)
EXTENDS BackupFiles, TLC

BackupSymmetry ==
  Permutations(Triggers) \cup Permutations(Producers) \cup Permutations(Seconds)
=============================================================================
