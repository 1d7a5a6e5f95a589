SPECIFICATION Spec
CONSTANTS
  t1 = t1
  t2 = t2
  p1 = p1
  p2 = p2
  NoTrigger = NoTrigger
  Triggers = {t1, t2}
  Producers = {p1, p2}
  NumBatches = 2
  Parallelism = 2
  s1 = s1
  s2 = s2
  Seconds = {s1, s2}
  NotYet = NotYet
SYMMETRY BackupSymmetry
INVARIANTS
  TypeOK
  FileNeverMissing
  WrongDataNeedsCause
  LostNeedsSharedName
CHECK_DEADLOCK FALSE
