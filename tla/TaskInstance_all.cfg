SPECIFICATION TaskSpec
CONSTANTS
  w1 = w1
  w2 = w2
  NoWorker = NoWorker
  Workers = {w1, w2}
  NumBatches = 2
  MaxRetry = 0
  PendingLimit = 1
  FailFast = TRUE
  Entries = {"RunTask", "RunUploader", "OnStartup"}
SYMMETRY WorkerSymmetry
INVARIANTS
  TaskTypeOK
  BatchesArePrefix
  MetaMeansProduced
  DuplicateNeedsCause
PROPERTIES
  RowsStay
  ImplementsLife
