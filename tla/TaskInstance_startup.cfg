SPECIFICATION TaskSpec
CONSTANTS
  w1 = w1
  NoWorker = NoWorker
  Workers = {w1}
  NumBatches = 2
  MaxRetry = 0
  PendingLimit = 1
  FailFast = TRUE
  Entries = {"RunTask", "OnStartup"}
INVARIANT ClosedMeansUploaded
