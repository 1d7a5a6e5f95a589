SPECIFICATION Spec
CONSTANTS
  w1 = w1
  NoWorker = NoWorker
  Workers = {w1}
  NumBatches = 1
  MaxRetry = 1
  PendingLimit = 1
  FailFast = TRUE
INVARIANT FailedOnlyAboveLimit
