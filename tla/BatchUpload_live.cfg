SPECIFICATION ProgressSpec
CONSTANTS
  w1 = w1
  w2 = w2
  NoWorker = NoWorker
  Workers = {w1, w2}
  NumBatches = 2
  MaxRetry = 0
  PendingLimit = 2
  FailFast = TRUE
PROPERTIES
  Finishes
