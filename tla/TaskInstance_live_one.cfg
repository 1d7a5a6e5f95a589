SPECIFICATION ProgressSpec
CONSTANTS
  w1 = w1
  NoWorker = NoWorker
  Workers = {w1}
  NumBatches = 2
  MaxRetry = 2
  PendingLimit = 1
  FailFast = FALSE
  Entries = {"RunTask", "RunUploader", "OnStartup"}
PROPERTIES
  RepeatedCallsComplete
  Returns
