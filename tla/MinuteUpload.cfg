SPECIFICATION CronSpec
CONSTANTS
  w1 = w1
  w2 = w2
  NoWorker = NoWorker
  Workers = {w1, w2}
  NumBatches = 2
  MaxRetry = 2
  Limits = {0, 2}
  Changes <- Lowered
  PendingLimit = 2
INVARIANTS
  TypeOK
  DuplicateNeedsCause
PROPERTIES
  ImplementsDelivery
  SettlesWhenNamed
  OnlyStrandedRemain
