SPECIFICATION Spec
CONSTANTS
  w1 = w1
  w2 = w2
  NoWorker = NoWorker
  Workers = {w1, w2}
  NumBatches = 2
  MaxRetry = 2
  PendingLimit = 1
  FailFast = FALSE
SYMMETRY WorkerSymmetry
INVARIANTS
  TypeOK
  DuplicateNeedsCause
  VerdictSound
  CounterNeverOverstates
  FailedWhenBudgetSpent
PROPERTIES
  ImplementsDelivery
  CallEnds
