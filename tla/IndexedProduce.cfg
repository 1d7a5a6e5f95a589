SPECIFICATION FairSpec
CONSTANTS
  First = 2
  Last = 6
  Parallelism = 2
INVARIANTS
  TypeOK
  CreatedInOrder
  NilMeansAll
PROPERTIES
  ImplementsSequential
  Terminates
CHECK_DEADLOCK FALSE
