SPECIFICATION FairSpec
CONSTANTS
  MaxItems = 4
  MaxPhases = 3
  Limits = {0, 1, 2, 3}
INVARIANTS
  TypeOK
  SlotsBounded
  EveryItemRuns
  ReturnTellsAll
PROPERTY Terminates
CHECK_DEADLOCK FALSE
