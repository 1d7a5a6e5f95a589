SPECIFICATION Spec
CONSTANTS
  p1 = p1
  p2 = p2
  Producers = {p1, p2}
  Readings = {490, 610}
  Delay = 30
  Intervals = {2, 3}
  Changes <- Shortened
  Given <- GivenRanges
  CountChunks <- Files
  BackfillLimit = 1
SYMMETRY ProducerSymmetry
INVARIANTS
  TypeOK
  PartialNeedsCause
  BackfillSkipsNothing
  OverlapNeedsCause
  NeverEarly
