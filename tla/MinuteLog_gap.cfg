SPECIFICATION Spec
CONSTANTS
  p1 = p1
  Producers = {p1}
  Readings = {490, 610, 700}
  Delay = 30
  Intervals = {2}
  Changes = {}
  Given = {}
  CountChunks <- Files
  BackfillLimit = 0
PROPERTY NoGapAfterBackfill
