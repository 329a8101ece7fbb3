SPECIFICATION Spec
CONSTANTS
  MaxText = 24
  MaxGrown = 4
  MinParsed = 7
INVARIANTS
  ReplayIsInput
  BlocksDecode
  CodesAreBest
  TreesAreSorted
CHECK_DEADLOCK FALSE
