SPECIFICATION Spec
CONSTANTS
  p = p
  q = q
  Lines <- MCLines
  MaxLen = 5
  Baseline = 1
  TableBytes = 64
INVARIANTS
  InBounds
  FurthestReaching
  IsScript
  Shortest
  FailsOnlyIfBothDo
PROPERTIES
  Returns
CHECK_DEADLOCK FALSE
