SPECIFICATION Spec
CONSTANTS
  a = a
  b = b
  c = c
  Zero = Zero
  Values <- MCValues
  Capacities = {0, 1, 3}
  MaxLen = 5
SYMMETRY MCSymmetry
INVARIANTS
  HoldsOnlyQueued
PROPERTY ImplementsFifo
