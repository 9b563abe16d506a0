SPECIFICATION Spec
CONSTANTS
  c1 = c1
  c2 = c2
  w1 = w1
  w2 = w2
  Submitters <- MCSubmitters
  Workers <- MCWorkers
  Threshold = 0
  AgingJitter = 0
  MaxStandard = 1
  MaxBackground = 2
  MaxTime = 3
  MaxTasks = 3
SYMMETRY MCSymmetry
INVARIANT DisabledMeansNoPromotion
CHECK_DEADLOCK FALSE
