SPECIFICATION Spec
CONSTANTS
  w1 = w1
  w2 = w2
  w3 = w3
  Thieves <- MCThieves
  Capacity = 2
  MaxTasks = 4
SYMMETRY MCSymmetry
INVARIANTS
  AtMostOnce
  NothingLost
  StealIsCurrent
  IInv
PROPERTY ImplementsWorkDeque
