SPECIFICATION FairSpec
CONSTANTS
  c1 = c1
  NumWorkers = 2
  LocalCap = 1
  MaxStandard = 1
  MaxBackground = 1
  IdleSteals = 1
  Clients <- OneClient
  Tasks = {1, 2, 3, 4, 5, 6}
  Background = {5, 6}
  Program <- PairProgram
  Kids <- PairKids
  Detached = {5}
  Waits <- WaitsForOwn
  MayStop = TRUE
INVARIANTS
  IInv
  ExactlyOnce
  StatsBalance
  NoIdleForever
  AbandonsOnlyShared
PROPERTIES
  ImplementsPool
  AcceptedResolves
  StopReturns
CHECK_DEADLOCK FALSE
