SPECIFICATION Spec
CONSTANTS
  c1 = c1
  NumWorkers = 2
  LocalCap = 256
  MaxStandard = 0
  MaxBackground = 0
  IdleSteals = 4
  Clients <- OneClient
  Tasks = {1, 2}
  Background = {1}
  Program <- PairProgram
  Kids <- NoKids
  Detached = {}
  Waits <- WaitsForNext
  MayStop = FALSE
INVARIANTS
  NoIdleForever
CHECK_DEADLOCK FALSE
