SPECIFICATION StatsSpec
CONSTANTS
  c1 = c1
  NumWorkers = 2
  LocalCap = 1
  MaxStandard = 1
  MaxBackground = 1
  IdleSteals = 1
  Clients <- OneClient
  Tasks = {1, 2, 3}
  Background = {3}
  Program <- Burst
  Kids <- NoKids
  Detached = {}
  Waits <- NoWaits
  MayStop = FALSE
INVARIANTS
  CountsWhatWasSeen
  BacklogNotOverstated
CHECK_DEADLOCK FALSE
