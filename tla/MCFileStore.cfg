SPECIFICATION FairSpec
CONSTANTS
  r1 = r1
  r2 = r2
  r3 = r3
  None = None
  Unknown = Unknown
  Malformed = Malformed
  Requests <- MCRequests
  Saved <- MCSaved
  Servers = {"http", "grpc"}
  Kinds = {"upload", "download", "compare", "fetch"}
  MaxConns = 1
  Lengths = {0, 2}
  MaxFaults = 1
INVARIANTS
  IInv
  Exclusive
  NoBytesAstray
  IdNamesWholeFile
  AnswersAreTrue
PROPERTIES
  AnsweredAtLast
CHECK_DEADLOCK FALSE
