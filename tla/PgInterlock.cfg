SPECIFICATION FairSpec
CONSTANTS
  Postmasters = {p1, p2}
  Backends = {b1}
  None = None
  Foreign = 1
  HugePages = "fbmm"
  MaxStarting = 2
  MaxStarts = 2
  AdminRemoves = TRUE
CHECK_DEADLOCK FALSE
INVARIANTS
  OneServer
  RecyclesOnlyDead
  LockFileNamesServer
PROPERTIES
  StartupEnds
  RecheckEndsDouble
