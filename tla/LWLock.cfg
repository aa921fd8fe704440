SPECIFICATION FairSpec
CONSTANTS
  p1 = p1
  p2 = p2
  p3 = p3
  Procs = {p1, p2, p3}
  Values = {0, 1}
  Calls <- MCCalls
  MaxOps = 1
  Strays = {p2}
INVARIANTS
  ListsMatch
  SemaphoresBalance
  NoSleeperForgotten
PROPERTIES
  ImplementsRWLock
  CallsReturn
CHECK_DEADLOCK FALSE
