SPECIFICATION FairSpec
CONSTANTS
  Threads = 2
  Updates = 2
  Size <- MCSize
  EltSize = 8
  HotBytes <- MCHotBytes
  MoveHotset = TRUE
  HalfInt = 6
  Chunk = 3
  MoveTic = 1
  MoveEnd = 2
  StopTic = 2
INVARIANTS
  ExceedsByQuarter
  ReportedWasDone
  StopsWithinOne
PROPERTY
  Ends
CHECK_DEADLOCK FALSE
