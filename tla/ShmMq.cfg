SPECIFICATION FairSpec
CONSTANTS
  Length <- MCLength
  RingSize = 3
  Leaders = {"S", "R"}
  Handles = {TRUE, FALSE}
  NoWaits = {TRUE, FALSE}
  Flushes = {TRUE, FALSE}
  MayAbort = {"S", "R"}
  MayDetach = {"S", "R"}
INVARIANTS
  WithinRing
  InUseIntact
  DetachLosesNothing
  NoNewsMissed
PROPERTIES
  ImplementsQueue
  DeliveredToLeader
  GoneIsNoticed
CHECK_DEADLOCK FALSE
