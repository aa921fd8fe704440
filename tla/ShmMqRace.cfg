SPECIFICATION FairSpec
CONSTANTS
  Length <- MCLength
  RingSize = 3
  Leaders = {"S"}
  Handles = {TRUE}
  NoWaits = {FALSE}
  Flushes = {TRUE, FALSE}
  MayAbort = {}
  MayDetach = {}
PROPERTY Delivered
CHECK_DEADLOCK FALSE
