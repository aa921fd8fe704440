SPECIFICATION ExpFairSpec
CONSTANTS
  Regions <- MCRegions
  HostCores = 16
  Configs <- MCConfigs
  MaxCrashes = 1
  RebootFaults = {}
  Shell = {s1, s2}
INVARIANTS
  BootMatchesConfig
  EnvironmentMatchesConfig
  FbmmHasMount
  GrubStaysClean
  OkLeavesNoTracker
  PrefixExecutes
  AloneOnHost
  TrapIsOurs
  DirHasMount
PROPERTY RunEnds
