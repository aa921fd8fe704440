SPECIFICATION Spec
CONSTANTS
  Regions <- MCRegions
  HostCores = 16
  Configs <- MCConfigs
  MaxCrashes = 0
  RebootFaults = {"slow"}
INVARIANT BootMatchesConfig
