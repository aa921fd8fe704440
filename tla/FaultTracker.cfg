SPECIFICATION Spec
CONSTANTS
  Tids = {t1, t2, t3}
  MaxCalls = 4
  MapSize = 2
  MaxLive = 2
  BufferSize = 1
  Setups <- MCSetups
SYMMETRY Symmetry
INVARIANTS
  FaultsExact
  SpansMatch
