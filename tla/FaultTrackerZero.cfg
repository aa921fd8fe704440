SPECIFICATION Spec
CONSTANTS
  Tids = {t1, t2, t3}
  MaxCalls = 2
  MapSize = 2
  MaxLive = 2
  BufferSize = 1
  Setups <- ServerSetups
SYMMETRY Symmetry
INVARIANT NoDivisionByZero
