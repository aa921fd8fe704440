SPECIFICATION Spec
CONSTANTS
  Cpus = {c1, c2}
  None = None
  PtePerPde = 2
  FullSize = 4
  ITS = 2
  Setups <- MCSetups
SYMMETRY Symmetry
CHECK_DEADLOCK FALSE
INVARIANTS
  OneOrTwo
  ResultTellsSpeculation
  TablesRestored
