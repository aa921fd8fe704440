SPECIFICATION FairSpec
CONSTANTS
  Args <- MCArgs
  Cycles = {1, 2}
  Faults = {"mmap", "create"}
INVARIANTS
  StartTogether
  PhasesApart
  TotalsComplete
PROPERTY Terminates
