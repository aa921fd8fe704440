SPECIFICATION Spec
CONSTANTS
  Args <- LargeArgs
  Cycles = {1}
  Faults = {}
INVARIANT TouchReachesEveryPage
