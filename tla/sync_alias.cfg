SPECIFICATION Spec
CONSTANTS
  Request = {r1, r2}
  Ranges <- RangesOne
  Log <- LogsMoved
  MaxHeight = 1
  MaxReorgs = 1
  MaxFaults = 0
SYMMETRY RequestSymmetry
INVARIANTS
  OkMeansLogsNamed
CHECK_DEADLOCK FALSE
