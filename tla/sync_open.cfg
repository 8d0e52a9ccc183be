SPECIFICATION Spec
CONSTANTS
  Request = {r1, r2}
  Ranges <- RangesEndless
  Log <- LogsPlain
  MaxHeight = 2
  MaxReorgs = 0
  MaxFaults = 0
SYMMETRY RequestSymmetry
INVARIANTS
  OkCoversRange
CHECK_DEADLOCK FALSE
