SPECIFICATION Spec
CONSTANTS
  Request = {r1, r2}
  Ranges <- RangesLow
  Log <- LogsTwoDigits
  MaxHeight = 2
  MaxReorgs = 0
  MaxFaults = 1
SYMMETRY RequestSymmetry
INVARIANTS
  TypeOK
  OkCoversRange
  OkMeansLogsStored
  NoPhantomHeight
  LogHasBloom
  ResyncIsQuiet
CHECK_DEADLOCK FALSE
