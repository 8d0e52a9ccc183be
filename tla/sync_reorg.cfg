SPECIFICATION FairSpec
CONSTANTS
  Request = {r1, r2}
  Ranges <- RangesOpen
  Log <- LogsForked
  MaxHeight = 1
  MaxReorgs = 1
  MaxFaults = 0
INVARIANTS
  OkMeansLogsNamed
  LogHasBloom
PROPERTIES
  MirrorSpec
  HandlerEnds
CHECK_DEADLOCK FALSE
