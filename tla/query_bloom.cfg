SPECIFICATION Spec
CONSTANTS
  Criteria <- CriteriaAddress
  Log <- LogsTwo
  NoBound = NoBound
  NoHash = NoHash
  ZeroHash = ZeroHash
  MaxHeight = 2
  MaxReorgs = 0
  BlockRangeCap = 2
  LogsCap = 3
  MaxToOverhang = 1
  MaxRows = 2
  MaxFaults = 0
INVARIANTS
  MatchesReturned
CHECK_DEADLOCK FALSE
