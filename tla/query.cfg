SPECIFICATION FairSpec
CONSTANTS
  Criteria <- CriteriaMixed
  Log <- LogsTwo
  NoBound = NoBound
  NoHash = NoHash
  ZeroHash = ZeroHash
  MaxHeight = 2
  MaxReorgs = 0
  BlockRangeCap = 2
  LogsCap = 3
  MaxToOverhang = 1
  MaxRows = 2
  MaxFaults = 1
INVARIANTS
  ReplySound
  CompleteOrEmpty
  MirroredRangeAnswered
  OnlyLimitsRefuse
PROPERTIES
  QueryEnds
CHECK_DEADLOCK FALSE
