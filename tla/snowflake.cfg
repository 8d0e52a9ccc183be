SPECIFICATION FairSpec
CONSTANTS
  Goroutine = {g1, g2, g3}
  NoGoroutine = nobody
  SnMax = 1
  TSMod = 3
  IdShift <- CodeShift
  StartTime = 2
  MaxTime = 6
  MaxCalls = 6
  MaxSetBacks = 1
PROPERTIES
  IdsIncrease
  SourceSpec
  MutexReleased
CHECK_DEADLOCK FALSE
