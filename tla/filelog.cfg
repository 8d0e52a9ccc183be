SPECIFICATION Spec
CONSTANTS
  Writer = {w1, w2}
  MaxLines = 2
  MaxSize = 4
  Daily = TRUE
  MaxDays = 1
  MaxNum = 1
  Month = 2
  Sizes = {1, 3}
  LastDay = 3
  MaxMessages = 4
  MaxFaults = 1
SYMMETRY WriterSymmetry
INVARIANTS
  TypeOK
  CountersAgree
  LinesBounded
  WrittenIsKept
  NoLineIsNewer
  KeptWithoutAppend
CHECK_DEADLOCK FALSE
