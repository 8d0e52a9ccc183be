SPECIFICATION FairSpec
CONSTANTS
  Byte <- SomeBytes
  Rate = 2
  MaxRate = 3
  OutputLen = 3
  MaxChunk = 4
  MaxInput = 4
  MaxOutput = 4
  MaxResets = 1
INVARIANT TypeOK
PROPERTIES
  HashSpec
  CallsReturn
CHECK_DEADLOCK FALSE
