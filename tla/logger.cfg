SPECIFICATION Spec
CONSTANTS
  Writer = {w1, w2}
  Configs <- SomeConfigs
  Levels = {5}
  MaxMessages = 4
  MaxDrops = 1
SYMMETRY WriterSymmetry
INVARIANTS
  TypeOK
  LocalOutputsServed
  SecondTryDelivers
CHECK_DEADLOCK FALSE
