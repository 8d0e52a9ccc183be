SPECIFICATION FairSpec
CONSTANT MaxSignals = 2
PROPERTY SignalClosesServer
CHECK_DEADLOCK FALSE
