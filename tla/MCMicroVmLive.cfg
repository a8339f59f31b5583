SPECIFICATION FairMicroSpec
CONSTANTS
  Targets = {k1}
  NoTarget = NoTarget
  NoEntry = NoEntry
  NoCall = NoCall
  MaxLoads = 1
  MaxAttempts = 3
  MaxAbandoned = 1
PROPERTIES
  CallsEnd
  ShutdownEnds
CHECK_DEADLOCK FALSE
