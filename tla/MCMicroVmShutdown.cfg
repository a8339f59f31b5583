SPECIFICATION HostFairSpec
CONSTANTS
  Targets = {k1, k2}
  NoTarget = NoTarget
  NoEntry = NoEntry
  NoCall = NoCall
  MaxLoads = 2
  MaxAttempts = 2
  MaxAbandoned = 0
PROPERTIES
  ShutdownEnds
CHECK_DEADLOCK FALSE
