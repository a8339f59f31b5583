SPECIFICATION MicroSpec
CONSTANTS
  Targets = {k1, k2}
  NoTarget = NoTarget
  NoEntry = NoEntry
  NoCall = NoCall
  MaxLoads = 2
  MaxAttempts = 2
  MaxAbandoned = 1
SYMMETRY MCSymmetry
INVARIANTS
  MicroTypeOK
  InStep
  MirrorAgrees
  ResetCleans
  NoOrphan
  PointIsHook
  AnswerToCome
PROPERTIES
  KeepsPromise
CHECK_DEADLOCK FALSE
