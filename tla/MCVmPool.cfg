SPECIFICATION PoolSpec
CONSTANTS
  Tasks = {t1, t2, t3}
  Vms = {v1, v2, v3}
  MaxTotal = 2
  MaxWarm = 1
  WarmCounts = {1, 2}
  NoTask = NoTask
  NoVm = NoVm
SYMMETRY MCSymmetry
INVARIANTS
  PoolTypeOK
  OnePlace
  Accounted
  ExclusiveChannel
  WarmIsClean
  LocksComeFree
PROPERTIES
  KeepsLeases
  VmsKeepPromise
  CallsAdvance
CHECK_DEADLOCK FALSE
