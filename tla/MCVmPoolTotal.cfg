SPECIFICATION PoolSpec
CONSTANTS
  Tasks = {t1, t2}
  Vms = {v1, v2, v3}
  MaxTotal = 1
  MaxWarm = 1
  WarmCounts = {}
  NoTask = NoTask
  NoVm = NoVm
SYMMETRY MCSymmetry
INVARIANTS
  TotalWithinLimit
CHECK_DEADLOCK FALSE
