SPECIFICATION FairPoolSpec
CONSTANTS
  Tasks = {t1, t2}
  Vms = {v1, v2, v3}
  MaxTotal = 2
  MaxWarm = 1
  WarmCounts = {}
  NoTask = NoTask
  NoVm = NoVm
INVARIANTS
  OverrunBounded
  ParkingBounded
PROPERTIES
  CallsReturn
CHECK_DEADLOCK FALSE
