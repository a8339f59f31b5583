SPECIFICATION MapsSpec
CONSTANTS
  Objects <- MCObjects
  Names <- MCNames
  IdSpace = 3
  NoName = NoName
  Vacant = Vacant
  Keys <- MCKeys
  Bucket <- MCBucket
  HashMax = 2
  DumpLimit = 2
  Watched = {1}
  NoKey = NoKey
  NoDump = NoDump
INVARIANTS
  LoaderTypeOK
  AttachedIsHooked
  MapsTypeOK
PROPERTIES
  LoadKeepsTheOthers
  ClientLifecycle
  KernelLifecycle
  DumpComplete
CHECK_DEADLOCK TRUE
