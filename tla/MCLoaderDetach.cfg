SPECIFICATION LoaderSpec
CONSTANTS
  Objects <- MCObjects
  Names <- MCNames
  IdSpace = 3
  NoName = NoName
  Vacant = Vacant
INVARIANTS
  DetachedIsUnhooked
