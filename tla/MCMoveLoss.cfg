CONSTANTS
  a = a
  b = b
  d = d
  e = e
  star = star
  Names <- MCNames
  InitTrees <- MCInitTrees
  Commands <- MCStarCommand
  FF_FS_LOCK = 1
SPECIFICATION Spec
INVARIANT LostOnlyToASuccessor
CHECK_DEADLOCK FALSE
