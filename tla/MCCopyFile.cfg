CONSTANTS
  a = a
  b = b
  d = d
  e = e
  star = star
  Names <- MCNames
  InitTrees <- MCInitTrees
  Commands <- MCCopyFile
  FF_FS_LOCK = 4
  HostMax = 1
SPECIFICATION Spec
INVARIANT CopyIsThere
CHECK_DEADLOCK FALSE
