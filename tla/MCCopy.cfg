CONSTANTS
  a = a
  b = b
  d = d
  e = e
  star = star
  Names <- MCNames
  InitTrees <- MCInitTrees
  Commands <- MCCommands
  FF_FS_LOCK = 4
  HostMax = 1
SPECIFICATION Spec
INVARIANTS
  TypeOK
  TableExact
  BystandersUntouched
  NoClobberKeepsAll
  EnoughEntries
  Skeleton
PROPERTY Terminates
CHECK_DEADLOCK FALSE
