CONSTANTS
  a = a
  b = b
  d = d
  e = e
  star = star
  Names <- MCNames
  InitTrees <- MCInitTrees
  Commands <- MCCommands
  FF_FS_LOCK = 1
SPECIFICATION Spec
INVARIANTS
  TypeOK
  NoClobberLosesNothing
  BystandersUntouched
  SuccessMeansMoved
  LossIsReported
PROPERTY Terminates
CHECK_DEADLOCK FALSE
