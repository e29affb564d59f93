CONSTANTS
  a = a
  b = b
  Names <- MCNames
  InitTrees <- MCInitTrees
  Faulty = TRUE
  HostMax = 2
  FF_FS_LOCK = 2
SPECIFICATION Spec
INVARIANTS
  TypeOK
  TableExact
  BufferAgrees
  OutsideUntouched
  OnlyFilesStopIt
PROPERTY RemovesSubtree
