CONSTANTS
  OpsSize = 128
  FF_FS_LOCK = 4
  VolumeName <- v
  Lines <- GlobLines
  Trees <- MCTrees
  Cwds <- MCCwds
  Word = 33554432
  BufSize = 3
  Row = 2
  CatSize = 2
  MaxFaults = 2
SPECIFICATION Spec
INVARIANT
  OnlyNamedTouched
CHECK_DEADLOCK FALSE
