CONSTANTS
  Words <- MCWords
  Lines <- MCLines
  Dirs <- MCDirs
SPECIFICATION Spec
INVARIANTS
  RunsAsRead
  SubshellsClosed
  LeavesForExit
PROPERTY EveryLineEnds
CHECK_DEADLOCK FALSE
