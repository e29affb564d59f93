CONSTANTS
  Words <- MCWords
  Lines <- ExitLines
  Dirs <- MCDirs
SPECIFICATION Spec
INVARIANT DidExit
CHECK_DEADLOCK FALSE
