CONSTANTS
  GrowthLimit = 8
  InitialSize = 1
  Chars <- MCChars
  Width <- MCWidth
  Lines <- MCLines
SPECIFICATION Spec
INVARIANTS
  TokensAsRead
  InBounds
PROPERTY CallsReturn
CHECK_DEADLOCK FALSE
