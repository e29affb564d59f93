CONSTANTS
  NFatEnt = 8
  FatSS = 4
  SS = 2
  Csize = 2
  MaxDir = 8
  FF_FS_LOCK = 2
  Names <- MCNames
  Units <- MCUnits
  Media <- MCMedia
  Paths <- MCPaths
  Renames <- MCRenames
  Amounts = {3}
  MaxCalls = 4
  MaxFaults = 1
SPECIFICATION Spec
INVARIANTS
  TypeOK
  MediumSound
  MediumHoldsWhatWasWritten
  NothingLost
  SuccessIsOnMedium
PROPERTIES
  CallsAsApi
  OnlyFullDenies
  RenameKeepsOne
CHECK_DEADLOCK FALSE
