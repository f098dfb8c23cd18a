SPECIFICATION Spec
CONSTANTS
  WordBits = 4
  SortLen = 5
  MemLen = 5
  CmdLen = 5
  NameLen = 4
  Keys = {1, 2, 3, 4}
  Tags = {1, 2}
  HashOf <- MCHashOf
  BitCnts = {0, 3, 6}
  Columns = 4
  Rows = 2
  MaxRows = 3
  FlagSets <- MCFlagSets
  Widths <- MCWidths
  Precisions <- MCPrecisions
  Numbers <- MCNumbers
  DigitBuf = 12
  Loads <- MCLoads
  Recents <- MCRecents
  Nices <- MCNices
  TicksPerSecond = 10
  MaxTicks = 11
  SetNices = {0, 1}
INVARIANTS
  ContainersAgree
  StringsAgree
  NumbersExact
  
  
  FeedbackWorks
  FileBytes
  ConsoleWorks
CHECK_DEADLOCK FALSE
