CONSTANTS
  MaxLen = 4
  MaxPuts = 3
  Jobs = 1
  MaxKills = 1
  None = None
  Open = Open
SPECIFICATION Spec
INVARIANTS
  IndexIsMemory
  SidecarsAreIndex
  OpensReadable
PROPERTY KeptByKill
CHECK_DEADLOCK FALSE
