CONSTANTS
  MaxLen = 3
  MaxPuts = 3
  Jobs = 3
  MaxKills = 2
  None = None
  Open = Open
SPECIFICATION Spec
INVARIANT LargeAlwaysReadable
CHECK_DEADLOCK FALSE
