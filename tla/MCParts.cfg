CONSTANTS
  HOLDERS = 2
  FirstCap = 2
  Hashes = {3, 7}
  MaxIds = 3
  MaxInserts = 4
  Empty = Empty
  Name = {n1, n2, pack}
  PackName = pack
  WriteFails = TRUE
  MaxLen = 4
  None = None
  CHANNEL = 2
  MaxPuts = 4
  Thread = {t1, t2}
  Region = {home, wrong}
  Home = home
  ATTEMPTS = 4
  MaxLapses = 1
  Pieces = 4
  MaxVersions = 2
  Worker = {w1, w2}
  Units = 4
  n1 = n1
  n2 = n2
  pack = pack
  t1 = t1
  t2 = t2
  home = home
  wrong = wrong
  w1 = w1
  w2 = w2
SPECIFICATION Spec
INVARIANTS
  ProbesSound NameIsLatest
  WaitedIsWritten IndexComplete
  EndsInAnswer OkIsWhole NoPartsLeft OneVersion
PROPERTIES ImplementsHolders FailureStops CallsReturn ImplementsOrdered DecodersEnd
CHECK_DEADLOCK FALSE
