CONSTANTS
  None = None
  LitLens <- BoundLitLens
  MatchLens <- BoundMatchLens
  Offsets <- SomeOffsets
  TL = 4
  MAX_SYMBOLS = 8
  HALF = 8
  Hists <- ThreeHists
  CountHists <- MixedHists
  MaxSymbols = 5
  Thread = {t1}
  MaxBlocks = 3
  MaxBlock = 2
  HeaderLen = 2
  MaxBytes = 5
  MaxCall = 3
  MaxFaults = 2
  t1 = t1
  CodeStream = {codeLL, codeOff}
  codeLL = codeLL
  codeOff = codeOff
SPECIFICATION Spec
INVARIANTS
  SequencesDecode TansDecodes InStep ReadIsWritten
SYMMETRY Symmetry
CHECK_DEADLOCK FALSE
