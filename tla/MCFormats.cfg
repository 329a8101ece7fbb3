SPECIFICATION Spec
CONSTANTS
  MaxLen = 4
  CountFactor = 64
  PackLevels = {"max"}
  MaxText = 5
  LineEnds = FALSE
  Beyond = {}
  MaxColumns = 9
  Word = 1000000000
  MaxDigits = 4
  MaxDepth = 2
  ChunkPlain = 2
  MinTensor = 3
  MaxLayers = 3
  MaxTokens = 9
INVARIANTS
  ComesBack RecordsComeBack ShapeComesBack ClosesExactly
CHECK_DEADLOCK FALSE
