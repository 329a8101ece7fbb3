SPECIFICATION Spec
CONSTANTS
  MaxLen = 1
  CountFactor = 64
  PackLevels = {"max"}
  MaxText = 4
  LineEnds = TRUE
  Beyond = {}
  MaxColumns = 9
  Word = 1000000000
  MaxDigits = 4
  MaxDepth = 2
  ChunkPlain = 2
  MinTensor = 3
  MaxLayers = 0
  MaxTokens = 10
INVARIANT RecordsComeBack
CHECK_DEADLOCK FALSE
