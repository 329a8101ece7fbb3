SPECIFICATION Spec
CONSTANTS
  MaxText = 5
  MaxFree = 4
  MaxBits = 13
  MaxDecisions = 5
  MaxCount = 40
INVARIANTS
  StreamsComeBack TreesAreCodes MatchesAreText CodersInStep
CHECK_DEADLOCK FALSE
