SPECIFICATION Spec
CONSTANTS
  Vias = {"mcp"}
  Keys <- MCKeys
  MaxCalls = 1
  MaxLines = 2
INVARIANT FailedMeansNothing
CHECK_DEADLOCK FALSE
