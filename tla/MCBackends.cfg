SPECIFICATION Spec
CONSTANTS
  Vias = {"rest", "mcp"}
  Keys <- MCKeys
  MaxCalls = 2
  MaxLines = 2
INVARIANTS
  TypeOK
  ExecutedMeansLanded
  RefusedMeansNothing
PROPERTIES
  ContractSpec
  CallsEnd
CHECK_DEADLOCK FALSE
