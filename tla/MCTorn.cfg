SPECIFICATION Spec
CONSTANTS
  a = a
  b = b
  Payloads <- MCPayloads
  Signed = FALSE
  Tears = TRUE
  MaxRecords = 3
  MaxCrashes = 2
  MaxTampers = 0
INVARIANT
  CrashLeavesAChain
CHECK_DEADLOCK FALSE
