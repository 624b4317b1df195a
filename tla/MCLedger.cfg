SPECIFICATION Spec
CONSTANTS
  a = a
  b = b
  Payloads <- MCPayloads
  Signed = TRUE
  Tears = TRUE
  MaxRecords = 3
  MaxCrashes = 2
  MaxTampers = 1
INVARIANTS
  TypeOK
  ReceiptsSurvive
  OnlyGenuineChains
  WholeFileIsAChain
CHECK_DEADLOCK FALSE
