SPECIFICATION Spec
CONSTANTS
  Tasks = 7
  Workers = 2
  AutoflushEvery = 2
  Threshold = 1
  ProbeAfterSkips = 2
  MaxOutages = 1
  MaxKills = 1
  WritesMayFail = TRUE
INVARIANTS
  TypeOK
  KillLosesLittle
  FinishedMeansStored
  HiccupIsShort
PROPERTIES
  Finishes
CHECK_DEADLOCK FALSE
