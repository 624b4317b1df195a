SPECIFICATION Spec
CONSTANTS
  Actions <- MCActions
  MaxMoneyActions = 2
  MaxAutoRetries = 1
  MaxContacts = 1
  MaxIntents = 3
  MaxCrashes = 1
INVARIANTS
  TypeOK
  RebuildPessimistic
  ExecutedOnce
  NoSilentEffect
  NewDecisionIsFresh
  CapsSurviveRestart
PROPERTIES
  NoReplayAcrossRestart
  AuditSpec
CHECK_DEADLOCK FALSE
