SPECIFICATION Spec
CONSTANTS
  Actions <- MCActions
  MaxMoneyActions = 3
  MaxAutoRetries = 1
  MaxContacts = 2
  MaxIntents = 3
  MaxCrashes = 1
INVARIANT
  CrashNeverDoubles
CHECK_DEADLOCK FALSE
