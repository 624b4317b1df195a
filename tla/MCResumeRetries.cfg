SPECIFICATION Spec
CONSTANTS
  Actions <- MCActions
  MaxMoneyActions = 3
  MaxAutoRetries = 1
  MaxContacts = 1
  MaxIntents = 3
  MaxCrashes = 1
INVARIANT
  RetryCapSurvivesRestart
CHECK_DEADLOCK FALSE
