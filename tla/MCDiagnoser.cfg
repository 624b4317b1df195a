SPECIFICATION Spec
CONSTANTS
  Cases <- MCCases
  Refusals = {"refused"}
  Kinds = {"anthropic", "openai-compat", "ollama"}
  Modes = {"unrouted", "conflict_only"}
  Threshold = 2
  ProbeAfterSkips = 2
  MaxRetries = 1
  MaxDecisions = 5
  MaxSwings = 2
INVARIANTS
  TypeOK
  FailingProviderLeftAlone
  RepairIsFresh
  HealthyMeansAnswered
PROPERTIES
  ThrottleSparesBreaker
  Answers
CHECK_DEADLOCK FALSE
