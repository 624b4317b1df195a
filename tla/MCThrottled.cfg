SPECIFICATION Spec
CONSTANTS
  Cases <- MCCases
  Refusals = {"refused"}
  Kinds = {"openai-compat"}
  Modes = {"unrouted"}
  Threshold = 2
  ProbeAfterSkips = 2
  MaxRetries = 1
  MaxDecisions = 2
  MaxSwings = 1
PROPERTY ThrottlingIsNoFailure
CHECK_DEADLOCK FALSE
