SPECIFICATION Spec
CONSTANTS
  MaxContacts = 3
  WindowHours = 168
  GapHours = 20
  QuietStart = 21
  QuietEnd = 9
  PermittedChannels <- MCChannels
  MaxMoneyActions = 6
  MaxAutoRetries = 3
  HorizonHours = 336
  AllowPart = TRUE
  FloorPercent = 25
  Currencies <- MCCurrencies
  MinProbPercent = 2
  MinEvRatio = 3
  Prior <- MCPrior
  Decay <- MCDecay
  ActionCost <- MCActionCost
  ChannelCost <- MCChannelCost
  HandoffFloor = 1000
  Events <- MCEvents
  Arms = {"A", "B", "E"}
  Proposals <- MCProposals
  OobHours <- MCOobHours
  Reads <- MCReadsAnswer
  Fates <- MCFates
  MaxSteps = 16
INVARIANTS
  PlanPassesReview
  BaselineIsCivil
  StepsSuffice
CHECK_DEADLOCK FALSE
