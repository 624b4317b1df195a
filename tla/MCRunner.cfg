SPECIFICATION Spec
CONSTANTS
  MaxContacts = 2
  WindowHours = 54
  GapHours = 27
  QuietStart = 21
  QuietEnd = 9
  PermittedChannels <- MCChannels
  MaxMoneyActions = 3
  MaxAutoRetries = 1
  HorizonHours = 76
  AllowPart = TRUE
  FloorPercent = 25
  Currencies <- MCCurrencies
  MinProbPercent = 2
  MinEvRatio = 3
  Prior <- MCPrior
  Decay <- MCDecay
  ActionCost <- MCActionCost
  ChannelCost <- MCChannelCost
  Events <- MCEvents
  Proposals <- MCProposals
  OobHours <- MCOobHours
  Arms = {"D"}
  HandoffFloor = 1000
  Reads <- MCReadsFail
  Fates <- MCFates
  MaxSteps = 4
INVARIANTS
  TypeOK
  ContactsRespectPolicy
  PaidAtMostOnce
  NeverChasesMoney
  WorkIsBounded
  OneBucket
  HonestCredit
PROPERTIES
  TimeMovesOn
  Terminates
CHECK_DEADLOCK FALSE
