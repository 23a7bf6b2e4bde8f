SPECIFICATION FairGatewaySpec
CONSTANTS
  MaxCalls = 3
  Pairs <- BrazilPairs
  Configurations <- BrazilConfigurations
  Words <- SomeWords
  VolumeThreshold = 1
  ErrorThreshold = 50
  MaxRestarts = 1
  Null = Null
INVARIANTS
  GatewayTypeOK
  AnswersAreTrue
  RefusedForOwnFailures
  AskedWhereCharged
PROPERTIES
  KeepsContract
  EveryCallEnds
  NeverShutForGood
CHECK_DEADLOCK FALSE
