SPECIFICATION GatewaySpec
CONSTANTS
  MaxCalls = 2
  Pairs <- MexicoPairs
  Configurations <- ConektaAlone
  Words <- SomeWords
  VolumeThreshold = 5
  ErrorThreshold = 50
  MaxRestarts = 0
  Null = Null
INVARIANT ChargeIsFound
CHECK_DEADLOCK FALSE
