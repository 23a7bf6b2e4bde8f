SPECIFICATION FairSpec
CONSTANTS
  r1 = r1
  r2 = r2
  q1 = q1
  q2 = q2
  d1 = d1
  d2 = d2
  d3 = d3
  w1 = w1
  w2 = w2
  CreateRequests = {r1}
  RefundRequests = {}
  Bodies <- EarlyExits
  Null = Null
  RefundAmounts = {0}
  ProviderDedups = FALSE
  DbMayFail = FALSE
  MaxCrashes = 1
  Deliveries = {d1}
  Workers = {w1, w2}
  NoWorker = NoWorker
  HookWorkers = {w1, w2}
  HookAttempts = 2
  QueueMayFail = TRUE
  RecWorkers = {}
  RecAttempts = 2
  BatchSize = 1
  LocksExpire = TRUE
INVARIANT ProcessedMeansRecorded
PROPERTIES
  RowResolves
  InboundHandled
CHECK_DEADLOCK FALSE
