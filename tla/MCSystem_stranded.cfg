SPECIFICATION FairSpec
CONSTANTS
  r1 = r1
  r2 = r2
  q1 = q1
  q2 = q2
  d1 = d1
  d2 = d2
  d3 = d3
  w1 = w1
  w2 = w2
  CreateRequests = {r1}
  RefundRequests = {}
  Bodies <- OneBody
  Null = Null
  RefundAmounts = {0}
  ProviderDedups = FALSE
  DbMayFail = FALSE
  MaxCrashes = 1
  Deliveries = {}
  Workers = {w1, w2}
  NoWorker = NoWorker
  HookWorkers = {}
  HookAttempts = 1
  QueueMayFail = FALSE
  RecWorkers = {w1}
  RecAttempts = 3
  BatchSize = 1
  LocksExpire = FALSE
PROPERTY OldPendingQueued
CHECK_DEADLOCK FALSE
