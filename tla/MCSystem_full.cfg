SPECIFICATION Spec
CONSTANTS
  r1 = r1
  r2 = r2
  q1 = q1
  q2 = q2
  d1 = d1
  d2 = d2
  d3 = d3
  w1 = w1
  w2 = w2
  CreateRequests = {r1}
  RefundRequests = {q1}
  Bodies <- OneBody
  Null = Null
  RefundAmounts = {1}
  ProviderDedups = FALSE
  DbMayFail = FALSE
  MaxCrashes = 1
  Deliveries = {d1, d2}
  Workers = {w1, w2}
  NoWorker = NoWorker
  HookWorkers = {w1}
  HookAttempts = 2
  QueueMayFail = TRUE
  RecWorkers = {w2}
  RecAttempts = 1
  BatchSize = 1
  LocksExpire = FALSE
INVARIANTS
  LedgerNeverAhead
  UnsettledRowUntouched
  ReconciledRowIsLinked
  RefundAccountedFor
  StrandedOnlyByFailure
  SystemTypeOK
  OneDeliveryEnqueues
  WebhookNotRewritten
  ProcessedMeansRecorded
PROPERTY
  DecidedForGood
VIEW Live
SYMMETRY Symmetric
CHECK_DEADLOCK FALSE
