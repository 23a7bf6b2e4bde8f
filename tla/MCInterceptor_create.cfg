SPECIFICATION MCSpec
CONSTANTS
  r1 = r1
  r2 = r2
  r3 = r3
  q1 = q1
  q2 = q2
  CreateRequests = {r1, r2, r3}
  RefundRequests = {}
  Bodies <- RaceBodies
  Null = Null
  RefundAmounts = {0}
  ProviderDedups = FALSE
  DbMayFail = TRUE
  MaxCrashes = 1
INVARIANTS
  PaymentTypeOK
  OneChargePerKey
  SameKeySameAnswer
  GaugeCoversInFlight
  InterceptorTypeOK
  ReplyWasEarned
PROPERTIES
  ProviderErrorIsFinal
  RepliesImplementIdempotentCharge
SYMMETRY Symmetric
CHECK_DEADLOCK FALSE
