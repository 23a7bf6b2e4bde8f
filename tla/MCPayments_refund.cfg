SPECIFICATION PaymentSpec
CONSTANTS
  r1 = r1
  r2 = r2
  r3 = r3
  q1 = q1
  q2 = q2
  CreateRequests = {r1, r2}
  RefundRequests = {q1, q2}
  Bodies <- RefundBodies
  Null = Null
  RefundAmounts = {0, 1}
  ProviderDedups = TRUE
  DbMayFail = FALSE
  MaxCrashes = 1
INVARIANTS
  LedgerNeverAhead
  RefundAccountedFor
  RefundAssertHolds
PROPERTY ImplementsIdempotentCharge
SYMMETRY Symmetric
CHECK_DEADLOCK FALSE
