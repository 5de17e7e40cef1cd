SPECIFICATION Spec
CONSTANTS
  NoRefund = NoRefund
  r1 = r1
  r2 = r2
  p1 = p1
  Requests <- OneRequest
  Payments <- OnePayment
  PaymentOf <- SamePayment
  Capacity = 1
  Handlers = {h1, h2}
  InitialRefundStatus = {"succeeded"}
  MaxAttempts = 2
  MaxMoves = 1
  Environment = {"crash", "expire"}
  LateCalls = FALSE
CHECK_DEADLOCK FALSE
INVARIANT CallInFlightHoldsGuard
