SPECIFICATION Spec
CONSTANTS
  NoRefund = NoRefund
  r1 = r1
  r2 = r2
  p1 = p1
  Requests <- OneRequest
  Payments <- OnePayment
  PaymentOf <- SamePayment
  Capacity = 1
  Handlers = {h1}
  InitialRefundStatus = {"pending"}
  MaxAttempts = 2
  MaxMoves = 2
  Environment = {"deauthorize"}
  LateCalls = TRUE
CHECK_DEADLOCK FALSE
INVARIANT AbsenceIsCertain
