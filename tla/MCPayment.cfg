SPECIFICATION MCSpec
CONSTANTS
  NoRefund = NoRefund
  r1 = r1
  r2 = r2
  p1 = p1
  h1 = h1
  h2 = h2
  Requests <- TwoRequests
  Payments <- OnePayment
  PaymentOf <- SamePayment
  Capacity = 2
  Handlers = {h1, h2}
  InitialRefundStatus = {"pending", "succeeded"}
  MaxAttempts = 2
  MaxMoves = 1
  Environment = {"external", "crash", "close", "deauthorize", "expire", "age"}
  LateCalls = TRUE
  w1 = w1
  w2 = w2
  Scans = {w1, w2}
  MaxRefunds = 2
  Second = 2
  Overlap = 2
  Delay = 1
  MaxSkew = 1
  PageSize = 1
  InstalledAt = 2
  MaxStripeTime = 5
  MaxFailures = 1
  None = None
SYMMETRY RequestsAndSlots
CHECK_DEADLOCK FALSE
INVARIANTS AlertExcludesExecution CallHoldsGuardUnlessRaced AbsenceCertainUnlessRaced OneGuardPerPayment OneUnderWayUnlessRaced CheckpointOpenUnlessRaced AttestationSurvivesRecovery NoBlindSpot
