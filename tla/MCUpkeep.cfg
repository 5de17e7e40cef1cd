SPECIFICATION MCSpec
CONSTANTS
  NoEvent = NoEvent
  Events <- RefundAndRemoval
  Deliveries = {d1}
  Handlers = {h1}
  PurgeDelay = 2
  RetryHorizon = 1
  MaxTime = 3
  MaxTenants = 1
  Failures = {"processing", "crash", "expiry"}
  Scans = {p1}
  MaxRefunds = 1
  Second = 2
  Overlap = 2
  Delay = 1
  MaxSkew = 1
  PageSize = 1
  InstalledAt = 2
  MaxStripeTime = 5
  MaxFailures = 1
  None = None
  MaxDue = 2
  PurgeRuns = {x1}
  NoRun = NoRun
  Settings <- MCSettings
  Unset = Unset
  DefaultBatch = 2
  MaximumBatch = 2
  MaxBatches = 2
  MaxTroubles = 1
  MaxPurgeFaults = 1
CHECK_DEADLOCK FALSE
INVARIANTS EffectOncePerReceipt
PROPERTIES LifecycleReceiptIsProcessed SettledTenantIsPurged RefundIsObserved DueTenantIsPurged
