SPECIFICATION MCSpec
CONSTANTS
  Parts = {"lifecycle", "release", "purge"}
  NoEvent = NoEvent
  Events <- Reinstalled
  Deliveries = {d1, d2}
  Handlers = {h1}
  PurgeDelay = 2
  RetryHorizon = 1
  MaxTime = 4
  MaxTenants = 2
  Failures = {"delivery"}
  Families = {"field", "approvalAttestation"}
  k1 = k1
  k2 = k2
  k3 = k3
  k4 = k4
  Materials = {k1, k2, k3, k4}
  NoKey = NoKey
  Targets <- MCTargets
  MaxRevision = 2
  InitialHosts = {"adopted", "recorded"}
  MaxDue = 2
  PurgeRuns = {x1, x2}
  NoRun = NoRun
  Settings <- MCSettings
  Unset = Unset
  DefaultBatch = 2
  MaximumBatch = 2
  MaxBatches = 2
  MaxTroubles = 1
  MaxPurgeFaults = 1
SYMMETRY PartSymmetry
CHECK_DEADLOCK FALSE
INVARIANTS LatestLifecycleEventDecides StoredIsReadable ServingIsAccounted ReportIsTrue
PROPERTIES LifecycleMovesForward PurgeWaits
