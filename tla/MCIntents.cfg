SPECIFICATION MCFairSpec
CONSTANTS
  Parts = {"desk", "process"}
  Sources = {s1, s2}
  Connections = {q1, q2}
  Capacity = 1
  Concurrency = 1
  SourceBurst = 1
  SourceInterval = 2
  GlobalBurst = 2
  GlobalInterval = 5
  IdleTime = 1
  SweepInterval = 1
  BodyDeadline = 1
  MaxTime = 4
  MaxCharges = 2
  Scopes = {a1, a2, a3}
  Transactions = {c1, c2}
  MaxScopes = 2
  LimitBurst = 1
  LimitInterval = 1
  StaleAfter = 2
  MaxDbSetBack = 1
  MaxClock = 2
  MaxGrants = 2
  NoTransaction = NoTransaction
  NoBucket = NoBucket
  Probes = {b1, b2}
  ReadyCache = 2
  NotReadyCache = 1
  QueryTimeout = 1
  MaxSetBack = 1
  MaxReal = 6
  Slots = {l1, l2}
  MaxPages = 2
  MaxChanges = 2
  QueueCount = 1
  NoAlert = NoAlert
  NoUser = NoUser
  NoRequest = NoRequest
  NoCall = NoCall
  u1 = u1
  u2 = u2
  u3 = u3
  r1 = r1
  r2 = r2
  Users = {u1, u2}
  Administrators = {}
  InitialApprovers = {u2}
  Requests = {r1}
  Intents <- Retries
  Calls = {e1}
  MaxNonces = 1
  Environment = {"failure", "ineligible", "finish", "edit", "recover"}
CHECK_DEADLOCK FALSE
INVARIANTS StopIsOrderly LogShowsAlert
PROPERTIES MonitorConverges StopEnds IntentIsAnswered
