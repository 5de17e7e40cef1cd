SPECIFICATION Spec
CONSTANTS
  NoUser = NoUser
  NoRequest = NoRequest
  NoCall = NoCall
  u1 = u1
  u2 = u2
  u3 = u3
  r1 = r1
  r2 = r2
  Users = {u2, u3}
  Administrators = {u3}
  InitialApprovers = {u2}
  Requests = {r1}
  Intents <- Settings
  Calls = {c1}
  MaxNonces = 1
  Environment = {"failure"}
CHECK_DEADLOCK FALSE
INVARIANT SavedSettingsAreInForce
