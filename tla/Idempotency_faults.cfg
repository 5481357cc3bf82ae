SPECIFICATION Spec
CONSTANTS
  r1 = r1
  r2 = r2
  r3 = r3
  k1 = k1
  u1 = u1
  u2 = u2
  b1 = b1
  b2 = b2
  p1 = p1
  Requests <- MCRequests
  Keys <- MCKeys
  Scopes = {u1}
  Bodies <- MCBodies
  Servers <- MCServers
  Nobody = Nobody
  Faults = {"timeout", "stall", "redis", "db", "commit"}
  NewTitles = {}
  MaxDay = 1
  MaxRevision = 0
  MaxCrashes = 0
SYMMETRY RequestSymmetry
INVARIANTS TypeOK ReplayIsFaithful SuccessIsDurable
PROPERTY AtMostOnce
CHECK_DEADLOCK FALSE
