SPECIFICATION Spec
CONSTANTS
  r1 = r1
  r2 = r2
  r3 = r3
  k1 = k1
  u1 = u1
  u2 = u2
  b1 = b1
  b2 = b2
  p1 = p1
  Requests = {r1, r2}
  Keys <- MCKeys
  Scopes <- MCScopes
  Bodies <- MCBodies
  Servers <- MCServers
  Nobody = Nobody
  Faults = {}
  NewTitles = {}
  MaxDay = 1
  MaxRevision = 1
  MaxCrashes = 1
PROPERTY BusyMeansInProgress
CHECK_DEADLOCK FALSE
