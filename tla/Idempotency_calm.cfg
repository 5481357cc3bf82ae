SPECIFICATION FairSpec
CONSTANTS
  r1 = r1
  r2 = r2
  r3 = r3
  k1 = k1
  u1 = u1
  u2 = u2
  b1 = b1
  b2 = b2
  p1 = p1
  Requests = {r1, r2}
  Keys <- MCKeys
  Scopes <- MCScopes
  Bodies = {b1}
  Servers <- MCServers
  Nobody = Nobody
  Faults = {"timeout", "db"}
  NewTitles = {b1}
  MaxDay = 1
  MaxRevision = 1
  MaxCrashes = 1
INVARIANTS MutualExclusion RecordMeansEffect FailureMeansNothing
PROPERTIES Answered LockIsFreed Refinement
CHECK_DEADLOCK FALSE
