SPECIFICATION Spec
CONSTANTS
  r1 = r1
  r2 = r2
  r3 = r3
  r4 = r4
  Requests = {r1, r2, r3, r4}
  MaxRevision = 3
  MaxTouches = 2
PROPERTY NoLostUpdate
CHECK_DEADLOCK FALSE
