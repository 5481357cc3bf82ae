SPECIFICATION Spec
CONSTANTS
  r1 = r1
  r2 = r2
  r3 = r3
  r4 = r4
  u1 = u1
  u2 = u2
  a1 = a1
  a2 = a2
  Requests = {r1, r2, r3}
  Users = {u1}
  Articles = {a1, a2}
  Nobody = Nobody
  MaxDepth = 1
  Overlap = FALSE
INVARIANT LikesCountNotNegative
CHECK_DEADLOCK FALSE
