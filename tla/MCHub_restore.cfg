SPECIFICATION Spec
CONSTANTS
  Code = {c1, c2}
  Ref = {r1, r2}
  Request = {q1, q2}
  MaxConns = 1
  PageSize = 1
  None = None
  Faults = {}
PROPERTY AllRestored
CHECK_DEADLOCK FALSE
