SPECIFICATION Spec
CONSTANTS
  Code = {c1}
  Ref = {r1, r2}
  Request = {q1}
  MaxConns = 1
  PageSize = 2
  None = None
  Faults = {}
INVARIANT SlotsAreReleased
CHECK_DEADLOCK FALSE
