SPECIFICATION FairSpec
CONSTANTS
  Code = {c1}
  Ref = {r1, r2}
  Request = {q1, q2}
  MaxConns = 1
  PageSize = 1
  None = None
  Faults = {"crash", "timeout", "db", "redis"}
INVARIANT TypeOK
INVARIANT LimitHolds
INVARIANT MapHoldsOpenRooms
INVARIANT NoRoomLeaks
PROPERTY EmptyRoomRemoved
CHECK_DEADLOCK FALSE
