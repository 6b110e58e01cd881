SPECIFICATION Spec
CONSTANTS
  User = {u1}
  Token = {t1, t2}
  Jwt = {j1}
  Request = {r1, r2}
  AccessTTL = 2
  RefreshTTL = 2
  Faults = {"redis", "db"}
  None = None
PROPERTY SingleUse
INVARIANT RevocationIsFinal
INVARIANT LiveIndexed
INVARIANT OneSuccessor
INVARIANT LoggedOutStaysOut
SYMMETRY TokensSymmetry
CHECK_DEADLOCK FALSE
