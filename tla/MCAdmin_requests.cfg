SPECIFICATION Spec
CONSTANTS
  t1 = t1
  t2 = t2
  i1 = i1
  i2 = i2
  pw1 = pw1
  pw2 = pw2
  s1 = s1
  s2 = s2
  Thread = {t1, t2}
  IP = {i1, i2}
  Password = {pw1, pw2}
  First = pw1
  Session = {s1, s2}
  MaxFailed = 2
  TokenTTL = 2
  MaxTime = 2
  MaxRequests = 4
  MaxFaults = 1
  None = None
SYMMETRY MCSymmetry
INVARIANT GuessesBounded
INVARIANT SessionsEnd
CHECK_DEADLOCK FALSE
