SPECIFICATION Spec
CONSTANTS
  Mail = {m1}
  BadMail = {}
  Entry = {1, 2, 3, 4, 5}
  Worker = {w1}
  MaxRetries = 1
  BatchSize = 2
  MaxFaults = 1
  None = None
INVARIANT AtLeastOnce
CHECK_DEADLOCK FALSE
