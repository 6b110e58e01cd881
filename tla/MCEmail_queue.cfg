SPECIFICATION FairSpec
CONSTANTS
  Mail = {m1, m2}
  BadMail = {m2}
  Entry = {1, 2, 3, 4, 5}
  Worker = {w1}
  MaxRetries = 1
  BatchSize = 2
  MaxFaults = 2
  None = None
INVARIANT TypeOK
INVARIANT NoMailVanishes
INVARIANT DuplicatesNeedFaults
PROPERTY EveryMailSettles
CHECK_DEADLOCK FALSE
