SPECIFICATION Spec
CONSTANTS
  i1 = i1
  i2 = i2
  c1 = c1
  t1 = t1
  t2 = t2
  t3 = t3
  Instance = {i1, i2}
  Code = {c1}
  Task = {t1, t2, t3}
  MaxFaults = 1
  MaxCrashes = 1
  None = None
SYMMETRY MCSymmetry
CONSTRAINT MCUncontested
INVARIANT OwnersAreRegistered
INVARIANT ExistenceIsCurrent
