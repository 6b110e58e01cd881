SPECIFICATION RosterSpec
CONSTANTS
  n1 = n1
  n2 = n2
  n3 = n3
  n4 = n4
  n1s = n1s
  Player = {p1, p2, p3}
  Name = {n1, n2, n3, n4, n1s}
  Sanitize <- MCSanitize
  MaxPlayers = 3
  MaxScore = 2
  MaxIndex = 4
  MaxTaps = 3
  None = None
INVARIANT PlayersTellApart
INVARIANT RestartsFromZero
SYMMETRY MCSymmetry
