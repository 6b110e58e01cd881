SPECIFICATION Spec
CONSTANTS
  Player = {p1, p2, p3}
  Session = {s1, s2}
  Callback = {c1}
  MaxPlayers = 2
  None = None
  Faults = {}
SYMMETRY RoomSymmetry
INVARIANT TypeOK
INVARIANT ConnsAreOnline
INVARIANT VotesScoped
INVARIANT EndedIsTimed
CHECK_DEADLOCK FALSE
