SPECIFICATION Spec
CONSTANTS
  Player = {p1, p2}
  Session = {s1, s2}
  Callback = {c1}
  MaxPlayers = 2
  None = None
  Faults = {"slow", "restore"}
SYMMETRY RoomSymmetry
INVARIANT OnlineHasReader
INVARIANT PlayingIsTicked
INVARIANT CountdownIsTimed
CHECK_DEADLOCK FALSE
