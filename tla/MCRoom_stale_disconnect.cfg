SPECIFICATION Spec
CONSTANTS
  Player = {p1}
  Session = {s1, s2}
  Callback = {c1}
  MaxPlayers = 2
  None = None
  Faults = {}
SYMMETRY RoomSymmetry
INVARIANT OpenSocketRegistered
CHECK_DEADLOCK FALSE
