SPECIFICATION FairSpec
CONSTANTS
  Player = {p1}
  Session = {s1, s2}
  Callback = {c1}
  MaxPlayers = 2
  None = None
  Faults = {"restore", "close"}
PROPERTY UnconfirmedResolved
PROPERTY CountdownEnds
PROPERTY GameTicks
CHECK_DEADLOCK FALSE
