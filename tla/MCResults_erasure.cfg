SPECIFICATION ResultsSpec
CONSTANTS
  Player = {p1}
  MaxGames = 1
  MaxTaps = 1
  DBRetries = 1
  Absent = Absent
INVARIANT ErasureIsComplete
CHECK_DEADLOCK FALSE
