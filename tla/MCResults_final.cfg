SPECIFICATION ResultsSpec
CONSTANTS
  Player = {p1}
  MaxGames = 2
  MaxTaps = 1
  DBRetries = 1
  Absent = Absent
PROPERTY ResultsAreFinal
