SPECIFICATION ResultsSpec
CONSTANTS
  Player = {p1, p2}
  MaxGames = 1
  MaxTaps = 1
  DBRetries = 1
  Absent = Absent
SYMMETRY MCSymmetry
PROPERTY ResultsAreFinal
