SPECIFICATION FairSpec
CONSTANTS
  p1 = p1
  p2 = p2
  s1 = s1
  s2 = s2
  s3 = s3
  Player = {p1}
  Sock = {s1}
  PlayerOf <- MCPlayerOf
  QueueSize = 1
  SendBuffer = 1
  DropLimit = 1
  Closers = {"shutdown"}
  MaxFeed = 1
  None = None
PROPERTY RoomsAreClosed
CHECK_DEADLOCK FALSE
