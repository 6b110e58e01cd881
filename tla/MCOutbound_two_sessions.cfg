SPECIFICATION Spec
CONSTANTS
  p1 = p1
  p2 = p2
  s1 = s1
  s2 = s2
  s3 = s3
  Player = {p1}
  Sock = {s1, s2}
  PlayerOf <- MCPlayerOf
  QueueSize = 1
  SendBuffer = 2
  DropLimit = 1
  Closers = {"cleanup"}
  MaxFeed = 2
  None = None
PROPERTY InOrder
CHECK_DEADLOCK FALSE
