SPECIFICATION FairSpec
CONSTANTS
  QueueSize = 2
  MaxVersion = 4
  Faults = {"db", "timeout"}
INVARIANT TypeOK
INVARIANT AcceptedIsKept
INVARIANT CloseSaves
INVARIANT RemovedStaysRemoved
PROPERTY AcceptedLands
CHECK_DEADLOCK FALSE
