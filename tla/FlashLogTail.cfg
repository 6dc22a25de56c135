SPECIFICATION Spec
CONSTANTS
  NumSectors = 3
  SectorCells = 5
  Sizes = {2, 3}
  QueueLen = 1
  MaxSent = 7
INVARIANTS
  TailIsOldest
CHECK_DEADLOCK FALSE
