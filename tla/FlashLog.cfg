SPECIFICATION Spec
CONSTANTS
  NumSectors = 3
  SectorCells = 5
  Sizes = {2, 3}
  QueueLen = 1
  MaxSent = 6
INVARIANTS
  TypeOK
  RecoversUntilFull
  DownloadsAll
PROPERTIES
  ProgramsErased
  ImplementsEventLog
CHECK_DEADLOCK FALSE
