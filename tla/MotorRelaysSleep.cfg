SPECIFICATION Spec
CONSTANTS
  GapTicks = 1
  MakeTicks = 2
  BreakTicks = 1
  Requests <- MCRequests
  MaySleep = TRUE
INVARIANTS
  SleepNotUndone
