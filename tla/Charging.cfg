SPECIFICATION ChargerSpec
CONSTANTS
  MaxTime = 6
  Zones = {3, 6}
  MaxEvents = 3
  ChargeLow = 1
  ChargeBulk = 2
INVARIANTS
  BulkEnds
  LowIsCharged
CHECK_DEADLOCK FALSE
