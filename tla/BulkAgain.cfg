SPECIFICATION ChargerSpec
CONSTANTS
  MaxTime = 7
  Zones = {3, 6}
  MaxEvents = 1
  ChargeLow = 1
  ChargeBulk = 2
PROPERTIES
  BulkIsEarned
CHECK_DEADLOCK FALSE
