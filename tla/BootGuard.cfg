SPECIFICATION BootSpec
CONSTANTS
  Slots = {ota_0, ota_1}
  Uploads = {"good", "panicsEarly", "panicsLate", "failsEarly", "failsLate"}
  Threshold = 5
  Kept = {TRUE, FALSE}
  MaxCuts = 2
INVARIANTS
  BootsWhole
PROPERTIES
  GoodIsKept
CHECK_DEADLOCK FALSE
