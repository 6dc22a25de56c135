SPECIFICATION BootSpec
CONSTANTS
  Slots = {ota_0, ota_1}
  Uploads = {"failsLate"}
  Threshold = 2
  Kept = {TRUE}
  MaxCuts = 0
PROPERTIES
  ComesUp
CHECK_DEADLOCK FALSE
