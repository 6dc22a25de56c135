SPECIFICATION BootSpec
CONSTANTS
  Slots = {ota_0, ota_1}
  Uploads = {"panicsLate"}
  Threshold = 5
  Kept = {FALSE}
  MaxCuts = 0
PROPERTIES
  ComesUp
CHECK_DEADLOCK FALSE
