SPECIFICATION Spec
CONSTANTS
  MaxTicks = 6
  Range = 16
  Timeout = 4
  TapWindow = 3
  HoldTicks = 2
  LongTicks = 2
  QueueLen = 1
  OtherActs = {}
PROPERTIES
  LongPressIgnored
CHECK_DEADLOCK FALSE
