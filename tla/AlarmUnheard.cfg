SPECIFICATION Spec
CONSTANTS
  MaxTicks = 4
  Range = 16
  Timeout = 3
  TapWindow = 4
  HoldTicks = 2
  LongTicks = 2
  QueueLen = 1
  OtherActs = {"sleep", "activity", "CAL_PREP"}
PROPERTIES
  AlarmIsAlwaysHeard
CHECK_DEADLOCK FALSE
