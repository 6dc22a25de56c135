SPECIFICATION Spec
CONSTANTS
  MaxTicks = 7
  Range = 16
  Timeout = 5
  TapWindow = 4
  HoldTicks = 2
  LongTicks = 2
  QueueLen = 1
  OtherActs = {"sleep", "activity", "CAL_PREP"}
INVARIANTS
  TypeOK
  ThreeTapsInTime
  InUseStaysAwake
  AlarmIsHeard
CHECK_DEADLOCK FALSE
