SPECIFICATION Spec
CONSTANTS
  MaxTicks = 5
  Range = 16
  Timeout = 3
  TapWindow = 3
  HoldTicks = 2
  LongTicks = 2
  QueueLen = 1
  OtherActs = {"activity"}
INVARIANTS
  TimerIsPatient
CHECK_DEADLOCK FALSE
