SPECIFICATION Spec
CONSTANTS
  MaxTicks = 8
  Range = 16
  Timeout = 4
  TapWindow = 3
  HoldTicks = 2
  LongTicks = 2
  QueueLen = 2
  OtherActs = {"START"}
INVARIANTS
  TapsAreFresh
CHECK_DEADLOCK FALSE
