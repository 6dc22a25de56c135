SPECIFICATION Spec
CONSTANTS
  Cmds = {"START", "STOP"}
  Jogs = {"DRIVE_FWD"}
  Pulses = {3}
  NewDists = {}
  Senders = {s1}
  MaxRequests = 2
  MaxJogs = 1
  QueueLen = 8
  TransitionTicks = 2
  GapTicks = 1
  JackPre = 2
  JackTime = 2
  JackMax = 3
  FluffTicks = 1
  DriveTicks = 1
  CalJackTicks = 2
  CalDriveTicks = 2
  CoolTimes = {3}
  DriveDist = 2
  StartDists = {3}
  StartHeights = {0}
  JackTop = 5
  EncSteps = {0, 1}
  EncCap = 2
  FusesThatTrip = {}
  Engagement = {FALSE}
  SafetyMoves = FALSE
  LowBattery = {FALSE}
INVARIANTS
  StopHolds
