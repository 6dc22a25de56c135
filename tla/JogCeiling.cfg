SPECIFICATION Spec
CONSTANTS
  Cmds = {}
  Jogs = {"JACK_UP", "JACK_DOWN"}
  Pulses = {1}
  NewDists = {}
  Senders = {s1}
  MaxRequests = 0
  MaxJogs = 12
  QueueLen = 8
  TransitionTicks = 2
  GapTicks = 1
  JackPre = 2
  JackTime = 2
  JackMax = 3
  FluffTicks = 1
  DriveTicks = 1
  CalJackTicks = 2
  CalDriveTicks = 2
  CoolTimes = {3}
  DriveDist = 2
  StartDists = {3}
  StartHeights = {0}
  JackTop = 9
  EncSteps = {0, 1}
  EncCap = 2
  FusesThatTrip = {}
  Engagement = {FALSE}
  SafetyMoves = FALSE
  LowBattery = {FALSE}
INVARIANTS
  NeverPastMax
