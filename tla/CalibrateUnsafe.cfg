SPECIFICATION Spec
CONSTANTS
  Cmds = {"CAL_JACK_PREP", "CAL_JACK_START", "CAL_JACK_END"}
  Jogs = {}
  Pulses = {}
  NewDists = {}
  Senders = {}
  MaxRequests = 2
  MaxJogs = 0
  QueueLen = 8
  TransitionTicks = 2
  GapTicks = 1
  JackPre = 2
  JackTime = 2
  JackMax = 3
  FluffTicks = 1
  DriveTicks = 1
  CalJackTicks = 2
  CalDriveTicks = 2
  CoolTimes = {3}
  DriveDist = 2
  StartDists = {3}
  StartHeights = {0}
  JackTop = 5
  EncSteps = {0, 1}
  EncCap = 2
  FusesThatTrip = {}
  Engagement = {FALSE}
  SafetyMoves = TRUE
  LowBattery = {FALSE}
INVARIANTS
  UnsafeNeverLifts
