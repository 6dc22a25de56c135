SPECIFICATION Spec
CONSTANTS
  Cmds = {"START"}
  Jogs = {}
  Pulses = {}
  NewDists = {}
  Senders = {}
  MaxRequests = 1
  MaxJogs = 0
  QueueLen = 8
  TransitionTicks = 2
  GapTicks = 1
  JackPre = 3
  JackTime = 3
  JackMax = 5
  FluffTicks = 1
  DriveTicks = 1
  CalJackTicks = 2
  CalDriveTicks = 2
  CoolTimes = {8}
  DriveDist = 2
  StartDists = {3}
  StartHeights = {2}
  JackTop = 6
  EncSteps = {0, 1}
  EncCap = 2
  FusesThatTrip = {"JACK"}
  Engagement = {FALSE}
  SafetyMoves = FALSE
  LowBattery = {FALSE}
INVARIANTS
  SecondPhaseLifts
