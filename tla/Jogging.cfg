SPECIFICATION Spec
CONSTANTS
  Cmds = {"START", "STOP", "UNDO"}
  Jogs = {"DRIVE_REV", "JACK_UP", "JACK_DOWN"}
  Pulses = {1, 2}
  NewDists = {1}
  Senders = {s1, s2}
  MaxRequests = 1
  MaxJogs = 3
  QueueLen = 8
  TransitionTicks = 2
  GapTicks = 1
  JackPre = 1
  JackTime = 1
  JackMax = 2
  FluffTicks = 1
  DriveTicks = 1
  CalJackTicks = 2
  CalDriveTicks = 2
  CoolTimes = {3}
  DriveDist = 2
  StartDists = {3}
  StartHeights = {0}
  JackTop = 5
  EncSteps = {0, 1}
  EncCap = 2
  FusesThatTrip = {}
  Engagement = {FALSE}
  SafetyMoves = FALSE
  LowBattery = {FALSE}
INVARIANTS
  JogsEnd
  CeilingRespected
