SPECIFICATION Spec
CONSTANTS
  Cmds = {"START", "UNDO", "CAL_JACK_PREP", "CAL_JACK_START", "CAL_JACK_END", "CAL_DRIVE_PREP", "CAL_DRIVE_START", "CAL_DRIVE_END"}
  Jogs = {}
  Pulses = {}
  NewDists = {}
  Senders = {}
  MaxRequests = 2
  MaxJogs = 0
  QueueLen = 1
  TransitionTicks = 2
  GapTicks = 1
  JackPre = 2
  JackTime = 2
  JackMax = 3
  FluffTicks = 1
  DriveTicks = 1
  CalJackTicks = 2
  CalDriveTicks = 2
  CoolTimes = {3}
  DriveDist = 1
  StartDists = {1}
  StartHeights = {2}
  JackTop = 5
  EncSteps = {0, 1}
  EncCap = 2
  FusesThatTrip = {"DRIVE", "JACK", "AUX"}
  Engagement = {FALSE}
  SafetyMoves = TRUE
  LowBattery = {FALSE}
PROPERTIES
  MoveEnds
