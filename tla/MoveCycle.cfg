SPECIFICATION Spec
CONSTANTS
  Cmds = {"START", "STOP", "UNDO"}
  Jogs = {}
  Pulses = {}
  NewDists = {}
  Senders = {}
  MaxRequests = 3
  MaxJogs = 0
  QueueLen = 8
  TransitionTicks = 2
  GapTicks = 1
  JackPre = 2
  JackTime = 2
  JackMax = 3
  FluffTicks = 1
  DriveTicks = 1
  CalJackTicks = 2
  CalDriveTicks = 2
  CoolTimes = {4}
  DriveDist = 2
  StartDists = {3}
  StartHeights = {0, 3}
  JackTop = 5
  EncSteps = {0, 1}
  EncCap = 2
  FusesThatTrip = {"DRIVE", "JACK", "AUX"}
  Engagement = {TRUE, FALSE}
  SafetyMoves = TRUE
  LowBattery = {TRUE, FALSE}
INVARIANTS
  UnsafeNeverLifts
  TrippedDriveStops
  MoveWithinRemaining
  SettledStarts
  LiftedBeforeTravel
PROPERTIES
  TravelAccounted
  JackComesHome
