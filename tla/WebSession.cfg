SPECIFICATION Spec
CONSTANTS
  Socks = {s1, s2}
  NoSock = NoSock
  InFlight = 3
  SendBuf = 1
  Pulse = 1
  Timeout = 1
  Requests = {"sleep", "restart"}
INVARIANTS
  JogHasHolder
PROPERTIES
  SleepsWhenDeserted
CHECK_DEADLOCK FALSE
