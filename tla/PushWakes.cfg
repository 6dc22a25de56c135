SPECIFICATION Spec
CONSTANTS
  Socks = {s1}
  NoSock = NoSock
  InFlight = 3
  SendBuf = 1
  Pulse = 2
  Timeout = 2
  Requests = {"sleep"}
PROPERTIES
  OnlyActivityWakes
CHECK_DEADLOCK FALSE
