\* One worker is busy when a second client is accepted.
SPECIFICATION Spec
CONSTANTS
  s1 = s1
  s2 = s2
  s3 = s3
  NoSocket = NoSocket
  Sockets <- TwoSockets
  NWorkers = 1
  WsMax = 1
  WsFloor = 0
  RecvMayWouldBlock = FALSE
  Ends = {"eof", "lost"}
  PastEnd <- BothValues
INVARIANT
  OverloadCloses
