\* One worker and two clients: the second one waits for the first.
SPECIFICATION FairSpec
CONSTANTS
  s1 = s1
  s2 = s2
  s3 = s3
  NoSocket = NoSocket
  Sockets <- TwoSockets
  NWorkers = 1
  WsMax = 1
  WsFloor = 0
  RecvMayWouldBlock = FALSE
  Ends = {"eof", "lost"}
  PastEnd <- BusyValue
INVARIANTS
  NoLostWakeup
PROPERTIES
  ClosedIsReleased
  LostWebSocketIsReleased
