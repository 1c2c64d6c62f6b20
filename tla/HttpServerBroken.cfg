\* The connection of a client that never upgrades breaks.
SPECIFICATION FairSpec
CONSTANTS
  s1 = s1
  s2 = s2
  s3 = s3
  NoSocket = NoSocket
  Sockets <- TwoSockets
  NWorkers = 1
  WsMax = 0
  WsFloor = 0
  RecvMayWouldBlock = FALSE
  Ends = {"eof", "lost"}
  PastEnd <- BusyValue
PROPERTY
  OverIsReleased
