\* Two workers, three clients: one more than there are workers.  Every client
\* closes in the end: that a connection breaks is left to the other runs.
SPECIFICATION Spec
CONSTANTS
  s1 = s1
  s2 = s2
  s3 = s3
  NoSocket = NoSocket
  Sockets <- ThreeSockets
  NWorkers = 2
  WsMax = 1
  WsFloor = 0
  RecvMayWouldBlock = FALSE
  Ends = {"eof"}
  PastEnd <- BothValues
SYMMETRY SocketSymmetry
INVARIANTS
  TypeOK
  OneOwner
  LiveHandler
  FreshWatchdog
  CountIsExact
PROPERTIES
  Handoff
