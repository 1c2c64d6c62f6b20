\* Two workers open and close websockets at the same time.
SPECIFICATION Spec
CONSTANTS
  s1 = s1
  s2 = s2
  s3 = s3
  NoSocket = NoSocket
  Sockets <- TwoSockets
  NWorkers = 2
  WsMax = 2
  WsFloor = 0
  RecvMayWouldBlock = FALSE
  Ends = {"eof", "lost"}
  PastEnd <- BusyValue
INVARIANT
  WebSocketsCounted
