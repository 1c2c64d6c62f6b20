\* The pool without websockets, with every outcome of recv() and of the read
\* past the end.  A worker whose recv() returned WOULD_BLOCK does not go on,
\* and a connection that was lost keeps its address: the system may stop.
SPECIFICATION Spec
CONSTANTS
  s1 = s1
  s2 = s2
  s3 = s3
  NoSocket = NoSocket
  Sockets <- ThreeSockets
  NWorkers = 2
  WsMax = 0
  WsFloor = 0
  RecvMayWouldBlock = TRUE
  Ends = {"eof", "lost"}
  PastEnd <- BothValues
SYMMETRY SocketSymmetry
PROPERTIES
  PoolSpec
CHECK_DEADLOCK FALSE
