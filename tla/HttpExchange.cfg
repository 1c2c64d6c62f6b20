SPECIFICATION Spec
CONSTANTS
  Requests <- SomeRequests
  MaxRequests = 2
  MaxHeaderSize = 72
  MaxKey = 2
  HeapSize = 3
  UllongMax = 7
  Alone <- OtherRequests
  HTTPHandlers <- Handlers
  WSHandlers <- Opened
INVARIANTS
  TypeOK
  HeardAsSent
  AssertsHold
  WholeFirst
  SeenAsSent
  AlignedAnswered
  NothingOld
  BodyFits
  OnlyRequests
  UpgradeAtItsEnd
  
  HandshakeAsSent
PROPERTIES
  HandlersAreRight
  ErrorIsFinal
  CutsDoNotShow
CHECK_DEADLOCK FALSE
