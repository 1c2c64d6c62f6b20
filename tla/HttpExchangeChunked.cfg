SPECIFICATION Spec
CONSTANTS
  Requests <- SomeRequests
  MaxRequests = 1
  MaxHeaderSize = 72
  MaxKey = 2
  HeapSize = 3
  UllongMax = 7
  Alone <- OtherRequests
  HTTPHandlers <- Handlers
  WSHandlers <- Opened
INVARIANT ValuesAsSent
CHECK_DEADLOCK FALSE
