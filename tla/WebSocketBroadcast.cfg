\* One websocket, one broadcast, and the worker's own frames.
SPECIFICATION Spec
CONSTANTS
  worker = worker
  app1 = app1
  app2 = app2
  chat = chat
  news = news
  Worker = worker
  Apps <- OneApp
  Origins <- OneOrigin
  MaxSession = 1
  MaxFrames = 1
  HeaderLen = 1
  PayloadLen = 1
INVARIANT
  TrueIfOk
CHECK_DEADLOCK FALSE
