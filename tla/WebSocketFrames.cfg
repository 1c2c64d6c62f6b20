\* Two connections one after the other, a thread that broadcasts two texts.
SPECIFICATION Spec
CONSTANTS
  worker = worker
  app1 = app1
  app2 = app2
  chat = chat
  news = news
  Worker = worker
  Apps <- OneApp
  Origins <- TwoOrigins
  MaxSession = 2
  MaxFrames = 1
  HeaderLen = 1
  PayloadLen = 2
SYMMETRY OriginSymmetry
INVARIANTS
  TypeOK
  QuietFrameReaches
  NothingTwice
  WorkerHoldsItsSocket
\* The bounds on connections and calls end every behaviour.
CHECK_DEADLOCK FALSE
