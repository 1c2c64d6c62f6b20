\* Three calls on one connection, up to two of them responses.  After them, or
\* between them, nothing more need happen.
SPECIFICATION FairSpec
CONSTANTS
  Short = 2
  Medium = 4
  Files <- SomeFiles
  Contents = {0, 3}
  Frames <- SomeFrames
  MaxCalls = 3
  MaxResponses = 2
  ChunkSize = 2
CHECK_DEADLOCK FALSE
INVARIANTS
  TypeOK
  NoGap
  GoesUp
  SizeMeansSent
  ClientReads
  TypesAreRight
PROPERTIES
  Returns
