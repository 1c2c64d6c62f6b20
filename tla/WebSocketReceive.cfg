\* Two websockets one after the other, three frames on each.
SPECIFICATION Spec
CONSTANTS
  MaxFrames = 3
  MaxSession = 2
INVARIANTS
  TypeOK
  NothingInvented
  OnlyFirstIsLost
CHECK_DEADLOCK FALSE
