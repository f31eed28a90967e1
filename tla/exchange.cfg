SPECIFICATION Spec
CONSTANTS
  Calls = {1, 2}
  After <- MCAfter
  Byte  = 2
  MaxIpcMessageSize = 3
  Frames <- MCFrames
INVARIANTS
  TypeOK
  AlwaysCompletes
  AnswersIntact
  ProgramOrder
  NeverBlocked
PROPERTIES
  FirstResultWins
  AtMostOnce
  CallReturns
  SessionEnds
