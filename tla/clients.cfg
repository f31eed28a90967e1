SPECIFICATION Spec
CONSTANTS
  Program   = {p, q}
  Job       <- MCJob
  Device    = {"relay"}
  Supported <- MCSupported
  MaxCalls  = 4
INVARIANTS
  TypeOK
  CodeTellsTruth
  RealTimeOrder
  HandledInOrder
PROPERTIES
  OneCallAtATime
  ProgramsEnd
CHECK_DEADLOCK FALSE
