SPECIFICATION Spec
CONSTANTS
  MaxSessions = 2
INVARIANTS
  TypeOK
  HandlersFindDevices
  NeverDeaf
  CleanExit
PROPERTIES
  ShutdownCompletes
  FollowsSocketPath
