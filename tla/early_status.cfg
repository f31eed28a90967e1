SPECIFICATION Spec
CONSTANTS
  WaterPeriod  = 3
  TickModulus  = 4
  Device       <- MCDevices
  SentIds      <- MCSentIds
  SentCommands <- MCSentCommands
INVARIANTS
  StatusReportsRunning
