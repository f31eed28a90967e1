SPECIFICATION Spec
CONSTANTS
  WaterPeriod  = 3
  TickModulus  = 4
  Device       <- MCDevices
  SentIds      <- MCSentIds
  SentCommands <- MCSentCommands
INVARIANTS
  TypeOK
  PendingIsSupported
  SnapshotCurrent
  ShownDevicesConsistent
  ValidatedStaysValid
PROPERTIES
  RequestsAtomic
  CommandFate
  CommandDrained
  RequestAnswered
