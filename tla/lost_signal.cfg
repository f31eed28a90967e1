SPECIFICATION Spec
CONSTANTS
  MaxSessions = 2
PROPERTIES
  SignalStops
