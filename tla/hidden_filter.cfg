SPECIFICATION Spec
CONSTANTS
  Device    <- MCDevice
  Status    <- MCStatus
  Supported <- MCSupported
  InitialHubs <- MCInitial
  Changing    <- MCChanging
  Slots     = {1, 2}
  MaxVersions = 3
INVARIANTS
  FilterShownApplies
