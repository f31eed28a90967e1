SPECIFICATION Spec
CONSTANTS
  Service = {s1, s2}
  Path    <- MCPath
  Missing = Missing
  Configs <- MCConfigs
INVARIANTS
  DefaultClientFindsService
