SPECIFICATION Spec
CONSTANTS
  Service = {s1, s2, s3}
  Path    <- MCPath
  Missing = Missing
  Configs <- MCConfigs
INVARIANTS
  TypeOK
  LoneServiceReachable
