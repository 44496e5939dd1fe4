SPECIFICATION FairSpec
CONSTANTS
  k1 = k1
  k2 = k2
  r1 = r1
  r2 = r2
  r3 = r3
  None = None
  Key <- MCKey
  Request <- MCRequest2
  Kind <- PlainKind
  Config <- R2Config
  max_connections = 2
  parallelism = 1
CHECK_DEADLOCK FALSE
PROPERTY
  FetchesTimeOut
