SPECIFICATION Spec
CONSTANTS
  None = None
  ErrorBody = ErrorBody
  Key <- OwnKey
  Entry <- MCEntry
  Instance = {i1}
  Task = {t1}
  MaxPut = 1
  OtherStatus = TRUE
INVARIANT
  S3ErrorsAreMisses
