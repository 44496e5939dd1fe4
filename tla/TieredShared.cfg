SPECIFICATION Spec
CONSTANTS
  None = None
  ErrorBody = ErrorBody
  Key <- SharedKey
  Entry <- MCEntry
  Instance = {i1, i2}
  Task = {t1}
  MaxPut = 2
  OtherStatus = TRUE
INVARIANTS
  BucketHoldsOnlyPuts
  WritesSettle
SYMMETRY MCSymmetry
