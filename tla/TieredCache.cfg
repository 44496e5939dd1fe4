SPECIFICATION Spec
CONSTANTS
  None = None
  ErrorBody = ErrorBody
  Key <- OwnKey
  Entry <- MCEntry
  Instance = {i1}
  Task = {t1, t2}
  MaxPut = 2
  OtherStatus = FALSE
INVARIANTS
  TypeOK
  KeepsWhatItPromised
PROPERTIES
  GoneStaysGone
  ImplementsContract
SYMMETRY MCSymmetry
