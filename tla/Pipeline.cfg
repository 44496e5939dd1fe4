CONSTANTS
  None = None
  NonFinite = NonFinite
  Job <- MCJob
  max_pixels = 10000
  max_frames = 3
  max_animated_pixels = 14000
SPECIFICATION Spec
CHECK_DEADLOCK FALSE
INVARIANTS
  TypeOK
  WithinBudget
  FramesIntact
  NoEditLost
  HashIsWhole
  FailsOnlyForCause
  SizeAsAsked
  AsNegotiated
PROPERTY
  ReducedKeepsSize
