CONSTANTS
  None = None
  NonFinite = NonFinite
  Job <- CoverJobs
  max_pixels = 15000
  max_frames = 3
  max_animated_pixels = 45000
SPECIFICATION Spec
CHECK_DEADLOCK FALSE
INVARIANT CoverKeepsFrames
