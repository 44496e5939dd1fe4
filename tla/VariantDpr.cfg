SPECIFICATION Spec
CONSTANTS
  None = None
  NonFinite = NonFinite
  Audience <- DprAudience
  Origin <- MCOrigin
  max_width = 8192
  max_height = 8192
  allow_draw_overlays = FALSE
  allow_remote_sources = FALSE
  MaxVariants = 1
INVARIANT
  AnswersTheWidthAsked
