SPECIFICATION Spec
CONSTANTS
  None = None
  NonFinite = NonFinite
  Audience <- MCAudience
  Origin <- MCOrigin
  max_width = 8192
  max_height = 4000
  allow_draw_overlays = TRUE
  allow_remote_sources = FALSE
  MaxVariants = 1
INVARIANTS
  TypeOK
  AnswersAsIfUncached
  AnswersAcceptable
  AnimationKept
  OnlySafeValues
  OrderIrrelevant
  VariantsUnderTheRoot
