SPECIFICATION Spec
CONSTANTS
  Unset = Unset
  NotUnicode = NotUnicode
  Malformed = Malformed
  Environment <- MCEnvironment
  Source <- MCSource
  Location <- MCLocation
  Literal <- MCLiteral
  Resolutions <- MCResolutions
  Path <- MCPath
  Dotted = {"..", "a..b"}
  Chunk = {1, 2}
  MaxBody = 5
INVARIANTS TypeOK ServesAsConfigured OnlyPublicHosts WholeBody RejectionsNamed
PROPERTY EveryFetchEnds
CHECK_DEADLOCK FALSE
