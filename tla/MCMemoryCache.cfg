SPECIFICATION Spec
CONSTANTS
  k1 = k1
  k2 = k2
  k3 = k3
  tiny = tiny
  small = small
  full = full
  oversized = oversized
  None = None
  Key <- MCKey
  Entry <- MCEntry
  Size <- MCSize
  max_size_bytes = 3
INVARIANTS
  TypeOK
  BytesAccounted
  WithinLimit
  OrderIsRecency
PROPERTIES
  EvictsNoMoreThanNeeded
  ImplementsLossyStore
