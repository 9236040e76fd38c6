CONSTANTS
  MAX_PORTS = 2
  Files = {f1, f2}
  Bufs = {b1, b2}
  None = None
  MaxOpens = 3
SPECIFICATION Spec
SYMMETRY Symmetry
INVARIANTS SessionsApart BuffersPrivate CleanedUp LatestOpenMapped
PROPERTIES MapsMatchTypes
CHECK_DEADLOCK FALSE
