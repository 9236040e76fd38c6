CONSTANTS
  MAX_PORTS = 2
  Files = {f1, f2}
  Bufs = {b1, b2}
  None = None
  MaxOpens = 3
SPECIFICATION Spec
SYMMETRY Symmetry
INVARIANTS SessionExclusive
CHECK_DEADLOCK FALSE
