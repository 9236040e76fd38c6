CONSTANTS
  Channels = {0, 1}
  Ports = {1}
  Stride = 1
  Bases = {4}
  Offsets = {0, 1}
  Busy = {0}
SPECIFICATION Spec
INVARIANTS UnstalledRight
PROPERTIES CarriesInOrder
