CONSTANTS
  Threads = {a, b}
  BUFFER_SIZE = 3
  MaxTime = 4
  MaxBuffers = 2
  MaxObjects = 2
  MaxPrints = 2
SPECIFICATION Spec
INVARIANTS CompletePrint BuffersAlive
PROPERTIES PrintReturns
CHECK_DEADLOCK FALSE
