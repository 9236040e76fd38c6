CONSTANTS
  FRAME = 4
  HEADER = 6
  PAYLOAD = 8
  SIZE = 22
  LINE = 16
  DEPTH = 2
  MaxPackets = 2
SPECIFICATION FairSpec
INVARIANTS PacketsInOrder OwnPayload UnstalledComplete
PROPERTIES Transmitted
