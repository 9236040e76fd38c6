CONSTANTS
  Size = 4
  Ids = {0, 1}
  MaxPriority = 2
  Entries <- MCEntries
  MaxLoad = 3
SPECIFICATION FairSpec
INVARIANTS TypeOK OrderInv
PROPERTIES EmitsHighestPriority ServesAsPromised Drains
