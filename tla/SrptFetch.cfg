CONSTANTS
  Type = "fetch"
  MAX_RPCS = 4
  PAYLOAD_SIZE = 3
  CACHE_SIZE = 6
  CACHE_BLOCK_SIZE = 2
  Ids = {1, 2, 3}
  Lengths = {2, 11}
  MaxLive = 3
SPECIFICATION FetchSpec
INVARIANTS OccupancyCovered CacheOverrunBounded
