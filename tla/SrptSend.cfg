CONSTANTS
  Type = "sendmsg"
  MAX_RPCS = 4
  PAYLOAD_SIZE = 2
  CACHE_SIZE = 4
  CACHE_BLOCK_SIZE = 2
  Ids = {1, 2, 3}
  Lengths = {3}
  GrantOffsets = {0, 1}
  BufferOffsets = {0}
  MaxLive = 3
SPECIFICATION FairSendSpec
INVARIANTS MessagesKept EachPacketOnce
PROPERTIES SentOnlyWhenEligible LoneMessageIsSent
