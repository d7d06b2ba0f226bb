SPECIFICATION Spec
CONSTANTS
  SeqRange = 8
  Rollover = 4
  MaxFirst = 2
  FirstSeq = {0, 3, 6}
  Size = {2, 3}
  MaxChunkCount = 2
  MaxBuffer = 6
  MaxDepth = 2
  MaxMessages = 3
  MaxInFlight = 3
INVARIANTS
  ChunksOwned
  NeverRefused
PROPERTIES
  DeliversInOrder
  AllDelivered
CHECK_DEADLOCK FALSE
