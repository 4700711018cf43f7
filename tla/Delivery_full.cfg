SPECIFICATION FairSpec
CONSTANTS
  Sizes <- MCSizes
  BufferSize = 6
  WireSize = 5
  MaxMessages = 3
  MaxCuts = 0
INVARIANT SupportsAllMessages
CHECK_DEADLOCK FALSE
