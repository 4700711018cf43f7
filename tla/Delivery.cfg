SPECIFICATION FairSpec
CONSTANTS
  Sizes <- MCSizes
  BufferSize = 6
  WireSize = 5
  MaxMessages = 4
  MaxCuts = 2
INVARIANT TypeOK
PROPERTIES ImplementsChannel AllApplied
CHECK_DEADLOCK FALSE
