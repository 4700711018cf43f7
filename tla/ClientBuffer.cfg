SPECIFICATION FairSpec
CONSTANTS
  CharSigned = FALSE
  CLIENT_BUFFER_SIZE = 8
  Messages <- MixedRequests
  OverreadBytes <- Overread
  MaxMessages = 2
  MaxJoins = 2
INVARIANTS TypeOK AppliedExactly BufferNeverFull WellFormedNotRefused
PROPERTIES AppliedUntilRefused GoneIsForgotten FullIsDropped
CHECK_DEADLOCK FALSE
