SPECIFICATION Spec
CONSTANTS
  CharSigned = FALSE
  CLIENT_BUFFER_SIZE = 8
  Messages <- SeekFirstRequests
  OverreadBytes <- Overread
  MaxMessages = 2
  MaxJoins = 2
INVARIANT WellFormedNotRefused
CHECK_DEADLOCK FALSE
