SPECIFICATION FairSpec
CONSTANTS
  CharSigned = FALSE
  American = FALSE
  Top <- EuropeTop
  Stations <- MCStations
  Client = {c1, c2}
  Messages <- MCMessages
  Names = {empty, n1}
  Texts = {empty, t1}
  Empty = empty
  None = none
  MaxRequests = 2
  MaxDecoded = 2
  MaxFailures = 1
  MaxQueue = 2
INVARIANTS TypeOK ViewsAgree StringsNotRepeated
PROPERTY ViewsSettle
