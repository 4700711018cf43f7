SPECIFICATION FairSpec
CONSTANTS
  Station <- MCStations
  Version <- MCVersion
  TextLength <- MixedLength
  Flags <- MCFlags
  LastNamePart = 1
  LastTextPart = 2
  MaxFaults = 2
INVARIANTS TypeOK NameIsWhole TextIsWhole
PROPERTIES NameSettles TextSettles
