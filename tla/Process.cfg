SPECIFICATION FairProcessSpec
CONSTANTS
  American = FALSE
  Top <- MCTop
  Stations <- MCStations
  Calls <- MCCalls
  MaxFailures = 1
  Preallocated = 2
  MaxFaults = 1
  MaxKills = 1
INVARIANTS ProcessTypeOK PoweredDownAtRest ScanListsStations
PROPERTIES LifeStartsReady ServiceComesBack ScanReachesTop
