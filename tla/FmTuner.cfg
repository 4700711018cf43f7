SPECIFICATION FairSpec
CONSTANTS
  American = FALSE
  Top <- EuropeTop
  Stations <- MCStations
  Calls <- AllCalls
  MaxFailures = 2
INVARIANTS TypeOK CleanCallIsEffective OutcomesAssumed
PROPERTIES ImplementsTuner HandshakeRespected EveryCallReturns
