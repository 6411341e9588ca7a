CONSTANTS
  N = 3
  whoami = 1
  mds_bal_min_rebalance = 10
  Tiny = 1
  Loads <- MCLoads
  ImportMaps <- MCImportMaps
  Epochs <- MCEpochs
SPECIFICATION Spec
INVARIANTS
  NoOvershoot
  SendsOnlyItsExcess
PROPERTIES
  MatchingIsComplete
