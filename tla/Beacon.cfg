CONSTANTS
  mds_beacon_interval = 1
  mds_beacon_grace = 2
  MaxTime = 7
  MaxSeq = 3
SPECIFICATION Spec
INVARIANTS
  AckAssertion
  LaggyInTime
