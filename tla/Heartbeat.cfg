CONSTANTS
  N = 2
  mds_bal_max = 3
  mds_bal_lua = {0, 1, 2, 3}
  Failing = {0, 1}
  MaxFail = 1
SPECIFICATION Spec
INVARIANTS
  LoadsFollowTheBeat
  BeatsWithinMax
PROPERTIES
  RootGathers
CHECK_DEADLOCK FALSE
