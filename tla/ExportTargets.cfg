CONSTANTS
  N = 2
  whoami = 1
  Modes = {"builtin", "lua", "thrash"}
  mds_bal_target_removal_min = 2
  mds_bal_target_removal_max = 3
  mds_bal_minoffload = 2
  MaxAmount = 2
  MaxInFlight = 2
SPECIFICATION Spec
PROPERTIES
  RecentTargetKept
  DecisionsAreCarriedOut
