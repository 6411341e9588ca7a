CONSTANTS
  Ranks = {0, 1, 2}
  Master = 0
  NoRank = NoRank
  Ops <- MCOps
SPECIFICATION Spec
INVARIANTS
  NoAssert
  Settled
  ForgottenOnlyWhenCommitted
PROPERTIES
  AtomicUpdateSpec
CHECK_DEADLOCK FALSE
