SPECIFICATION Spec
CONSTANTS
  Ranks <- MCRanks
  Initially <- MCInitially
  Allowed <- MCAllowed
  Budgets <- MCBudgets
INVARIANTS
  NoAssert
  UsesOnlyWhatIsIssued
  ChangesAreNotLost
  CachedAnswersAreCurrent
  NothingIsForgotten
CHECK_DEADLOCK FALSE
