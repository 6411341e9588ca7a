SPECIFICATION Spec
CONSTANTS
  Names <- MCNames
  half <- MCHalf
  Stored <- MCStored
  Loads <- MCLoads
INVARIANTS
  NothingLost
  OrphansAreGone
  NothingStaysFrozen
CHECK_DEADLOCK FALSE
