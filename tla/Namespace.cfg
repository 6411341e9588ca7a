CONSTANTS
  Clients = {"c", "d"}
  Names = {"a", "b"}
  Inos = {1, 2, 3, 4}
  Loads <- MCLoads
  Opened <- MCOpened
  MaxCrash = 1
SPECIFICATION Spec
INVARIANTS
  LinksAreRight
  TreeUnlessIntoNew
  PurgedNeverComesBack
  ReplaySucceeds
CHECK_DEADLOCK FALSE
