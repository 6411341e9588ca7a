CONSTANTS
  Clients = {"c"}
  Tids = {1, 2, 3}
  Programs <- MCPrograms
  MaxEvents = 4
  MaxCrash = 1
SPECIFICATION Spec
INVARIANTS
  NoAssert
  DurableInOrder
  OncePerSession
  ReplayedBeforeActive
  NoCallHangs
CHECK_DEADLOCK FALSE
