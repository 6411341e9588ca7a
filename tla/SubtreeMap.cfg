CONSTANTS
  Dirs <- MCDirs
  Inodes <- MCInodes
  ino <- MCino
  Root = "root"
  Home <- MCHome
  Movable = {"b", "c"}
  Ranks = {0, 1}
  Ambiguous <- MCAmbiguous
  MaxOps = 3
SPECIFICATION Spec
INVARIANTS
  BoundsMatchAuth
  AuthorityChangesAsAsked
PROPERTIES
  OperationsEnd
CHECK_DEADLOCK FALSE
