CONSTANTS
  Dirs = {"root", "a", "b"}
  parentOf <- MCparentOf
  Root = "root"
  MaxPins = 1
  MaxOps = 4
SPECIFICATION Spec
INVARIANTS
  PinsCountWhatIsPinned
  FrozenIsStill
PROPERTIES
  FreezesEnd
