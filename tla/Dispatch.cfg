CONSTANTS
  Peers = {"p", "q"}
  MaxSent = 2
  MaxFail = 1
SPECIFICATION Spec
INVARIANTS
  EachMessageOnce
PROPERTIES
  NoMessageOfAReplacedPeer
  DeferredAreHandled
