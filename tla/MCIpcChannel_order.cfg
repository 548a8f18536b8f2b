SPECIFICATION Spec
CHECK_DEADLOCK FALSE
CONSTANTS
  Senders = {"parent"}
  Kinds = {"msg", "socket"}
  Lossy = TRUE
  Disconnecters = {}
  Crashers = {}
  MaxSends <- MCThree
INVARIANTS InOrder
