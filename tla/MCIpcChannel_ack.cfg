SPECIFICATION SpecListener
CHECK_DEADLOCK FALSE
CONSTANTS
  Senders = {"parent"}
  Kinds = {"msg", "socket"}
  Lossy = FALSE
  Disconnecters = {"child"}
  Crashers = {}
  MaxSends <- MCTwo
INVARIANTS AckNotFatal
