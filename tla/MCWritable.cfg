SPECIFICATION FairSpec
CONSTANTS
  Callbacks = {"f"}
  LateCork = FALSE
  LateUncork = FALSE
  Options <- MCOptions
  Reenter = {"cb", "drain", "finish", "error", "close"}
  MaxCalls <- MCMaxCalls
INVARIANTS StateSound EventsOrdered
PROPERTIES KeepsContract WriteCallbacksCalled DrainKept ComesToAnEnd
CHECK_DEADLOCK FALSE
