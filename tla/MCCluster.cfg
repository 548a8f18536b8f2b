SPECIFICATION FairSpec
CONSTANTS
  c1 = c1
  c2 = c2
  None = None
  Workers = {1, 2}
  Conns = {c1, c2}
  Policies = {"rr", "shared"}
  Binds = {"now", "later", "fail"}
  UserCalls = {"listen", "close", "crash", "primaryDisconnect", "workerDisconnect", "workerDestroy"}
  MaxServed = 1
  MaxCalls = 3
INVARIANTS HandlesSound ConnsAccounted GoneIsForgotten
PROPERTIES DisconnectEnds QueueDrains
CHECK_DEADLOCK FALSE
