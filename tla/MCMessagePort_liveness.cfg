SPECIFICATION FairSpec
CONSTANTS
  t1 = t1
  t2 = t2
  g1 = g1
  None = None
  Threads = {t1, t2}
  Main = t1
  Datas = {1, 2}
  Twin <- MCTwin
  Wraps = {1, 2}
  Groups = {}
  Calls = {"Worker", "MessageChannel", "postMessage", "start", "stop", "drain", "gc", "close", "receive"}
  PumpLimit = 1
  MaxPosts = 1
  MaxDepth = 1
  CloneRunsJS = FALSE
  MayFail = TRUE
INVARIANTS TypeOK
PROPERTIES QueuedIsDelivered CloseReachesPeer
CHECK_DEADLOCK FALSE
