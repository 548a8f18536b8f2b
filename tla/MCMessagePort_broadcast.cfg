SPECIFICATION SpecBroadcast
CONSTANTS
  t1 = t1
  t2 = t2
  g1 = g1
  None = None
  Threads = {t1, t2}
  Main = t1
  Datas = {1, 2, 3, 4, 5}
  Twin <- MCTwinBroadcast
  Wraps = {1, 2, 3, 4, 5, 6}
  Groups = {g1}
  Calls = {"BroadcastChannel", "postMessage", "close"}
  PumpLimit = 1
  MaxPosts = 1
  MaxDepth = 2
  CloneRunsJS = TRUE
  MayFail = FALSE
INVARIANTS GroupIsOpenPorts
CHECK_DEADLOCK FALSE
