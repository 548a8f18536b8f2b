SPECIFICATION SpecWorker
CONSTANTS
  t1 = t1
  t2 = t2
  g1 = g1
  None = None
  Threads = {t1, t2}
  Main = t1
  Datas = {1, 2, 3, 4}
  Twin <- MCTwin
  Wraps = {1, 2, 3, 4, 5}
  Groups = {}
  Calls = {"postMessage", "close", "cleanup", "gc"}
  PumpLimit = 1
  MaxPosts = 1
  MaxDepth = 1
  CloneRunsJS = FALSE
  MayFail = FALSE
INVARIANTS AttachedIsOwner CloseReported WellLinked NoLostWakeup
PROPERTIES ClosedIsFinal
CHECK_DEADLOCK FALSE
