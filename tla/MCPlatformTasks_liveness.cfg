SPECIFICATION FairSpec
CONSTANTS
  p1 = p1
  p2 = p2
  a = a
  b = b
  c = c
  i1 = i1
  i2 = i2
  i3 = i3
  Noop = Noop
  None = None
  Tasks = {a}
  Posters = {p1}
  Imms = {i1, i2}
  Calls = {"Post", "PostOwn", "EnqueueTask", "SetImmediate", "UnrefImmediate", "Ref", "Throw", "Io", "Exit"}
  MaxRefs = 1
  MaxGrace = 0
PROPERTIES TasksSettle OutstandingRuns IdleReleased
CHECK_DEADLOCK FALSE
