SPECIFICATION Spec
CONSTANTS
  p1 = p1
  p2 = p2
  a = a
  b = b
  c = c
  i1 = i1
  i2 = i2
  i3 = i3
  Noop = Noop
  None = None
  Tasks = {a, b}
  Posters = {p1, p2}
  Imms = {i1, i2}
  Calls = {"Post", "PostOwn", "EnqueueTask", "Ref", "Exit", "Throw", "SetImmediate", "ClearImmediate", "UnrefImmediate", "Io"}
  MaxRefs = 1
  MaxGrace = 1
SYMMETRY Symmetry
INVARIANTS TypeOK TasksAccounted NothingAfterCleanup ForegroundWakeup IdleKept
CHECK_DEADLOCK FALSE
