SPECIFICATION Spec
CONSTANTS
  c1 = c1
  c2 = c2
  None = None
  Workers = {1, 2}
  Conns = {c1, c2}
  Policies = {"rr"}
  Binds = {"now"}
  UserCalls = {"listen", "close"}
  MaxServed = 1
  MaxCalls = 3
INVARIANTS ClosedIsDrained
CHECK_DEADLOCK FALSE
