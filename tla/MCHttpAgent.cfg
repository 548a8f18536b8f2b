SPECIFICATION FairSpec
CHECK_DEADLOCK FALSE
CONSTANTS
  a = a
  b = b
  r1 = r1
  r2 = r2
  r3 = r3
  Homes <- MCHomes
  Origins = {a, b}
  Reqs = {r1, r2, r3}
  NSockets = 4
  None = None
  Options <- MCOptions
  Destroys = TRUE
INVARIANTS PoolExact OneOwner
PROPERTIES LimitsKept ClosesOnce
