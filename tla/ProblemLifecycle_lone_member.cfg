CONSTANTS
  Users = {u1}
  Problems = {p1}
  Ids = {c1, c2}
  Threads = {t1}
  Objectors = {o1}
  Tier <- MCTier
  MaxActive = 1
  LockPeriod = 1
  Window = 1
  MaxTime = 2
  MaxFailures = 0
SPECIFICATION LifecycleSpec
SYMMETRY Symmetry
CHECK_DEADLOCK FALSE
INVARIANT IndependentClaims
