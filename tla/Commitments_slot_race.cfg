CONSTANTS
  Users = {u1}
  Problems = {p1, p2, p3, p4}
  p1 = p1
  Ids = {c1, c2, c3, c4}
  Threads = {t1, t2}
  Tier <- MCTier
  MaxActive = 3
  LockPeriod = 1
  MaxTime = 0
  MaxFailures = 0
SPECIFICATION Spec
SYMMETRY Symmetry
CHECK_DEADLOCK FALSE
INVARIANT SlotLimit
