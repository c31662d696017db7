CONSTANTS
  Users = {u1}
  Problems = {p1}
  p1 = p1
  Ids = {c1}
  Threads = {t1, t2}
  Tier <- MCTier
  MaxActive = 3
  LockPeriod = 1
  MaxTime = 2
  MaxFailures = 0
SPECIFICATION Spec
SYMMETRY Symmetry
CHECK_DEADLOCK FALSE
PROPERTY TerminalIsFinal
