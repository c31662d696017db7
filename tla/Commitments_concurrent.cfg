CONSTANTS
  Users = {u1}
  Problems = {p1, p2}
  Ids = {c1, c2, c3}
  Threads = {t1, t2}
  Tier <- MCTier
  p1 = p1
  MaxActive = 1
  LockPeriod = 1
  MaxTime = 1
  MaxFailures = 1
SPECIFICATION Spec
SYMMETRY Symmetry
CHECK_DEADLOCK FALSE
INVARIANTS TypeOK SlotOverrunBounded NoExitBeforeFirstLock AuditTrailComplete NoEventWithoutTransition
PROPERTY TerminalStaysTerminal
