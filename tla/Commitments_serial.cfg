CONSTANTS
  Users = {u1, u2}
  Problems = {p1, p2, p3}
  p1 = p1
  Ids = {c1, c2, c3}
  Threads = {t1}
  Tier <- MCTier
  MaxActive = 2
  LockPeriod = 1
  MaxTime = 2
  MaxFailures = 0
SPECIFICATION Spec
SYMMETRY Symmetry
CHECK_DEADLOCK FALSE
INVARIANTS OneActivePerProblem HistoryAgreesWithStatus ReputationIsEarned
PROPERTIES TerminalIsFinal KeepsPromise
