CONSTANTS
  Rfps = {f1, f2}
  Handlers = {h1, h2}
  Workers = {w1, w2}
  MaxRuns = 3
  MaxVersion = 2
  MaxLost = 1
SPECIFICATION Spec
CHECK_DEADLOCK FALSE
INVARIANTS ShownIsFresh AllOrNothing
PROPERTIES ShownAdvances EndsOnce EveryRunEndsOrIsLost
