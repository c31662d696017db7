CONSTANTS
  Emails = {e1, e2}
  Tabs = {t1, t2}
  MaxTokens = 2
  MaxPending = 2
  MaxCommitments = 2
SPECIFICATION Spec
SYMMETRY Symmetry
CHECK_DEADLOCK FALSE
INVARIANTS OnlyOwnersEnd SlotReachable UserIsAwaited
PROPERTY LiveTokenIsKept
