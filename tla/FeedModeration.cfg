CONSTANTS
  Users = {u1}
  Problems = {p1}
  Posts = {f1, f2}
  Comments = {k1, k2}
  Handlers = {h1, h2}
  MaxEvents = 2
  MaxFailures = 1
SPECIFICATION Spec
SYMMETRY Symmetry
CHECK_DEADLOCK FALSE
INVARIANTS VoiceIsGated ThreadStaysOnPost NoReplyLost LogExplainsFlag
