CONSTANTS
  Lists = {"problems", "rfps", "solutions", "new", "top", "comments"}
  Organizations = {o1, o2}
  Cap = 4
  Limit = 2
  FirstRows = 4
  MaxRows = 5
  MaxChanges = 3
SPECIFICATION Spec
SYMMETRY Symmetry
CHECK_DEADLOCK FALSE
INVARIANTS SkipsBounded RepeatsBounded ShownIsReadable
