\* Two tasks, two updates or deletions in flight, five stamps.
SPECIFICATION StoreSpec
CONSTANTS
  t1 = t1
  t2 = t2
  x1 = x1
  x2 = x2
  g1 = g1
  g2 = g2
  w1 = w1
  w2 = w2
  None = None
  TaskId = {t1, t2}
  Text = {x1, x2}
  Due <- MCDue
  Tag = {g1, g2}
  Nameless = {g2}
  DefaultTag = g1
  Request <- MCRequest
  Patch <- MCPatch
  Writer = {w1, w2}
  MaxTime = 5
SYMMETRY Symmetry
INVARIANTS
  StoreTypeOK
  KeysAreUnique
  UpdatesAreNumberedInOrder
  OutboxTellsTheTask
PROPERTIES
  OutboxIsALog
\* Nothing can be stamped once the clock has reached its bound.
CHECK_DEADLOCK FALSE
