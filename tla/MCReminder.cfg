\* No subtasks, and one request at a time, so that the worker's polls meet
\* every change of the task, of its deadline and of the subscription.
SPECIFICATION Spec
CONSTANTS
  Subtask = {}
  Request = {r1}
  Deadline = {3, 6}
  MaxTime = 7
  Windows <- MCWindows
  Expiry = {5, 9}
INVARIANTS
  TypeOK
  RepeatedOnlyIfUnmarked
  RemindedUnlessExcused
\* The clock stops at its bound.
CHECK_DEADLOCK FALSE
