\* Three subtasks, two requests of several statements at once, a deadline that
\* passes and one that does not.
SPECIFICATION PersonalSpec
CONSTANTS
  s1 = s1
  s2 = s2
  s3 = s3
  r1 = r1
  r2 = r2
  Subtask = {s1, s2, s3}
  Request = {r1, r2}
  Deadline = {0, 1}
  MaxTime = 1
SYMMETRY Symmetry
INVARIANTS
  PersonalTypeOK
  AllDoneIsCompleted
  CompletedNotEarly
  AckOnlyIfDeleted
\* Nothing is left to do for a task that is gone.
CHECK_DEADLOCK FALSE
