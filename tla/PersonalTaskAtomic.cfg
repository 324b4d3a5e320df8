\* A task with subtasks whose second statement may fail.
SPECIFICATION PersonalSpec
CONSTANTS
  Subtask = {s1, s2}
  Request = {r1}
  Deadline = {0}
  MaxTime = 0
INVARIANT
  InsertedAtomically
