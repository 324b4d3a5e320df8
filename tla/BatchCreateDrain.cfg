\* A task that is still in the channel when main has closed the database.
SPECIFICATION Spec
CONSTANTS
  TaskId = {t1, t2, t3}
  Tagged = {t1}
  ChannelSize = 2
  MaxBatch = 2
  SemaSize = 1
INVARIANT
  RestIsSaved
CHECK_DEADLOCK FALSE
