\* One task with up to four events, two updates or deletions in flight, and
\* batches of two, so that events are left behind, and the deletion, which
\* cannot be read, takes one of the two places for ever.
SPECIFICATION FairSpec
CONSTANTS
  None = None
  TaskId = {t1}
  x1 = x1
  g1 = g1
  Text = {x1}
  Due <- MCDue
  Tag = {g1}
  Nameless = {}
  DefaultTag = g1
  Request <- MCRequest
  Patch <- MCPatch
  Writer = {w1, w2}
  MaxTime = 4
  BatchSize = 2
  MaxAttempts = 1
INVARIANTS
  TypeOK
  ProcessedWasTaken
  OvertakenOnlyAfterFailure
  RetriedOnlyIfUnmarked
PROPERTY
  AllReadableProcessed
