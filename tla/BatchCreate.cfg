\* One task with a tag and two without, a channel of one, batches of two and
\* one goroutine for the cache: the channel overflows, a batch is filled or
\* left to the ticker, and the semaphore has no place.
SPECIFICATION FairSpec
CONSTANTS
  TaskId = {t1, t2, t3}
  Tagged = {t1}
  ChannelSize = 1
  MaxBatch = 2
  SemaSize = 1
INVARIANTS
  TypeOK
  AcceptedIsInOnePlace
  FailureIsConfined
  CachedWasInserted
PROPERTY
  AcceptedGetsFlushed
CHECK_DEADLOCK FALSE
