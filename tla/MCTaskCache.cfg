\* One task, a list of the user and one by tag, two jobs and a semaphore with
\* one place, so that corrections are skipped and fills are overtaken.
SPECIFICATION Spec
CONSTANTS
  None = None
  Task = {t1}
  ListKey = {all, tag}
  TagListKey = {tag}
  Job = {j1, j2}
  SemaSize = 1
  MaxChanges = 2
  RedisFails = TRUE
SYMMETRY JobSymmetry
INVARIANTS
  TypeOK
  StaleTaskIsExplained
  
PROPERTY
  ListsAreTracked
