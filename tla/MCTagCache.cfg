\* Two tags that compete for two names, two cached tasks, so that one is stored
\* while the other is being invalidated, and two jobs.
SPECIFICATION Spec
CONSTANTS
  j1 = j1
  j2 = j2
  n1 = n1
  n2 = n2
  k1 = k1
  k2 = k2
  None = None
  Blank = Blank
  Tag = {t1, t2}
  TaskTag = t1
  Name = {n1, n2}
  Task = {k1, k2}
  Job = {j1, j2}
  MaxCommits = 2
SYMMETRY Symmetry
INVARIANTS
  TypeOK
  StaleTagIsExplained
  StaleTagsAreExplained
  OldNameIsExplained
PROPERTY
  TasksAreTracked
