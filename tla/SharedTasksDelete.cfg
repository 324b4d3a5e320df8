\* A delete that read the task as its proposer's, racing a counter proposal.
SPECIFICATION Spec
CONSTANTS
  u1 = u1
  u2 = u2
  u3 = u3
  r1 = r1
  r2 = r2
  None = None
  Users = {u1, u2, u3}
  Subscribers = {u1, u2}
  Assignees = {u1, u2}
  TaskId = {t1}
  Terms = {c1}
  Request = {r1, r2}
SYMMETRY Symmetry
INVARIANT
  PendingNotDeletedByAddressee
