\* Two participants and an outsider, one task, two requests in flight.
SPECIFICATION Spec
CONSTANTS
  u1 = u1
  u2 = u2
  u3 = u3
  r1 = r1
  r2 = r2
  None = None
  Users = {u1, u2, u3}
  Subscribers = {u1, u2}
  Assignees = {u1, u2}
  TaskId = {t1}
  Terms = {c1}
  Request = {r1, r2}
SYMMETRY Symmetry
INVARIANTS
  TypeOK
  DecidedByAddressee
  OutsidersHaveNoSay
  NoticeReachesPartner
  DeletionNoticeIsTrue
  AcknowledgedOnlyIfDeleted
PROPERTIES
  ImplementsNegotiation
  CounterNoticeAsksAddressee
