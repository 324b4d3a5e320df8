-------------------------- MODULE SharedTasksProofs --------------------------
(***************************************************************************)
(* Proofs about SharedTasks for any sets of users, tasks, terms and        *)
(* requests in flight.                                                     *)
(***************************************************************************)
EXTENDS SharedTasks, TLAPS

-----------------------------------------------------------------------------
(* Type correctness *)

LEMMA InitTypeOK == Init => TypeOK
<1>1. NoSubtasks \in SubtaskTable
  BY DEF NoSubtasks, SubtaskTable
<1>2. QED
  BY <1>1 DEF Init, TypeOK

LEMMA RewrittenType ==
  ASSUME NEW old \in SubtaskTable, NEW input \in SubtaskInput
  PROVE  Rewritten(old, input) \in SubtaskTable
BY UsersAssumption DEF Rewritten, SubtaskInput, Keep, SubtaskTable

\* What a request that read the row may keep of it.
LEMMA ReadByType ==
  ASSUME TypeOK, NEW t \in TaskId, NEW u \in Users, IsParticipant(t, u)
  PROVE  ReadBy(t, u) \in Seen
<1>1. t \notin fresh /\ row[t] \in Row
  BY DEF TypeOK, IsParticipant
<1>2. QED
  BY <1>1 DEF ReadBy, PartnerOf, Seen, Row

LEMMA RowIsNotNoRow == ASSUME NEW x \in Row PROVE x # NoRow
BY NoneAssumption DEF Row, NoRow

LEMMA EnterType ==
  ASSUME TypeOK, NEW r \in Request, NEW pc \in Stage, NEW u \in Users \cup {None},
         NEW t \in TaskId, NEW seen \in Seen \cup {NoSeen}, Enter(r, pc, u, t, seen)
  PROVE  slot' \in [Request -> Busy \cup {Idle}]
BY DEF Enter, TypeOK, Busy

LEMMA LeaveType ==
  ASSUME TypeOK, NEW r \in Request, Leave(r)
  PROVE  slot' \in [Request -> Busy \cup {Idle}]
BY DEF Leave, TypeOK

LEMMA LeaveWithNoticeType ==
  ASSUME TypeOK, NEW r \in Request, slot[r] # Idle,
         NEW notice \in NoticeKind \cup {None}, LeaveWithNotice(r, notice)
  PROVE  slot' \in [Request -> Busy \cup {Idle}]
<1>1. slot[r] \in Busy
  BY DEF TypeOK
<1>2. slot[r].seen.partner \in Users \cup {None}
  BY <1>1 DEF Busy, Seen, NoSeen
<1>3. notice # None => [slot[r] EXCEPT !.pc = "notify", !.seen = NoSeen,
                           !.notice = notice, !.to = slot[r].seen.partner] \in Busy
  BY <1>1, <1>2 DEF Busy, Stage
<1>4. QED
  BY <1>3 DEF LeaveWithNotice, TypeOK

\* A busy slot names a task, and a user except for the administrator's.
LEMMA BusySlot ==
  ASSUME TypeOK, NEW r \in Request, slot[r].pc # "idle"
  PROVE  /\ slot[r] # Idle
         /\ slot[r] \in Busy
         /\ slot[r].task \in TaskId
         /\ slot[r].user \in Users \cup {None}
         /\ slot[r].seen \in Seen \cup {NoSeen}
BY DEF TypeOK, Busy, Idle

LEMMA ParticipantIsUser ==
  ASSUME TypeOK, NEW t \in TaskId, NEW u, IsParticipant(t, u)
  PROVE  /\ u \in Users
         /\ t \in present /\ t \notin fresh
         /\ row[t] \in Row
BY DEF TypeOK, IsParticipant, Row

LEMMA NextTypeOK == TypeOK /\ [Next]_vars => TypeOK'
<1> SUFFICES ASSUME TypeOK, [Next]_vars PROVE TypeOK'
  OBVIOUS
<1>1. ASSUME NEW u \in Users, NEW a \in Users, NEW t \in TaskId, NEW c \in Terms,
             NEW d \in DueDate, NEW s \in SUBSET Assignees, Propose(u, a, t, c, d, s)
      PROVE  TypeOK'
  <2>1. [x \in s |-> None] \in SubtaskTable
    BY UsersAssumption DEF SubtaskTable
  <2>2. [proposer_id |-> u, addressee_id |-> a, status |-> "pending", terms |-> c,
         due_date |-> d, admin_deleted |-> FALSE, user_ack |-> FALSE] \in Row
    BY DEF Row, SharedTaskStatus
  <2>3. row'[t] # NoRow /\ t \notin fresh'
    BY <1>1, <2>2, RowIsNotNoRow DEF Propose, TypeOK
  <2>4. \A x \in TaskId : row'[x] = NoRow <=> x \in fresh'
    BY <1>1, <2>3 DEF Propose, TypeOK
  <2>5. row' \in [TaskId -> Row \cup {NoRow}]
    BY <1>1, <2>2 DEF Propose, TypeOK
  <2>6. subs' \in [TaskId -> SubtaskTable]
    BY <1>1, <2>1 DEF Propose, TypeOK
  <2>7. QED
    BY <1>1, <2>4, <2>5, <2>6 DEF Propose, TypeOK
<1>2. ASSUME NEW t \in TaskId, NEW u \in Users, NEW st \in {"accepted", "rejected"},
             Respond(t, u, st)
      PROVE  TypeOK'
  <2>1. t \notin fresh /\ row[t] \in Row
    BY <1>2 DEF Respond, AnswerAllowed, TypeOK
  <2>2. [row[t] EXCEPT !.status = st] \in Row
    BY <2>1 DEF Row, SharedTaskStatus
  <2>3. QED
    BY <1>2, <2>1, <2>2, RowIsNotNoRow DEF Respond, TypeOK
<1>3. ASSUME NEW t \in TaskId, NEW u \in Users, NEW a \in Users, ToggleSubtaskDone(t, u, a)
      PROVE  TypeOK'
  <2>1. [subs[t] EXCEPT ![a] = IF @ = None THEN u ELSE None] \in SubtaskTable
    BY <1>3 DEF ToggleSubtaskDone, TypeOK, SubtaskTable
  <2>2. QED
    BY <1>3, <2>1 DEF ToggleSubtaskDone, TypeOK, history
<1>4. ASSUME NEW r \in Request, NEW u \in Users, NEW t \in TaskId, UpdateRead(r, u, t)
      PROVE  TypeOK'
  <2>1. slot' \in [Request -> Busy \cup {Idle}]
    BY <1>4, ReadByType, EnterType DEF UpdateRead, Stage
  <2>2. QED
    BY <1>4, <2>1 DEF UpdateRead, TypeOK, table, history
<1>5. ASSUME NEW r \in Request, UpdateBranch(r)
      PROVE  TypeOK'
  <2>1. slot[r] \in Busy
    BY <1>5, BusySlot DEF UpdateBranch
  <2>2. slot' \in [Request -> Busy \cup {Idle}]
    <3>1. \A pc \in Stage : [slot[r] EXCEPT !.pc = pc] \in Busy
      BY <2>1 DEF Busy
    <3>2. QED
      BY <1>5, <3>1, LeaveType DEF UpdateBranch, Stage, TypeOK
  <2>3. QED
    BY <1>5, <2>2 DEF UpdateBranch, TypeOK, table, history
<1>6. ASSUME NEW r \in Request, NEW c \in Terms, NEW d \in DueDate, NEW s \in SubtaskInput,
             EditWrite(r, c, d, s)
      PROVE  TypeOK'
  <2> DEFINE t == slot[r].task
  <2>1. t \in TaskId /\ slot[r] # Idle
    BY <1>6, BusySlot DEF EditWrite
  <2>2. slot[r].user \in Users /\ t \notin fresh /\ row[t] \in Row
    BY <1>6, <2>1, ParticipantIsUser DEF EditWrite
  <2>3. [row[t] EXCEPT !.terms = c, !.due_date = d] \in Row
    BY <2>2 DEF Row
  <2>4. Rewritten(subs[t], s) \in SubtaskTable
    BY <2>1, RewrittenType DEF TypeOK
  <2>5. slot' \in [Request -> Busy \cup {Idle}]
    <3>1. UpdateNotice(slot[r].seen, "update", c, d) \in NoticeKind \cup {None}
      BY DEF UpdateNotice, NoticeKind
    <3>2. QED
      BY <1>6, <2>1, <3>1, LeaveWithNoticeType DEF EditWrite
  <2>6. row' = [row EXCEPT ![t] = [row[t] EXCEPT !.terms = c, !.due_date = d]]
    BY <1>6 DEF EditWrite, TypeOK
  <2>7. QED
    BY <1>6, <2>1, <2>2, <2>3, <2>4, <2>5, <2>6, RowIsNotNoRow DEF EditWrite, TypeOK
<1>7. ASSUME NEW r \in Request, NEW c \in Terms, NEW d \in DueDate, NEW s \in SubtaskInput,
             CounterWrite(r, c, d, s)
      PROVE  TypeOK'
  <2> DEFINE t == slot[r].task
  <2>1. t \in TaskId /\ slot[r] # Idle
    BY <1>7, BusySlot DEF CounterWrite
  <2>2. t \in present /\ t \notin fresh /\ row[t] \in Row
    BY <1>7, <2>1 DEF CounterWrite, AnswerAllowed, TypeOK
  <2>3. slot[r].user \in Users
    BY <1>7, <2>1, <2>2 DEF CounterWrite, AnswerAllowed, Row
  <2>4. [SwapRoles(row[t]) EXCEPT !.terms = c, !.due_date = d] \in Row
    BY <2>2 DEF Row, SwapRoles
  <2>5. Rewritten(subs[t], s) \in SubtaskTable
    BY <2>1, RewrittenType DEF TypeOK
  <2>6. slot' \in [Request -> Busy \cup {Idle}]
    <3>1. UpdateNotice(slot[r].seen, "counter", c, d) \in NoticeKind \cup {None}
      BY DEF UpdateNotice, NoticeKind
    <3>2. QED
      BY <1>7, <2>1, <3>1, LeaveWithNoticeType DEF CounterWrite
  <2>7. QED
    BY <1>7, <2>1, <2>2, <2>3, <2>4, <2>5, <2>6, RowIsNotNoRow DEF CounterWrite, TypeOK
<1>8. ASSUME NEW r \in Request, NEW u \in Users, NEW t \in TaskId, DeleteRead(r, u, t)
      PROVE  TypeOK'
  <2>1. slot' \in [Request -> Busy \cup {Idle}]
    BY <1>8, ReadByType, EnterType DEF DeleteRead, Stage
  <2>2. QED
    BY <1>8, <2>1 DEF DeleteRead, TypeOK, table, history
<1>9. ASSUME NEW r \in Request, DeleteWrite(r)
      PROVE  TypeOK'
  <2>1. slot[r].task \in TaskId /\ slot[r] # Idle
    BY <1>9, BusySlot DEF DeleteWrite
  <2>2. slot[r].user \in Users
    BY <1>9, <2>1, ParticipantIsUser DEF DeleteWrite
  <2>3. slot' \in [Request -> Busy \cup {Idle}]
    BY <1>9, <2>1, LeaveWithNoticeType DEF DeleteWrite, DeleteNotice, NoticeKind
  <2>4. NoSubtasks \in SubtaskTable
    BY DEF NoSubtasks, SubtaskTable
  <2>5. QED
    BY <1>9, <2>1, <2>2, <2>3, <2>4 DEF DeleteWrite, TypeOK
<1>10. ASSUME NEW t \in TaskId, AdminSoftDeleteShared(t)
       PROVE  TypeOK'
  <2>1. t \notin fresh /\ row[t] \in Row
    BY <1>10 DEF AdminSoftDeleteShared, TypeOK
  <2>2. [row[t] EXCEPT !.admin_deleted = TRUE] \in Row
    BY <2>1 DEF Row
  <2>3. QED
    BY <1>10, <2>1, <2>2, RowIsNotNoRow DEF AdminSoftDeleteShared, TypeOK, history
<1>11. ASSUME NEW t \in TaskId, NEW u \in Users, AcknowledgeAdminDeletionShared(t, u)
       PROVE  TypeOK'
  <2>1. t \notin fresh /\ row[t] \in Row
    BY <1>11, ParticipantIsUser DEF AcknowledgeAdminDeletionShared, AcknowledgeAllowed
  <2>2. [row[t] EXCEPT !.user_ack = TRUE] \in Row
    BY <2>1 DEF Row
  <2>3. QED
    BY <1>11, <2>1, <2>2, RowIsNotNoRow
    DEF AcknowledgeAdminDeletionShared, TypeOK, history
<1>12. ASSUME NEW r \in Request, NEW t \in TaskId, RestoreRead(r, t)
       PROVE  TypeOK'
  <2>1. slot' \in [Request -> Busy \cup {Idle}]
    BY <1>12, EnterType DEF RestoreRead, Stage
  <2>2. QED
    BY <1>12, <2>1 DEF RestoreRead, TypeOK, table, history
<1>13. ASSUME NEW r \in Request, RestoreWrite(r)
       PROVE  TypeOK'
  <2> DEFINE t == slot[r].task
  <2>1. t \in TaskId
    BY <1>13, BusySlot DEF RestoreWrite
  <2>2. t \in present => t \notin fresh /\ row[t] \in Row /\ Restored(row[t]) \in Row
    <3>1. ASSUME t \in present PROVE t \notin fresh /\ row[t] \in Row
      BY <2>1, <3>1 DEF TypeOK
    <3>2. ASSUME row[t] \in Row PROVE Restored(row[t]) \in Row
      BY <3>2 DEF Row, Restored
    <3>3. QED
      BY <3>1, <3>2
  <2>3. slot' \in [Request -> Busy \cup {Idle}]
    BY <1>13, LeaveType DEF RestoreWrite
  <2>4. CASE t \in present
    BY <1>13, <2>1, <2>2, <2>3, <2>4, RowIsNotNoRow DEF RestoreWrite, TypeOK, history
  <2>5. CASE t \notin present
    BY <1>13, <2>3, <2>5 DEF RestoreWrite, TypeOK, history
  <2>6. QED
    BY <2>4, <2>5
<1>14. ASSUME NEW r \in Request, Finish(r)
       PROVE  TypeOK'
  BY <1>14, LeaveType DEF Finish, TypeOK, table, history
<1>15. ASSUME NEW t \in TaskId, DeadlinePasses(t)
       PROVE  TypeOK'
  <2>1. t \notin fresh /\ row[t] \in Row
    BY <1>15 DEF DeadlinePasses, TypeOK
  <2>2. [row[t] EXCEPT !.due_date = "past"] \in Row
    BY <2>1 DEF Row, DueDate
  <2>3. QED
    BY <1>15, <2>1, <2>2, RowIsNotNoRow DEF DeadlinePasses, TypeOK, history
<1>16. CASE UNCHANGED vars
  BY <1>16 DEF vars, table, history, TypeOK
<1>17. QED
  BY <1>1, <1>2, <1>3, <1>4, <1>5, <1>6, <1>7, <1>8, <1>9, <1>10, <1>11, <1>12,
     <1>13, <1>14, <1>15, <1>16 DEF Next

\* Every table and every slot stays within its type (the columns of
\* shared_tasks, the branches of the handlers).
THEOREM TypeCorrect == Spec => []TypeOK
BY InitTypeOK, NextTypeOK, PTL DEF Spec

-----------------------------------------------------------------------------
(* What no step does to a row that was once inserted *)

\* The participants of t stay two and the same, a decided task keeps its
\* status and its roles, and a deleted row stays as it was.
NextParties(t) == {row'[t].proposer_id, row'[t].addressee_id}

RowStep(t) ==
  /\ t \notin fresh'
  /\ NextParties(t) = Parties(t)
  /\ row'[t].proposer_id # row'[t].addressee_id
  /\ row[t].status # "pending" =>
       row'[t].status = row[t].status /\ row'[t].addressee_id = row[t].addressee_id
  /\ t \notin present => row'[t] = row[t] /\ t \notin present'

LEMMA RowUnchanged ==
  ASSUME TwoParties, NEW t \in TaskId \ fresh, row'[t] = row[t],
         t \notin fresh', t \in present' => t \in present
  PROVE  RowStep(t)
BY DEF RowStep, TwoParties, Parties, NextParties

LEMMA RolesUnchanged ==
  ASSUME TwoParties, NEW t \in TaskId \ fresh, fresh' = fresh, present' = present,
         row'[t].proposer_id = row[t].proposer_id,
         row'[t].addressee_id = row[t].addressee_id,
         row'[t].status = row[t].status,
         t \notin present => row'[t] = row[t]
  PROVE  RowStep(t)
BY DEF RowStep, TwoParties, Parties, NextParties

LEMMA EveryRowStep ==
  ASSUME TypeOK, TwoParties, [Next]_vars, NEW t \in TaskId \ fresh
  PROVE  RowStep(t)
<1> t \in TaskId /\ t \notin fresh /\ row[t] \in Row
  BY DEF TypeOK
<1>1. ASSUME NEW u \in Users, NEW a \in Users, NEW x \in TaskId, NEW c \in Terms,
             NEW d \in DueDate, NEW s \in SUBSET Assignees, Propose(u, a, x, c, d, s)
      PROVE  RowStep(t)
  BY <1>1, RowUnchanged DEF Propose, TypeOK
<1>2. ASSUME NEW x \in TaskId, NEW u \in Users, NEW st \in {"accepted", "rejected"},
             Respond(x, u, st)
      PROVE  RowStep(t)
  BY <1>2 DEF Respond, AnswerAllowed, TypeOK, RowStep, TwoParties, Parties, NextParties, Row
<1>3. ASSUME NEW r \in Request, NEW c \in Terms, NEW d \in DueDate, NEW s \in SubtaskInput,
             EditWrite(r, c, d, s)
      PROVE  RowStep(t)
  <2>1. row'[t] = IF t = slot[r].task
                  THEN [row[t] EXCEPT !.terms = c, !.due_date = d] ELSE row[t]
    BY <1>3 DEF EditWrite, TypeOK
  <2>2. t = slot[r].task => t \in present
    BY <1>3 DEF EditWrite, IsParticipant
  <2>3. /\ row'[t].proposer_id = row[t].proposer_id
        /\ row'[t].addressee_id = row[t].addressee_id
        /\ row'[t].status = row[t].status
    BY <2>1 DEF Row
  <2>4. fresh' = fresh /\ present' = present
    BY <1>3 DEF EditWrite
  <2>5. QED
    BY <2>1, <2>2, <2>3, <2>4, RolesUnchanged
<1>4. ASSUME NEW r \in Request, NEW c \in Terms, NEW d \in DueDate, NEW s \in SubtaskInput,
             CounterWrite(r, c, d, s)
      PROVE  RowStep(t)
  <2>1. row'[t] = IF t = slot[r].task
                  THEN [SwapRoles(row[t]) EXCEPT !.terms = c, !.due_date = d] ELSE row[t]
    BY <1>4 DEF CounterWrite, TypeOK
  <2>2. t = slot[r].task => row[t].status = "pending" /\ t \in present
    BY <1>4 DEF CounterWrite, AnswerAllowed
  <2>3. QED
    BY <1>4, <2>1, <2>2 DEF CounterWrite, SwapRoles, RowStep, TwoParties, Parties, NextParties, Row
<1>5. ASSUME NEW r \in Request, DeleteWrite(r)
      PROVE  RowStep(t)
  BY <1>5, RowUnchanged DEF DeleteWrite
<1>6. ASSUME NEW x \in TaskId, AdminSoftDeleteShared(x)
      PROVE  RowStep(t)
  BY <1>6 DEF AdminSoftDeleteShared, TypeOK, RowStep, TwoParties, Parties, NextParties, Row
<1>7. ASSUME NEW x \in TaskId, NEW u \in Users, AcknowledgeAdminDeletionShared(x, u)
      PROVE  RowStep(t)
  BY <1>7 DEF AcknowledgeAdminDeletionShared, AcknowledgeAllowed, IsParticipant, TypeOK,
              RowStep, TwoParties, Parties, NextParties, Row
<1>8. ASSUME NEW r \in Request, RestoreWrite(r)
      PROVE  RowStep(t)
  <2>1. row'[t] = IF t = slot[r].task /\ t \in present THEN Restored(row[t]) ELSE row[t]
    BY <1>8 DEF RestoreWrite, TypeOK
  <2>2. /\ row'[t].proposer_id = row[t].proposer_id
        /\ row'[t].addressee_id = row[t].addressee_id
        /\ row'[t].status = row[t].status
    BY <2>1 DEF Row, Restored
  <2>3. fresh' = fresh /\ present' = present
    BY <1>8 DEF RestoreWrite
  <2>4. QED
    BY <2>1, <2>2, <2>3, RolesUnchanged
<1>9. ASSUME NEW x \in TaskId, DeadlinePasses(x)
      PROVE  RowStep(t)
  BY <1>9 DEF DeadlinePasses, TypeOK, RowStep, TwoParties, Parties, NextParties, Row
<1>10. ASSUME UNCHANGED <<fresh, present, row>>
       PROVE  RowStep(t)
  BY <1>10, RowUnchanged
<1>11. QED
  BY <1>1, <1>2, <1>3, <1>4, <1>5, <1>6, <1>7, <1>8, <1>9, <1>10
  DEF Next, vars, table, ToggleSubtaskDone, UpdateRead, UpdateBranch, DeleteRead,
      RestoreRead, Finish

-----------------------------------------------------------------------------
(* What a step does to a slot *)

LEMMA IdleIs == Idle.pc = "idle" /\ Idle.seen = NoSeen /\ Idle.notice = None
BY DEF Idle

LEMMA SeenIsNotNoSeen == ASSUME NEW x \in Seen PROVE x # NoSeen
BY NoneAssumption DEF Seen, NoSeen

LEMMA ReadByIs ==
  ASSUME NEW t, NEW u
  PROVE  ReadBy(t, u).partner = PartnerOf(t, u) /\ ReadBy(t, u).status = row[t].status
BY DEF ReadBy

\* r begins with a read of the row, or without one; it goes on with what it
\* read; it turns that into a message; or it ends.
SlotReads(r) ==
  /\ slot'[r].task \in TaskId
  /\ IsParticipant(slot'[r].task, slot'[r].user)
  /\ slot'[r].seen = ReadBy(slot'[r].task, slot'[r].user)
  /\ slot'[r].pc \in {"update read", "delete read"}
  /\ slot'[r].notice = None
  /\ UNCHANGED table

SlotReadsNothing(r) ==
  /\ slot'[r].seen = NoSeen
  /\ slot'[r].pc \in {"update read", "restore read"}
  /\ slot'[r].notice = None

SlotGoesOn(r) ==
  /\ slot'[r].pc \in {"edit", "counter"}
  /\ slot'[r].seen = slot[r].seen
  /\ slot'[r].user = slot[r].user
  /\ slot'[r].task = slot[r].task
  /\ slot'[r].notice = slot[r].notice

SlotNotifies(r) ==
  /\ slot[r].seen # NoSeen
  /\ slot'[r].pc = "notify"
  /\ slot'[r].seen = NoSeen
  /\ slot'[r].user = slot[r].user
  /\ slot'[r].task = slot[r].task
  /\ slot'[r].to = slot[r].seen.partner
  /\ slot'[r].notice = "delete" =>
       slot[r].seen.status = "accepted" /\ slot[r].task \notin present'

SlotStep(r) ==
  \/ slot'[r] = slot[r]
  \/ slot'[r] = Idle
  \/ SlotReads(r)
  \/ SlotReadsNothing(r)
  \/ SlotGoesOn(r)
  \/ SlotNotifies(r)

LEMMA LeaveStep ==
  ASSUME TypeOK, NEW q \in Request, Leave(q), NEW r \in Request
  PROVE  SlotStep(r)
BY DEF Leave, TypeOK, SlotStep

LEMMA LeaveWithNoticeStep ==
  ASSUME TypeOK, NEW q \in Request, slot[q].pc # "idle", NEW notice,
         LeaveWithNotice(q, notice),
         notice # None => slot[q].seen # NoSeen,
         notice = "delete" =>
           slot[q].seen.status = "accepted" /\ slot[q].task \notin present',
         NEW r \in Request
  PROVE  SlotStep(r)
<1>1. CASE r # q
  BY <1>1 DEF LeaveWithNotice, TypeOK, SlotStep
<1>2. CASE r = q /\ notice = None
  BY <1>2 DEF LeaveWithNotice, TypeOK, SlotStep
<1>3. CASE r = q /\ notice # None
  <2>1. slot[r] \in Busy
    BY <1>3, BusySlot
  <2>2. slot'[r] = [slot[r] EXCEPT !.pc = "notify", !.seen = NoSeen,
                                   !.notice = notice, !.to = slot[r].seen.partner]
    BY <1>3 DEF LeaveWithNotice, TypeOK
  <2>3. SlotNotifies(r)
    BY <1>3, <2>1, <2>2 DEF SlotNotifies, Busy
  <2>4. QED
    BY <2>3 DEF SlotStep
<1>4. QED
  BY <1>1, <1>2, <1>3

LEMMA EverySlotStep ==
  ASSUME TypeOK, DeleteHasRead, [Next]_vars, NEW r \in Request
  PROVE  SlotStep(r)
<1>1. ASSUME NEW q \in Request, NEW u \in Users, NEW t \in TaskId, UpdateRead(q, u, t)
      PROVE  SlotStep(r)
  <2>1. CASE r # q
    BY <1>1, <2>1 DEF UpdateRead, Enter, TypeOK, SlotStep
  <2>2. CASE r = q
    <3>1. CASE Enter(q, "update read", u, t, NoSeen)
      BY <2>2, <3>1 DEF Enter, TypeOK, SlotStep, SlotReadsNothing
    <3>2. CASE IsParticipant(t, u) /\ Enter(q, "update read", u, t, ReadBy(t, u))
      BY <1>1, <2>2, <3>2 DEF UpdateRead, Enter, TypeOK, SlotStep, SlotReads
    <3>3. QED
      BY <1>1, <3>1, <3>2 DEF UpdateRead
  <2>3. QED
    BY <2>1, <2>2
<1>2. ASSUME NEW q \in Request, UpdateBranch(q)
      PROVE  SlotStep(r)
  <2>1. slot[q] \in Busy
    BY <1>2, BusySlot DEF UpdateBranch
  <2>2. CASE Leave(q)
    BY <2>2, LeaveStep
  <2>3. ASSUME NEW pc \in {"edit", "counter"}, slot' = [slot EXCEPT ![q].pc = pc]
        PROVE  SlotStep(r)
    <3>1. CASE r # q
      BY <2>3, <3>1 DEF TypeOK, SlotStep
    <3>2. CASE r = q
      BY <2>1, <2>3, <3>2 DEF TypeOK, Busy, SlotStep, SlotGoesOn
    <3>3. QED
      BY <3>1, <3>2
  <2>4. QED
    BY <1>2, <2>2, <2>3 DEF UpdateBranch
<1>3. ASSUME NEW q \in Request, NEW c \in Terms, NEW d \in DueDate, NEW s \in SubtaskInput,
             EditWrite(q, c, d, s)
      PROVE  SlotStep(r)
  <2> DEFINE n == UpdateNotice(slot[q].seen, "update", c, d)
  <2>1. (n # None => slot[q].seen # NoSeen) /\ n # "delete"
    BY NoneAssumption DEF UpdateNotice, NoticeKind
  <2>2. slot[q].pc # "idle" /\ LeaveWithNotice(q, n)
    BY <1>3 DEF EditWrite
  <2> HIDE DEF n
  <2>3. QED
    BY <2>1, <2>2, LeaveWithNoticeStep
<1>4. ASSUME NEW q \in Request, NEW c \in Terms, NEW d \in DueDate, NEW s \in SubtaskInput,
             CounterWrite(q, c, d, s)
      PROVE  SlotStep(r)
  <2> DEFINE n == UpdateNotice(slot[q].seen, "counter", c, d)
  <2>1. (n # None => slot[q].seen # NoSeen) /\ n # "delete"
    BY NoneAssumption DEF UpdateNotice, NoticeKind
  <2>2. slot[q].pc # "idle" /\ LeaveWithNotice(q, n)
    BY <1>4 DEF CounterWrite
  <2> HIDE DEF n
  <2>3. QED
    BY <2>1, <2>2, LeaveWithNoticeStep
<1>5. ASSUME NEW q \in Request, NEW u \in Users, NEW t \in TaskId, DeleteRead(q, u, t)
      PROVE  SlotStep(r)
  <2>1. CASE r # q
    BY <1>5, <2>1 DEF DeleteRead, Enter, TypeOK, SlotStep
  <2>2. CASE r = q
    BY <1>5, <2>2 DEF DeleteRead, Enter, TypeOK, SlotStep, SlotReads
  <2>3. QED
    BY <2>1, <2>2
<1>6. ASSUME NEW q \in Request, DeleteWrite(q)
      PROVE  SlotStep(r)
  <2> DEFINE n == DeleteNotice(slot[q].seen)
  <2>1. slot[q].seen # NoSeen
    BY <1>6 DEF DeleteWrite, DeleteHasRead
  <2>2. n = "delete" => slot[q].seen.status = "accepted" /\ slot[q].task \notin present'
    BY <1>6, NoneAssumption DEF DeleteWrite, DeleteNotice, NoticeKind
  <2>3. slot[q].pc # "idle" /\ LeaveWithNotice(q, n)
    BY <1>6 DEF DeleteWrite
  <2> HIDE DEF n
  <2>4. QED
    BY <2>1, <2>2, <2>3, LeaveWithNoticeStep
<1>7. ASSUME NEW q \in Request, NEW t \in TaskId, RestoreRead(q, t)
      PROVE  SlotStep(r)
  BY <1>7 DEF RestoreRead, Enter, TypeOK, SlotStep, SlotReadsNothing
<1>8. ASSUME NEW q \in Request, RestoreWrite(q)
      PROVE  SlotStep(r)
  BY <1>8, LeaveStep DEF RestoreWrite
<1>9. ASSUME NEW q \in Request, Finish(q)
      PROVE  SlotStep(r)
  BY <1>9, LeaveStep DEF Finish
<1>10. CASE UNCHANGED slot
  BY <1>10 DEF SlotStep
<1>11. QED
  BY <1>1, <1>2, <1>3, <1>4, <1>5, <1>6, <1>7, <1>8, <1>9, <1>10
  DEF Next, vars, Propose, Respond, ToggleSubtaskDone, AdminSoftDeleteShared,
      AcknowledgeAdminDeletionShared, DeadlinePasses

-----------------------------------------------------------------------------
(* The inductive invariant *)

LEMMA InitIInv == Init => IInv
<1>1. Init => TypeOK
  BY InitTypeOK
<1>2. Init => TwoParties
  BY DEF Init, TwoParties
<1>3. Init => SeenStaysTrue /\ DeleteHasRead /\ NoticeReachesPartner /\ DeletionNoticeIsTrue
  BY NoneAssumption, IdleIs
  DEF Init, SeenStaysTrue, DeleteHasRead, NoticeReachesPartner, DeletionNoticeIsTrue,
      NoticeKind
<1>4. Init => DecidedByAddressee /\ OutsidersHaveNoSay /\ AcknowledgedOnlyIfDeleted
  <2>1. Init => DecidedByAddressee /\ AcknowledgedOnlyIfDeleted
    BY NoneAssumption
    DEF Init, NoRow, DecidedByAddressee, AcknowledgedOnlyIfDeleted, SharedTaskStatus
  <2>2. Init => OutsidersHaveNoSay
    BY DEF Init, OutsidersHaveNoSay, NoSubtasks
  <2>3. QED
    BY <2>1, <2>2
<1>5. QED
  BY <1>1, <1>2, <1>3, <1>4 DEF IInv

\* A new row has two participants; the others by EveryRowStep.
LEMMA TwoPartiesInductive ==
  ASSUME TypeOK, TwoParties, [Next]_vars
  PROVE  TwoParties'
<1>1. \A t \in TaskId \ fresh : row'[t].proposer_id # row'[t].addressee_id
  BY EveryRowStep DEF RowStep
<1>2. ASSUME NEW t \in fresh, t \notin fresh'
      PROVE  row'[t].proposer_id # row'[t].addressee_id
  <2>1. PICK u \in Users, a \in Users, x \in TaskId, c \in Terms, d \in DueDate,
             s \in SUBSET Assignees : Propose(u, a, x, c, d, s)
    BY <1>2 DEF Next, vars, table, Respond, ToggleSubtaskDone, UpdateRead, UpdateBranch,
                EditWrite, CounterWrite, DeleteRead, DeleteWrite, AdminSoftDeleteShared,
                AcknowledgeAdminDeletionShared, RestoreRead, RestoreWrite, Finish,
                DeadlinePasses
  <2>2. x = t /\ t \in TaskId
    BY <1>2, <2>1 DEF Propose
  <2>3. QED
    BY <2>1, <2>2 DEF Propose, DistinctParties, TypeOK
<1>3. QED
  BY <1>1, <1>2 DEF TwoParties

LEMMA SeenStaysTrueInductive ==
  ASSUME TypeOK, TwoParties, SeenStaysTrue, DeleteHasRead, [Next]_vars
  PROVE  SeenStaysTrue'
<1> SUFFICES ASSUME NEW r \in Request, slot'[r].seen # NoSeen
             PROVE  /\ slot'[r].task \notin fresh'
                    /\ slot'[r].user # slot'[r].seen.partner
                    /\ NextParties(slot'[r].task) = {slot'[r].user, slot'[r].seen.partner}
                    /\ slot'[r].seen.status = "accepted" =>
                         row'[slot'[r].task].status = "accepted"
  BY DEF SeenStaysTrue, Parties, NextParties
<1>1. SlotStep(r)
  BY EverySlotStep
<1>2. CASE SlotReads(r)
  <2> DEFINE t == slot'[r].task
             u == slot'[r].user
  <2>0. slot'[r].seen = ReadBy(t, u)
    BY <1>2 DEF SlotReads
  <2>1. t \in TaskId /\ IsParticipant(t, u) /\ t \notin fresh
    BY <1>2 DEF SlotReads, IsParticipant, TypeOK
  <2>2. NextParties(t) = Parties(t) /\ row' = row /\ fresh' = fresh
    BY <1>2 DEF SlotReads, Parties, NextParties, table
  <2>3. slot'[r].seen.partner = PartnerOf(t, u) /\ slot'[r].seen.status = row[t].status
    BY <2>0, ReadByIs
  <2>4. u # PartnerOf(t, u) /\ Parties(t) = {u, PartnerOf(t, u)}
    BY <2>1 DEF IsParticipant, PartnerOf, Parties, TwoParties
  <2>5. QED
    BY <2>1, <2>2, <2>3, <2>4
<1>3. CASE slot'[r] = slot[r] \/ SlotGoesOn(r)
  <2> DEFINE t == slot[r].task
  <2>1. /\ slot'[r].seen = slot[r].seen /\ slot'[r].user = slot[r].user
        /\ slot'[r].task = t /\ slot[r].seen # NoSeen
    BY <1>3 DEF SlotGoesOn
  <2>2. t \in TaskId \ fresh
    BY <2>1 DEF SeenStaysTrue, TypeOK, Busy, Idle
  <2>3. RowStep(t)
    BY <2>2, EveryRowStep
  <2>4. t \notin fresh' /\ NextParties(t) = Parties(t)
        /\ (row[t].status = "accepted" => row'[t].status = "accepted")
    BY <2>3 DEF RowStep
  <2>5. NextParties(slot'[r].task) = Parties(t)
    BY <2>1, <2>4
  <2>6. QED
    BY <2>1, <2>4, <2>5 DEF SeenStaysTrue
<1>4. CASE slot'[r] = Idle \/ SlotReadsNothing(r) \/ SlotNotifies(r)
  BY <1>4, IdleIs DEF SlotReadsNothing, SlotNotifies
<1>5. QED
  BY <1>1, <1>2, <1>3, <1>4 DEF SlotStep

LEMMA DeleteHasReadInductive ==
  ASSUME TypeOK, DeleteHasRead, [Next]_vars
  PROVE  DeleteHasRead'
<1> SUFFICES ASSUME NEW r \in Request, slot'[r].pc = "delete read"
             PROVE  slot'[r].seen # NoSeen
  BY DEF DeleteHasRead
<1>1. SlotStep(r)
  BY EverySlotStep
<1>2. CASE SlotReads(r)
  <2>1. slot'[r].seen \in Seen
    BY <1>2, ReadByType, ParticipantIsUser DEF SlotReads
  <2>2. QED
    BY <2>1, SeenIsNotNoSeen
<1>3. CASE slot'[r] = slot[r]
  BY <1>3 DEF DeleteHasRead
<1>4. QED
  BY <1>1, <1>2, <1>3, IdleIs DEF SlotStep, SlotReadsNothing, SlotGoesOn, SlotNotifies

LEMMA NoticeInductive ==
  ASSUME TypeOK, TwoParties, SeenStaysTrue, DeleteHasRead, NoticeReachesPartner, [Next]_vars
  PROVE  NoticeReachesPartner'
<1> SUFFICES ASSUME NEW r \in Request, slot'[r].pc = "notify"
             PROVE  /\ slot'[r].user # slot'[r].to
                    /\ {slot'[r].user, slot'[r].to} = NextParties(slot'[r].task)
  BY DEF NoticeReachesPartner, Parties, NextParties
<1>1. SlotStep(r)
  BY EverySlotStep
<1>2. slot'[r] = slot[r] \/ SlotNotifies(r)
  BY <1>1, IdleIs DEF SlotStep, SlotReads, SlotReadsNothing, SlotGoesOn
<1>3. PICK t : t = slot[r].task
  OBVIOUS
<1>4. /\ slot'[r].task = t
      /\ slot'[r].user # slot'[r].to
      /\ {slot'[r].user, slot'[r].to} = Parties(t)
  BY <1>2, <1>3 DEF SlotNotifies, SeenStaysTrue, NoticeReachesPartner
<1>5. t \in TaskId \ fresh
  <2>1. t \in TaskId
    <3>1. slot[r].pc # "idle"
      <4>1. CASE slot'[r] = slot[r]
        BY <4>1
      <4>2. CASE SlotNotifies(r)
        BY <4>2, IdleIs DEF SlotNotifies, TypeOK, Busy, Stage
      <4>3. QED
        BY <1>2, <4>1, <4>2
    <3>2. QED
      BY <1>3, <3>1, BusySlot
  <2>2. ASSUME t \in fresh PROVE FALSE
    <3>1. row[t] = NoRow
      BY <2>1, <2>2 DEF TypeOK
    <3>2. Parties(t) = {None}
      BY <3>1 DEF Parties, NoRow
    <3>3. QED
      BY <1>4, <3>2
  <2>3. QED
    BY <2>1, <2>2
<1>6. NextParties(t) = Parties(t)
  BY <1>5, EveryRowStep DEF RowStep
<1>7. QED
  BY <1>4, <1>6

LEMMA DeletionNoticeInductive ==
  ASSUME TypeOK, TwoParties, SeenStaysTrue, DeleteHasRead, DeletionNoticeIsTrue, [Next]_vars
  PROVE  DeletionNoticeIsTrue'
<1> SUFFICES ASSUME NEW r \in Request, slot'[r].notice = "delete"
             PROVE  /\ slot'[r].task \notin present'
                    /\ row'[slot'[r].task].status = "accepted"
  BY DEF DeletionNoticeIsTrue
<1>1. SlotStep(r)
  BY EverySlotStep
<1>2. \/ slot[r].notice = "delete" /\ slot'[r].task = slot[r].task
      \/ SlotNotifies(r)
  BY <1>1, IdleIs, NoneAssumption
  DEF SlotStep, SlotReads, SlotReadsNothing, SlotGoesOn, NoticeKind
<1>3. PICK t : t = slot[r].task
  OBVIOUS
<1>4. row[t].status = "accepted" /\ slot'[r].task = t
  BY <1>2, <1>3 DEF SlotNotifies, SeenStaysTrue, DeletionNoticeIsTrue
<1>5. t \in TaskId
  <2>1. slot[r] # Idle
    BY <1>2, IdleIs, NoneAssumption DEF SlotNotifies, NoticeKind
  <2>2. QED
    BY <1>3, <2>1 DEF TypeOK, Busy
<1>6. t \notin fresh
  BY <1>4, <1>5, NoneAssumption DEF TypeOK, NoRow, SharedTaskStatus
<1>7. RowStep(t)
  BY <1>5, <1>6, EveryRowStep
<1>8. row'[t].status = "accepted"
  BY <1>4, <1>7 DEF RowStep
<1>9. t \notin present'
  BY <1>2, <1>3, <1>7 DEF RowStep, SlotNotifies, DeletionNoticeIsTrue
<1>10. QED
  BY <1>4, <1>8, <1>9

LEMMA DecidedInductive ==
  ASSUME TypeOK, DecidedByAddressee, [Next]_vars
  PROVE  DecidedByAddressee'
<1> SUFFICES ASSUME NEW t \in TaskId, row'[t].status \in {"accepted", "rejected"}
             PROVE  decider'[t] = row'[t].addressee_id
  BY DEF DecidedByAddressee
<1> DEFINE Kept == /\ row'[t].status = row[t].status
                   /\ row'[t].addressee_id = row[t].addressee_id
                   /\ decider'[t] = decider[t]
<1>1. SUFFICES ASSUME ~Kept PROVE decider'[t] = row'[t].addressee_id
  BY DEF DecidedByAddressee
<1>2. ASSUME NEW u \in Users, NEW a \in Users, NEW x \in TaskId, NEW c \in Terms,
             NEW d \in DueDate, NEW s \in SUBSET Assignees, Propose(u, a, x, c, d, s)
      PROVE  FALSE
  BY <1>1, <1>2 DEF Propose, TypeOK
<1>3. ASSUME NEW x \in TaskId, NEW u \in Users, NEW st \in {"accepted", "rejected"},
             Respond(x, u, st)
      PROVE  decider'[t] = row'[t].addressee_id
  <2>1. row[x] \in Row
    BY <1>3 DEF Respond, AnswerAllowed, TypeOK
  <2>2. t = x
    BY <1>1, <1>3 DEF Respond, TypeOK
  <2>3. QED
    BY <1>3, <2>1, <2>2 DEF Respond, AnswerAllowed, TypeOK, Row
<1>4. ASSUME NEW r \in Request, NEW c \in Terms, NEW d \in DueDate, NEW s \in SubtaskInput,
             EditWrite(r, c, d, s)
      PROVE  FALSE
  <2>1. row'[t] = IF t = slot[r].task
                  THEN [row[t] EXCEPT !.terms = c, !.due_date = d] ELSE row[t]
    BY <1>4 DEF EditWrite, TypeOK
  <2>2. row'[t].status = row[t].status /\ row'[t].addressee_id = row[t].addressee_id
    BY <2>1
  <2>3. QED
    BY <1>1, <1>4, <2>2 DEF EditWrite
<1>5. ASSUME NEW r \in Request, NEW c \in Terms, NEW d \in DueDate, NEW s \in SubtaskInput,
             CounterWrite(r, c, d, s)
      PROVE  FALSE
  <2>1. row'[t] = IF t = slot[r].task
                  THEN [SwapRoles(row[t]) EXCEPT !.terms = c, !.due_date = d] ELSE row[t]
    BY <1>5 DEF CounterWrite, TypeOK
  <2>2. t = slot[r].task
    BY <1>1, <1>5, <2>1 DEF CounterWrite
  <2>3. row[t].status = "pending" /\ row[t] \in Row
    BY <1>5, <2>2 DEF CounterWrite, AnswerAllowed, TypeOK
  <2>4. row'[t].status = "pending"
    BY <2>1, <2>2, <2>3 DEF SwapRoles, Row
  <2>5. QED
    BY <2>4
<1>6. ASSUME NEW x \in TaskId, AdminSoftDeleteShared(x)
      PROVE  FALSE
  BY <1>1, <1>6 DEF AdminSoftDeleteShared, TypeOK, history
<1>7. ASSUME NEW x \in TaskId, NEW u \in Users, AcknowledgeAdminDeletionShared(x, u)
      PROVE  FALSE
  BY <1>1, <1>7 DEF AcknowledgeAdminDeletionShared, TypeOK, history
<1>8. ASSUME NEW r \in Request, RestoreWrite(r)
      PROVE  FALSE
  <2>1. row'[t] = IF t = slot[r].task /\ t \in present THEN Restored(row[t]) ELSE row[t]
    BY <1>8 DEF RestoreWrite, TypeOK
  <2>2. row'[t].status = row[t].status /\ row'[t].addressee_id = row[t].addressee_id
    BY <2>1 DEF Restored
  <2>3. QED
    BY <1>1, <1>8, <2>2 DEF RestoreWrite, history
<1>9. ASSUME NEW x \in TaskId, DeadlinePasses(x)
      PROVE  FALSE
  BY <1>1, <1>9 DEF DeadlinePasses, TypeOK, history
<1>10. ASSUME row' = row, decider' = decider
       PROVE  FALSE
  BY <1>1, <1>10
<1>11. QED
  BY <1>2, <1>3, <1>4, <1>5, <1>6, <1>7, <1>8, <1>9, <1>10
  DEF Next, vars, table, history, ToggleSubtaskDone, UpdateRead, UpdateBranch,
      DeleteRead, DeleteWrite, RestoreRead, Finish

LEMMA AcknowledgedInductive ==
  ASSUME TypeOK, AcknowledgedOnlyIfDeleted, [Next]_vars
  PROVE  AcknowledgedOnlyIfDeleted'
<1> SUFFICES ASSUME NEW t \in TaskId, row'[t].user_ack
             PROVE  row'[t].admin_deleted
  BY DEF AcknowledgedOnlyIfDeleted
<1> row[t].user_ack => row[t].admin_deleted
  BY DEF AcknowledgedOnlyIfDeleted
<1>1. ASSUME NEW u \in Users, NEW a \in Users, NEW x \in TaskId, NEW c \in Terms,
             NEW d \in DueDate, NEW s \in SUBSET Assignees, Propose(u, a, x, c, d, s)
      PROVE  row'[t].admin_deleted
  BY <1>1 DEF Propose, TypeOK
<1>2. ASSUME NEW x \in TaskId, NEW u \in Users, NEW st \in {"accepted", "rejected"},
             Respond(x, u, st)
      PROVE  row'[t].admin_deleted
  BY <1>2 DEF Respond, TypeOK
<1>3. ASSUME NEW r \in Request, NEW c \in Terms, NEW d \in DueDate, NEW s \in SubtaskInput,
             EditWrite(r, c, d, s)
      PROVE  row'[t].admin_deleted
  <2>1. row'[t] = IF t = slot[r].task
                  THEN [row[t] EXCEPT !.terms = c, !.due_date = d] ELSE row[t]
    BY <1>3 DEF EditWrite, TypeOK
  <2>2. QED
    BY <2>1
<1>4. ASSUME NEW r \in Request, NEW c \in Terms, NEW d \in DueDate, NEW s \in SubtaskInput,
             CounterWrite(r, c, d, s)
      PROVE  row'[t].admin_deleted
  <2>1. row'[t] = IF t = slot[r].task
                  THEN [SwapRoles(row[t]) EXCEPT !.terms = c, !.due_date = d] ELSE row[t]
    BY <1>4 DEF CounterWrite, TypeOK
  <2>2. QED
    BY <2>1 DEF SwapRoles
<1>5. ASSUME NEW x \in TaskId, AdminSoftDeleteShared(x)
      PROVE  row'[t].admin_deleted
  BY <1>5 DEF AdminSoftDeleteShared, TypeOK, Row
<1>6. ASSUME NEW x \in TaskId, NEW u \in Users, AcknowledgeAdminDeletionShared(x, u)
      PROVE  row'[t].admin_deleted
  BY <1>6 DEF AcknowledgeAdminDeletionShared, AcknowledgeAllowed, TypeOK
<1>7. ASSUME NEW r \in Request, RestoreWrite(r)
      PROVE  row'[t].admin_deleted
  <2>1. row'[t] = IF t = slot[r].task /\ t \in present THEN Restored(row[t]) ELSE row[t]
    BY <1>7 DEF RestoreWrite, TypeOK
  <2>2. t \in present => Restored(row[t]).user_ack = FALSE
    BY DEF TypeOK, Row, Restored
  <2>3. QED
    BY <2>1, <2>2
<1>8. ASSUME NEW x \in TaskId, DeadlinePasses(x)
      PROVE  row'[t].admin_deleted
  BY <1>8 DEF DeadlinePasses, TypeOK
<1>9. ASSUME row' = row
      PROVE  row'[t].admin_deleted
  BY <1>9
<1>10. QED
  BY <1>1, <1>2, <1>3, <1>4, <1>5, <1>6, <1>7, <1>8, <1>9
  DEF Next, vars, table, ToggleSubtaskDone, UpdateRead, UpdateBranch, DeleteRead,
      DeleteWrite, RestoreRead, Finish

\* The actor of a step that writes history is a participant of the task.
LEMMA OutsidersInductive ==
  ASSUME TypeOK, TwoParties, OutsidersHaveNoSay, [Next]_vars
  PROVE  OutsidersHaveNoSay'
<1> DEFINE Say(t, S) ==
      /\ {author'[t], decider'[t], deleter'[t]} \subseteq S \cup {None}
      /\ \A u \in DOMAIN subs'[t] : subs'[t][u] \in S \cup {None}
<1>1. SUFFICES ASSUME NEW t \in TaskId
               PROVE  Say(t, NextParties(t))
  BY DEF OutsidersHaveNoSay, Parties, NextParties
<1>2. ASSUME UNCHANGED <<author, decider, deleter, subs>>
      PROVE  Say(t, Parties(t))
  BY <1>2 DEF OutsidersHaveNoSay
<1>3. ASSUME NEW u \in Users, NEW a \in Users, NEW x \in TaskId, NEW c \in Terms,
             NEW d \in DueDate, NEW s \in SUBSET Assignees, Propose(u, a, x, c, d, s)
      PROVE  Say(t, NextParties(t))
  <2>1. CASE t = x
    <3>1. decider[t] = None /\ deleter[t] = None
      BY <1>3, <2>1 DEF Propose, TypeOK, OutsidersHaveNoSay, Parties, NoRow
    <3>2. author'[t] = u /\ u \in NextParties(t) /\ subs'[t] = [y \in s |-> None]
      BY <1>3, <2>1 DEF Propose, TypeOK, NextParties
    <3>3. QED
      BY <1>3, <3>1, <3>2 DEF Propose
  <2>2. CASE t # x
    BY <1>3, <2>2 DEF Propose, TypeOK, OutsidersHaveNoSay, Parties, NextParties
  <2>3. QED
    BY <2>1, <2>2
<1>4. ASSUME NEW x \in TaskId, NEW u \in Users, NEW st \in {"accepted", "rejected"},
             Respond(x, u, st)
      PROVE  Say(t, Parties(t))
  BY <1>4 DEF Respond, AnswerAllowed, TypeOK, OutsidersHaveNoSay, Parties
<1>5. ASSUME NEW x \in TaskId, NEW u \in Users, NEW a \in Users, ToggleSubtaskDone(x, u, a)
      PROVE  Say(t, Parties(t))
  <2>1. subs[x] \in [DOMAIN subs[x] -> Users \cup {None}]
    BY DEF TypeOK, SubtaskTable
  <2>2. subs'[t] = IF t = x THEN [subs[x] EXCEPT ![a] = IF @ = None THEN u ELSE None]
                   ELSE subs[t]
    BY <1>5 DEF ToggleSubtaskDone, TypeOK
  <2>3. \A y \in DOMAIN subs'[t] : subs'[t][y] \in Parties(t) \cup {None}
    BY <1>5, <2>1, <2>2 DEF ToggleSubtaskDone, IsParticipant, OutsidersHaveNoSay, Parties
  <2>4. QED
    BY <1>5, <2>3 DEF ToggleSubtaskDone, OutsidersHaveNoSay, history
<1>6. ASSUME NEW old \in SubtaskTable, NEW s \in SubtaskInput, NEW P,
             \A y \in DOMAIN old : old[y] \in P \cup {None}
      PROVE  \A y \in DOMAIN Rewritten(old, s) : Rewritten(old, s)[y] \in P \cup {None}
  BY <1>6 DEF Rewritten
<1>7. ASSUME NEW r \in Request, NEW c \in Terms, NEW d \in DueDate, NEW s \in SubtaskInput,
             EditWrite(r, c, d, s) \/ CounterWrite(r, c, d, s)
      PROVE  Say(t, Parties(t))
  <2>1. subs' = [subs EXCEPT ![slot[r].task] = Rewritten(subs[slot[r].task], s)]
    BY <1>7 DEF EditWrite, CounterWrite
  <2>2. \A y \in DOMAIN subs'[t] : subs'[t][y] \in Parties(t) \cup {None}
    BY <1>6, <2>1 DEF TypeOK, OutsidersHaveNoSay
  <2>3. author'[t] = author[t] \/ author'[t] \in Parties(t)
    BY <1>7 DEF EditWrite, CounterWrite, IsParticipant, AnswerAllowed, TypeOK, Parties
  <2>4. QED
    BY <1>7, <2>2, <2>3 DEF EditWrite, CounterWrite, OutsidersHaveNoSay
<1>8. ASSUME NEW r \in Request, DeleteWrite(r)
      PROVE  Say(t, Parties(t))
  BY <1>8 DEF DeleteWrite, IsParticipant, TypeOK, OutsidersHaveNoSay, Parties, NoSubtasks
<1>9. ~(\E u, a \in Users, x \in TaskId, c \in Terms, d \in DueDate,
           s \in SUBSET Assignees : Propose(u, a, x, c, d, s))
      => NextParties(t) = Parties(t)
  <2>1. CASE t \notin fresh
    BY <2>1, EveryRowStep DEF RowStep
  <2>2. ASSUME t \in fresh,
               ~(\E u, a \in Users, x \in TaskId, c \in Terms, d \in DueDate,
                   s \in SUBSET Assignees : Propose(u, a, x, c, d, s))
        PROVE  NextParties(t) = Parties(t)
    <3>1. fresh' = fresh
      BY <2>2 DEF Next, vars, table, Respond, ToggleSubtaskDone, UpdateRead,
                UpdateBranch, EditWrite, CounterWrite, DeleteRead, DeleteWrite,
                AdminSoftDeleteShared, AcknowledgeAdminDeletionShared, RestoreRead,
                RestoreWrite, Finish, DeadlinePasses
    <3>2. row[t] = NoRow /\ row'[t] = NoRow
      BY <2>2, <3>1, NextTypeOK DEF TypeOK
    <3>3. QED
      BY <3>2 DEF Parties, NextParties
  <2>3. QED
    BY <2>1, <2>2
<1> HIDE DEF Say
<1>10. QED
  BY <1>2, <1>3, <1>4, <1>5, <1>7, <1>8, <1>9
  DEF Next, vars, table, history, UpdateRead, UpdateBranch, DeleteRead,
      AdminSoftDeleteShared, AcknowledgeAdminDeletionShared, RestoreRead,
      RestoreWrite, Finish, DeadlinePasses

LEMMA NextIInv == IInv /\ [Next]_vars => IInv'
BY NextTypeOK, TwoPartiesInductive, SeenStaysTrueInductive, DeleteHasReadInductive,
   NoticeInductive, DeletionNoticeInductive, DecidedInductive, OutsidersInductive,
   AcknowledgedInductive
DEF IInv

\* The inductive invariant: what the table and the requests in flight agree on.
THEOREM InductiveInvariant == Spec => []IInv
BY InitIInv, NextIInv, PTL DEF Spec

\* Only the addressee decides, and the roles are frozen from then on.
THEOREM DeciderIsAddressee == Spec => []DecidedByAddressee
<1>1. IInv => DecidedByAddressee
  BY DEF IInv
<1>2. QED
  BY <1>1, InductiveInvariant, PTL

\* Nobody but the two participants leaves a trace on a shared task.
THEOREM OnlyParticipantsAct == Spec => []OutsidersHaveNoSay
<1>1. IInv => OutsidersHaveNoSay
  BY DEF IInv
<1>2. QED
  BY <1>1, InductiveInvariant, PTL

\* Automatic messages go to the other participant, although the partner was
\* computed from a row read before the write.
THEOREM NoticesReachThePartner == Spec => []NoticeReachesPartner
<1>1. IInv => NoticeReachesPartner
  BY DEF IInv
<1>2. QED
  BY <1>1, InductiveInvariant, PTL

\* A message about a deletion is only sent for an accepted task that is gone.
THEOREM DeletionNoticesAreTrue == Spec => []DeletionNoticeIsTrue
<1>1. IInv => DeletionNoticeIsTrue
  BY DEF IInv
<1>2. QED
  BY <1>1, InductiveInvariant, PTL

\* No acknowledgement outlives the soft deletion it acknowledges.
THEOREM NoStaleAcknowledgement == Spec => []AcknowledgedOnlyIfDeleted
<1>1. IInv => AcknowledgedOnlyIfDeleted
  BY DEF IInv
<1>2. QED
  BY <1>1, InductiveInvariant, PTL

-----------------------------------------------------------------------------
(* Counter proposals *)

LEMMA CounterNoticeStep ==
  ASSUME IInv, [Next]_vars, NEW r \in Request,
         slot[r].notice # "counter", slot'[r].notice = "counter"
  PROVE  /\ row'[slot[r].task].addressee_id = slot'[r].to
         /\ row'[slot[r].task].status = "pending"
<1> USE DEF IInv
<1>1. SlotNotifies(r)
  BY EverySlotStep, IdleIs, NoneAssumption
  DEF SlotStep, SlotReads, SlotReadsNothing, SlotGoesOn, NoticeKind
<1>2. ASSUME NEW c \in Terms, NEW d \in DueDate, NEW s \in SubtaskInput,
             CounterWrite(r, c, d, s)
      PROVE  /\ row'[slot[r].task].addressee_id = slot'[r].to
             /\ row'[slot[r].task].status = "pending"
  <2> DEFINE t == slot[r].task
  <2>1. t \in TaskId /\ t \in present /\ t \notin fresh
    BY <1>2, BusySlot DEF CounterWrite, AnswerAllowed, TypeOK
  <2>2. row[t] \in Row /\ row[t].status = "pending" /\ row[t].addressee_id = slot[r].user
    BY <1>2, <2>1 DEF CounterWrite, AnswerAllowed, TypeOK
  <2>3. row'[t].addressee_id = row[t].proposer_id /\ row'[t].status = "pending"
    BY <1>2, <2>1, <2>2 DEF CounterWrite, SwapRoles, TypeOK, Row
  <2>4. slot'[r].to = slot[r].seen.partner
    BY <1>1 DEF SlotNotifies
  <2>5. row[t].proposer_id = slot[r].seen.partner
    BY <1>1, <2>1, <2>2 DEF SlotNotifies, SeenStaysTrue, TwoParties, Parties
  <2>6. QED
    BY <2>3, <2>4, <2>5
<1>3. \E c \in Terms, d \in DueDate, s \in SubtaskInput : CounterWrite(r, c, d, s)
  <2>1. ASSUME NEW q \in Request, NEW c \in Terms, NEW d \in DueDate,
               NEW s \in SubtaskInput, EditWrite(q, c, d, s)
        PROVE  FALSE
    <3> DEFINE n == UpdateNotice(slot[q].seen, "update", c, d)
    <3>1. n # "counter"
      BY NoneAssumption DEF UpdateNotice, NoticeKind
    <3>2. LeaveWithNotice(q, n)
      BY <2>1 DEF EditWrite
    <3> HIDE DEF n
    <3>3. QED
      <4>1. slot[q] \in Busy
        BY <2>1, BusySlot DEF EditWrite
      <4>2. CASE r # q
        BY <3>2, <4>2 DEF LeaveWithNotice, TypeOK
      <4>3. CASE r = q /\ n = None
        BY <3>2, <4>3, <1>1, IdleIs, NoneAssumption
        DEF LeaveWithNotice, TypeOK, NoticeKind
      <4>4. CASE r = q /\ n # None
        BY <3>1, <3>2, <4>1, <4>4 DEF LeaveWithNotice, TypeOK, Busy
      <4>5. QED
        BY <4>2, <4>3, <4>4
  <2>2. ASSUME NEW q \in Request, NEW c \in Terms, NEW d \in DueDate,
               NEW s \in SubtaskInput, CounterWrite(q, c, d, s)
        PROVE  q = r
    <3>1. q # r => slot'[r] = slot[r]
      BY <2>2 DEF CounterWrite, LeaveWithNotice, TypeOK
    <3>2. QED
      BY <3>1
  <2>3. ASSUME NEW q \in Request, DeleteWrite(q)
        PROVE  FALSE
    <3> DEFINE n == DeleteNotice(slot[q].seen)
    <3>1. n # "counter"
      BY NoneAssumption DEF DeleteNotice, NoticeKind
    <3>2. LeaveWithNotice(q, n)
      BY <2>3 DEF DeleteWrite
    <3> HIDE DEF n
    <3>3. QED
      <4>1. slot[q] \in Busy
        BY <2>3, BusySlot DEF DeleteWrite
      <4>2. CASE r # q
        BY <3>2, <4>2 DEF LeaveWithNotice, TypeOK
      <4>3. CASE r = q /\ n = None
        BY <3>2, <4>3, IdleIs, NoneAssumption DEF LeaveWithNotice, TypeOK, NoticeKind
      <4>4. CASE r = q /\ n # None
        BY <3>1, <3>2, <4>1, <4>4 DEF LeaveWithNotice, TypeOK, Busy
      <4>5. QED
        BY <4>2, <4>3, <4>4
  <2>4. ASSUME NEW q \in Request, Leave(q)
        PROVE  FALSE
    BY <2>4, IdleIs, NoneAssumption DEF Leave, TypeOK, NoticeKind
  <2>5. ASSUME NEW q \in Request, NEW pc, NEW u, NEW t, NEW seen, Enter(q, pc, u, t, seen)
        PROVE  FALSE
    BY <2>5, NoneAssumption DEF Enter, TypeOK, NoticeKind
  <2>6. ASSUME NEW q \in Request, UpdateBranch(q)
        PROVE  FALSE
    <3>1. slot[q] \in Busy
      BY <2>6, BusySlot DEF UpdateBranch
    <3>2. ~Leave(q)
      BY <2>4
    <3>3. PICK pc : slot' = [slot EXCEPT ![q].pc = pc]
      BY <2>6, <3>2 DEF UpdateBranch
    <3>4. slot'[r].notice = slot[r].notice
      BY <3>1, <3>3 DEF TypeOK, Busy
    <3>5. QED
      BY <3>4
  <2>7. slot' # slot
    OBVIOUS
  <2>8. QED
    BY <2>1, <2>2, <2>3, <2>4, <2>5, <2>6, <2>7
    DEF Next, vars, Propose, Respond, ToggleSubtaskDone, UpdateRead, DeleteRead,
        AdminSoftDeleteShared, AcknowledgeAdminDeletionShared, RestoreRead,
        RestoreWrite, Finish, DeadlinePasses
<1>4. QED
  BY <1>2, <1>3

\* The message about a counter proposal asks the user who now has to answer.
THEOREM CounterNoticesAskTheAddressee == Spec => CounterNoticeAsksAddressee
<1>1. IInv /\ [Next]_vars =>
        [\A r \in Request :
           slot[r].notice # "counter" /\ slot'[r].notice = "counter" =>
             LET t == slot[r].task IN
             /\ row'[t].addressee_id = slot'[r].to
             /\ row'[t].status = "pending"]_vars
  BY CounterNoticeStep
<1>2. QED
  BY <1>1, InductiveInvariant, PTL DEF Spec, CounterNoticeAsksAddressee

-----------------------------------------------------------------------------
(* Refinement *)

NegotiationUnchanged ==
  /\ fresh' = fresh /\ present' = present /\ decider' = decider
  /\ \A t \in TaskId : /\ row'[t].status = row[t].status
                       /\ row'[t].proposer_id = row[t].proposer_id
                       /\ row'[t].addressee_id = row[t].addressee_id

LEMMA UnchangedRefines ==
  ASSUME NegotiationUnchanged
  PROVE  UNCHANGED Negotiation!nVars
BY DEF NegotiationUnchanged, Negotiation!nVars, NegotiationStage, Parties

LEMMA InitRefines == Init => Negotiation!NInit
BY DEF Init, NoRow, Negotiation!NInit, NegotiationStage, Parties

LEMMA ProposeRefines ==
  ASSUME TypeOK, NEW u \in Users, NEW a \in Users, NEW t \in TaskId, NEW c \in Terms,
         NEW d \in DueDate, NEW s \in SUBSET Assignees, Propose(u, a, t, c, d, s)
  PROVE  Negotiation!Offer(t, u, a)
<1>1. row'[t].status = "pending" /\ row'[t].proposer_id = u /\ row'[t].addressee_id = a
  BY DEF Propose, TypeOK
<1>2. \A x \in TaskId \ {t} : row'[x] = row[x]
  BY DEF Propose, TypeOK
<1>3. fresh' = fresh \ {t} /\ present' = present \cup {t} /\ t \in fresh
  BY DEF Propose
<1>4. NegotiationStage[t] = "none" /\ u # a
  BY <1>3 DEF NegotiationStage, Propose, DistinctParties
<1>5. NegotiationStage' = [NegotiationStage EXCEPT ![t] = "pending"]
  BY <1>1, <1>2, <1>3 DEF NegotiationStage
<1>6. [x \in TaskId |-> Parties(x)]' = [[x \in TaskId |-> Parties(x)] EXCEPT ![t] = {u, a}]
  BY <1>1, <1>2 DEF Parties
<1>7. [x \in TaskId |-> row[x].addressee_id]'
        = [[x \in TaskId |-> row[x].addressee_id] EXCEPT ![t] = a]
  BY <1>1, <1>2
<1>8. decider' = decider
  BY DEF Propose
<1>9. QED
  BY <1>4, <1>5, <1>6, <1>7, <1>8 DEF Negotiation!Offer

LEMMA RespondRefines ==
  ASSUME TypeOK, NEW t \in TaskId, NEW u \in Users, NEW st \in {"accepted", "rejected"},
         Respond(t, u, st)
  PROVE  Negotiation!Answer(t, st)
<1>1. row[t] \in Row /\ t \in present /\ t \notin fresh /\ row[t].status = "pending"
      /\ row[t].addressee_id = u
  BY DEF Respond, AnswerAllowed, TypeOK
<1>2. /\ row'[t].status = st
      /\ row'[t].proposer_id = row[t].proposer_id
      /\ row'[t].addressee_id = row[t].addressee_id
  BY <1>1 DEF Respond, TypeOK, Row
<1>3. \A x \in TaskId \ {t} : row'[x] = row[x]
  BY DEF Respond, TypeOK
<1>4. fresh' = fresh /\ present' = present
  BY DEF Respond
<1>5. NegotiationStage[t] = "pending"
  BY <1>1 DEF NegotiationStage
<1>6. NegotiationStage' = [NegotiationStage EXCEPT ![t] = st]
  BY <1>1, <1>2, <1>3, <1>4 DEF NegotiationStage
<1>7. /\ [x \in TaskId |-> Parties(x)]' = [x \in TaskId |-> Parties(x)]
      /\ [x \in TaskId |-> row[x].addressee_id]' = [x \in TaskId |-> row[x].addressee_id]
  BY <1>2, <1>3 DEF Parties
<1>8. decider' = [decider EXCEPT ![t] = [x \in TaskId |-> row[x].addressee_id][t]]
  BY <1>1 DEF Respond
<1>9. QED
  BY <1>5, <1>6, <1>7, <1>8 DEF Negotiation!Answer

LEMMA CounterRefines ==
  ASSUME TypeOK, TwoParties, NEW r \in Request, NEW c \in Terms, NEW d \in DueDate,
         NEW s \in SubtaskInput, CounterWrite(r, c, d, s)
  PROVE  \E t \in TaskId : Negotiation!Counter(t)
<1>1. PICK t : t = slot[r].task
  OBVIOUS
<1>2. t \in TaskId /\ t \in present /\ t \notin fresh
  BY <1>1, BusySlot DEF CounterWrite, AnswerAllowed, TypeOK
<1>3. row[t] \in Row /\ row[t].status = "pending"
  BY <1>1, <1>2 DEF CounterWrite, AnswerAllowed, TypeOK
<1>4. /\ row'[t].status = "pending"
      /\ row'[t].proposer_id = row[t].addressee_id
      /\ row'[t].addressee_id = row[t].proposer_id
  BY <1>1, <1>2, <1>3 DEF CounterWrite, SwapRoles, TypeOK, Row
<1>5. \A x \in TaskId \ {t} : row'[x] = row[x]
  BY <1>1 DEF CounterWrite, TypeOK
<1>6. fresh' = fresh /\ present' = present /\ decider' = decider
  BY DEF CounterWrite
<1>7. NegotiationStage[t] = "pending" /\ NegotiationStage' = NegotiationStage
  BY <1>2, <1>3, <1>4, <1>5, <1>6 DEF NegotiationStage
<1>8. [x \in TaskId |-> Parties(x)]' = [x \in TaskId |-> Parties(x)]
  BY <1>4, <1>5 DEF Parties
<1>9. [x \in TaskId |-> row[x].addressee_id]'
        = [[x \in TaskId |-> row[x].addressee_id] EXCEPT ![t] = row[t].proposer_id]
  BY <1>2, <1>4, <1>5
<1>10. row[t].proposer_id \in
         [x \in TaskId |-> Parties(x)][t] \ {[x \in TaskId |-> row[x].addressee_id][t]}
  BY <1>2 DEF TwoParties, Parties
<1>11. Negotiation!Counter(t)
  BY <1>6, <1>7, <1>8, <1>9, <1>10 DEF Negotiation!Counter
<1>12. QED
  BY <1>2, <1>11

LEMMA DeleteRefines ==
  ASSUME TypeOK, NEW r \in Request, DeleteWrite(r)
  PROVE  \E t \in TaskId : Negotiation!Close(t)
<1>1. PICK t : t = slot[r].task
  OBVIOUS
<1>2. t \in TaskId /\ t \in present /\ t \notin fresh /\ row[t] \in Row
  BY <1>1, BusySlot DEF DeleteWrite, IsParticipant, TypeOK
<1>3. row' = row /\ fresh' = fresh /\ present' = present \ {t} /\ decider' = decider
  BY <1>1 DEF DeleteWrite
<1>4. NegotiationStage[t] \in {"pending"} \cup Negotiation!Verdicts
  BY <1>2 DEF NegotiationStage, Row, SharedTaskStatus, Negotiation!Verdicts
<1>5. NegotiationStage' = [NegotiationStage EXCEPT ![t] = "deleted"]
  BY <1>2, <1>3 DEF NegotiationStage
<1>6. QED
  BY <1>2, <1>3, <1>4, <1>5 DEF Negotiation!Close, Parties

LEMMA NextRefines ==
  ASSUME TypeOK, TwoParties, [Next]_vars
  PROVE  [Negotiation!NNext]_(Negotiation!nVars)
<1>1. ASSUME NEW u \in Users, NEW a \in Users, NEW t \in TaskId, NEW c \in Terms,
             NEW d \in DueDate, NEW s \in SUBSET Assignees, Propose(u, a, t, c, d, s)
      PROVE  Negotiation!NNext
  BY <1>1, ProposeRefines DEF Negotiation!NNext
<1>2. ASSUME NEW t \in TaskId, NEW u \in Users, NEW st \in {"accepted", "rejected"},
             Respond(t, u, st)
      PROVE  Negotiation!NNext
  BY <1>2, RespondRefines DEF Negotiation!NNext, Negotiation!Verdicts
<1>3. ASSUME NEW r \in Request, NEW c \in Terms, NEW d \in DueDate, NEW s \in SubtaskInput,
             CounterWrite(r, c, d, s)
      PROVE  Negotiation!NNext
  BY <1>3, CounterRefines DEF Negotiation!NNext
<1>4. ASSUME NEW r \in Request, DeleteWrite(r)
      PROVE  Negotiation!NNext
  BY <1>4, DeleteRefines DEF Negotiation!NNext
<1>5. ASSUME NEW r \in Request, NEW c \in Terms, NEW d \in DueDate, NEW s \in SubtaskInput,
             EditWrite(r, c, d, s)
      PROVE  NegotiationUnchanged
  <2> SUFFICES ASSUME NEW t \in TaskId
               PROVE  /\ row'[t].status = row[t].status
                      /\ row'[t].proposer_id = row[t].proposer_id
                      /\ row'[t].addressee_id = row[t].addressee_id
    BY <1>5 DEF EditWrite, NegotiationUnchanged
  <2>1. row'[t] = IF t = slot[r].task
                  THEN [row[t] EXCEPT !.terms = c, !.due_date = d] ELSE row[t]
    BY <1>5 DEF EditWrite, TypeOK
  <2>2. QED
    BY <2>1
<1>6. ASSUME NEW t \in TaskId,
             \/ AdminSoftDeleteShared(t)
             \/ \E u \in Users : AcknowledgeAdminDeletionShared(t, u)
             \/ DeadlinePasses(t)
      PROVE  NegotiationUnchanged
  <2>1. fresh' = fresh /\ present' = present /\ decider' = decider
    BY <1>6 DEF AdminSoftDeleteShared, AcknowledgeAdminDeletionShared, DeadlinePasses, history
  <2>2. \/ row' = [row EXCEPT ![t].admin_deleted = TRUE]
        \/ row' = [row EXCEPT ![t].user_ack = TRUE]
        \/ row' = [row EXCEPT ![t].due_date = "past"]
    BY <1>6 DEF AdminSoftDeleteShared, AcknowledgeAdminDeletionShared, DeadlinePasses
  <2>3. \A x \in TaskId : /\ row'[x].status = row[x].status
                          /\ row'[x].proposer_id = row[x].proposer_id
                          /\ row'[x].addressee_id = row[x].addressee_id
    <3>1. CASE row' = [row EXCEPT ![t].admin_deleted = TRUE]
      BY <3>1 DEF TypeOK
    <3>2. CASE row' = [row EXCEPT ![t].user_ack = TRUE]
      BY <3>2 DEF TypeOK
    <3>3. CASE row' = [row EXCEPT ![t].due_date = "past"]
      BY <3>3 DEF TypeOK
    <3>4. QED
      BY <2>2, <3>1, <3>2, <3>3
  <2>4. QED
    BY <2>1, <2>3 DEF NegotiationUnchanged
<1>7. ASSUME NEW r \in Request, RestoreWrite(r)
      PROVE  NegotiationUnchanged
  <2> SUFFICES ASSUME NEW t \in TaskId
               PROVE  /\ row'[t].status = row[t].status
                      /\ row'[t].proposer_id = row[t].proposer_id
                      /\ row'[t].addressee_id = row[t].addressee_id
    BY <1>7 DEF RestoreWrite, NegotiationUnchanged, history
  <2>1. row'[t] = IF t = slot[r].task /\ t \in present THEN Restored(row[t]) ELSE row[t]
    BY <1>7 DEF RestoreWrite, TypeOK
  <2>2. QED
    BY <2>1 DEF Restored
<1>8. ASSUME UNCHANGED <<fresh, present, row, decider>>
      PROVE  NegotiationUnchanged
  BY <1>8 DEF NegotiationUnchanged
<1>9. QED
  BY <1>1, <1>2, <1>3, <1>4, <1>5, <1>6, <1>7, <1>8, UnchangedRefines
  DEF Next, vars, table, history, ToggleSubtaskDone, UpdateRead, UpdateBranch,
      DeleteRead, RestoreRead, Finish

\* Concurrent requests on a shared task add up to one negotiation.
THEOREM RefinesNegotiation == Spec => ImplementsNegotiation
<1>1. IInv /\ [Next]_vars => [Negotiation!NNext]_(Negotiation!nVars)
  BY NextRefines DEF IInv
<1>2. QED
  BY <1>1, InitRefines, InductiveInvariant, PTL
  DEF Spec, ImplementsNegotiation, Negotiation!NSpec
=============================================================================
