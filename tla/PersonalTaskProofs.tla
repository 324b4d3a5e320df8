--------------------------- MODULE PersonalTaskProofs ---------------------------
(***************************************************************************)
(* The properties of PersonalTask, and of Reminder, whose worker runs      *)
(* beside the requests of PersonalTask: for any subtasks, requests,        *)
(* windows, deadlines, subscriptions and bound of time.                    *)
(*                                                                         *)
(* For the requests, the inductive invariant adds what those in progress   *)
(* know: a creation that is not finished still holds all the subtasks it   *)
(* was asked for, and a request that is about to complete the task knows   *)
(* of every subtask that was opened since it counted.                      *)
(*                                                                         *)
(* For the worker it adds its place.  A window that has begun and of which *)
(* no reminder is out is not over, and the worker is yet to come to it in  *)
(* this poll or in the next, for which a tick waits: WorkerWillCome.  A    *)
(* reminder that is out is marked, or about to be: ReminderIsKnown.        *)
(***************************************************************************)
EXTENDS Reminder, TLAPS

-----------------------------------------------------------------------------
(* The requests *)


\* The subtasks that are open now were opened after the count.
CountIsRemembered ==
  \A r \in Request : req[r].step = "complete" => Items("open") \subseteq req[r].items

IInv ==
  /\ PersonalTypeOK
  /\ AllDoneIsCompleted
  /\ CompletedNotEarly
  /\ AckOnlyIfDeleted
  /\ CountIsRemembered

LEMMA PersonalInitIInv == PersonalInit => IInv
<1> SUFFICES ASSUME PersonalInit PROVE IInv
  OBVIOUS
<1> USE DEF PersonalInit
<1>1. PersonalTypeOK
  <2>1. deleted \in BOOLEAN /\ ack \in BOOLEAN /\ missed \in BOOLEAN /\ auto \in BOOLEAN
    BY Zenon
  <2> QED BY <2>1, PersonalAssumption DEF PersonalTypeOK, Status, Steps, Idle
<1>2. AllDoneIsCompleted /\ CompletedNotEarly /\ AckOnlyIfDeleted
  BY DEF AllDoneIsCompleted, CompletedNotEarly, AckOnlyIfDeleted
<1>3. CountIsRemembered
  BY DEF CountIsRemembered, Idle
<1> QED BY <1>1, <1>2, <1>3 DEF IInv

-----------------------------------------------------------------------------
(* Type correctness, action by action *)

LEMMA PersonalStepType ==
  ASSUME PersonalTypeOK, PersonalStep
  PROVE  PersonalTypeOK'
<1> USE DEF PersonalTypeOK, rowVars, personalHistory, Steps, Idle
<1>1. ASSUME NEW r \in Request, NEW items \in SUBSET Subtask, NEW st \in Status,
             NEW d \in Deadline, CreateRow(r, items, st, d)
      PROVE  PersonalTypeOK'
  BY <1>1 DEF CreateRow, Begin
<1>2. ASSUME NEW r \in Request, CreateSubtasks(r) PROVE PersonalTypeOK'
  BY <1>2 DEF CreateSubtasks
<1>3. ASSUME NEW r \in Request, CreateSubtasksFails(r) PROVE PersonalTypeOK'
  BY <1>3 DEF CreateSubtasksFails, End
<1>4. ASSUME NEW r \in Request, NEW s \in Subtask, ToggleDone(r, s) PROVE PersonalTypeOK'
  BY <1>4 DEF ToggleDone
<1>5. ASSUME NEW r \in Request, AreAllDone(r) PROVE PersonalTypeOK'
  BY <1>5 DEF AreAllDone
<1>6. ASSUME NEW r \in Request, Complete(r) PROVE PersonalTypeOK'
  BY <1>6 DEF Complete, End, Status
<1>7. ASSUME NEW r \in Request, RestoreRead(r) PROVE PersonalTypeOK'
  BY <1>7 DEF RestoreRead, Begin
<1>8. ASSUME NEW r \in Request, RestoreWrite(r) PROVE PersonalTypeOK'
  <2>1. deleted' \in BOOLEAN /\ ack' \in BOOLEAN
    BY <1>8, Zenon DEF RestoreWrite, RestoredAck
  <2> QED BY <1>8, <2>1 DEF RestoreWrite, End
<1>9. ASSUME NEW r \in Request, StatementFails(r) PROVE PersonalTypeOK'
  <2>1. missed' \in BOOLEAN
    BY <1>9, Zenon DEF StatementFails
  <2> QED BY <1>9, <2>1 DEF StatementFails, End
<1>10. ASSUME NEW s \in Subtask, AddSubtask(s) PROVE PersonalTypeOK'
  BY <1>10 DEF AddSubtask, Opened
<1>11. ASSUME NEW s \in Subtask, DeleteSubtask(s) PROVE PersonalTypeOK'
  BY <1>11 DEF DeleteSubtask
<1>12. ASSUME NEW st \in Status, UpdateStatus(st) PROVE PersonalTypeOK'
  BY <1>12 DEF UpdateStatus
<1>13. ASSUME NEW d \in Deadline, UpdateDue(d) PROVE PersonalTypeOK'
  BY <1>13 DEF UpdateDue
<1>14. CASE DeleteTask
  BY <1>14 DEF DeleteTask, AfterCascade
<1>15. CASE AdminSoftDelete \/ AcknowledgeAdminDeletion
  BY <1>15 DEF AdminSoftDelete, AcknowledgeAdminDeletion
<1> QED
  BY <1>1, <1>2, <1>3, <1>4, <1>5, <1>6, <1>7, <1>8, <1>9, <1>10, <1>11, <1>12, <1>13, <1>14, <1>15
  DEF PersonalStep

LEMMA OtherStepsType ==
  ASSUME PersonalTypeOK, TimePasses \/ LoseRequests \/ UNCHANGED personalVars
  PROVE  PersonalTypeOK'
<1> USE DEF PersonalTypeOK, rowVars, personalHistory
<1>1. CASE TimePasses
  BY <1>1, PersonalAssumption DEF TimePasses
<1>2. CASE LoseRequests
  <2>1. missed' \in BOOLEAN
    BY <1>2, Zenon DEF LoseRequests
  <2> QED BY <1>2, <2>1 DEF LoseRequests, Steps, Idle
<1>3. CASE UNCHANGED personalVars
  BY <1>3 DEF personalVars
<1> QED BY <1>1, <1>2, <1>3

\* The state of a personal task is well typed, and no subtask outlives its
\* task, whatever requests are in progress when it is deleted (migration 0010,
\* ON DELETE CASCADE).
THEOREM PersonalTypeCorrect == PersonalSpec => []PersonalTypeOK
<1>1. PersonalInit => PersonalTypeOK
  BY PersonalInitIInv DEF IInv
<1>2. PersonalTypeOK /\ [PersonalNext]_personalVars => PersonalTypeOK'
  BY PersonalStepType, OtherStepsType DEF PersonalNext
<1> QED BY <1>1, <1>2, PTL DEF PersonalSpec

-----------------------------------------------------------------------------
(* One lemma for each other part of the invariant *)

LEMMA AckStep ==
  ASSUME AckOnlyIfDeleted, [PersonalNext]_personalVars
  PROVE  AckOnlyIfDeleted'
<1> USE DEF AckOnlyIfDeleted
<1>1. ASSUME NEW r \in Request, RestoreWrite(r) PROVE AckOnlyIfDeleted'
  BY <1>1, Zenon DEF RestoreWrite, RestoredAck
<1>2. CASE AdminSoftDelete
  BY <1>2 DEF AdminSoftDelete
<1>3. CASE AcknowledgeAdminDeletion
  BY <1>3 DEF AcknowledgeAdminDeletion
<1>4. CASE UNCHANGED <<deleted, ack>>
  BY <1>4
<1> QED
  BY <1>1, <1>2, <1>3, <1>4
  DEF PersonalNext, PersonalStep, CreateRow, CreateSubtasks, CreateSubtasksFails, ToggleDone,
      AreAllDone, Complete, RestoreRead, StatementFails, AddSubtask, DeleteSubtask,
      UpdateStatus, UpdateDue, DeleteTask, TimePasses, LoseRequests,
      personalVars, rowVars, personalHistory

\* Whatever opens a subtask tells the requests that have counted, and
\* openedSince; Complete hands on what its request was told.
LEMMA CountStep ==
  ASSUME PersonalTypeOK, CompletedNotEarly, CountIsRemembered, [PersonalNext]_personalVars
  PROVE  CompletedNotEarly' /\ CountIsRemembered'
<1> USE DEF CompletedNotEarly, CountIsRemembered, PersonalTypeOK, Items, rowVars,
            personalHistory, Idle
<1> DEFINE Goal == CompletedNotEarly /\ CountIsRemembered
<1>1. ASSUME NEW r \in Request, NEW items \in SUBSET Subtask, NEW st \in Status,
             NEW d \in Deadline, CreateRow(r, items, st, d)
      PROVE  Goal'
  BY <1>1 DEF CreateRow, Begin
<1>2. ASSUME NEW r \in Request, CreateSubtasks(r) PROVE Goal'
  BY <1>2 DEF CreateSubtasks
<1>3. ASSUME NEW r \in Request, CreateSubtasksFails(r) PROVE Goal'
  BY <1>3 DEF CreateSubtasksFails, End
<1>4. ASSUME NEW r \in Request, NEW s \in Subtask, ToggleDone(r, s) PROVE Goal'
  BY <1>4 DEF ToggleDone
<1>5. ASSUME NEW r \in Request, AreAllDone(r) PROVE Goal'
  BY <1>5 DEF AreAllDone, AllDone
<1>6. ASSUME NEW r \in Request, Complete(r) PROVE Goal'
  BY <1>6 DEF Complete, End
<1>7. ASSUME NEW r \in Request, RestoreRead(r) \/ RestoreWrite(r) \/ StatementFails(r)
      PROVE  Goal'
  BY <1>7 DEF RestoreRead, RestoreWrite, StatementFails, Begin, End
<1>8. ASSUME NEW s \in Subtask, AddSubtask(s) PROVE Goal'
  BY <1>8 DEF AddSubtask, Opened
<1>9. ASSUME NEW s \in Subtask, DeleteSubtask(s) PROVE Goal'
  BY <1>9 DEF DeleteSubtask
<1>10. CASE \/ \E st \in Status : UpdateStatus(st)
            \/ \E d \in Deadline : UpdateDue(d)
            \/ AdminSoftDelete \/ AcknowledgeAdminDeletion \/ TimePasses
            \/ UNCHANGED personalVars
  BY <1>10 DEF UpdateStatus, UpdateDue, AdminSoftDelete, AcknowledgeAdminDeletion, TimePasses,
               personalVars
<1>11. CASE DeleteTask
  BY <1>11 DEF DeleteTask, AfterCascade
<1>12. CASE LoseRequests
  BY <1>12 DEF LoseRequests
<1> QED
  BY <1>1, <1>2, <1>3, <1>4, <1>5, <1>6, <1>7, <1>8, <1>9, <1>10, <1>11, <1>12
  DEF PersonalNext, PersonalStep

\* A tick starts a count that comes after it.
LEMMA CompletionStep ==
  ASSUME PersonalTypeOK, AllDoneIsCompleted, [PersonalNext]_personalVars
  PROVE  AllDoneIsCompleted'
<1> USE DEF AllDoneIsCompleted, CompletionIn, PersonalTypeOK, Items, AllDone, rowVars,
            personalHistory, Idle
<1>1. ASSUME NEW r \in Request, NEW items \in SUBSET Subtask, NEW st \in Status,
             NEW d \in Deadline, CreateRow(r, items, st, d)
      PROVE  AllDoneIsCompleted'
  BY <1>1 DEF CreateRow
<1>2. ASSUME NEW r \in Request, CreateSubtasks(r) PROVE AllDoneIsCompleted'
  BY <1>2 DEF CreateSubtasks
<1>3. ASSUME NEW r \in Request, CreateSubtasksFails(r) PROVE AllDoneIsCompleted'
  BY <1>3 DEF CreateSubtasksFails, End
<1>4. ASSUME NEW r \in Request, NEW s \in Subtask, ToggleDone(r, s) PROVE AllDoneIsCompleted'
  BY <1>4 DEF ToggleDone, Counts
<1>5. ASSUME NEW r \in Request, AreAllDone(r) PROVE AllDoneIsCompleted'
  BY <1>5 DEF AreAllDone
<1>6. ASSUME NEW r \in Request, Complete(r) PROVE AllDoneIsCompleted'
  BY <1>6 DEF Complete
<1>7. ASSUME NEW r \in Request, RestoreRead(r) \/ RestoreWrite(r) PROVE AllDoneIsCompleted'
  BY <1>7 DEF RestoreRead, RestoreWrite, Begin, End
<1>8. ASSUME NEW r \in Request, StatementFails(r) PROVE AllDoneIsCompleted'
  BY <1>8 DEF StatementFails, End
<1>9. ASSUME NEW s \in Subtask, AddSubtask(s) PROVE AllDoneIsCompleted'
  BY <1>9 DEF AddSubtask
<1>10. ASSUME NEW s \in Subtask, DeleteSubtask(s) PROVE AllDoneIsCompleted'
  BY <1>10 DEF DeleteSubtask
<1>11. CASE \/ \E st \in Status : UpdateStatus(st)
            \/ \E d \in Deadline : UpdateDue(d)
            \/ AdminSoftDelete \/ AcknowledgeAdminDeletion \/ TimePasses
            \/ UNCHANGED personalVars
  BY <1>11 DEF UpdateStatus, UpdateDue, AdminSoftDelete, AcknowledgeAdminDeletion, TimePasses,
               personalVars
<1>12. CASE DeleteTask
  BY <1>12 DEF DeleteTask
<1>13. CASE LoseRequests
  BY <1>13 DEF LoseRequests
<1> QED
  BY <1>1, <1>2, <1>3, <1>4, <1>5, <1>6, <1>7, <1>8, <1>9, <1>10, <1>11, <1>12, <1>13
  DEF PersonalNext, PersonalStep

-----------------------------------------------------------------------------

\* The properties and what they rest on hold in every reachable state.
THEOREM PersonalInvariant == PersonalSpec => []IInv
<1>1. IInv /\ [PersonalNext]_personalVars => IInv'
  BY PersonalStepType, OtherStepsType, AckStep, CountStep, CompletionStep
  DEF IInv, PersonalNext
<1> QED BY PersonalInitIInv, <1>1, PTL DEF PersonalSpec

\* service.go:217: of two ticks at once, the one that comes second sees both,
\* so that the last tick completes the task.
THEOREM LastTickCompletes == PersonalSpec => []AllDoneIsCompleted
<1>1. IInv => AllDoneIsCompleted
  BY DEF IInv
<1> QED BY PersonalInvariant, <1>1, PTL

\* service.go:227-235: automatic completion overlooks no subtask but those
\* opened after its count.
THEOREM CompletionIsNotEarly == PersonalSpec => []CompletedNotEarly
<1>1. IInv => CompletedNotEarly
  BY DEF IInv
<1> QED BY PersonalInvariant, <1>1, PTL

\* postgres.go:729-802: no acknowledgement outlives the deletion it was for.
THEOREM NoLateAcknowledgement == PersonalSpec => []AckOnlyIfDeleted
<1>1. IInv => AckOnlyIfDeleted
  BY DEF IInv
<1> QED BY PersonalInvariant, <1>1, PTL

-----------------------------------------------------------------------------
(* The worker that sends reminders *)


ToCome(w) ==
  \/ tick
  \/ worker.step \in {"find", "send"} /\ worker.window <= w
  \/ worker.step = "mark" /\ worker.window < w

WorkerWillCome ==
  \A w \in Window :
    Eligible /\ Begun(w) /\ w \notin excused \cup reminded => ~Over(w) /\ ToCome(w)

\* Only the columns of a task that is gone are not written.
ReminderIsKnown ==
  /\ worker.step \in {"send", "mark"} => life # "unborn"
  /\ \A w \in reminded :
       w \in unmarked \cup sent \/ worker = [step |-> "mark", window |-> w] \/ life = "gone"

MarkFollowsSending == worker.step = "mark" => worker.window \in reminded

ReminderIInv ==
  /\ TypeOK
  /\ MarkFollowsSending
  /\ ReminderIsKnown
  /\ RepeatedOnlyIfUnmarked
  /\ WorkerWillCome

-----------------------------------------------------------------------------
(* Facts about the windows and the worker *)

LEMMA WindowFacts ==
  /\ Len(Windows) \in Nat /\ Window = 1 .. Len(Windows) /\ 1 \in Window
  /\ \A w \in Window : w \in Nat /\ Windows[w] \in Nat
BY ReminderAssumption DEF Window

\* The worker goes on to a later window, or rests because there is none.
LEMMA NextWindowFacts ==
  ASSUME TypeOK, NextWindow
  PROVE  /\ worker' \in [step : {"rest", "find"}, window : Window]
         /\ \A w \in Window : worker.window < w => worker'.step = "find" /\ worker'.window <= w
<1>1. worker.window \in Window
  BY DEF TypeOK
<1> QED BY <1>1, WindowFacts DEF NextWindow, Resting

\* A task that is gone stays so, and no task is unborn again.
LEMMA LifeGoesOn ==
  ASSUME PersonalStep
  PROVE  /\ life = "gone" => life' = "gone"
         /\ life # "unborn" => life' # "unborn"
BY DEF PersonalStep, CreateRow, CreateSubtasks, CreateSubtasksFails, ToggleDone, AreAllDone,
       Complete, RestoreRead, RestoreWrite, StatementFails, AddSubtask, DeleteSubtask,
       UpdateStatus, UpdateDue, DeleteTask, AdminSoftDelete, AcknowledgeAdminDeletion, rowVars

LEMMA RequestsLeaveTheClock ==
  ASSUME PersonalStep
  PROVE  now' = now
BY DEF PersonalStep, CreateRow, CreateSubtasks, CreateSubtasksFails, ToggleDone, AreAllDone,
       Complete, RestoreRead, RestoreWrite, StatementFails, AddSubtask, DeleteSubtask,
       UpdateStatus, UpdateDue, DeleteTask, AdminSoftDelete, AcknowledgeAdminDeletion

-----------------------------------------------------------------------------

LEMMA ReminderInitIInv == Init => ReminderIInv
<1> SUFFICES ASSUME Init PROVE ReminderIInv
  OBVIOUS
<1> USE DEF Init
<1>1. TypeOK
  <2>1. PersonalTypeOK
    BY PersonalInitIInv DEF IInv
  <2>2. active \in BOOLEAN /\ chat \in BOOLEAN /\ tick \in BOOLEAN
    BY Zenon
  <2> QED BY <2>1, <2>2, WindowFacts DEF TypeOK, Resting
<1>2. MarkFollowsSending /\ ReminderIsKnown /\ RepeatedOnlyIfUnmarked
  BY DEF MarkFollowsSending, ReminderIsKnown, RepeatedOnlyIfUnmarked, Resting
<1>3. WorkerWillCome
  BY DEF WorkerWillCome, Eligible, PersonalInit
<1> QED BY <1>1, <1>2, <1>3 DEF ReminderIInv

\* Types, and that what is marked was sent.
LEMMA ReminderTypeStep ==
  ASSUME TypeOK, MarkFollowsSending, [Next]_vars
  PROVE  TypeOK' /\ MarkFollowsSending'
<1> DEFINE Goal == TypeOK /\ MarkFollowsSending
<1> USE DEF MarkFollowsSending, subVars
<1>1. CASE RequestStep
  <2>1. PersonalTypeOK'
    BY <1>1, PersonalStepType DEF TypeOK, RequestStep
  <2> QED BY <1>1, <2>1 DEF TypeOK, RequestStep, Excuse
<1>2. ASSUME NEW a \in BOOLEAN, NEW c \in BOOLEAN, NEW e \in Expiry, UpsertSubscription(a, e, c)
      PROVE  Goal'
  <2>1. PersonalTypeOK'
    BY <1>2, OtherStepsType DEF TypeOK, UpsertSubscription
  <2>2. active' \in BOOLEAN /\ chat' \in BOOLEAN
    BY <1>2, Zenon DEF UpsertSubscription, KnownChat
  <2> QED BY <1>2, <2>1, <2>2 DEF TypeOK, UpsertSubscription, Excuse
<1>3. CASE Minute
  <2>1. TimePasses
    BY <1>3 DEF Minute, TimePasses
  <2>2. PersonalTypeOK'
    BY <2>1, OtherStepsType DEF TypeOK
  <2>3. tick' \in BOOLEAN
    BY <1>3, Zenon DEF Minute
  <2> QED BY <1>3, <2>2, <2>3 DEF TypeOK, Minute, Excuse
<1>4. CASE StartPoll
  <2>1. PersonalTypeOK'
    BY <1>4, OtherStepsType DEF TypeOK, StartPoll
  <2>2. tick' \in BOOLEAN
    BY <1>4, Zenon DEF StartPoll
  <2> QED BY <1>4, <2>1, <2>2, WindowFacts DEF TypeOK, StartPoll
<1>5. CASE FindTasksDueForReminder
  <2>1. PersonalTypeOK'
    BY <1>5, OtherStepsType DEF TypeOK, FindTasksDueForReminder
  <2> QED BY <1>5, <2>1, NextWindowFacts DEF TypeOK, FindTasksDueForReminder
<1>6. CASE SendReminder
  <2>1. PersonalTypeOK'
    BY <1>6, OtherStepsType DEF TypeOK, SendReminder
  <2> QED BY <1>6, <2>1 DEF TypeOK, SendReminder
<1>7. CASE FindOrSendFails
  <2>1. PersonalTypeOK'
    BY <1>7, OtherStepsType DEF TypeOK, FindOrSendFails
  <2> QED BY <1>7, <2>1, NextWindowFacts DEF TypeOK, FindOrSendFails, Excuse
<1>8. CASE AnswerLost
  <2>1. PersonalTypeOK'
    BY <1>8, OtherStepsType DEF TypeOK, AnswerLost
  <2> QED BY <1>8, <2>1, NextWindowFacts DEF TypeOK, AnswerLost
<1>9. CASE MarkReminderSent
  <2>1. PersonalTypeOK'
    BY <1>9, OtherStepsType DEF TypeOK, MarkReminderSent
  <2> QED BY <1>9, <2>1, NextWindowFacts DEF TypeOK, MarkReminderSent, SentColumn
<1>10. CASE MarkFails
  <2>1. PersonalTypeOK'
    BY <1>10, OtherStepsType DEF TypeOK, MarkFails
  <2> QED BY <1>10, <2>1, NextWindowFacts DEF TypeOK, MarkFails
<1>11. CASE Crash
  <2>1. PersonalTypeOK'
    BY <1>11, OtherStepsType DEF TypeOK, Crash
  <2>2. tick' \in BOOLEAN
    BY <1>11, Zenon DEF Crash
  <2> QED BY <1>11, <2>1, <2>2, WindowFacts DEF TypeOK, Crash, Excuse, Resting
<1>12. CASE UNCHANGED vars
  <2>1. PersonalTypeOK'
    BY <1>12, OtherStepsType DEF TypeOK, vars
  <2> QED BY <1>12, <2>1 DEF TypeOK, vars, reminderVars
<1> QED
  BY <1>1, <1>2, <1>3, <1>4, <1>5, <1>6, <1>7, <1>8, <1>9, <1>10, <1>11, <1>12 DEF Next

\* What is found again is known to be unmarked.
LEMMA RepeatStep ==
  ASSUME TypeOK, MarkFollowsSending, ReminderIsKnown, RepeatedOnlyIfUnmarked, [Next]_vars
  PROVE  ReminderIsKnown' /\ RepeatedOnlyIfUnmarked'
<1> DEFINE Goal == ReminderIsKnown /\ RepeatedOnlyIfUnmarked
<1> USE DEF MarkFollowsSending, ReminderIsKnown, RepeatedOnlyIfUnmarked, TypeOK, PersonalTypeOK
<1>1. CASE RequestStep
  BY <1>1, LifeGoesOn DEF RequestStep
<1>2. CASE \/ \E a, c \in BOOLEAN, e \in Expiry : UpsertSubscription(a, e, c)
           \/ Minute
           \/ UNCHANGED vars
  BY <1>2 DEF UpsertSubscription, Minute, vars, personalVars, reminderVars, rowVars
<1>3. CASE StartPoll
  BY <1>3 DEF StartPoll, Resting, personalVars, rowVars
<1>4. CASE FindTasksDueForReminder
  BY <1>4, NextWindowFacts
  DEF FindTasksDueForReminder, Eligible, NotYetSent, SentColumn, personalVars, rowVars
<1>5. CASE SendReminder
  BY <1>5 DEF SendReminder, personalVars, rowVars
<1>6. CASE FindOrSendFails \/ AnswerLost
  BY <1>6, NextWindowFacts DEF FindOrSendFails, AnswerLost, personalVars, rowVars
<1>7. CASE MarkReminderSent
  BY <1>7, NextWindowFacts DEF MarkReminderSent, SentColumn, personalVars, rowVars
<1>8. CASE MarkFails
  BY <1>8, NextWindowFacts DEF MarkFails, personalVars, rowVars
<1>9. CASE Crash
  BY <1>9 DEF Crash, LoseRequests, Resting, rowVars
<1> QED
  BY <1>1, <1>2, <1>3, <1>4, <1>5, <1>6, <1>7, <1>8, <1>9 DEF Next

-----------------------------------------------------------------------------
(* The worker will come *)

\* The steps of the worker leave alone what a window depends on.
LEMMA WindowsKept ==
  ASSUME UNCHANGED <<personalVars, subVars>>
  PROVE  /\ Eligible' = Eligible
         /\ \A w \in Window : Over(w)' = Over(w) /\ Begun(w)' = Begun(w) /\ Due(w)' = Due(w)
BY DEF personalVars, rowVars, subVars, Eligible, Over, Begun, Due

\* A minute before a window begins it is not over; one that has begun has been
\* looked at, or the worker is late.
LEMMA MinuteKeepsPace ==
  ASSUME TypeOK, WorkerWillCome, Minute
  PROVE  WorkerWillCome'
<1> SUFFICES ASSUME NEW w \in Window, Eligible', Begun(w)', w \notin (excused \cup reminded)'
             PROVE  ~Over(w)' /\ ToCome(w)'
  BY DEF WorkerWillCome
<1>1. /\ now' = now + 1 /\ due' = due /\ tick'
      /\ UNCHANGED <<life, status, active, expires, chat, reminded>>
  BY DEF Minute, rowVars, subVars
<1>2. now \in Nat /\ due \in Nat /\ expires \in Nat /\ Windows[w] \in Nat
  BY WindowFacts, PersonalAssumption, ReminderAssumption DEF TypeOK, PersonalTypeOK
<1>3. ~tick /\ worker = Resting /\ excused' = excused
  BY <1>1 DEF Minute, Excuse, Begun
<1>4. Eligible
  BY <1>1, <1>2 DEF Eligible
<1>5. ~Begun(w)
  BY <1>1, <1>3, <1>4 DEF WorkerWillCome, ToCome, Resting
<1> QED BY <1>1, <1>2, <1>5 DEF Begun, Over, ToCome

LEMMA WorkerStep ==
  ASSUME TypeOK, WorkerWillCome, [Next]_vars
  PROVE  WorkerWillCome'
<1>1. CASE RequestStep
  <2> SUFFICES ASSUME NEW w \in Window, Eligible', Begun(w)', w \notin (excused \cup reminded)'
               PROVE  ~Over(w)' /\ ToCome(w)'
    BY DEF WorkerWillCome
  <2>1. rowVars' = rowVars /\ now' = now
    BY <1>1, RequestsLeaveTheClock DEF RequestStep, Excuse
  <2> QED BY <1>1, <2>1
          DEF WorkerWillCome, RequestStep, Excuse, Eligible, Begun, Over, ToCome, rowVars, subVars
<1>2. CASE \E a, c \in BOOLEAN, e \in Expiry : UpsertSubscription(a, e, c)
  BY <1>2 DEF WorkerWillCome, UpsertSubscription, Excuse, Begun, personalVars, rowVars
<1>3. CASE Minute
  BY <1>3, MinuteKeepsPace
<1>4. CASE StartPoll
  <2>1. \A w \in Window : ToCome(w)'
    BY <1>4, WindowFacts DEF StartPoll, ToCome
  <2> QED BY <1>4, <2>1, WindowsKept DEF StartPoll, WorkerWillCome
<1>5. CASE FindTasksDueForReminder
  <2> SUFFICES ASSUME NEW w \in Window, Eligible', Begun(w)', w \notin (excused \cup reminded)'
               PROVE  ~Over(w)' /\ ToCome(w)'
    BY DEF WorkerWillCome
  <2>1. Eligible /\ Begun(w) /\ w \notin excused \cup reminded /\ ~Over(w)' = ~Over(w)
    BY <1>5, WindowsKept DEF FindTasksDueForReminder
  <2>2. ~Over(w) /\ ToCome(w)
    BY <2>1 DEF WorkerWillCome
  <2>3. now \in Nat /\ due \in Nat /\ Windows[w] \in Nat /\ w \in Nat /\ worker.window \in Nat
    BY WindowFacts, PersonalAssumption DEF TypeOK, PersonalTypeOK
  <2>4. CASE tick
    BY <1>5, <2>1, <2>2, <2>4 DEF FindTasksDueForReminder, ToCome
  <2>5. CASE worker' = [worker EXCEPT !.step = "send"]
    BY <1>5, <2>1, <2>2, <2>5 DEF FindTasksDueForReminder, ToCome, TypeOK
  <2>6. CASE ~tick /\ worker' # [worker EXCEPT !.step = "send"]
    <3>1. NextWindow /\ ~(Eligible /\ Due(worker.window) /\ NotYetSent(worker.window))
      BY <1>5, <2>6 DEF FindTasksDueForReminder
    <3>2. Due(w) /\ NotYetSent(w)
      BY <2>1, <2>2, <2>3 DEF Due, Over, Begun, NotYetSent, SentColumn, TypeOK
    <3>3. worker.window < w
      BY <1>5, <2>1, <2>2, <2>3, <2>6, <3>1, <3>2 DEF ToCome, FindTasksDueForReminder
    <3> QED BY <2>1, <2>2, <3>1, <3>3, NextWindowFacts DEF ToCome
  <2> QED BY <2>4, <2>5, <2>6
<1>6. CASE SendReminder \/ FindOrSendFails \/ AnswerLost \/ MarkReminderSent \/ MarkFails
  <2> SUFFICES ASSUME NEW w \in Window, Eligible', Begun(w)', w \notin (excused \cup reminded)'
               PROVE  ~Over(w)' /\ ToCome(w)'
    BY DEF WorkerWillCome
  <2>1. UNCHANGED <<personalVars, subVars, tick>>
    BY <1>6 DEF SendReminder, FindOrSendFails, AnswerLost, MarkReminderSent, MarkFails
  <2>2. excused \subseteq excused' /\ reminded \subseteq reminded'
    BY <1>6 DEF SendReminder, FindOrSendFails, AnswerLost, MarkReminderSent, MarkFails, Excuse
  <2>3. Eligible /\ Begun(w) /\ w \notin excused \cup reminded /\ Over(w)' = Over(w)
    BY <2>1, <2>2, WindowsKept
  <2>4. ~Over(w) /\ ToCome(w)
    BY <2>3 DEF WorkerWillCome
  <2>5. w \in Nat /\ worker.window \in Nat
    BY WindowFacts DEF TypeOK
  <2>6. tick \/ worker.window < w
    BY <1>6, <2>4, <2>5
    DEF SendReminder, FindOrSendFails, AnswerLost, MarkReminderSent, MarkFails, Excuse, ToCome
  <2>7. ToCome(w)'
    <3>1. CASE tick
      BY <2>1, <3>1 DEF ToCome
    <3>2. CASE worker.window < w /\ SendReminder
      BY <3>2 DEF ToCome, SendReminder, TypeOK
    <3>3. CASE worker.window < w /\ NextWindow
      BY <3>3, NextWindowFacts DEF ToCome
    <3> QED BY <1>6, <2>6, <3>1, <3>2, <3>3
            DEF FindOrSendFails, AnswerLost, MarkReminderSent, MarkFails
  <2> QED BY <2>3, <2>4, <2>7
<1>7. CASE Crash
  BY <1>7 DEF WorkerWillCome, Crash, LoseRequests, Excuse, Begun, rowVars
<1>8. CASE UNCHANGED vars
  BY <1>8, WindowsKept DEF vars, reminderVars, WorkerWillCome, ToCome
<1> QED BY <1>1, <1>2, <1>3, <1>4, <1>5, <1>6, <1>7, <1>8 DEF Next

-----------------------------------------------------------------------------

\* The properties of the worker and what they rest on hold in every reachable
\* state, crashes included.
THEOREM ReminderInvariant == Spec => []ReminderIInv
<1>1. ReminderIInv /\ [Next]_vars => ReminderIInv'
  BY ReminderTypeStep, RepeatStep, WorkerStep DEF ReminderIInv
<1> QED BY ReminderInitIInv, <1>1, PTL DEF Spec

\* The state of the worker is well typed, and only a reminder that was sent is
\* marked as sent.
THEOREM ReminderTypeCorrect == Spec => []TypeOK
<1>1. ReminderIInv => TypeOK
  BY DEF ReminderIInv
<1> QED BY ReminderInvariant, <1>1, PTL

\* reminder.go:68-75: a reminder is repeated only after its mark was lost, for
\* any windows, and however they overlap.
THEOREM RepeatsExplained == Spec => []RepeatedOnlyIfUnmarked
<1>1. ReminderIInv => RepeatedOnlyIfUnmarked
  BY DEF ReminderIInv
<1> QED BY ReminderInvariant, <1>1, PTL

\* reminder.go:28-66: a poll a minute misses no window that is two minutes
\* wide, for any deadline, while nothing fails and nothing changes in it.
THEOREM NoWindowMissed == Spec => []RemindedUnlessExcused
<1>1. ReminderIInv => RemindedUnlessExcused
  <2> SUFFICES ASSUME ReminderIInv, Eligible, NEW w \in Window, Over(w)
               PROVE  w \in reminded \cup excused
    BY DEF RemindedUnlessExcused
  <2>1. now \in Nat /\ due \in Nat /\ Windows[w] \in Nat
    BY WindowFacts, PersonalAssumption DEF ReminderIInv, TypeOK, PersonalTypeOK
  <2>2. Begun(w)
    BY <2>1 DEF Over, Begun
  <2> QED BY <2>2 DEF ReminderIInv, WorkerWillCome
<1> QED BY ReminderInvariant, <1>1, PTL
=============================================================================
