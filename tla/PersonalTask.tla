------------------------------ MODULE PersonalTask ------------------------------
(***************************************************************************)
(* One personal task with its subtasks: creation, automatic completion,    *)
(* and the administrator's deletion.                                       *)
(*                                                                         *)
(* Every SQL statement commits on its own.  An operation of several        *)
(* statements is a request whose step says which one comes next: creation  *)
(* (row, then subtasks), toggling (toggle, count, complete) and            *)
(* restoration (test of the deadline, then reset).  The requests are the   *)
(* owner's and the administrator's: those of others match no row.          *)
(***************************************************************************)
EXTENDS Naturals

CONSTANTS
  Subtask,   \* the ids the database may give to subtasks
  Request,   \* requests of several statements that can be in progress
  Deadline,  \* values of due_date, in minutes
  MaxTime    \* bound on the clock

ASSUME PersonalAssumption == Deadline \subseteq Nat /\ Deadline # {} /\ MaxTime \in Nat

VARIABLES
  life,      \* the row of the task: "unborn", "present" or "gone"
  status,
  due,       \* due_date
  deleted,   \* admin_deleted
  ack,       \* user_ack
  item,      \* item[s]: "free" (id not in use), "open", "done" or "gone"
  now,       \* minutes
  req,       \* req[r]: the request r is working on
  \* History, read by no action:
  wanted,    \* the subtasks the task was to be created with
  missed,    \* the rule of completion does not apply since the last tick
  auto,      \* the status was written by automatic completion
  openedSince  \* subtasks opened since the count that completion rests on

rowVars == <<life, status, due, deleted, ack>>
personalHistory == <<wanted, missed, auto, openedSince>>
personalVars == <<rowVars, item, now, req, personalHistory>>

-----------------------------------------------------------------------------
(* Types *)

Status == {"not_completed", "in_progress", "completed"}

Idle == [step |-> "idle", items |-> {}]

\* "subtasks": CreateSubtasks is next, with items; "count": AreAllDone;
\* "complete": the update that completes the task, items being the subtasks
\* opened since the count (history); "restore": the reset of the flags.
Steps == {"subtasks", "count", "complete", "restore"}

PersonalTypeOK ==
  /\ life \in {"unborn", "present", "gone"}
  /\ status \in Status
  /\ due \in Deadline
  /\ deleted \in BOOLEAN /\ ack \in BOOLEAN
  /\ item \in [Subtask -> {"free", "open", "done", "gone"}]
  /\ now \in 0 .. MaxTime
  /\ req \in [Request -> [step : Steps \cup {"idle"}, items : SUBSET Subtask]]
  /\ wanted \subseteq Subtask
  /\ missed \in BOOLEAN /\ auto \in BOOLEAN
  /\ openedSince \subseteq Subtask
  \* ON DELETE CASCADE: there are no subtasks without the task.
  /\ life # "present" => \A s \in Subtask : item[s] \in {"free", "gone"}

PersonalInit ==
  /\ life = "unborn"
  /\ status = "not_completed" /\ due \in Deadline
  /\ deleted = FALSE /\ ack = FALSE
  /\ item = [s \in Subtask |-> "free"]
  /\ now = 0
  /\ req = [r \in Request |-> Idle]
  /\ wanted = {}
  /\ missed = FALSE /\ auto = FALSE /\ openedSince = {}

-----------------------------------------------------------------------------
(* Helpers *)

Items(state) == {s \in Subtask : item[s] = state}

AllDone_AnyDone == Items("done") # {}

\* AreAllDone counts the open ones.
AllDone == Items("open") = {}

\* A subtask is opened: requests that have counted do not know of it.
Opened(s) ==
  /\ openedSince' = openedSince \cup {s}
  /\ req' = [r \in Request |-> IF req[r].step = "complete"
                               THEN [req[r] EXCEPT !.items = @ \cup {s}] ELSE req[r]]

Begin(r, step, items) ==
  /\ req[r] = Idle
  /\ req' = [req EXCEPT ![r] = [step |-> step, items |-> items]]

End(r) == req' = [req EXCEPT ![r] = Idle]

\* A completion that may be lost with these requests.
CompletionIn(requests) == \E r \in requests : req[r].step \in {"count", "complete"}

-----------------------------------------------------------------------------
(* Creation *)

\* CreateTask, first statement.  Without subtasks it is the only one.
CreateRow(r, items, st, d) ==
  /\ life = "unborn"
  /\ life' = "present" /\ status' = st /\ due' = d
  /\ wanted' = items
  /\ IF items = {} THEN UNCHANGED req ELSE Begin(r, "subtasks", items)
  /\ UNCHANGED <<deleted, ack, item, now, missed, auto, openedSince>>

\* CreateTask, second statement: one INSERT for all subtasks, none of them done.
CreateSubtasks(r) ==
  /\ req[r].step = "subtasks"
  /\ life = "present"
  /\ item' = [s \in Subtask |-> IF s \in req[r].items THEN "open" ELSE item[s]]
  /\ openedSince' = openedSince \cup req[r].items
  /\ req' = [i \in Request |->
               IF i = r THEN Idle
               ELSE IF req[i].step = "complete"
                    THEN [req[i] EXCEPT !.items = @ \cup req[r].items] ELSE req[i]]
  /\ UNCHANGED <<rowVars, now, wanted, missed, auto>>

\* It fails: an error, the deadline of the request, or the task is gone.  The
\* caller is told "Failed to save task"; the row of the task stays.
CreateSubtasksFails(r) ==
  /\ req[r].step = "subtasks"
  /\ End(r)
  /\ UNCHANGED <<rowVars, item, now, wanted, missed, auto, openedSince>>

-----------------------------------------------------------------------------
(* The owner's operations *)

\* UpdateTask with a new status: every valid status may follow every other.
\* What it reads before is only asked whether it is there.
UpdateStatus(st) ==
  /\ life = "present"
  /\ status' = st
  /\ missed' = TRUE
  /\ auto' = FALSE
  /\ UNCHANGED <<life, due, deleted, ack, item, now, req, wanted, openedSince>>

\* UpdateTask with a new deadline.
UpdateDue(d) ==
  /\ life = "present"
  /\ due' = d
  /\ UNCHANGED <<life, status, deleted, ack, item, now, req, personalHistory>>

AfterCascade_Kept == item

\* ON DELETE CASCADE
AfterCascade == [s \in Subtask |-> IF item[s] \in {"open", "done"} THEN "gone" ELSE item[s]]

\* DeleteTask, with the subtasks.
DeleteTask ==
  /\ life = "present"
  /\ life' = "gone"
  /\ item' = AfterCascade
  /\ UNCHANGED <<status, due, deleted, ack, now, req, personalHistory>>

\* AddSubtask: INSERT ... SELECT from tasks, nothing without the task.
AddSubtask(s) ==
  /\ life = "present"
  /\ item[s] = "free" /\ \A r \in Request : s \notin req[r].items
  /\ item' = [item EXCEPT ![s] = "open"]
  /\ Opened(s)
  /\ UNCHANGED <<rowVars, now, wanted, missed, auto>>

Counts_WhenOpened(s) == item[s] = "done"

\* if subtask.IsDone, of the row the toggle returned
Counts(s) == item[s] = "open"

\* ToggleSubtaskDone, first statement.
ToggleDone(r, s) ==
  /\ item[s] \in {"open", "done"}
  /\ req[r] = Idle
  /\ item' = [item EXCEPT ![s] = IF @ = "open" THEN "done" ELSE "open"]
  /\ IF item[s] = "open"
     THEN missed' = FALSE /\ UNCHANGED openedSince
     ELSE openedSince' = openedSince \cup {s} /\ UNCHANGED missed
  /\ req' = [i \in Request |->
               IF i = r
               THEN IF Counts(s) THEN [step |-> "count", items |-> {}] ELSE Idle
               ELSE IF item[s] = "done" /\ req[i].step = "complete"
                    THEN [req[i] EXCEPT !.items = @ \cup {s}] ELSE req[i]]
  /\ UNCHANGED <<rowVars, now, wanted, auto>>

\* ToggleSubtaskDone, second statement.
AreAllDone(r) ==
  /\ req[r].step = "count"
  /\ req' = [req EXCEPT ![r] = IF AllDone THEN [step |-> "complete", items |-> {}] ELSE Idle]
  /\ UNCHANGED <<rowVars, item, now, personalHistory>>

\* ToggleSubtaskDone, third statement; it matches no row if the task is gone.
Complete(r) ==
  /\ req[r].step = "complete"
  /\ IF life = "present"
     THEN status' = "completed" /\ auto' = TRUE /\ openedSince' = req[r].items
     ELSE UNCHANGED <<status, auto, openedSince>>
  /\ End(r)
  /\ UNCHANGED <<life, due, deleted, ack, item, now, wanted, missed>>

\* DeleteSubtask does not ask whether the others are done.
DeleteSubtask(s) ==
  /\ item[s] \in {"open", "done"}
  /\ item' = [item EXCEPT ![s] = "gone"]
  /\ missed' = (missed \/ item[s] = "open")
  /\ UNCHANGED <<rowVars, now, req, wanted, auto, openedSince>>

-----------------------------------------------------------------------------
(* The administrator's deletion *)

AdminSoftDelete ==
  /\ life = "present" /\ ~deleted
  /\ deleted' = TRUE
  /\ UNCHANGED <<life, status, due, ack, item, now, req, personalHistory>>

AcknowledgeAdminDeletion ==
  /\ life = "present" /\ deleted
  /\ ack' = TRUE
  /\ UNCHANGED <<life, status, due, deleted, item, now, req, personalHistory>>

\* AdminRestore, first statement; it goes on if the deadline has not passed.
RestoreRead(r) ==
  /\ life = "present"
  /\ ~(due < now)
  /\ Begin(r, "restore", {})
  /\ UNCHANGED <<rowVars, item, now, personalHistory>>

RestoredAck_Kept == ack

RestoredAck == FALSE

\* AdminRestore, second statement: whatever the flags are by now.
RestoreWrite(r) ==
  /\ req[r].step = "restore"
  /\ IF life = "present" THEN deleted' = FALSE /\ ack' = RestoredAck
     ELSE UNCHANGED <<deleted, ack>>
  /\ End(r)
  /\ UNCHANGED <<life, status, due, item, now, personalHistory>>

-----------------------------------------------------------------------------
(* Failures *)

\* A statement fails.  Of the count and of the completion only the log hears:
\* the subtask is toggled already.
StatementFails(r) ==
  /\ req[r].step \in {"count", "complete", "restore"}
  /\ missed' = (missed \/ CompletionIn({r}))
  /\ End(r)
  /\ UNCHANGED <<rowVars, item, now, wanted, auto, openedSince>>

\* The process ends; what was committed stays.
LoseRequests ==
  /\ missed' = (missed \/ CompletionIn(Request))
  /\ req' = [r \in Request |-> Idle]
  /\ UNCHANGED <<rowVars, item, now, wanted, auto, openedSince>>

-----------------------------------------------------------------------------

PersonalStep ==
  \/ \E r \in Request :
       \/ \E items \in SUBSET Subtask, st \in Status, d \in Deadline :
            CreateRow(r, items, st, d)
       \/ CreateSubtasks(r) \/ CreateSubtasksFails(r)
       \/ \E s \in Subtask : ToggleDone(r, s)
       \/ AreAllDone(r) \/ Complete(r)
       \/ RestoreRead(r) \/ RestoreWrite(r)
       \/ StatementFails(r)
  \/ \E s \in Subtask : AddSubtask(s) \/ DeleteSubtask(s)
  \/ \E st \in Status : UpdateStatus(st)
  \/ \E d \in Deadline : UpdateDue(d)
  \/ DeleteTask
  \/ AdminSoftDelete \/ AcknowledgeAdminDeletion

TimePasses ==
  /\ now < MaxTime
  /\ now' = now + 1
  /\ UNCHANGED <<rowVars, item, req, personalHistory>>

PersonalNext == PersonalStep \/ TimePasses \/ LoseRequests

PersonalSpec == PersonalInit /\ [][PersonalNext]_personalVars

-----------------------------------------------------------------------------
(* Properties *)

\* service.go:217, "if all subtasks are done after a toggle, the task gets the
\* status completed": when every subtask is done, so is the task, or a toggle
\* is about to complete it.  It is not, if since the last tick the owner wrote
\* another status or deleted the open subtask, or the completion failed.  Two
\* toggles at once cannot both leave it to the other.
AllDoneIsCompleted ==
  life = "present" /\ AllDone /\ Items("done") # {}
    => status = "completed" \/ missed \/ CompletionIn(Request)

\* A task that was completed automatically has an open subtask only if it was
\* opened after the count: added, toggled back, or inserted late by Create.
CompletedNotEarly == life = "present" /\ auto => Items("open") \subseteq openedSince

\* Only an administrator's deletion in force is acknowledged, although the
\* restoration tests and writes in two statements.
AckOnlyIfDeleted == ack => deleted

-----------------------------------------------------------------------------
(* A claim of the code that it does not keep *)

\* handler.go:252, "tasks with subtasks are inserted synchronously (not through
\* the batch: subtasks have to be inserted atomically)": once the insertion is
\* over, a task that is there has had all the subtasks it was created with.
InsertedAtomically ==
  life = "present" /\ (\A r \in Request : req[r].step # "subtasks")
    => \A s \in wanted : item[s] # "free"
=============================================================================
