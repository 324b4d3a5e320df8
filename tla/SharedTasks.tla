----------------------------- MODULE SharedTasks -----------------------------
(***************************************************************************)
(* Shared tasks: the table shared_tasks with its subtasks, and the         *)
(* requests that work on it.                                               *)
(*                                                                         *)
(* A request that is one SQL statement or one transaction is one action.   *)
(* Update, Delete and AdminRestoreShared read the row in one statement and *)
(* write it in a later one, with other requests in between: each is a      *)
(* sequence of actions of a request slot.  A slot also stands for the      *)
(* goroutine that sends the automatic message after the response.          *)
(*                                                                         *)
(* PostgreSQL re-evaluates the WHERE of an UPDATE or DELETE on the row it  *)
(* locked, so a guarded write is one atomic step.                          *)
(***************************************************************************)
EXTENDS FiniteSets

CONSTANTS
  Users,        \* users, also those who have no part in any task
  Subscribers,  \* those for whom hasActiveSubscription answers true
  TaskId,       \* the uuids gen_random_uuid() may return
  Assignees,    \* users that requests name as assignees of subtasks
  Terms,        \* what is negotiated: title and priority
  Request,      \* slots: how many multi-step requests are in flight at once
  None

ASSUME UsersAssumption == Subscribers \subseteq Users /\ Assignees \subseteq Users

SharedTaskStatus == {"pending", "accepted", "rejected"}

\* The automatic messages.
NoticeKind == {"counter", "update", "delete"}

ASSUME NoneAssumption ==
  None \notin Users \cup TaskId \cup Terms \cup SharedTaskStatus \cup NoticeKind
VARIABLES
  fresh,    \* ids not yet given out
  present,  \* ids of the rows of shared_tasks
  row,      \* row[t]: the columns of the row, the last ones once it is deleted
  subs,     \* subs[t][u]: the subtask assigned to u: None, or who marked it done
  slot,     \* slot[r]: the multi-step request r is working on
  \* History, read by no action:
  author,   \* author[t]: who wrote the current terms
  decider,  \* decider[t]: who accepted or rejected, None before
  deleter   \* deleter[t]: who deleted the row, None before

table == <<fresh, present, row, subs>>
history == <<author, decider, deleter>>
vars == <<table, slot, history>>

-----------------------------------------------------------------------------
(* Types *)

\* due_date relative to the clock: absent, not reached, passed.
DueDate == {"none", "ahead", "past"}

Row == [proposer_id : Users, addressee_id : Users, status : SharedTaskStatus,
        terms : Terms, due_date : DueDate,
        admin_deleted : BOOLEAN, user_ack : BOOLEAN]

NoRow == [proposer_id |-> None, addressee_id |-> None, status |-> None,
          terms |-> None, due_date |-> None,
          admin_deleted |-> FALSE, user_ack |-> FALSE]

\* The subtasks of a task by assignee; NoSubtasks are those of a missing row.
SubtaskTable == UNION {[assignees -> Users \cup {None}] : assignees \in SUBSET Users}

NoSubtasks == [u \in {} |-> None]

\* What a request keeps of the row it read.
Seen == [partner : Users, status : SharedTaskStatus, terms : Terms, due_date : DueDate]

NoSeen == [partner |-> None, status |-> None, terms |-> None, due_date |-> None]

\* Where the handler of a multi-step request stands.
Stage == {"update read", "edit", "counter", "delete read", "restore read", "notify"}

Busy == [pc : Stage, user : Users \cup {None}, task : TaskId,
         seen : Seen \cup {NoSeen},
         notice : NoticeKind \cup {None}, to : Users \cup {None}]

Idle == [pc |-> "idle", user |-> None, task |-> None, seen |-> NoSeen,
         notice |-> None, to |-> None]

TypeOK ==
  /\ fresh \subseteq TaskId
  /\ present \subseteq TaskId \ fresh
  /\ row \in [TaskId -> Row \cup {NoRow}]
  /\ \A t \in TaskId : row[t] = NoRow <=> t \in fresh
  /\ subs \in [TaskId -> SubtaskTable]
  /\ slot \in [Request -> Busy \cup {Idle}]
  /\ author \in [TaskId -> Users \cup {None}]
  /\ decider \in [TaskId -> Users \cup {None}]
  /\ deleter \in [TaskId -> Users \cup {None}]

Init ==
  /\ fresh = TaskId
  /\ present = {}
  /\ row = [t \in TaskId |-> NoRow]
  /\ subs = [t \in TaskId |-> NoSubtasks]
  /\ slot = [r \in Request |-> Idle]
  /\ author = [t \in TaskId |-> None]
  /\ decider = [t \in TaskId |-> None]
  /\ deleter = [t \in TaskId |-> None]

-----------------------------------------------------------------------------
(* The table *)

IsParticipant_Anyone(t, u) == t \in present

\* WHERE (proposer_id = u OR addressee_id = u)
IsParticipant(t, u) == t \in present /\ u \in {row[t].proposer_id, row[t].addressee_id}

\* A non-nil port.UpdateInput.Subtasks, or nil: the subtasks stay as they are.
Keep == <<>>
SubtaskInput == {Keep} \cup {<<assignees>> : assignees \in SUBSET Assignees}

\* DELETE FROM shared_subtasks, then one INSERT, is_done FALSE, per entry.
Rewritten(old, input) == IF input = Keep THEN old ELSE [u \in input[1] |-> None]

PartnerOf(t, u) ==
  IF u = row[t].proposer_id THEN row[t].addressee_id ELSE row[t].proposer_id

ReadBy(t, u) == [partner |-> PartnerOf(t, u), status |-> row[t].status,
                 terms |-> row[t].terms, due_date |-> row[t].due_date]

-----------------------------------------------------------------------------
(* Proposing and answering *)

ValidateSubtasksForProposal_OwnOnly(proposer, addressee, assignees) ==
  proposer \in assignees

ValidateSubtasksForProposal(proposer, addressee, assignees) ==
  {proposer, addressee} \subseteq assignees

DistinctParties_Unchecked(proposer, addressee) == TRUE

\* The service compares the ids as strings; here every user has one spelling, so
\* that the ids differ exactly if the users do.
DistinctParties(proposer, addressee) == proposer # addressee

\* handler Propose, service Propose, repository Propose (one transaction).
Propose(u, addressee, t, terms, due, assignees) ==
  /\ u \in Subscribers
  /\ DistinctParties(u, addressee)
  /\ ValidateSubtasksForProposal(u, addressee, assignees)
  /\ t \in fresh
  /\ fresh' = fresh \ {t}
  /\ present' = present \cup {t}
  /\ row' = [row EXCEPT ![t] =
               [proposer_id |-> u, addressee_id |-> addressee, status |-> "pending",
                terms |-> terms, due_date |-> due,
                admin_deleted |-> FALSE, user_ack |-> FALSE]]
  /\ subs' = [subs EXCEPT ![t] = [a \in assignees |-> None]]
  /\ author' = [author EXCEPT ![t] = u]
  /\ UNCHANGED <<slot, decider, deleter>>

\* The WHERE of Respond and of CounterPropose; both report an error on 0 rows.
AnswerAllowed_Decided(t, u) == t \in present /\ row[t].addressee_id = u

AnswerAllowed(t, u) ==
  /\ t \in present
  /\ row[t].addressee_id = u
  /\ row[t].status = "pending"

\* Accept and Reject: the service passes the status to Respond, one UPDATE.
Respond(t, u, status) ==
  /\ AnswerAllowed(t, u)
  /\ row' = [row EXCEPT ![t].status = status]
  /\ decider' = [decider EXCEPT ![t] = u]
  /\ UNCHANGED <<fresh, present, subs, slot, author, deleter>>

\* ToggleSubtaskDone: any participant, any subtask, whatever the status.
ToggleSubtaskDone(t, u, assignee) ==
  /\ IsParticipant(t, u)
  /\ assignee \in DOMAIN subs[t]
  /\ subs' = [subs EXCEPT ![t][assignee] = IF @ = None THEN u ELSE None]
  /\ UNCHANGED <<fresh, present, row, slot, history>>

-----------------------------------------------------------------------------
(* Update: the handler reads the task for the message it will send, the    *)
(* service reads it again to choose between an edit and a counter          *)
(* proposal, and a transaction writes it.                                  *)

Enter(r, pc, u, t, seen) ==
  slot' = [slot EXCEPT ![r] = [pc |-> pc, user |-> u, task |-> t,
                               seen |-> seen, notice |-> None, to |-> None]]

Leave(r) == slot' = [slot EXCEPT ![r] = Idle]

\* The goroutine that will send the automatic message, or nothing to send.
LeaveWithNotice(r, notice) ==
  slot' = [slot EXCEPT ![r] =
             IF notice = None THEN Idle
             ELSE [@ EXCEPT !.pc = "notify", !.seen = NoSeen,
                            !.notice = notice, !.to = slot[r].seen.partner]]

\* oldTask, _ := FindByID: an error is ignored and leaves oldTask nil.
UpdateRead(r, u, t) ==
  /\ slot[r] = Idle
  /\ \/ Enter(r, "update read", u, t, NoSeen)
     \/ IsParticipant(t, u) /\ Enter(r, "update read", u, t, ReadBy(t, u))
  /\ UNCHANGED <<table, history>>

\* svc.Update: FindByID again, then the branch on pending and addressee.
UpdateBranch(r) ==
  LET t == slot[r].task
      u == slot[r].user
  IN
  /\ slot[r].pc = "update read"
  /\ \/ ~IsParticipant(t, u) /\ Leave(r)
     \/ /\ IsParticipant(t, u)
        /\ slot' = [slot EXCEPT ![r].pc =
                      IF AnswerAllowed(t, u) THEN "counter" ELSE "edit"]
  /\ UNCHANGED <<table, history>>

\* len(changes) > 0 in sendUpdateMessage.
Announced(seen, terms, due) ==
  terms # seen.terms \/ due # "none" \/ seen.due_date # "none"

\* The message of a successful update, nothing when oldTask is nil.
UpdateNotice(seen, kind, terms, due) ==
  IF seen = NoSeen \/ (kind = "update" /\ ~Announced(seen, terms, due))
  THEN None ELSE kind

\* repository Update: any participant, whatever the status.
EditWrite(r, terms, due, input) ==
  LET t == slot[r].task
      u == slot[r].user
  IN
  /\ slot[r].pc = "edit"
  /\ IsParticipant(t, u)
  /\ row' = [row EXCEPT ![t].terms = terms, ![t].due_date = due]
  /\ subs' = [subs EXCEPT ![t] = Rewritten(@, input)]
  /\ author' = [author EXCEPT ![t] = u]
  /\ LeaveWithNotice(r, UpdateNotice(slot[r].seen, "update", terms, due))
  /\ UNCHANGED <<fresh, present, decider, deleter>>

SwapRoles_Cleared(old) == [old EXCEPT !.proposer_id = old.addressee_id,
                                      !.addressee_id = None]

SwapRoles_Lost(old) == [old EXCEPT !.proposer_id = old.addressee_id]

\* proposer_id = addressee_id, addressee_id = proposer_id
SwapRoles(old) == [old EXCEPT !.proposer_id = old.addressee_id,
                              !.addressee_id = old.proposer_id]

\* repository CounterPropose: only while the user is still asked to answer.
CounterWrite(r, terms, due, input) ==
  LET t == slot[r].task
      u == slot[r].user
  IN
  /\ slot[r].pc = "counter"
  /\ AnswerAllowed(t, u)
  /\ row' = [row EXCEPT ![t] = [SwapRoles(@) EXCEPT !.terms = terms, !.due_date = due]]
  /\ subs' = [subs EXCEPT ![t] = Rewritten(@, input)]
  /\ author' = [author EXCEPT ![t] = u]
  /\ LeaveWithNotice(r, UpdateNotice(slot[r].seen, "counter", terms, due))
  /\ UNCHANGED <<fresh, present, decider, deleter>>

-----------------------------------------------------------------------------
(* Delete: read the row, refuse the addressee of a pending task, delete.   *)

DeleteRead(r, u, t) ==
  /\ slot[r] = Idle
  /\ IsParticipant(t, u)
  /\ ~AnswerAllowed(t, u)
  /\ Enter(r, "delete read", u, t, ReadBy(t, u))
  /\ UNCHANGED <<table, history>>

\* The partner is told only if the task was accepted, by the status read before.
DeleteNotice_Always(seen) == "delete"

DeleteNotice(seen) == IF seen.status = "accepted" THEN "delete" ELSE None

\* DELETE ... WHERE the user is a participant; the subtasks cascade.
DeleteWrite(r) ==
  LET t == slot[r].task
      u == slot[r].user
  IN
  /\ slot[r].pc = "delete read"
  /\ IsParticipant(t, u)
  /\ present' = present \ {t}
  /\ subs' = [subs EXCEPT ![t] = NoSubtasks]
  /\ deleter' = [deleter EXCEPT ![t] = u]
  /\ LeaveWithNotice(r, DeleteNotice(slot[r].seen))
  /\ UNCHANGED <<fresh, row, author, decider>>

-----------------------------------------------------------------------------
(* Soft deletion by the administrator *)

AdminSoftDeleteShared(t) ==
  /\ t \in present
  /\ ~row[t].admin_deleted
  /\ row' = [row EXCEPT ![t].admin_deleted = TRUE]
  /\ UNCHANGED <<fresh, present, subs, slot, history>>

AcknowledgeAllowed_Early(t, u) == IsParticipant(t, u)

AcknowledgeAllowed(t, u) == IsParticipant(t, u) /\ row[t].admin_deleted

\* One flag for the two participants.
AcknowledgeAdminDeletionShared(t, u) ==
  /\ AcknowledgeAllowed(t, u)
  /\ row' = [row EXCEPT ![t].user_ack = TRUE]
  /\ UNCHANGED <<fresh, present, subs, slot, history>>

\* AdminRestoreShared reads due_date and refuses a task whose deadline passed.
RestoreRead(r, t) ==
  /\ slot[r] = Idle
  /\ t \in present
  /\ row[t].due_date # "past"
  /\ Enter(r, "restore read", None, t, NoSeen)
  /\ UNCHANGED <<table, history>>

Restored_AckKept(old) == [old EXCEPT !.admin_deleted = FALSE]

Restored(old) == [old EXCEPT !.admin_deleted = FALSE, !.user_ack = FALSE]

\* ... then resets the flags WHERE id = t: no row is not an error here.
RestoreWrite(r) ==
  LET t == slot[r].task
  IN
  /\ slot[r].pc = "restore read"
  /\ row' = IF t \in present THEN [row EXCEPT ![t] = Restored(@)] ELSE row
  /\ Leave(r)
  /\ UNCHANGED <<fresh, present, subs, history>>

-----------------------------------------------------------------------------
(* Failures and time *)

\* The request ends here: a write that matches no row, the 5 s timeout, a
\* database error, a crash; or the message is sent, or lost.
Finish(r) ==
  /\ slot[r] # Idle
  /\ Leave(r)
  /\ UNCHANGED <<table, history>>

DeadlinePasses(t) ==
  /\ t \in present
  /\ row[t].due_date = "ahead"
  /\ row' = [row EXCEPT ![t].due_date = "past"]
  /\ UNCHANGED <<fresh, present, subs, slot, history>>

-----------------------------------------------------------------------------

Next ==
  \/ \E u, a \in Users, t \in TaskId, c \in Terms, d \in DueDate, s \in SUBSET Assignees :
       Propose(u, a, t, c, d, s)
  \/ \E t \in TaskId, u \in Users, st \in {"accepted", "rejected"} : Respond(t, u, st)
  \/ \E t \in TaskId, u, a \in Users : ToggleSubtaskDone(t, u, a)
  \/ \E r \in Request, u \in Users, t \in TaskId : UpdateRead(r, u, t)
  \/ \E r \in Request : UpdateBranch(r)
  \/ \E r \in Request, c \in Terms, d \in DueDate, s \in SubtaskInput :
       EditWrite(r, c, d, s)
  \/ \E r \in Request, c \in Terms, d \in DueDate, s \in SubtaskInput :
       CounterWrite(r, c, d, s)
  \/ \E r \in Request, u \in Users, t \in TaskId : DeleteRead(r, u, t)
  \/ \E r \in Request : DeleteWrite(r)
  \/ \E t \in TaskId : AdminSoftDeleteShared(t)
  \/ \E t \in TaskId, u \in Users : AcknowledgeAdminDeletionShared(t, u)
  \/ \E r \in Request, t \in TaskId : RestoreRead(r, t)
  \/ \E r \in Request : RestoreWrite(r)
  \/ \E r \in Request : Finish(r)
  \/ \E t \in TaskId : DeadlinePasses(t)

Spec == Init /\ [][Next]_vars
-----------------------------------------------------------------------------
(* Properties *)

Parties(t) == {row[t].proposer_id, row[t].addressee_id}

\* The abstract negotiation, with the addressee as the user who has to answer.
NegotiationStage ==
  [t \in TaskId |-> IF t \in fresh THEN "none"
                    ELSE IF t \in present THEN row[t].status ELSE "deleted"]

Negotiation == INSTANCE SharedTaskNegotiation WITH
  stage <- NegotiationStage,
  parties <- [t \in TaskId |-> Parties(t)],
  answerer <- [t \in TaskId |-> row[t].addressee_id],
  answered <- decider

\* Whatever edits, counter proposals, answers and deletions are in flight at
\* once, a task runs through one negotiation between the same two users:
\* answered at most once, by the one asked, never reopened (the life cycle
\* in the comment of domain.SharedTask).
ImplementsNegotiation == Negotiation!NSpec

\* "Only the addressee may accept or reject" (domain.SharedTask), and the
\* roles of a decided task no longer change: whoever decided still is the
\* addressee, although counter proposals swap the roles concurrently.
DecidedByAddressee ==
  \A t \in TaskId :
    row[t].status \in {"accepted", "rejected"} => decider[t] = row[t].addressee_id

\* The participant checks of all statements together: nobody but the two
\* participants ever wrote the terms, decided, deleted or ticked a subtask.
OutsidersHaveNoSay ==
  \A t \in TaskId :
    /\ {author[t], decider[t], deleter[t]} \subseteq Parties(t) \cup {None}
    /\ \A u \in DOMAIN subs[t] : subs[t][u] \in Parties(t) \cup {None}

\* The handler computes the partner from the row it read before the write;
\* the roles may be swapped in between, and still the message goes from one
\* participant to the other, never to its sender.
NoticeReachesPartner ==
  \A r \in Request :
    slot[r].pc = "notify" =>
      slot[r].user # slot[r].to /\ {slot[r].user, slot[r].to} = Parties(slot[r].task)

\* "A participant deleted our shared task" is sent on the strength of a status
\* read before the DELETE; it is only ever said of a task that was accepted
\* when it was deleted, and that is gone.
DeletionNoticeIsTrue ==
  \A r \in Request :
    slot[r].notice = "delete" =>
      slot[r].task \notin present /\ row[slot[r].task].status = "accepted"

\* The message "open the task and accept or reject the proposal" is queued
\* only by a step after which its recipient is asked to do exactly that.
CounterNoticeAsksAddressee ==
  [][\A r \in Request :
       slot[r].notice # "counter" /\ slot'[r].notice = "counter" =>
         LET t == slot[r].task IN
         /\ row'[t].addressee_id = slot'[r].to
         /\ row'[t].status = "pending"]_vars

\* An acknowledgement hides the task from the lists of both participants
\* (FindByUser), so none may be left on a task that is not soft-deleted:
\* the next soft deletion would hide it at once.
AcknowledgedOnlyIfDeleted ==
  \A t \in TaskId : row[t].user_ack => row[t].admin_deleted

-----------------------------------------------------------------------------
(* The inductive strengthening *)

\* Proposer and addressee of a task are two users.
TwoParties ==
  \A t \in TaskId \ fresh : row[t].proposer_id # row[t].addressee_id

\* What stays true of a row while a request holds on to what it read of it:
\* the reader and the partner it computed are the participants, and an
\* accepted task is still accepted.
SeenStaysTrue ==
  \A r \in Request :
    slot[r].seen # NoSeen =>
      LET t == slot[r].task IN
      /\ t \notin fresh
      /\ slot[r].user # slot[r].seen.partner
      /\ Parties(t) = {slot[r].user, slot[r].seen.partner}
      /\ slot[r].seen.status = "accepted" => row[t].status = "accepted"

\* A delete has read the row it is about to delete.
DeleteHasRead == \A r \in Request : slot[r].pc = "delete read" => slot[r].seen # NoSeen

IInv ==
  /\ TypeOK
  /\ TwoParties
  /\ SeenStaysTrue
  /\ DeleteHasRead
  /\ NoticeReachesPartner
  /\ DeletionNoticeIsTrue
  /\ DecidedByAddressee
  /\ OutsidersHaveNoSay
  /\ AcknowledgedOnlyIfDeleted

-----------------------------------------------------------------------------
(* Claims of comments that the code does not keep *)

\* repository.go:328, "the addressee cannot delete a task that is pending".
PendingNotDeletedByAddressee ==
  \A t \in TaskId \ (fresh \cup present) :
    row[t].status = "pending" => deleter[t] # row[t].addressee_id

\* service.go:114, "the addressee edits a pending task -> counter proposal
\* (the roles change)": the terms of a pending task are its proposer's.
PendingTermsAreTheProposers ==
  \A t \in present : row[t].status = "pending" => author[t] = row[t].proposer_id
=============================================================================
