------------------------------ MODULE TaskOutbox ------------------------------
(***************************************************************************)
(* The repository of personal tasks: creating, updating and deleting a row *)
(* of tasks also inserts a row into outbox_events, in the same statement   *)
(* or transaction.  The statements that only set flags of a row (deletion  *)
(* by an administrator, its acknowledgement and restoration, the marks of  *)
(* reminders) insert none, and change nothing that an event tells: they    *)
(* are in PersonalTask and Reminder.                                       *)
(*                                                                         *)
(* Create and CreateBatch are atomic.  Update is a transaction of three    *)
(* steps that holds the lock of the task's row from its first one on.      *)
(* Delete takes its time stamp first and waits for the row afterwards.     *)
(*                                                                         *)
(* Under READ COMMITTED a statement sees what other transactions have      *)
(* committed: the rows of a transaction in progress stay in its slot.      *)
(***************************************************************************)
EXTENDS TaskPayload, FiniteSetsExt

CONSTANTS
  TaskId,   \* the uuids the service may give to tasks
  Request,  \* the tasks clients ask to create
  Patch,    \* the changes they ask for
  Writer,   \* slots: how many updates and deletions are in flight at once
  MaxTime   \* bound on the clock, hence on the number of events

ASSUME BoundAssumption == MaxTime \in Nat

ASSUME NoneAssumption == None \notin TaskId \cup Row

ASSUME InputAssumption ==
  /\ Request \subseteq NewTask
  /\ Patch \subseteq PatchOfTask

VARIABLES
  tasks,   \* tasks[t]: the committed row of t, None without one
  outbox,  \* the committed rows of outbox_events: event -> its mutable columns
  clock,   \* time.Now(), which advances whenever it is read
  slot     \* slot[w]: the update or deletion w is working on

storeVars == <<tasks, outbox, clock, slot>>

-----------------------------------------------------------------------------
(* Types *)

EventType == {"created", "update", "deleted"}

\* The columns of an event that never change; "at" is created_at.
Event == [task : TaskId, type : EventType, version : 0 .. MaxTime,
          at : 0 .. MaxTime, content : Payload]

\* The columns the worker changes: attempts, and processed_at IS NOT NULL.
Delivery == [attempts : Nat, processed : BOOLEAN]

Pending == [attempts |-> 0, processed |-> FALSE]

Events == DOMAIN outbox

Idle == [pc |-> "idle", task |-> None, row |-> None, told |-> None, version |-> 0, at |-> 0]

\* "updated", "inserted": the steps of Update, which has written row and read
\* it back as told; "stamped": Delete before its Exec.
Busy == [pc : {"updated", "inserted", "stamped"}, task : TaskId,
         row : Row \cup {None}, told : Payload \cup {None},
         version : 0 .. MaxTime, at : 0 .. MaxTime]

StoreTypeOK ==
  /\ tasks \in [TaskId -> Row \cup {None}]
  /\ Events \subseteq Event
  /\ outbox \in [Events -> Delivery]
  /\ clock \in 0 .. MaxTime
  /\ slot \in [Writer -> Busy \cup {Idle}]
  /\ \A w \in Writer : slot[w].pc \in {"updated", "inserted"} =>
       slot[w].row \in Row /\ slot[w].told \in Payload

StoreInit ==
  /\ tasks = [t \in TaskId |-> None]
  /\ outbox = [e \in {} |-> Pending]
  /\ clock = 0
  /\ slot = [w \in Writer |-> Idle]

-----------------------------------------------------------------------------
(* Helpers *)

EventsOf(t) == {e \in Events : e.task = t}

Insert(events) ==
  outbox' = [e \in Events \cup events |-> IF e \in Events THEN outbox[e] ELSE Pending]

\* Reading the clock gives a stamp that nobody else gets.
Tick == clock < MaxTime /\ clock' = clock + 1

InTransaction(w, t) == slot[w].pc \in {"updated", "inserted"} /\ slot[w].task = t

RowUnlocked_Ignored(t) == TRUE

\* An UPDATE or DELETE waits while another transaction has written the row.
RowUnlocked(t) == \A w \in Writer : ~InTransaction(w, t)

UpdateVersions(t) == {e.version : e \in {f \in EventsOf(t) : f.type = "update"}}

NextVersion_NotIncremented(t) == IF UpdateVersions(t) = {} THEN 0 ELSE Max(UpdateVersions(t))

NextVersion_AnyTask(t) ==
  LET versions == {e.version : e \in {f \in Events : f.type = "update"}}
  IN IF versions = {} THEN 0 ELSE Max(versions) + 1

\* COALESCE((SELECT MAX(version) + 1 ...), 0)
NextVersion(t) == IF UpdateVersions(t) = {} THEN 0 ELSE Max(UpdateVersions(t)) + 1

-----------------------------------------------------------------------------
(* Create, CreateBatch: the rows of new tasks and their events, or nothing *)
(* at all; the events of one batch share their stamp.  The tasks of a      *)
(* batch name no tag.  The event is made of the request.                   *)

CreatedEvent(t, q) ==
  [task |-> t, type |-> "created", version |-> 0, at |-> clock, content |-> RequestPayload(q)]

Create(requests) ==
  /\ \A t \in DOMAIN requests : EventsOf(t) = {}
  /\ Cardinality(DOMAIN requests) > 1 => \A t \in DOMAIN requests : requests[t].name = None
  /\ Tick
  /\ tasks' = [t \in TaskId |-> IF t \in DOMAIN requests THEN RowOf(requests[t]) ELSE tasks[t]]
  /\ Insert({CreatedEvent(t, requests[t]) : t \in DOMAIN requests})
  /\ UNCHANGED slot

-----------------------------------------------------------------------------
(* Update *)

\* UPDATE tasks SET ... WHERE task_id, which takes the lock and finds the row
\* as committed by then; no row, or an empty patch, is an error.  The row is
\* read back in the same transaction.
UpdateRow(w, t, p) ==
  LET row == Patched(tasks[t], p)
  IN
  /\ slot[w] = Idle
  /\ tasks[t] # None
  /\ \E k \in DOMAIN p : p[k] # None
  /\ RowUnlocked(t)
  /\ slot' = [slot EXCEPT ![w] = [pc |-> "updated", task |-> t, row |-> row,
                                 told |-> RowPayload(row, clock), version |-> 0, at |-> 0]]
  /\ UNCHANGED <<tasks, outbox, clock>>

\* INSERT INTO outbox_events, visible to this transaction only.
InsertEvent(w) ==
  /\ slot[w].pc = "updated"
  /\ Tick
  /\ slot' = [slot EXCEPT ![w] = [pc |-> "inserted", task |-> @.task, row |-> @.row,
                                 told |-> @.told, version |-> NextVersion(@.task), at |-> clock]]
  /\ UNCHANGED <<tasks, outbox>>

\* The event carries the row as read back after the UPDATE.
UpdateEvent(s) ==
  [task |-> s.task, type |-> "update", version |-> s.version,
   at |-> s.at, content |-> s.told]

Commit(w) ==
  /\ slot[w].pc = "inserted"
  /\ tasks' = [tasks EXCEPT ![slot[w].task] = slot[w].row]
  /\ Insert({UpdateEvent(slot[w])})
  /\ slot' = [slot EXCEPT ![w] = Idle]
  /\ UNCHANGED clock

-----------------------------------------------------------------------------
(* Delete *)

\* now := time.Now(), before the statement; an id is known once it was created.
DeleteStamp(w, t) ==
  /\ slot[w] = Idle
  /\ EventsOf(t) # {}
  /\ Tick
  /\ slot' = [slot EXCEPT ![w] =
                [pc |-> "stamped", task |-> t, row |-> None, told |-> None,
                 version |-> 0, at |-> clock]]
  /\ UNCHANGED <<tasks, outbox>>

DeletedEvent(s) ==
  [task |-> s.task, type |-> "deleted", version |-> 0,
   at |-> s.at, content |-> DeletedPayload(tasks[s.task])]

\* One statement deletes the row and inserts the event from what it deleted.
DeleteExec(w) ==
  LET t == slot[w].task
  IN
  /\ slot[w].pc = "stamped"
  /\ tasks[t] # None
  /\ RowUnlocked(t)
  /\ tasks' = [tasks EXCEPT ![t] = None]
  /\ Insert({DeletedEvent(slot[w])})
  /\ slot' = [slot EXCEPT ![w] = Idle]
  /\ UNCHANGED clock

\* An error, no row to delete, the end of the request: tx.Rollback.
Rollback(w) ==
  /\ slot[w] # Idle
  /\ slot' = [slot EXCEPT ![w] = Idle]
  /\ UNCHANGED <<tasks, outbox, clock>>

-----------------------------------------------------------------------------

StoreNext ==
  \/ \E ts \in SUBSET TaskId \ {{}} : \E requests \in [ts -> Request] : Create(requests)
  \/ \E w \in Writer, t \in TaskId, p \in Patch : UpdateRow(w, t, p)
  \/ \E w \in Writer : InsertEvent(w)
  \/ \E w \in Writer : Commit(w)
  \/ \E w \in Writer, t \in TaskId : DeleteStamp(w, t)
  \/ \E w \in Writer : DeleteExec(w)
  \/ \E w \in Writer : Rollback(w)

StoreSpec == StoreInit /\ [][StoreNext]_storeVars

-----------------------------------------------------------------------------
(* Properties *)

SameKey(e, f) == e.task = f.task /\ e.type = f.type /\ e.version = f.version

\* UNIQUE (aggregate_type, aggregate_id, event_type, version) never rejects an
\* event: computing MAX(version) + 1 under the row lock gives every event, also
\* the one a transaction is about to commit, a key of its own
\* (postgres.go:593-595).
KeysAreUnique ==
  /\ \A e, f \in Events : SameKey(e, f) => e = f
  /\ \A w \in Writer :
       slot[w].pc = "inserted" => \A e \in Events : ~SameKey(e, UpdateEvent(slot[w]))

\* The worker reads events by created_at, a consumer may go by version: for the
\* updates of one task both are the order of the commits, and none is missing.
UpdatesAreNumberedInOrder ==
  \A t \in TaskId :
    /\ \A e, f \in EventsOf(t) :
         e.type = "update" /\ f.type = "update" => (e.version < f.version <=> e.at < f.at)
    /\ \A v \in UpdateVersions(t) : 0 .. v \subseteq UpdateVersions(t)

\* What a consumer can be told of a task besides its deletion.
Told(t) == {e \in EventsOf(t) : e.type # "deleted"}

Gone(t) == {e \in EventsOf(t) : e.type = "deleted"}

\* The row of t, or what its deletion has left of it.
LastRow(t) ==
  IF tasks[t] # None THEN {tasks[t]}
  ELSE {[text |-> e.content.text, status |-> e.content.status, tag |-> e.content.tag] :
          e \in Gone(t)}

\* The event tells the row, and says of a task in progress that it is not
\* completed only if its due date had passed when the event was stamped.
SaidAt(p, row, at) == Tells(p, row) /\ (p.status # row.status => Due[row.text] < at)

\* The outbox and the table never part: a task exists exactly if its creation
\* is recorded and its deletion is not, and the newest event tells the row, or
\* what it was when it was deleted.  A consumer gets all of the text, and the
\* tag if it resolves it as Create does; the status may be that of a deadline
\* missed (mapper.go:22-25), which the row itself does not say.
OutboxTellsTheTask ==
  \A t \in TaskId :
    /\ tasks[t] # None <=> EventsOf(t) # {} /\ Gone(t) = {}
    /\ EventsOf(t) # {} => \E e \in EventsOf(t) : e.type = "created"
    /\ \A e \in Told(t) :
         (\A f \in Told(t) : f.at <= e.at) =>
           \E row \in LastRow(t) : LastRow(t) = {row} /\ SaidAt(e.content, row, e.at)

\* The place of an event in the story of its task: the creation, and then the
\* updates by version.
Place(e) == IF e.type = "created" THEN 1 ELSE e.version + 2

\* What a consumer reads in the events of a task when it goes by their places.
Story(events) ==
  [i \in {Place(e) : e \in events} |-> (CHOOSE e \in events : Place(e) = i).content]

Log == INSTANCE TaskLog WITH
  row <- tasks,
  log <- [t \in TaskId |-> Story(Told(t))],
  closed <- [t \in TaskId |-> {e.content : e \in Gone(t)}]

\* Transactions of several steps, some of which wait or fail, amount to single
\* changes of rows, each of which appends to the log of its task an entry that
\* tells the row as it is from then on; what was said once is never changed
\* (postgres.go:38-650).
OutboxIsALog == Log!LogSpec

-----------------------------------------------------------------------------
(* The inductive strengthening *)

\* What a slot's transaction has written, nobody else's can have.
TransactionsHoldTheRow ==
  \A w \in Writer : slot[w].pc \in {"updated", "inserted"} =>
    /\ tasks[slot[w].task] # None
    /\ \A x \in Writer : InTransaction(x, slot[w].task) => x = w

\* No stamp lies ahead of the clock, and no version ahead of its stamp, which
\* is why versions stay below MaxTime.
StampsArePast ==
  /\ \A e \in Events : e.at < clock /\ e.version <= e.at
  /\ \A w \in Writer :
       slot[w].pc \in {"inserted", "stamped"} =>
         slot[w].at < clock /\ slot[w].version <= slot[w].at

\* Two events of one task: one creation, one deletion, and updates that follow
\* the creation and agree on their order.
OneStoryPerTask ==
  \A e, f \in Events :
    e.task = f.task =>
      /\ e.type # "update" => e.version = 0
      /\ e.type = f.type /\ e.type # "update" => e = f
      /\ e.type = "created" /\ f.type = "update" => e.at < f.at
      /\ e.type = "update" /\ f.type = "update" =>
           /\ e.version < f.version <=> e.at < f.at
           /\ e.version = f.version => e = f

\* The updates of a task are numbered from 0 on.
NumberedFromZero ==
  \A t \in TaskId : \E n \in 0 .. MaxTime : UpdateVersions(t) = 0 .. n - 1

\* What a transaction has read back tells what it has written.
ReadBackTells ==
  \A w \in Writer : slot[w].pc \in {"updated", "inserted"} =>
    SaidAt(slot[w].told, slot[w].row, IF slot[w].pc = "inserted" THEN slot[w].at ELSE clock)

\* The event a transaction is about to commit still is the next one.
InsertedIsNext ==
  \A w \in Writer : slot[w].pc = "inserted" =>
    /\ UpdateVersions(slot[w].task) = 0 .. slot[w].version - 1
    /\ \A e \in Told(slot[w].task) : e.at < slot[w].at

StoreIInv ==
  /\ StoreTypeOK
  /\ TransactionsHoldTheRow
  /\ StampsArePast
  /\ OneStoryPerTask
  /\ NumberedFromZero
  /\ InsertedIsNext
  /\ ReadBackTells
  /\ OutboxTellsTheTask
=============================================================================
