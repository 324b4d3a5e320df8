# tasks-service in TLA+

Models of the Go service under `src/app`: a to-do list with personal tasks,
tasks shared by two users, tags, subscriptions and reminders. The service keeps
its data in PostgreSQL, caches it in Redis and announces changes of personal
tasks on Kafka through an outbox table. The modules here state what its
concurrent requests, workers and failures may do to that data, TLC checks it
on small instances, and TLAPS proves part of it for every instance.

To repeat the checks: `tlc -config X.cfg M.tla` for the runs below,
`tlapm M.tla` for the modules named `...Proofs`.

## The system

| Part | State | Operations | Talks to |
|---|---|---|---|
| Shared tasks (`internal/shared_tasks`) | `shared_tasks`, `shared_subtasks` | propose, accept, reject, update, counter proposal, delete, toggle a subtask | subscriptions (may propose), users-service (messages between the partners) |
| Administrator's operations (`tasks/repository/postgres`, `tasks/handlers`) | `admin_deleted`, `user_ack` of both kinds of task | soft delete, acknowledge, restore | users-service (WebSocket notices), the cache |
| Task store (`tasks/repository/postgres`) | `tasks`, `outbox_events` | create, batch create, update, delete | the outbox, in the same transaction |
| Outbox relay (`internal/worker/worker.go`) | the batch it works on; `attempts`, `processed_at` | poll, hand over, mark | Kafka client |
| Kafka client (`pkg/client/kafka`) | buffer of an asynchronous writer | write, close | Kafka |
| Task cache (`tasks/repository/redis`, `tasks/handlers`) | `task:*`, list keys, tracking sets | cache-first reads, fills from goroutines, invalidation | every handler of tasks and tags |
| Batch creation (`tasks/batch`) | a channel and a batch | enqueue, flush, drain | task store, cache, shutdown |
| Subtasks of personal tasks (`tasks/service`) | `subtasks` | add, toggle, rename, delete, automatic completion | task store |
| Reminders (`internal/worker/reminder.go`) | flags per window | poll, send, mark | gateway |
| Subscriptions (`tasks/service/subscription.go`) | `user_subscriptions` | upsert from the users-service | reminders, shared tasks |
| Tags (`internal/tags`) | `custom_tag`, tag cache | create, rename, delete | task cache |
| Resilience (`pkg/api/resilience`) | breakers, semaphores | wrap a handler | every route |
| Process (`cmd/main.go`) | goroutines, connections | start, ordered shutdown | all |

Hard behaviours: handlers that read a row in one statement and act on it in
another; row locks and READ COMMITTED snapshots; goroutines that finish after
the response and in any order; a relay with at-least-once marks and an
asynchronous writer behind it; crashes between two writes; queues and
semaphores at their limit; deadlines. `PROJECT.json` lists them as hazards, each
at its line.

What makes each part correct:

- *Shared tasks.* One negotiation per task, answered once and by the user who is
  asked; only the two partners have a say; messages reach the partner and are
  true; an acknowledgement never outlives the deletion it is for.
- *Store and outbox.* The outbox tells the table's story: same existence, what
  each row says as far as the conversions keep it, in the order of the commits, with unique keys.
- *Relay.* Nothing marked that was not handed over; order and uniqueness broken
  by failures only; everything readable goes out.
- *Cache.* What is cached is, or is about to be corrected to, what the table says, but for
  causes that can be named: copies written late, corrections lost, a request cached in place of its row, a deadline,
  another user's tasks in a list by tag. An invalidation finds every list.
- *Batch.* What was accepted is inserted, or its own flush failed.
- *Subtasks.* A task completes exactly when its subtasks do.
- *Reminders.* At most one per window if nothing fails, at least one if the worker runs.
- *Tags.* A cached tag, list of tags or task shows no name that was changed, with the same exceptions.
- *Resilience.* Never more requests inside than permits; an open breaker closes again.

## Modules

### `SharedTaskNegotiation`, `SharedTasks`

`SharedTaskNegotiation` is what two users may rely on: an offer between two
users, counter offers that only the user asked may make, one answer by that user, and
closing. It knows nothing of statements, reads or messages.

`SharedTasks` is the code. `row`, `present` and `subs` are the tables; a row keeps
its last columns after its deletion, so that properties can speak of what was
deleted. `slot` holds the requests of more than one statement:

| Code | Actions |
|---|---|
| `Propose`, `Accept`/`Reject` (`Respond`), `ToggleSubtaskDone` | one action each: one statement or transaction |
| handler and service `Update` | `UpdateRead` (row for the message), `UpdateBranch` (row for the choice), then `EditWrite` or `CounterWrite` |
| repository `Delete` | `DeleteRead`, `DeleteWrite` |
| `AdminSoftDeleteShared`, `AcknowledgeAdminDeletionShared` | one action each |
| `AdminRestoreShared` | `RestoreRead`, `RestoreWrite` |
| goroutine sending a message | the slot in stage `notify` |
| error, timeout, crash, message sent or lost | `Finish` |
| the clock passing `due_date` | `DeadlinePasses` |

Terms stand for title, description and priority. A subtask is known by its
assignee; `None`, or who ticked it, is its state. `author`, `decider` and
`deleter` are history. A request body may leave subtasks alone (`Keep`) or
rewrite them. Lists and single reads change nothing and are not actions.

A user is one value, so every user is taken to have one spelling. The service compares the ids of a proposal as strings
(service.go:39) before PostgreSQL casts them to `uuid` (repository.go:48): another spelling of one's own id would pass, and what
`DistinctParties` gives the properties and theorems would be lost.

### `TaskPayload`

What a task says in a request, in its row and in an event, and the conversions between them. `Text` stands for the columns that are
copied everywhere; status and tag are rewritten on the way:

| Code | Definition |
|---|---|
| `INSERT INTO tasks` with the tag resolved by name, by id or by default | `RowOf`, `ResolvedTag` |
| `UPDATE tasks SET` | `Patched` |
| event of a creation: `toTaskPayload` of the request, its tag not resolved, `created_at` zero | `RequestPayload` |
| event of an update: `modelToEntity` of the row read back, not completed once `due_date` has passed | `RowPayload`, `ShownStatus` |
| event of a deletion: `json_build_object` of the deleted row, without the name of the tag | `DeletedPayload` |

`Tells` is what all of them keep: the text, a tag that resolves to the row's, and the status, unless a task in progress is told as not completed.

### `TaskOutbox`

`tasks` is the table of personal tasks, `outbox` the committed rows of
`outbox_events`: a function from the immutable columns of an event to its mutable
ones (`attempts`, `processed_at`). `Create` stands for the single
statement of `Create` and the transaction of `CreateBatch`. `Update` is
`UpdateRow` (takes the row lock, reads the row back), `InsertEvent` (`MAX(version) + 1` over what is
committed, time stamp), `Commit`. `Delete` is `DeleteStamp`, which reads the clock before
the statement as the code does, and `DeleteExec`. `Rollback` ends either at any point.
Every reading of the clock gives a stamp of its own; instances of the service with
clocks that differ, and equal microseconds, are not modelled. The constraint
UNIQUE is not a guard of the model: `KeysAreUnique` says that it is never needed.

The statements that set only flags of a row (the administrator's, the marks of reminders) insert no event; they are in
`PersonalTask` and `Reminder`. Nor does anything tell a consumer that a deadline has passed: an event made before says
`in_progress` for as long as the task is not changed, while every reader of the row computes `not_completed`.

`TaskLog` is what the outbox promises a consumer, without transactions, versions or stamps: a log per task that only grows,
to which every change of the row appends, in the same moment, an entry that tells the row as it is from then on (`Tells`). `OutboxIsALog` maps the outbox to it: `Place` is where a
consumer that goes by version puts an event, `Story` the contents in that order, and the deletion closes the log. Only `Create`,
`Commit` and `DeleteExec` are steps of the log; it does not see the others.

### `OutboxRelay`

Extends `TaskOutbox`, whose writers go on while the worker works: `GetUnprocessedEvents`
(the batch, in order of `created_at`, ties in any order), `HandOver` and `FailEvent` (one event;
`MarkAsFailed` may itself fail), `MarkBatchAsProcessed` or `MarkBatchFails`, `Crash` (process ends and
restarts: the batch is forgotten, transactions roll back). Only the worker changes `attempts`, so the
value fetched with the batch is the current one. `Readable` is `json.Unmarshal` of the payload: `Delete`
has PostgreSQL write `due_date` and `created_at` of type `TIMESTAMP`, that is without a zone, which
`time.Time` refuses; the payloads of the other events are written by Go. What a successful
`Write` means is that the asynchronous writer took the event (`taken`), not that a broker has it.

### `BatchCreate`

`taskCh`, `batch` and the place in `flushCreate` (`stage`, `todo`) are the worker's; `answer` is what the callers were told.

| Code | Actions |
|---|---|
| `EnqueueCreate`; the handler's synchronous fallback | `EnqueueCreate`, `CreateFallback` |
| `select` of `runCreateWorker` | `Collect`, `Tick`, `ContextDone`, `ChannelDrained` (the inner loop's `default`); two ready cases are taken in either order |
| `flushCreate` | `InsertTagged` per task, `InsertSimple` for the others at once, `StartCaching` per task, `FlushGoesOn` between them and at its end |
| goroutine that caches | `CacheTask` |
| signal, `Shutdown`, deferred calls of `main`, end of the process | `ShutdownGoesOn`, one step each |

An insertion fails because PostgreSQL refuses one of its rows, or because the flush has run out of time: its insertions share one
context of 15 seconds (`DeadlinePasses`, `expired`), so that one slow row makes all that are left of the batch fail. `missed` records which;
after `pgClient.Close` every one fails. `CreateBatch` is one transaction, so
its rows share their fate (`InsertRows`). `Close` of the pool waits for connections in use, hence an insertion is one
step beside it. Requests in progress may enqueue until the process ends: `Shutdown` waits ten seconds for them and does not stop the slower ones.
The delete worker has no caller of `EnqueueDelete` and is left out, as are the lists that
the goroutines invalidate.

### `PersonalTask`

One personal task and its subtasks. Every SQL statement commits on its own; `req` holds the
requests of several statements by the one that is next.

| Code | Actions |
|---|---|
| service `CreateTask` | `CreateRow`, then `CreateSubtasks` or `CreateSubtasksFails` |
| `ToggleSubtaskDone` | `ToggleDone`, `AreAllDone`, `Complete` |
| `UpdateTask` | `UpdateStatus`, `UpdateDue` |
| `AddSubtask`, `DeleteSubtask`, `DeleteTask` with its cascade | one action each |
| `AdminSoftDelete`, `AcknowledgeAdminDeletion` | one action each |
| `AdminRestore` | `RestoreRead`, `RestoreWrite` |
| a failed statement, the end of the process | `StatementFails`, `LoseRequests` |

`wanted`, `missed`, `auto` and `openedSince` are history: the subtasks `Create` was asked for,
whether the rule of automatic completion was set aside after the last tick, and what its last count could not know.
Renaming a subtask changes a text that no property is about.

### `Reminder`

Extends `PersonalTask`, whose requests run beside the worker. The clock counts minutes. `Minute` fills the
ticker's channel, which has one place; `StartPoll` begins a poll, which visits the windows in order:
`FindTasksDueForReminder`, `SendReminder`, `MarkReminderSent`, with `FindOrSendFails`, `AnswerLost` and `MarkFails`
for what may go wrong, and `Crash`. `UpsertSubscription` is `SyncSubscription`. `sent` are the columns
`reminder_..._sent_at`. `excused` is history: the windows in which something happened that
excuses the worker. A request is one transaction to the worker, so `SendReminder` sends the task as it was found.

### `TrackedCache`

What a group of Redis keys with a tracking set promises; both caches are shown to implement it. A key stored between the two
commands of an invalidation (`SMEMBERS`, then `DEL` of what was found and of the set) loses its place in the set,
and no later invalidation finds it: `overlapped`. Nothing else makes a key unreachable.

### `TaskCache`

The tasks of one user, `task:<id>`, the lists under their keys, and `user_list_keys`. A copy is known by the number of the change it was
read after, and by whether it is of the row or of the request, so the contents of tasks need no values. A change is most often a commit; the passing of a deadline is another, because
the status that is read and cached depends on the time. `job` is the Redis work in progress: a goroutine, or the
thread of a handler that corrects the cache itself. Each Redis command is a step.

| Code | Actions |
|---|---|
| handlers `Create`, `Update`, `Delete`, `AddSubtask`, `ToggleTaskSubtask`, those of the administrator, of personal and of shared tasks | the commit and the start of the work, or its being given up when `redisSema` is full |
| the batch worker caching a task whose insertion failed | `CreateRefused` |
| `modelToEntity` and `scanTasks` computing another status from now on | `DeadlinePasses` |
| other users' tasks under a default tag, which `FindByTag` also lists | `OtherUserWrites` |
| `FindOne`, `GetList`, `GetListByTag` on a miss | `FindOne`, `GetList`, `GetListByTag`: the read, and the start of the fill |
| `SetTask`, `DeleteTask` | `TaskCommand` |
| `InvalidateUserLists` | `Members`, `Drop` |
| `SetList` | `SetList` |
| errors and deadlines of Redis, end of the process, times to live | `CommandFails`, `Crash`, `ExpireTask`, `ExpireList`, `ExpireListKeys` |

A read that hits changes nothing. A statement of PostgreSQL and the start of the work that follows it are one step: nothing
another request does in between can be told from its doing so before the first command. `Create` may leave the lists alone: when it inserts by itself because the
batch channel is full, when the batch worker's semaphore is full, and when its second statement fails.
`tag_tasks` is left out, because `InvalidateTagTasks`, which alone would read it, has no caller.

### `TagCache`

The tags of one user, their cached copies, the cached list of tags, and cached tasks, which show the
name of their tag. `job` holds the commands a request or its goroutine has still to execute, the `UPDATE` and
`DELETE` of PostgreSQL among them, because the test that precedes them is a statement of its own. `TagFromTask` is the
`INSERT` of a tag inside `Create` and `Update` of tasks. A cached task comes from `FindTask`, which copies a row, or from `CreateTask`, which copies the
request: without a name if the tag was given by its id (`asked`). `CreateUncached` is a creation that nobody caches.

## Runs

| Run | Instance | Shows |
|---|---|---|
| `shared_tasks` | 3 users of whom 2 may propose and be assigned, 1 task, 2 slots | all properties of `SharedTasks`, and that it implements the negotiation |
| `shared_delete_pending` | the same | finding: the addressee's pending task is deleted |
| `shared_edit_pending` | the same | finding: pending terms are not the proposer's |
| `task_outbox` | 2 tasks, 2 texts of which one has an early deadline, 2 tags, 2 writers, 5 stamps | all properties of `TaskOutbox`, and that it implements `TaskLog` |
| `outbox_relay` | 1 task, 2 writers, 4 stamps, batches of 2, 1 counted attempt | safety and liveness of the relay, whose skipped events are tried again |
| `batch_create` | 3 tasks of which 1 with a tag, a channel of 1, batches of 2, 1 place in the semaphore | safety and liveness of the batch worker, shutdown included |
| `batch_create_drain` | the same with a channel of 2 | finding: what the drain inserts is lost |
| `personal_task` | 3 subtasks, 2 requests, deadlines 0 and 1 | completion and acknowledgement of `PersonalTask` |
| `personal_task_atomic` | 2 subtasks, 1 request | finding: a task stays without its subtasks |
| `reminder` | no subtasks, 1 request, windows of 4 and 1 minutes, 7 minutes, 2 deadlines, 2 dates of expiry | both properties of `Reminder` |
| `task_cache` | 1 task, 1 list of the user and 1 by tag, 2 jobs, 1 place in the semaphore, 2 changes | stale copies are explained; lists are a `TrackedCache` |
| `tag_cache` | 2 tags, 2 names, 2 cached tasks, 2 jobs, 2 commits | stale names are explained; tasks are a `TrackedCache` |

Why the bounds are enough. *Shared tasks*: rows of different tasks share no state, so one task
suffices; every race the code allows is between a read-then-write request and
single statements of the others, or between two such requests, which two slots and the
single-statement actions give; a third user is needed to see an outsider fail. One value of the terms
is enough, because authorship, not the text, is what the properties tell apart, and a change that is
announced is there through the deadline. *Outbox*: two writers are enough to
collide on a version, on the row lock or on a stamp; five stamps are two creations and
three updates or deletions. The deadline of one text passes with the second stamp, so events of a task in progress are made before and
after it; one request gives a name and an unknown id, the other leaves its tag to the default. *Relay*: a batch of two of up to four events leaves
events behind; the properties relate events of one task only; the deletion is the event that
fails always. With `MaxAttempts` = 1 the branch past the maximum is reached, as 5 would later.
*Batch*: every limit is met by three tasks: the channel
overflows, a batch is filled by two and left to the ticker by one, a tagged and an untagged task share a batch, two untagged ones share a
transaction, and a second goroutine finds no place. Every task is requested once.
*Personal tasks*: two toggles at once, and a third subtask that is opened or deleted meanwhile.
*Reminder*: windows that do not overlap, as 60, 15 and 5 do not, a deadline that moves from one window to another,
and a subscription that ends between two windows. Subtasks matter to the worker only through the status, which `UpdateStatus` writes as well.
*Caches*: every race is between two jobs, the one that fills and the one that corrects, or two that correct; with one
place in the semaphore the second goroutine is given up. Tasks that exist at the beginning spare the change of
their creation, so that two changes make an update overtake an update, or a deletion a fill. The two cached tasks
of `tag_cache` and the two lists of `task_cache` are needed for the one that is stored while an invalidation has found only the other.
The bounds on clocks are guards named `MaxTime`, those on what may change `MaxChanges` and `MaxCommits`; the constants 1000 and 5 of the worker are
`BatchSize` and `MaxAttempts`.

Symmetry is used in the runs without liveness: slots, tasks and contents are
interchangeable, and of the users those that may propose.

`batch_create` does not check for deadlock, because the process may exit; nor does `personal_task`, where nothing
is left to do for a task that is gone, nor `reminder`, whose clock stops at its bound.

Fairness is assumed in `outbox_relay` and `batch_create`. In the latter it is weak fairness of the worker's loop: its
ticker goes on and it never waits for anything but PostgreSQL, whose statements have a deadline of 15 s. Liveness is claimed while the
process serves. In `outbox_relay`: weak fairness of polling, of working off a batch
and of ending it: they are one goroutine, driven by a ticker, that never waits for anything else. Strong fairness of
`HandOver` and of `MarkBatchAsProcessed`: errors of Kafka's client and of the database are transient, and the worker tries again in
every poll. Crashes are unrestricted, so liveness is claimed of behaviours in which they stop
(`<>[][~Crash]_vars`). Users and writers are never assumed to act.

`AllReadableProcessed` has a premise that the code does not enforce: the deletions that are not marked are fewer than the places in a
batch. A deletion is never read and never given up, although the log says that it is skipped (worker.go:74), and keeps its place. The
service stops relaying altogether when 1000 deletions have gathered at the head of the queue; `DeletionsNeverLeave` and
`OnlyDeletionsStarve` below state this for every batch size.

## Proofs

`SharedTasksProofs` proves, for any sets of users, tasks, terms and slots, from the assumptions that
subscribers and assignees are users and that `None` is none of the values:

- `TypeCorrect`, then `InductiveInvariant` (`IInv`), and from it the five state
  properties of the run and the action property `CounterNoticeAsksAddressee`;
- `RefinesNegotiation`: every step of the code is a step of `SharedTaskNegotiation` or leaves it unchanged.

The state properties alone are not inductive. A message's recipient is computed from a row read
before; so `SeenStaysTrue` carries what remains true of that row
while others write: the reader and the partner found in it are its
two participants (counter proposals only swap them), and an accepted task stays accepted.
`TwoParties` (the parties differ) makes the swap a swap, and `DeleteHasRead` ties the deletion to its read.

`TaskOutboxProofs` proves, for any tasks, contents, writers and bound on the clock, the type
invariant, `UniqueKeys`, `NumberedUpdates`, `OutboxAgrees` and the refinement of `TaskLog` (`OutboxLog`). They follow from `StoreIInv`, whose
conjuncts have a lemma each (`TypeStep`, `TransactionsStep`, `StampsStep`, `StoryStep`, `NumberedStep`,
`InsertedStep`, `ReadBackStep`, `TellsStep`). What the conversions keep is shown once per conversion (`RequestTells`, `RowTells`, `DeletedTells`). What the properties lack:

- `TransactionsHoldTheRow`: a transaction that has written a row is alone with it. This is the row lock, and
  everything about versions rests on it.
- `InsertedIsNext`: the version and the stamp a transaction computed earlier are still the next ones
  when it commits. `NumberedFromZero` then makes `MAX(version) + 1` the length of a gapless sequence.
- `StampsArePast`: an event is older than the clock, and its version is at most its stamp, which bounds versions by
  `MaxTime`.
- `ReadBackTells`: the copy a transaction has read back tells the row it wrote, also when the deadline passes between reading and stamping.
- `OneStoryPerTask`: one creation, at most one deletion, and updates in the order of their numbers.

For the refinement `PlacesFill` turns these into a statement about sequences: the places of a task's events are `1 .. n + 1`, each taken
once. `StoryGrows` then says that an event at the next place appends, and `InsertedIsNext` that a commit has such an event.

`OutboxRelayProofs` proves the safety of the worker beside that store, for any batch size and number of attempts:
`NothingLost`, `OrderKept`, `RetriesExplained`, the types, and that the outbox stays a log beside the worker (`LogKeptBeside`). `RelayIInv` adds `TakenIsAccounted` (what
Kafka's writer took is marked, about to be marked, or its mark was lost) and `BatchHasThePast` (a batch leaves no older
event of its tasks behind). The second one rests on the store: `NewIsLatest` shows that an
event which is committed while a batch is worked off is later than all its task was told before. This is
where `StoreIInv` is needed again, and why the two are proved inductive together (`StoreUndisturbed` carries it over
the worker's steps and crashes). Three more theorems need no further invariant:

- `PrefixTaken`: as long as no attempt at an event of a task has failed, what Kafka's writer took of the task is its log from the
  creation on, without a gap (`OrderKept` with `PlacesFill`).
- `DeletionsNeverLeave`: a deletion is never taken, hence never marked, and is fetched again in every poll that reaches it.
- `OnlyDeletionsStarve`: with finitely many tasks, a poll that fetches nothing it can read although there is something has met
  `BatchSize` unmarked deletions, none later than what it leaves behind. Fairness apart, this is why `AllReadableProcessed` holds,
  why its premise is needed, and what happens when there are as many deletions.

`PersonalTaskProofs` proves the type invariant and the three properties of `PersonalTask` for any number of subtasks and
requests. `IInv` adds `CountIsRemembered` (a request about to complete the task knows of every subtask opened since it counted).

The same module proves both properties of the worker of `Reminder`, which extends `PersonalTask`, for any windows, overlapping ones too, any deadlines and subscriptions.
`ReminderIInv` adds the place of the worker: `WorkerWillCome` (a window that has begun, of which no reminder is out and for which
there is no excuse, is not over, and the worker is yet to come to it in this poll or in the one a tick waits for) and `ReminderIsKnown` (a reminder
that is out is marked, about to be marked, known to be unmarked, or its task is gone). Why no window is missed is the case `Minute`: a window that
begins is two minutes wide, and a poll ends within the minute or the worker is late.

`TrackedCacheProofs` proves the promise of `TrackedCache` for any keys and invalidations, from `FoundTheRest`: what an invalidation in progress has not found came later.

`TaskCacheProofs` proves the types of `TaskCache`, with the bound of the semaphore, its refinement of
`TrackedCache` (`ListsTracked`) and both explanations of stale copies, for any keys, tasks and number of jobs. `CacheIInv` is their conjunction with the
promise of `TrackedCache`, whose lemmas are used through an instance: an invalidation that finds no key has missed no list but
those stored in its own gap, and only the promise says so. `Begins` states what all handlers have in common, so each property is
shown once for it, once per Redis command, and once for what leaves Redis alone. Deadlines and other users' writes change what the database says without
any job; the copies they leave stale are recorded as they happen (`agedTask`, `agedList`, `foreign`). A request that was cached explains itself as long as
nobody has changed its task: every change sends a correction of its own.

`TagCacheProofs` proves the same of `TagCache`: its types, its refinement of `TrackedCache` (`TasksTracked`) and the three explanations of stale
names, for any tags, names, tasks and number of jobs. What is stale is explained by a command that is still to be executed, so `TagIInv` has to
know that no step loses one:

- `JobsInOrder`: a statement of PostgreSQL is the only command of its request, and the `DEL` of an invalidation is the first command of its job, so that what
  a step takes from a job is the command it executes and nothing else (`Continues`, `QueueKept`).
- `TagsWereUsed`: no command and no copy has the id of a tag that was never created. A tag that comes with a task, of which nobody tells Redis, therefore
  makes no copy of a tag stale, only the list.
- the promise of `TrackedCache`: `SMEMBERS` finds every stale copy but those stored in the gap of another invalidation.

`Quiet` states what the steps that leave Redis alone have in common: a name changes only if the corrections are sent with it, or with a tag of which
Redis has no copy. A pending `SET` is no explanation: were it lost, the copy would stay. Only a `DEL`, whose loss is recorded, is.

`BatchCreateProofs` proves the four safety properties of `BatchCreate` for any requests and any sizes of channel, batch and semaphore.
`BatchIInv` adds `WorkerInLine` (a worker that collects has room), `RowsAreTold` (in a batch, places the insertions have
come to are rows or have failed, and those they have not come to are neither), `CompanionsExplained` (a row that failed with another shares its batch) and `TimeoutsExplained` (one that ran out of time is of a flush whose context did). `AcceptedIsInOnePlace` is
needed for these: the places of a batch hold different tasks, none of which is in the channel or was flushed.

The assumptions are those of the modules: the bounds and deadlines are numbers, a batch has at least one place, there is at least one window and deadline, no set of tasks of `TagCache` is `None`, the jobs of `TaskCache` are finitely many, `None` is
none of the values.

Only model-checked: the two liveness properties, `AllReadableProcessed` of the relay and `AcceptedGetsFlushed` of the batch worker. The
proof system does not do liveness under fairness.

## Findings

Described in `PROJECT.json` with the lines they quote: two check-then-act
races of shared tasks (delete, edit); the creation of a task with subtasks, which handler.go:252 wants atomic and which is two
statements; and the drain of the batch worker, which starts when the database is already closed.

The relay contradicts its own log: worker.go:74 says "skipping" of an event past the maximum of attempts, but nothing
records the decision, and the next poll fetches and tries it again. `AllReadableProcessed` says the good side of it, that such an event still
goes out once it can; `DeletionsNeverLeave` the bad one. This matters in practice, since every deletion is such an event: its payload holds the
times of `TIMESTAMP` columns, without the zone that `time.Time` asks for.

Behaviours the models show that no comment or document rules out:

- A fill that read a row before a change may reach Redis after the invalidation, even one that the handler made before it answered;
  the copy then stays for up to 24 hours (`lateTask`, `lateList`, `lateTag`). A deleted task can be found so.
- The batch worker caches every task of a batch, also those whose insertion failed: a task that does not exist is found for 24 hours.
- The copy that `Create` caches is the request: `created_at` is zero, and a tag given by its id has no name.
- A cached status does not follow the deadline, and neither does an event: a task in progress is shown so for up to 24 hours after it.
- A list by a default tag holds other users' tasks, and is not invalidated when they change.
- A slow tagged row makes the rest of its flush fail, the transaction of the untagged tasks included.
- A list stored between `SMEMBERS` and `DEL` is out of reach of every later invalidation (`overlapped`).
- `UpdateTagsRedis` stores a copy without id, which `FindOne` never takes for a hit: after a rename the tag is
  read from the database until it is cached again.
- Cached lists of tasks keep the old name of a tag after its rename: only single tasks are invalidated. A tag created with a
  task does not appear in a cached list of tags.
- A toggle whose count fails leaves a task with all subtasks done open.
- The columns that mark a reminder are not reset when `due_date` moves, so a window that was announced for
  the old deadline is not announced for the new one; a task an administrator deleted is still announced.

## Plan

Done: the modules above. Left, in this order:

1. The buffer of Kafka's writer with its `Close`, beside a simplified relay.

## Not modelled

- Kafka client: the buffer of an asynchronous writer is the library's. Composed with `OutboxRelay` it gives more than
  12 million states on the smallest useful instance, too many for TLC; `OutboxRelay` ends where the writer takes an event.
- Resilience middleware: breaker and limiter are libraries; `src/` holds their configuration.
- Signature middleware, configuration, logging, metrics, filters and sorting: stateless, or
  of no consequence to the state. Of the DTOs and mappers, what changes a status, a tag or a name is modelled, the rest is a copy.
- Notification clients: one HTTP request each, whose loss the modules that send allow for.
- `DeleteBatch`, `EnqueueDelete`, `InvalidateTagTasks`, `WriteSync`, `MarkAsProcessed` and
  `app/worker/reminder_worker.go`: nothing in production calls them.
- Several instances of the service at once: the relay takes no lock on the rows it fetches and is deployed once.
