-------------------------------- MODULE TaskCache --------------------------------
(***************************************************************************)
(* The personal tasks of one user and their copies in Redis: one key per   *)
(* task, one key per list (per combination of tag, filters and order), and *)
(* the set user_list_keys of the list keys in use.                         *)
(*                                                                         *)
(* Handlers read cache-first and fill the cache from goroutines that run   *)
(* after the response.  Handlers that write correct the cache afterwards:  *)
(* some in their own thread, some in a goroutine, which is given up when   *)
(* the semaphore redisSema is full.  Every Redis command is a step of its  *)
(* own.  A copy is known by the change it was read after, so that a stale  *)
(* copy can be told from a true one, and by whether it is of the row or of *)
(* the request that created the task.  A change of what a task shows is    *)
(* most often a commit; the passing of a deadline is another: the status   *)
(* that tasks and lists are read with, and cached with, depends on it.     *)
(***************************************************************************)
EXTENDS Naturals, FiniteSets

CONSTANTS
  Task,        \* tasks of the user
  ListKey,     \* keys of lists of GetList and of GetListByTag
  TagListKey,  \* those of GetListByTag
  Job,         \* Redis work that can be in progress at a time
  SemaSize,    \* redisConcurrencyLimit, 500 in the code
  MaxChanges,  \* bound: number of changes of what tasks show
  RedisFails,  \* whether Redis commands may fail, and the process may crash
  None         \* no value

VARIABLES
  \* PostgreSQL
  clock,       \* number of changes
  life,        \* life[t]: "unborn", "present", "gone", or "refused" if not inserted
  flag,        \* flag[t]: what admin_deleted and user_ack say
  content,     \* content[t]: the last change of what task:t copies
  listing,     \* listing[t]: the last change of what lists copy of t
  others,      \* the last change of what tag lists show of other users, or None
  \* Redis
  cachedTask,  \* task:t
  cachedList,  \* the list under key k
  listKeys,    \* user_list_keys
  \* the process
  job,         \* job[j]: Redis work in progress
  \* History, read by no action:
  overlapped,  \* list keys stored between the two commands of an invalidation
  lateTask,    \* tasks whose copy was written late, or not corrected
  lateList,    \* list keys whose copy was written late, or not corrected
  agedTask,    \* tasks with a copy from before the deadline
  agedList,    \* list keys with a copy from before a deadline
  foreign      \* list keys with a copy from before a change by another user

dbVars == <<clock, life, flag, content, listing, others>>
redisVars == <<cachedTask, cachedList, listKeys>>
unannounced == <<agedTask, agedList, foreign>>
history == <<overlapped, lateTask, lateList, unannounced>>
vars == <<dbVars, redisVars, job, history>>

Change == 0..MaxChanges
Copy == [from : {"row", "request"}, at : Change]
View == [own : [Task -> Change \cup {None}], others : Change \cup {None}]

ASSUME CacheAssumption ==
  /\ TagListKey \subseteq ListKey
  /\ IsFiniteSet(Job)
  /\ SemaSize \in Nat /\ MaxChanges \in Nat
  /\ RedisFails \in BOOLEAN
  /\ None \notin Change /\ None \notin Copy /\ None \notin View
  /\ \A keys \in SUBSET ListKey : keys # None

\* The work of a goroutine or of a handler's own thread, by its next command.
\* "task": SetTask with a value, or DEL; "members" and "drop": the two commands
\* of InvalidateUserLists; "list": SetList.
Work ==
       [step : {"task"}, task : Task, value : Copy \cup {None},
        lists : BOOLEAN, sema : BOOLEAN]
  \cup [step : {"members", "drop"}, task : Task, keys : SUBSET ListKey,
        sema : BOOLEAN]
  \cup [step : {"list"}, key : ListKey, view : View, sema : {FALSE}]

Idle == [step |-> "idle", sema |-> FALSE]

TypeOK ==
  /\ clock \in Change
  /\ life \in [Task -> {"unborn", "present", "gone", "refused"}]
  /\ flag \in [Task -> {"none", "deleted", "acknowledged"}]
  /\ content \in [Task -> Change] /\ listing \in [Task -> Change]
  /\ others \in Change \cup {None}
  /\ cachedTask \in [Task -> Copy \cup {None}]
  /\ cachedList \in [ListKey -> View \cup {None}]
  /\ listKeys \subseteq ListKey
  /\ job \in [Job -> Work \cup {Idle}]
  /\ Cardinality({j \in Job : job[j].sema}) <= SemaSize
  /\ overlapped \subseteq ListKey
  /\ lateTask \subseteq Task /\ lateList \subseteq ListKey
  /\ agedTask \subseteq Task /\ agedList \subseteq ListKey /\ foreign \subseteq ListKey

\* Redis is empty; some tasks exist already.
Init ==
  /\ clock = 0
  /\ life \in [Task -> {"unborn", "present"}]
  /\ flag = [t \in Task |-> "none"]
  /\ content = [t \in Task |-> 0] /\ listing = [t \in Task |-> 0]
  /\ others = None
  /\ cachedTask = [t \in Task |-> None]
  /\ cachedList = [k \in ListKey |-> None]
  /\ listKeys = {}
  /\ job = [j \in Job |-> Idle]
  /\ overlapped = {} /\ lateTask = {} /\ lateList = {}
  /\ agedTask = {} /\ agedList = {} /\ foreign = {}

-----------------------------------------------------------------------------
(* Helpers *)

\* FindByUser hides what the user has acknowledged, FindByTag does not.
Listed(k, t) ==
  life[t] = "present" /\ (flag[t] = "acknowledged" => k \in TagListKey)

\* What FindByUser or FindByTag returns for the list k.  FindByTag does not ask
\* whose the tasks are, and the default tags are everyone's.
ViewOf(k) ==
  [own |-> [t \in Task |-> IF Listed(k, t) THEN listing[t] ELSE None],
   others |-> IF k \in TagListKey THEN others ELSE None]

EmptyView == [own |-> [t \in Task |-> None], others |-> None]

\* modelToEntity of the row.
RowOf(t) == [from |-> "row", at |-> content[t]]

\* dtoToEntity of the request that created t: created_at and, unless it was given,
\* the tag are not yet known.
RequestOf(t) == [from |-> "request", at |-> content[t]]

\* A cached copy that is not what the database says.
StaleTask(t) ==
  cachedTask[t] # None /\ (life[t] # "present" \/ cachedTask[t] # RowOf(t))

StaleList(k) == cachedList[k] # None /\ cachedList[k] # ViewOf(k)

\* A copy of the request, of a task that nobody has changed since, or that was
\* not inserted.
FromRequest(t, v) == v = RequestOf(t) /\ life[t] \in {"present", "refused"}

Free(j) == job[j] = Idle

SemaFree_NeverAsked == TRUE

\* case h.redisSema <- struct{}{}
SemaFree == Cardinality({j \in Job : job[j].sema}) < SemaSize

\* SetTask with the copy v, or DEL of the task's key if v is None, followed by
\* InvalidateUserLists if lists.
TaskWork(t, v, lists, sema) ==
  [step |-> "task", task |-> t, value |-> v, lists |-> lists, sema |-> sema]

Invalidation_ListsOnly(t, sema) ==
  [step |-> "members", task |-> t, keys |-> {}, sema |-> sema]

Invalidation_TaskOnly(t, sema) == TaskWork(t, None, FALSE, sema)

\* invalidateTaskCache and invalidateTaskCacheAsync.
Invalidation(t, sema) == TaskWork(t, None, TRUE, sema)

ListWork(k, view) == [step |-> "list", key |-> k, view |-> view, sema |-> FALSE]

Start(j, w) ==
  /\ Free(j)
  /\ job' = [job EXCEPT ![j] = w]
  /\ UNCHANGED history

CachedTasks == {t \in Task : cachedTask[t] # None}
CachedLists == {k \in ListKey : cachedList[k] # None}

\* What is cached now will not be corrected by the handler that made it stale.
LeaveStale(tasks) ==
  /\ lateTask' = lateTask \cup (tasks \cap CachedTasks)
  /\ lateList' = lateList \cup CachedLists
  /\ UNCHANGED <<job, overlapped, unannounced>>

\* A goroutine if the semaphore has a place, otherwise a line in the log.
StartIfFree(t, w) ==
  \/ SemaFree /\ \E j \in Job : Start(j, w)
  \/ ~SemaFree /\ LeaveStale({t})
-----------------------------------------------------------------------------
(* Transactions *)

Tick == clock < MaxChanges /\ clock' = clock + 1

\* A change of what task:t copies, and with it of what lists copy.
WriteContent(t) ==
  /\ Tick
  /\ content' = [content EXCEPT ![t] = clock']
  /\ listing' = [listing EXCEPT ![t] = clock']
  /\ UNCHANGED others

\* A commit that changes only what lists show: admin_deleted, user_ack.
WriteFlag(t, f) ==
  /\ Tick
  /\ flag' = [flag EXCEPT ![t] = f]
  /\ listing' = [listing EXCEPT ![t] = clock']
  /\ UNCHANGED <<life, content, others>>

-----------------------------------------------------------------------------
(* Handlers of writes *)

\* Create.  With subtasks, or by the batch worker: the request is cached and
\* the lists are invalidated.  Nothing is, when the batch channel is full and
\* the handler inserts by itself, when the batch worker's semaphore is full,
\* and when the second statement of CreateTask fails.
Create(t) ==
  /\ life[t] = "unborn"
  /\ WriteContent(t)
  /\ life' = [life EXCEPT ![t] = "present"]
  /\ \/ \E j \in Job :
          Start(j, TaskWork(t, [from |-> "request", at |-> clock'], TRUE, FALSE))
     \/ LeaveStale({})
  /\ UNCHANGED <<flag, redisVars>>

\* The batch worker's insertion fails.  The error is logged, and the request
\* cached as if the task were there, unless the semaphore is full.
CreateRefused(t) ==
  /\ life[t] = "unborn"
  /\ life' = [life EXCEPT ![t] = "refused"]
  /\ \/ \E j \in Job : Start(j, TaskWork(t, RequestOf(t), TRUE, FALSE))
     \/ UNCHANGED <<job, history>>
  /\ UNCHANGED <<clock, flag, content, listing, others, redisVars>>

\* Update: caches the row its transaction has read back.
Update(t) ==
  /\ life[t] = "present"
  /\ WriteContent(t)
  /\ StartIfFree(t, TaskWork(t, [from |-> "row", at |-> clock'], TRUE, TRUE))
  /\ UNCHANGED <<life, flag, redisVars>>

\* Delete.  The owner, whose lists are to be invalidated, is looked up before,
\* in Redis and then in the database; if both fail, the lists stay.
Delete(t) ==
  /\ life[t] = "present"
  /\ WriteContent(t)
  /\ life' = [life EXCEPT ![t] = "gone"]
  /\ \E j \in Job :
       \/ Start(j, Invalidation(t, FALSE))
       \/ /\ RedisFails /\ Free(j)
          /\ job' = [job EXCEPT ![j] = TaskWork(t, None, FALSE, FALSE)]
          /\ lateList' = lateList \cup CachedLists
          /\ UNCHANGED <<overlapped, lateTask, unannounced>>
  /\ UNCHANGED <<flag, redisVars>>

\* AddSubtask, and ToggleTaskSubtask that does not complete the task: subtasks
\* are never served from the cache, but it is invalidated all the same.
\* UpdateTaskSubtask and DeleteTaskSubtask leave it alone.
ChangeSubtasks(t) ==
  /\ life[t] = "present"
  /\ SemaFree
  /\ \E j \in Job : Start(j, Invalidation(t, TRUE))
  /\ UNCHANGED <<dbVars, redisVars>>

\* ToggleTaskSubtask with which ToggleSubtaskDone completes the task.
CompleteBySubtask(t) ==
  /\ life[t] = "present"
  /\ WriteContent(t)
  /\ StartIfFree(t, Invalidation(t, TRUE))
  /\ UNCHANGED <<life, flag, redisVars>>

AdminDeleteTask(t) ==
  /\ life[t] = "present" /\ flag[t] = "none"
  /\ WriteFlag(t, "deleted")
  /\ \E j \in Job : Start(j, Invalidation(t, FALSE))
  /\ UNCHANGED redisVars

\* AcknowledgeAdminDeletion: the answer does not depend on whether a row
\* matched, nor does the invalidation.
AcknowledgeAdminDeletion(t) ==
  /\ IF life[t] = "present" /\ flag[t] = "deleted"
     THEN WriteFlag(t, "acknowledged") ELSE UNCHANGED dbVars
  /\ \E j \in Job : Start(j, Invalidation(t, FALSE))
  /\ UNCHANGED redisVars

\* AdminRestoreTask of a task whose deadline has not passed.
AdminRestoreTask(t) ==
  /\ life[t] = "present"
  /\ IF flag[t] # "none" THEN WriteFlag(t, "none") ELSE UNCHANGED dbVars
  /\ \E j \in Job : Start(j, Invalidation(t, FALSE))
  /\ UNCHANGED redisVars

\* AdminDeleteSharedTask, AcknowledgeAdminDeletionShared, AdminRestoreSharedTask:
\* the lists of the participants, which show no shared tasks, are invalidated.
\* The acknowledgement also deletes task:<id of the shared task>, which is not
\* there.
SharedTaskChanged(t) ==
  /\ \E j \in Job : Start(j, [step |-> "members", task |-> t, keys |-> {}, sema |-> FALSE])
  /\ UNCHANGED <<dbVars, redisVars>>

-----------------------------------------------------------------------------
(* Handlers of reads *)

\* What FindTask and GetList of the cache do not find: it is not there, or
\* Redis does not answer.
TaskMiss(t) == cachedTask[t] = None \/ RedisFails
ListMiss(k) == cachedList[k] = None \/ RedisFails

\* FindOne that misses.
FindOne(t) ==
  /\ TaskMiss(t)
  /\ life[t] = "present"
  /\ SemaFree
  /\ \E j \in Job : Start(j, TaskWork(t, RowOf(t), FALSE, TRUE))
  /\ UNCHANGED <<dbVars, redisVars>>

\* A list is read; only one with tasks is cached, without asking the semaphore.
ReadList(k) ==
  /\ ListMiss(k)
  /\ ViewOf(k) # EmptyView
  /\ \E j \in Job : Start(j, ListWork(k, ViewOf(k)))
  /\ UNCHANGED <<dbVars, redisVars>>

GetList(k) == k \notin TagListKey /\ ReadList(k)

GetListByTag(k) == k \in TagListKey /\ ReadList(k)

-----------------------------------------------------------------------------
(* Redis commands *)

\* What follows the command on the task's key.
AfterTask(w) ==
  IF w.lists
  THEN [step |-> "members", task |-> w.task, keys |-> {}, sema |-> w.sema]
  ELSE Idle

\* SetTask or DeleteTask.
TaskCommand(j) ==
  LET w == job[j] IN
  /\ w.step = "task"
  /\ cachedTask' = [cachedTask EXCEPT ![w.task] = w.value]
  /\ lateTask' = IF \/ w.value = None \/ FromRequest(w.task, w.value)
                    \/ life[w.task] = "present" /\ w.value = RowOf(w.task)
                 THEN lateTask \ {w.task} ELSE lateTask \cup {w.task}
  /\ agedTask' = agedTask \ {w.task}
  /\ job' = [job EXCEPT ![j] = AfterTask(w)]
  /\ UNCHANGED <<dbVars, cachedList, listKeys, overlapped, lateList, agedList, foreign>>

\* InvalidateUserLists, SMEMBERS: nothing to do if the set is empty.
Members(j) ==
  LET w == job[j] IN
  /\ w.step = "members"
  /\ job' = [job EXCEPT ![j] =
                IF listKeys = {} THEN Idle
                ELSE [step |-> "drop", task |-> w.task, keys |-> listKeys, sema |-> w.sema]]
  /\ UNCHANGED <<dbVars, redisVars, history>>

\* InvalidateUserLists, DEL of the keys found and of the set.
Drop(j) ==
  LET w == job[j] IN
  /\ w.step = "drop"
  /\ cachedList' = [k \in ListKey |-> IF k \in w.keys THEN None ELSE cachedList[k]]
  /\ listKeys' = {}
  /\ job' = [job EXCEPT ![j] = Idle]
  /\ lateList' = lateList \ w.keys
  /\ agedList' = agedList \ w.keys /\ foreign' = foreign \ w.keys
  /\ UNCHANGED <<dbVars, cachedTask, overlapped, lateTask, agedTask>>

TrackedWith_NoTagLists(k) == IF k \in TagListKey THEN listKeys ELSE listKeys \cup {k}

\* userListKey finds the set's key in that of every list, with or without tag.
TrackedWith(k) == listKeys \cup {k}

\* Some invalidation has read the set and did not find k in it.
Overtaken(k) == \E j \in Job : job[j].step = "drop" /\ k \notin job[j].keys

\* SetList: SET, SADD and EXPIRE in one pipeline.
SetList(j) ==
  LET w == job[j] IN
  /\ w.step = "list"
  /\ cachedList' = [cachedList EXCEPT ![w.key] = w.view]
  /\ listKeys' = TrackedWith(w.key)
  /\ job' = [job EXCEPT ![j] = Idle]
  /\ overlapped' = IF Overtaken(w.key) THEN overlapped \cup {w.key}
                   ELSE overlapped \ {w.key}
  /\ lateList' = IF w.view # ViewOf(w.key) THEN lateList \cup {w.key}
                 ELSE lateList \ {w.key}
  /\ agedList' = agedList \ {w.key} /\ foreign' = foreign \ {w.key}
  /\ UNCHANGED <<dbVars, cachedTask, lateTask, agedTask>>

-----------------------------------------------------------------------------
(* Failures and time *)

\* The stale copies that lose a correction when these jobs end.
UncorrectedTasks(jobs) ==
  {t \in Task : StaleTask(t) /\ \E j \in jobs : job[j].step = "task" /\ job[j].task = t}

UncorrectedLists(jobs) ==
  {k \in ListKey : StaleList(k) /\ \E j \in jobs :
                     \/ job[j].step = "task" /\ job[j].lists
                     \/ job[j].step \in {"members", "drop"}}

\* A command fails or runs into its deadline.  Errors are ignored: after the
\* one on the task's key the lists are invalidated nevertheless.
CommandFails(j) ==
  /\ RedisFails
  /\ job[j] # Idle
  /\ IF job[j].step = "task"
     THEN /\ job' = [job EXCEPT ![j] = AfterTask(job[j])]
          /\ lateTask' = lateTask \cup UncorrectedTasks({j})
          /\ UNCHANGED lateList
     ELSE /\ job' = [job EXCEPT ![j] = Idle]
          /\ lateList' = lateList \cup UncorrectedLists({j})
          /\ UNCHANGED lateTask
  /\ UNCHANGED <<dbVars, redisVars, overlapped, unannounced>>

\* The process ends and starts again; Redis keeps what it has.
Crash ==
  /\ RedisFails
  /\ job' = [j \in Job |-> Idle]
  /\ lateTask' = lateTask \cup UncorrectedTasks(Job)
  /\ lateList' = lateList \cup UncorrectedLists(Job)
  /\ UNCHANGED <<dbVars, redisVars, overlapped, unannounced>>

\* 24 hours after it was stored.
ExpireTask(t) ==
  /\ cachedTask[t] # None
  /\ cachedTask' = [cachedTask EXCEPT ![t] = None]
  /\ lateTask' = lateTask \ {t} /\ agedTask' = agedTask \ {t}
  /\ UNCHANGED <<dbVars, cachedList, listKeys, job, overlapped, lateList, agedList, foreign>>

ExpireList(k) ==
  /\ cachedList[k] # None
  /\ cachedList' = [cachedList EXCEPT ![k] = None]
  /\ lateList' = lateList \ {k} /\ agedList' = agedList \ {k} /\ foreign' = foreign \ {k}
  /\ UNCHANGED <<dbVars, cachedTask, listKeys, job, overlapped, lateTask, agedTask>>

\* 25 hours after the last list was entered in it.
ExpireListKeys ==
  /\ listKeys # {}
  /\ \A k \in listKeys : cachedList[k] = None
  /\ listKeys' = {}
  /\ UNCHANGED <<dbVars, cachedTask, cachedList, job, history>>

\* The deadline of a task that is in progress passes: from now on it is read as
\* not completed.  Nobody tells the cache.
DeadlinePasses(t) ==
  /\ life[t] = "present"
  /\ WriteContent(t)
  /\ agedTask' = agedTask \cup ({t} \cap CachedTasks)
  /\ agedList' = agedList \cup {k \in CachedLists : Listed(k, t)}
  /\ UNCHANGED <<life, flag, redisVars, job, overlapped, lateTask, lateList, foreign>>

\* Another user creates, changes or deletes a task under a tag of this user's
\* lists, or the deadline of one passes.  Only that user's lists are invalidated.
OtherUserWrites ==
  /\ Tick
  /\ others' \in {clock', None} \ {others}
  /\ foreign' = foreign \cup (CachedLists \cap TagListKey)
  /\ UNCHANGED <<life, flag, content, listing, redisVars, job, overlapped, lateTask, lateList,
                 agedTask, agedList>>

-----------------------------------------------------------------------------

Next ==
  \/ \E t \in Task :
       \/ Create(t) \/ CreateRefused(t) \/ Update(t) \/ Delete(t)
       \/ ChangeSubtasks(t) \/ CompleteBySubtask(t)
       \/ AdminDeleteTask(t) \/ AcknowledgeAdminDeletion(t) \/ AdminRestoreTask(t)
       \/ SharedTaskChanged(t)
       \/ FindOne(t) \/ ExpireTask(t) \/ DeadlinePasses(t)
  \/ \E k \in ListKey : GetList(k) \/ GetListByTag(k) \/ ExpireList(k)
  \/ ExpireListKeys \/ OtherUserWrites
  \/ \E j \in Job : TaskCommand(j) \/ Members(j) \/ Drop(j) \/ SetList(j) \/ CommandFails(j)
  \/ Crash

Spec == Init /\ [][Next]_vars

-----------------------------------------------------------------------------
(* Properties *)

\* This job is about to make task:t true, or to delete it.
CorrectsTask(j, t) ==
  /\ job[j].step = "task" /\ job[j].task = t
  /\ job[j].value = None \/ (life[t] = "present" /\ job[j].value = RowOf(t))

\* This job is about to delete the list k.
CorrectsList(j, k) ==
  \/ job[j].step = "task" /\ job[j].lists
  \/ job[j].step = "members"
  \/ job[j].step = "drop" /\ k \in job[j].keys

\* A task that is found in the cache is what the database says, unless the
\* correction is on its way, or was given up (semaphore, failure, crash), or a
\* goroutine wrote the copy after the task had changed again, or the deadline has
\* passed since, or the copy is the request of a task that is unchanged since, or
\* that the batch worker could not insert (batch.go:135-166).  No other order of
\* the handlers' goroutines leaves a changed or deleted task to be found.
StaleTaskIsExplained ==
  \A t \in Task :
    StaleTask(t) => \/ t \in lateTask \cup agedTask
                    \/ FromRequest(t, cachedTask[t])
                    \/ \E j \in Job : CorrectsTask(j, t)

\* The same of the lists.  Here a copy may also be out of reach: stored
\* between the two commands of an invalidation, it lost its place in
\* user_list_keys.  Create leaves lists stale in the cases it names, and a list
\* by tag shows what another user has changed under the same tag.
StaleListIsExplained ==
  \A k \in ListKey :
    StaleList(k) => \/ k \in lateList \cup agedList \cup foreign \cup overlapped
                    \/ \E j \in Job : CorrectsList(j, k)

\* Lists and user_list_keys keep the promise of a tracked group of keys,
\* through the interleaved commands of SetList and InvalidateUserLists.
Lists == INSTANCE TrackedCache WITH
  Key <- ListKey,
  Invalidator <- Job,
  stored <- {k \in ListKey : cachedList[k] # None},
  tracked <- listKeys,
  found <- [j \in Job |-> IF job[j].step = "drop" THEN job[j].keys ELSE None]

ListsAreTracked == Lists!Spec
=============================================================================
