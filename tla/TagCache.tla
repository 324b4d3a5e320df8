-------------------------------- MODULE TagCache --------------------------------
(***************************************************************************)
(* The tags of one user and what Redis knows of their names: a key per     *)
(* tag, a key for the list of tags, and a key per cached task, which shows *)
(* the name of its tag.  The set user_tasks holds the ids of the user's    *)
(* cached tasks, for InvalidateUserTaskCaches to find them.                *)
(*                                                                         *)
(* A job is a request or the goroutine it leaves behind: the commands that *)
(* are still to be executed, one by one, some by PostgreSQL, most by       *)
(* Redis.  Errors of Redis are logged and the next command follows.        *)
(***************************************************************************)
EXTENDS Naturals, Sequences

CONSTANTS
  Tag,         \* the ids of custom_tag
  Name,        \* names of tags
  Task,        \* ids of tasks of the user, all with the tag TaskTag
  TaskTag,
  Job,         \* requests and goroutines that can be in progress at a time
  MaxCommits,  \* bound: number of changes of custom_tag
  Blank,       \* an empty id or name
  None         \* no value

ASSUME TagAssumption ==
  /\ TaskTag \in Tag
  /\ MaxCommits \in Nat
  /\ Blank \notin Name /\ None \notin Name /\ Blank # None
  /\ \A keys \in SUBSET Task : keys # None

VARIABLES
  \* PostgreSQL
  name,        \* name[t]: the name of the row t of custom_tag, or None
  used,        \* the ids that were given to a tag
  commits,     \* number of changes of custom_tag
  created,     \* the rows of tasks
  \* Redis
  cachedTag,   \* user:<id>:tag:t: a name, Blank for a copy without id, or None
  cachedTags,  \* the list of the user's tags, or None
  cachedTask,  \* the name of the tag in task:k, or None if there is no copy
  userTasks,   \* user_tasks
  \* the process
  job,         \* job[j]: the commands j has still to execute
  \* History, read by no action:
  overlapped,  \* tasks stored between the two commands of an invalidation
  lateTag,     \* tags whose copy was written late, or not corrected
  lateTags,    \* the same of the list
  lateTask,    \* the same of tasks
  asked        \* tasks whose copy, of the request, does not name the tag

dbVars == <<name, used, commits, created>>
redisVars == <<cachedTag, cachedTags, cachedTask, userTasks>>
history == <<overlapped, lateTag, lateTags, lateTask, asked>>
vars == <<dbVars, redisVars, job, history>>

-----------------------------------------------------------------------------
(* Commands *)

View == [Tag -> Name \cup {None}]

Rename(t, n) == [op |-> "rename", tag |-> t, value |-> n]
Remove(t) == [op |-> "remove", tag |-> t]
SetTag(t, v) == [op |-> "setTag", tag |-> t, value |-> v]
DelTag(t) == [op |-> "delTag", tag |-> t]
SetTags(v) == [op |-> "setTags", view |-> v]
DelTags == [op |-> "delTags"]
SetTask(k, v) == [op |-> "setTask", task |-> k, value |-> v]
Members == [op |-> "members"]
Drop(keys) == [op |-> "drop", keys |-> keys]

Command ==
       [op : {"rename"}, tag : Tag, value : Name]
  \cup [op : {"setTag"}, tag : Tag, value : Name \cup {Blank}]
  \cup [op : {"remove", "delTag"}, tag : Tag]
  \cup [op : {"setTags"}, view : View]
  \cup [op : {"setTask"}, task : Task, value : Name \cup {Blank}]
  \cup [op : {"drop"}, keys : SUBSET Task]
  \cup {DelTags, Members}

TypeOK ==
  /\ name \in View
  /\ used \subseteq Tag
  /\ commits \in 0 .. MaxCommits
  /\ created \subseteq Task
  /\ cachedTag \in [Tag -> Name \cup {Blank, None}]
  /\ cachedTags \in View \cup {None}
  /\ cachedTask \in [Task -> Name \cup {Blank, None}]
  /\ userTasks \subseteq Task
  /\ job \in [Job -> Seq(Command)]
  /\ overlapped \subseteq Task
  /\ lateTag \subseteq Tag /\ lateTags \in BOOLEAN
  /\ lateTask \subseteq Task /\ asked \subseteq Task

Init ==
  /\ name \in {[t \in Tag |-> IF t = TaskTag THEN n ELSE None] : n \in Name}
  /\ used = {TaskTag}
  /\ commits = 0 /\ created = {}
  /\ cachedTag = [t \in Tag |-> None]
  /\ cachedTags = None
  /\ cachedTask = [k \in Task |-> None]
  /\ userTasks = {}
  /\ job = [j \in Job |-> <<>>]
  /\ overlapped = {} /\ lateTag = {} /\ lateTags = FALSE /\ lateTask = {} /\ asked = {}

-----------------------------------------------------------------------------
(* Helpers *)

NameOf_NoCoalesce(t) == name[t]

\* The name a task shows for its tag, empty when the tag is gone.
NameOf(t) == IF name[t] = None THEN Blank ELSE name[t]

\* UNIQUE (name, user_id)
Unique(t, n) == \A u \in Tag \ {t} : name[u] # n

\* A copy FindOne takes for a hit: one with an id.
HitTag(t) == cachedTag[t] \in Name

\* Copies that do not say what the database says.
StaleTag(t) == HitTag(t) /\ cachedTag[t] # name[t]

StaleTags == cachedTags # None /\ cachedTags # name

StaleTask(k) == cachedTask[k] # None /\ cachedTask[k] # NameOf(TaskTag)

Start(j, commands) ==
  /\ job[j] = <<>>
  /\ job' = [job EXCEPT ![j] = commands]

Commit(t, n) ==
  /\ commits < MaxCommits
  /\ commits' = commits + 1
  /\ name' = [name EXCEPT ![t] = n]

\* This job has executed its first command.
Advance(j) == job' = [job EXCEPT ![j] = Tail(@)]

\* The next command of j is an op.
AtOp(j, op) == job[j] # <<>> /\ Head(job[j]).op = op

-----------------------------------------------------------------------------
(* Handlers *)

\* What the goroutines of CreateTag, UpdateTag and Delete do.  UpdateTagsRedis
\* stores a TagsDTO, which has no id.
AfterCreate(t, n) == <<SetTag(t, n), DelTags>>

AfterRename_TasksKept(t) == <<DelTag(t), SetTag(t, Blank), DelTags>>

AfterRename_NoTags(t) == <<DelTag(t), SetTag(t, Blank), Members>>

AfterRename(t) == <<DelTag(t), SetTag(t, Blank), DelTags, Members>>

AfterRemove_TagKept(t) == <<DelTags, Members>>

AfterRemove(t) == <<DelTag(t), DelTags, Members>>

\* CreateTag: a name that is taken is refused by the UNIQUE constraint.
CreateTag(j, t, n) ==
  /\ t \notin used
  /\ Unique(t, n)
  /\ Commit(t, n)
  /\ used' = used \cup {t}
  /\ Start(j, AfterCreate(t, n))
  /\ UNCHANGED <<created, redisVars, history>>

\* Creating or updating a task with a new tag name inserts the tag as well.
\* Nobody tells the list of tags.
TagFromTask(t, n) ==
  /\ t \notin used
  /\ Unique(t, n)
  /\ Commit(t, n)
  /\ used' = used \cup {t}
  /\ lateTags' = (lateTags \/ cachedTags # None)
  /\ UNCHANGED <<created, redisVars, job, overlapped, lateTag, lateTask, asked>>

\* UpdateTag, up to the UPDATE: the tag exists and no other has the name.
UpdateTag(j, t, n) ==
  /\ name[t] # None
  /\ \A u \in Tag \ {t} : name[u] # n
  /\ Start(j, <<Rename(t, n)>>)
  /\ UNCHANGED <<dbVars, redisVars, history>>

\* The UPDATE.  A violation of the constraint ends the request; a tag that is
\* gone by now does not.
RenameTag(j) ==
  LET t == Head(job[j]).tag
      n == Head(job[j]).value
  IN /\ AtOp(j, "rename")
     /\ \/ /\ name[t] # None /\ Unique(t, n)
           /\ Commit(t, n)
           /\ job' = [job EXCEPT ![j] = AfterRename(t)]
        \/ /\ name[t] = None
           /\ job' = [job EXCEPT ![j] = AfterRename(t)]
           /\ UNCHANGED <<name, commits>>
        \/ /\ name[t] # None /\ ~Unique(t, n)
           /\ Advance(j)
           /\ UNCHANGED <<name, commits>>
     /\ UNCHANGED <<used, created, redisVars, history>>

\* Delete, up to the DELETE: the tag exists.
DeleteTag(j, t) ==
  /\ name[t] # None
  /\ Start(j, <<Remove(t)>>)
  /\ UNCHANGED <<dbVars, redisVars, history>>

\* The DELETE; it may find nothing any more.  Tasks keep the id of the tag.
RemoveTag(j) ==
  LET t == Head(job[j]).tag
  IN /\ AtOp(j, "remove")
     /\ IF name[t] # None THEN Commit(t, None) ELSE UNCHANGED <<name, commits>>
     /\ job' = [job EXCEPT ![j] = AfterRemove(t)]
     /\ UNCHANGED <<used, created, redisVars, history>>

\* FindOne of a tag: a hit changes nothing.  A miss, or a Redis that does not
\* answer, makes it read the row, answer, and cache the tag in a goroutine.
FindOne(j, t) ==
  /\ name[t] # None
  /\ Start(j, <<SetTag(t, name[t])>>)
  /\ UNCHANGED <<dbVars, redisVars, history>>

\* GetList, in the same way.
GetList(j) ==
  /\ Start(j, <<SetTags(name)>>)
  /\ UNCHANGED <<dbVars, redisVars, history>>

\* A task is read and cached: FindOne of the tasks' handler, and Update, which
\* reads back what it has written.
FindTask(j, k) ==
  /\ k \in created
  /\ Start(j, <<SetTask(k, NameOf(TaskTag))>>)
  /\ UNCHANGED <<dbVars, redisVars, history>>

\* A task is created: what is cached is not the row but the request.  It names
\* the tag, if the tag was chosen by its name, or has no name, if by tag_id alone.
\* (What is cached of a task whose insertion failed is in TaskCache.)
CreateTask(j, k) ==
  /\ k \notin created
  /\ created' = created \cup {k}
  /\ \E v \in {NameOf(TaskTag), Blank} : Start(j, <<SetTask(k, v)>>)
  /\ UNCHANGED <<name, used, commits, redisVars, history>>

\* The channel, or the semaphore, was full: nothing is cached.
CreateUncached(k) ==
  /\ k \notin created
  /\ created' = created \cup {k}
  /\ UNCHANGED <<name, used, commits, redisVars, job, history>>

-----------------------------------------------------------------------------
(* Redis commands *)

With(set, x, belongs) == IF belongs THEN set \cup {x} ELSE set \ {x}

\* CreateTagsRedis, UpdateTagsRedis, DeleteTagsRedis
WriteTag(j) ==
  LET t == Head(job[j]).tag
      v == IF AtOp(j, "delTag") THEN None ELSE Head(job[j]).value
  IN /\ AtOp(j, "setTag") \/ AtOp(j, "delTag")
     /\ cachedTag' = [cachedTag EXCEPT ![t] = v]
     /\ lateTag' = With(lateTag, t, v \in Name /\ v # name[t])
     /\ Advance(j)
     /\ UNCHANGED <<dbVars, cachedTags, cachedTask, userTasks, overlapped, lateTags, lateTask, asked>>

\* SetTagToCacheList, DeleteTagListCache
WriteTags(j) ==
  /\ AtOp(j, "setTags") \/ AtOp(j, "delTags")
  /\ cachedTags' = IF AtOp(j, "delTags") THEN None ELSE Head(job[j]).view
  /\ lateTags' = (cachedTags' # None /\ cachedTags' # name)
  /\ Advance(j)
  /\ UNCHANGED <<dbVars, cachedTag, cachedTask, userTasks, overlapped, lateTag, lateTask, asked>>

\* Some invalidation has read the set and did not find k in it.
Overtaken(k) == \E j \in Job : AtOp(j, "drop") /\ k \notin Head(job[j]).keys

\* user_tasks after SADD.
TrackedWith_Untracked(k) == userTasks

TrackedWith(k) == userTasks \cup {k}

\* SetTask: SET and SADD in one pipeline.  A copy without a name of a tag that
\* has one is that of a request: a tag that is gone never comes back.
StoreTask(j) ==
  LET k == Head(job[j]).task
      v == Head(job[j]).value
  IN /\ AtOp(j, "setTask")
     /\ cachedTask' = [cachedTask EXCEPT ![k] = v]
     /\ userTasks' = TrackedWith(k)
     /\ overlapped' = With(overlapped, k, Overtaken(k))
     /\ lateTask' = With(lateTask, k, v # NameOf(TaskTag) /\ v # Blank)
     /\ asked' = With(asked, k, v # NameOf(TaskTag) /\ v = Blank)
     /\ Advance(j)
     /\ UNCHANGED <<dbVars, cachedTag, cachedTags, lateTag, lateTags>>

\* InvalidateUserTaskCaches, SMEMBERS
TaskMembers(j) ==
  /\ AtOp(j, "members")
  /\ job' = [job EXCEPT ![j] = IF userTasks = {} THEN Tail(@)
                               ELSE <<Drop(userTasks)>> \o Tail(@)]
  /\ UNCHANGED <<dbVars, redisVars, history>>

\* InvalidateUserTaskCaches, DEL
TaskDrop(j) ==
  LET keys == Head(job[j]).keys
  IN /\ AtOp(j, "drop")
     /\ cachedTask' = [k \in Task |-> IF k \in keys THEN None ELSE cachedTask[k]]
     /\ userTasks' = {}
     /\ lateTask' = lateTask \ keys /\ asked' = asked \ keys
     /\ Advance(j)
     /\ UNCHANGED <<dbVars, cachedTag, cachedTags, overlapped, lateTag, lateTags>>

-----------------------------------------------------------------------------
(* Failures and time *)

Pending(jobs, commands) ==
  \E j \in jobs : \E i \in DOMAIN job[j] : job[j][i] \in commands

\* The stale copies that are not corrected when these jobs do not execute their
\* commands.
Uncorrected(jobs, lost) ==
  /\ lateTag' = lateTag \cup {t \in Tag : StaleTag(t) /\ lost[1] /\ Pending(jobs, {DelTag(t)})}
  /\ lateTags' = (lateTags \/ (StaleTags /\ lost[2] /\ Pending(jobs, {DelTags})))
  /\ lateTask' = lateTask \cup
       {k \in Task : StaleTask(k) /\ lost[3]
                     /\ Pending(jobs, {Members} \cup {Drop(s) : s \in SUBSET Task})}

\* A Redis command fails: the error is logged and the next one follows.
CommandFails(j) ==
  /\ job[j] # <<>> /\ Head(job[j]).op \notin {"rename", "remove"}
  /\ Advance(j)
  /\ Uncorrected({j}, <<AtOp(j, "delTag"), AtOp(j, "delTags"),
                        AtOp(j, "members") \/ AtOp(j, "drop")>>)
  /\ UNCHANGED <<dbVars, redisVars, overlapped, asked>>

\* The process ends and starts again; Redis keeps what it has.
Crash ==
  /\ job' = [j \in Job |-> <<>>]
  /\ Uncorrected(Job, <<TRUE, TRUE, TRUE>>)
  /\ UNCHANGED <<dbVars, redisVars, overlapped, asked>>

\* 24 hours after they were stored; of a task also when its handlers delete it.
ExpireTag(t) ==
  /\ cachedTag[t] # None
  /\ cachedTag' = [cachedTag EXCEPT ![t] = None]
  /\ lateTag' = lateTag \ {t}
  /\ UNCHANGED <<dbVars, cachedTags, cachedTask, userTasks, job, overlapped, lateTags, lateTask, asked>>

ExpireTags ==
  /\ cachedTags # None
  /\ cachedTags' = None
  /\ lateTags' = FALSE
  /\ UNCHANGED <<dbVars, cachedTag, cachedTask, userTasks, job, overlapped, lateTag, lateTask, asked>>

ExpireTask(k) ==
  /\ cachedTask[k] # None
  /\ cachedTask' = [cachedTask EXCEPT ![k] = None]
  /\ lateTask' = lateTask \ {k} /\ asked' = asked \ {k}
  /\ UNCHANGED <<dbVars, cachedTag, cachedTags, userTasks, job, overlapped, lateTag, lateTags>>

-----------------------------------------------------------------------------

Next ==
  \/ \E j \in Job :
       \/ \E t \in Tag, n \in Name : CreateTag(j, t, n) \/ UpdateTag(j, t, n)
       \/ \E t \in Tag : DeleteTag(j, t) \/ FindOne(j, t)
       \/ RenameTag(j) \/ RemoveTag(j) \/ GetList(j)
       \/ \E k \in Task : FindTask(j, k) \/ CreateTask(j, k)
       \/ WriteTag(j) \/ WriteTags(j) \/ StoreTask(j)
       \/ TaskMembers(j) \/ TaskDrop(j) \/ CommandFails(j)
  \/ \E t \in Tag, n \in Name : TagFromTask(t, n)
  \/ Crash
  \/ \E t \in Tag : ExpireTag(t)
  \/ ExpireTags
  \/ \E k \in Task : CreateUncached(k) \/ ExpireTask(k)

Spec == Init /\ [][Next]_vars

-----------------------------------------------------------------------------
(* Properties *)

\* A tag that is found in the cache has the name the database says, unless the
\* correction is on its way, was lost, or a goroutine wrote the copy late.
StaleTagIsExplained ==
  \A t \in Tag :
    StaleTag(t) => t \in lateTag \/ Pending(Job, {DelTag(t)})

\* The same of the list of tags, and of tags that came with a task.
StaleTagsAreExplained ==
  StaleTags => lateTags \/ Pending(Job, {DelTags})

\* handlers/handler.go:319, "invalidate the caches of all tasks of the user, or
\* the task's card shows the old name": it shows another name than the tag has
\* only if its copy was written late, or between the two commands of
\* InvalidateUserTaskCaches, or the invalidation is on its way or was lost, or it
\* is the copy of the request that created the task (tasks/handlers/handler.go:264).
OldNameIsExplained ==
  \A k \in Task :
    StaleTask(k) =>
      \/ k \in lateTask \cup overlapped \cup asked
      \/ Pending(Job, {Members} \cup {Drop(s) : s \in {x \in SUBSET Task : k \in x}})

\* Cached tasks and user_tasks keep the promise of a tracked group of keys.
Tasks == INSTANCE TrackedCache WITH
  Key <- Task,
  Invalidator <- Job,
  stored <- {k \in Task : cachedTask[k] # None},
  tracked <- userTasks,
  found <- [j \in Job |-> IF AtOp(j, "drop") THEN Head(job[j]).keys ELSE None]

TasksAreTracked == Tasks!Spec
=============================================================================
