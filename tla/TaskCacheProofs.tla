----------------------------- MODULE TaskCacheProofs -----------------------------
(***************************************************************************)
(* TaskCache keeps the promise of TrackedCache, and its stale copies are   *)
(* explained, for any tasks, lists, number of goroutines and size of the   *)
(* semaphore.                                                              *)
(*                                                                         *)
(* That an invalidation which finds nothing leaves no list behind that it  *)
(* should have deleted needs the promise: what user_list_keys does not     *)
(* know was stored between the two commands of an invalidation.            *)
(***************************************************************************)
EXTENDS TaskCache, FiniteSetTheorems, TLAPS

\* The jobs that hold a place of redisSema.
Holders == {j \in Job : job[j].sema}

CacheIInv ==
  /\ TypeOK
  /\ Lists!IInv
  /\ StaleTaskIsExplained
  /\ StaleListIsExplained

-----------------------------------------------------------------------------
(* What the work of a job is *)

LEMMA WorkFacts ==
  ASSUME NEW w \in Work \cup {Idle}
  PROVE  /\ w.step \in {"idle", "task", "members", "drop", "list"}
         /\ w.sema \in BOOLEAN
         /\ w.step = "idle" => w = Idle
         /\ w.step = "task" => /\ w.task \in Task /\ w.value \in Copy \cup {None}
                               /\ w.lists \in BOOLEAN
         /\ w.step \in {"members", "drop"} => w.task \in Task /\ w.keys \subseteq ListKey
         /\ w.step = "list" => w.key \in ListKey /\ w.view \in View
<1>1. CASE w = Idle
  BY <1>1 DEF Idle
<1>2. CASE w \in [step : {"task"}, task : Task, value : Copy \cup {None},
                  lists : BOOLEAN, sema : BOOLEAN]
  BY <1>2
<1>3. CASE w \in [step : {"members", "drop"}, task : Task, keys : SUBSET ListKey,
                  sema : BOOLEAN]
  BY <1>3
<1>4. CASE w \in [step : {"list"}, key : ListKey, view : View, sema : {FALSE}]
  BY <1>4
<1> QED BY <1>1, <1>2, <1>3, <1>4 DEF Work

LEMMA TaskWorkFacts ==
  ASSUME NEW t \in Task, NEW v \in Copy \cup {None}, NEW lists \in BOOLEAN, NEW sema \in BOOLEAN
  PROVE  /\ TaskWork(t, v, lists, sema) \in Work
         /\ TaskWork(t, v, lists, sema).step = "task"
         /\ TaskWork(t, v, lists, sema).task = t
         /\ TaskWork(t, v, lists, sema).value = v
         /\ TaskWork(t, v, lists, sema).lists = lists
         /\ TaskWork(t, v, lists, sema).sema = sema
BY DEF TaskWork, Work

LEMMA MembersFacts ==
  ASSUME NEW t \in Task, NEW sema \in BOOLEAN, NEW w,
         w = [step |-> "members", task |-> t, keys |-> {}, sema |-> sema]
  PROVE  w \in Work /\ w.step = "members" /\ w.sema = sema
BY DEF Work

LEMMA ListWorkFacts ==
  ASSUME NEW k \in ListKey, NEW view \in View
  PROVE  ListWork(k, view) \in Work /\ ListWork(k, view).step = "list" /\ ~ListWork(k, view).sema
BY DEF ListWork, Work

LEMMA AfterTaskFacts ==
  ASSUME NEW w \in Work \cup {Idle}, w.step = "task"
  PROVE  /\ AfterTask(w) \in Work \cup {Idle}
         /\ AfterTask(w).step \in {"idle", "members"}
         /\ w.lists => AfterTask(w).step = "members"
         /\ AfterTask(w).sema => w.sema
<1>1. w.task \in Task /\ w.sema \in BOOLEAN
  BY WorkFacts
<1> QED BY <1>1, MembersFacts DEF AfterTask, Idle

LEMMA ViewFacts ==
  ASSUME TypeOK, NEW k
  PROVE  ViewOf(k) \in View
BY DEF TypeOK, ViewOf, View

LEMMA CopyFacts ==
  ASSUME TypeOK, NEW t \in Task
  PROVE  RowOf(t) \in Copy /\ RequestOf(t) \in Copy
BY DEF TypeOK, RowOf, RequestOf, Copy

-----------------------------------------------------------------------------
(* Handlers *)

\* What all handlers do to Redis and to the jobs: they start one that has
\* executed nothing, or none.
Begins ==
  /\ UNCHANGED redisVars /\ overlapped' = overlapped
  /\ \/ job' = job
     \/ \E j \in Job, w \in Work :
          /\ job[j] = Idle /\ job' = [job EXCEPT ![j] = w]
          /\ w.step # "drop"
          /\ w.sema => SemaFree

WriteTask(t) ==
  \/ Create(t) \/ CreateRefused(t) \/ Update(t) \/ Delete(t)
  \/ ChangeSubtasks(t) \/ CompleteBySubtask(t)
  \/ AdminDeleteTask(t) \/ AcknowledgeAdminDeletion(t) \/ AdminRestoreTask(t)
  \/ SharedTaskChanged(t)

Handler ==
  \/ \E t \in Task : WriteTask(t) \/ FindOne(t)
  \/ \E k \in ListKey : GetList(k) \/ GetListByTag(k)

LEMMA NextClock ==
  ASSUME TypeOK, Tick
  PROVE  /\ clock' \in Change
         /\ \A f \in {"row", "request"} : [from |-> f, at |-> clock'] \in Copy
BY CacheAssumption DEF TypeOK, Tick, Change, Copy

LEMMA HandlerBegins ==
  ASSUME TypeOK, Handler
  PROVE  Begins
<1> USE DEF Begins, Start, Free, LeaveStale, StartIfFree, history
<1>1. ASSUME NEW t \in Task, Create(t) PROVE Begins
  <2>1. PICK v \in Copy : v = [from |-> "request", at |-> clock']
    BY <1>1, NextClock DEF Create, WriteContent
  <2>2. TaskWork(t, v, TRUE, FALSE) \in Work
    BY TaskWorkFacts
  <2> QED BY <1>1, <2>1, <2>2 DEF Create, TaskWork
<1>2. ASSUME NEW t \in Task, Update(t) PROVE Begins
  <2>1. PICK v \in Copy : v = [from |-> "row", at |-> clock']
    BY <1>2, NextClock DEF Update, WriteContent
  <2>2. TaskWork(t, v, TRUE, TRUE) \in Work
    BY TaskWorkFacts
  <2> QED BY <1>2, <2>1, <2>2 DEF Update, TaskWork
<1>3. ASSUME NEW t \in Task, Delete(t) PROVE Begins
  <2>1. TaskWork(t, None, TRUE, FALSE) \in Work /\ TaskWork(t, None, FALSE, FALSE) \in Work
    BY TaskWorkFacts
  <2> QED BY <1>3, <2>1 DEF Delete, Invalidation, TaskWork
<1>4. ASSUME NEW t \in Task, ChangeSubtasks(t) \/ CompleteBySubtask(t) PROVE Begins
  <2>1. TaskWork(t, None, TRUE, TRUE) \in Work
    BY TaskWorkFacts
  <2> QED BY <1>4, <2>1 DEF ChangeSubtasks, CompleteBySubtask, Invalidation, TaskWork
<1>5. ASSUME NEW t \in Task,
             AdminDeleteTask(t) \/ AcknowledgeAdminDeletion(t) \/ AdminRestoreTask(t)
      PROVE  Begins
  <2>1. TaskWork(t, None, TRUE, FALSE) \in Work
    BY TaskWorkFacts
  <2> QED BY <1>5, <2>1
          DEF AdminDeleteTask, AcknowledgeAdminDeletion, AdminRestoreTask, Invalidation, TaskWork
<1>6. ASSUME NEW t \in Task, SharedTaskChanged(t) PROVE Begins
  BY <1>6, MembersFacts DEF SharedTaskChanged
<1>7. ASSUME NEW t \in Task, FindOne(t) PROVE Begins
  <2>1. TaskWork(t, RowOf(t), FALSE, TRUE) \in Work
    BY TaskWorkFacts, CopyFacts
  <2> QED BY <1>7, <2>1 DEF FindOne, TaskWork
<1>8. ASSUME NEW k \in ListKey, GetList(k) \/ GetListByTag(k) PROVE Begins
  BY <1>8, ViewFacts, ListWorkFacts DEF GetList, GetListByTag, ReadList
<1>9. ASSUME NEW t \in Task, CreateRefused(t) PROVE Begins
  <2>1. TaskWork(t, RequestOf(t), TRUE, FALSE) \in Work
    BY TaskWorkFacts, CopyFacts
  <2> QED BY <1>9, <2>1 DEF CreateRefused, TaskWork
<1> QED BY <1>1, <1>2, <1>3, <1>4, <1>5, <1>6, <1>7, <1>8, <1>9 DEF Handler, WriteTask

-----------------------------------------------------------------------------
(* Types *)

DatabaseTypeOK ==
  /\ clock \in Change
  /\ life \in [Task -> {"unborn", "present", "gone", "refused"}]
  /\ flag \in [Task -> {"none", "deleted", "acknowledged"}]
  /\ content \in [Task -> Change] /\ listing \in [Task -> Change]
  /\ others \in Change \cup {None}
  /\ lateTask \subseteq Task /\ lateList \subseteq ListKey
  /\ agedTask \subseteq Task /\ agedList \subseteq ListKey /\ foreign \subseteq ListKey

LEMMA ContentTypes ==
  ASSUME TypeOK, NEW t \in Task, WriteContent(t)
  PROVE  /\ clock' \in Change /\ content' \in [Task -> Change] /\ listing' \in [Task -> Change]
         /\ others' \in Change \cup {None}
<1>1. clock' \in Change
  BY NextClock DEF WriteContent
<1> QED BY <1>1 DEF WriteContent, TypeOK

LEMMA HandlerDatabase ==
  ASSUME TypeOK, Handler
  PROVE  DatabaseTypeOK'
<1> USE DEF DatabaseTypeOK, TypeOK, Start, LeaveStale, StartIfFree, history, unannounced, dbVars
<1>1. ASSUME NEW t \in Task, WriteContent(t)
      PROVE  /\ clock' \in Change /\ content' \in [Task -> Change] /\ listing' \in [Task -> Change]
             /\ others' \in Change \cup {None}
  BY <1>1, ContentTypes
<1>2. ASSUME NEW t \in Task, Create(t) \/ Update(t) \/ CompleteBySubtask(t) \/ Delete(t)
      PROVE  DatabaseTypeOK'
  <2>1. /\ clock' \in Change /\ content' \in [Task -> Change] /\ listing' \in [Task -> Change]
        /\ others' \in Change \cup {None}
    BY <1>1, <1>2 DEF Create, Update, CompleteBySubtask, Delete
  <2>2. /\ life' \in [Task -> {"unborn", "present", "gone", "refused"}]
        /\ flag' \in [Task -> {"none", "deleted", "acknowledged"}]
    BY <1>2 DEF Create, Update, CompleteBySubtask, Delete
  <2>3. /\ lateTask' \subseteq Task /\ lateList' \subseteq ListKey
        /\ agedTask' \subseteq Task /\ agedList' \subseteq ListKey /\ foreign' \subseteq ListKey
    <3> USE DEF CachedTasks, CachedLists
    <3>1. CASE Create(t)
      BY <3>1 DEF Create
    <3>2. CASE Update(t) \/ CompleteBySubtask(t)
      BY <3>2 DEF Update, CompleteBySubtask
    <3>3. CASE Delete(t)
      BY <3>3 DEF Delete
    <3> QED BY <1>2, <3>1, <3>2, <3>3
  <2> QED BY <2>1, <2>2, <2>3
<1>3. ASSUME NEW t \in Task,
             AdminDeleteTask(t) \/ AcknowledgeAdminDeletion(t) \/ AdminRestoreTask(t)
      PROVE  DatabaseTypeOK'
  <2>1. CASE UNCHANGED dbVars
    BY <1>3, <2>1 DEF AdminDeleteTask, AcknowledgeAdminDeletion, AdminRestoreTask
  <2>2. ASSUME NEW f \in {"none", "deleted", "acknowledged"}, WriteFlag(t, f)
        PROVE  DatabaseTypeOK'
    <3>1. clock' \in Change
      BY <2>2, NextClock DEF WriteFlag
    <3> QED BY <1>3, <2>2, <3>1
            DEF WriteFlag, AdminDeleteTask, AcknowledgeAdminDeletion, AdminRestoreTask
  <2> QED BY <1>3, <2>1, <2>2 DEF AdminDeleteTask, AcknowledgeAdminDeletion, AdminRestoreTask
<1>4. ASSUME NEW t \in Task, ChangeSubtasks(t) \/ SharedTaskChanged(t) \/ FindOne(t)
      PROVE  DatabaseTypeOK'
  BY <1>4 DEF ChangeSubtasks, SharedTaskChanged, FindOne
<1>5. ASSUME NEW k \in ListKey, GetList(k) \/ GetListByTag(k) PROVE DatabaseTypeOK'
  BY <1>5 DEF GetList, GetListByTag, ReadList
<1>6. ASSUME NEW t \in Task, CreateRefused(t) PROVE DatabaseTypeOK'
  BY <1>6 DEF CreateRefused
<1> QED BY <1>1, <1>2, <1>3, <1>4, <1>5, <1>6 DEF Handler, WriteTask

\* A job that did not hold a place of the semaphore takes one only if there is
\* one.
LEMMA SemaphoreKept ==
  ASSUME TypeOK, NEW j \in Job, NEW w \in Work \cup {Idle},
         job' = [job EXCEPT ![j] = w],
         w.sema => job[j].sema \/ SemaFree
  PROVE  Cardinality(Holders') <= SemaSize
<1>1. IsFiniteSet(Holders) /\ Cardinality(Holders) \in Nat
  BY CacheAssumption, FS_Subset, FS_CardinalityType DEF Holders
<1>2. Cardinality(Holders) <= SemaSize /\ SemaSize \in Nat
  BY CacheAssumption DEF TypeOK, Holders
<1>3. job'[j] = w /\ \A i \in Job \ {j} : job'[i] = job[i]
  BY DEF TypeOK
<1>4. CASE w.sema /\ ~job[j].sema
  <2>1. Holders' = Holders \cup {j} /\ j \notin Holders
    BY <1>3, <1>4 DEF Holders
  <2>2. Cardinality(Holders) < SemaSize
    BY <1>4 DEF SemaFree, Holders
  <2> QED BY <1>1, <1>2, <2>1, <2>2, FS_AddElement
<1>5. CASE ~(w.sema /\ ~job[j].sema)
  <2>1. Holders' \subseteq Holders
    BY <1>3, <1>5 DEF Holders
  <2>2. Cardinality(Holders') <= Cardinality(Holders) /\ Cardinality(Holders') \in Nat
    BY <1>1, <2>1, FS_Subset, FS_CardinalityType
  <2> QED BY <1>1, <1>2, <2>2
<1> QED BY <1>4, <1>5

LEMMA HandlerType ==
  ASSUME TypeOK, Handler
  PROVE  TypeOK'
<1>1. DatabaseTypeOK' /\ Begins
  BY HandlerDatabase, HandlerBegins
<1>2. job' \in [Job -> Work \cup {Idle}] /\ Cardinality(Holders') <= SemaSize
  <2>1. CASE job' = job
    BY <2>1 DEF TypeOK, Holders
  <2>2. ASSUME NEW j \in Job, NEW w \in Work, job' = [job EXCEPT ![j] = w], w.sema => SemaFree
        PROVE  job' \in [Job -> Work \cup {Idle}] /\ Cardinality(Holders') <= SemaSize
    BY <2>2, SemaphoreKept DEF TypeOK
  <2> QED BY <1>1, <2>1, <2>2 DEF Begins
<1> QED BY <1>1, <1>2 DEF Begins, redisVars, TypeOK, DatabaseTypeOK, Holders

\* The Redis commands of the jobs.
JobStep(j) == TaskCommand(j) \/ Members(j) \/ Drop(j) \/ SetList(j) \/ CommandFails(j)

\* A job goes on to a next command, or ends, and keeps its place until then.
LEMMA JobGoesOn ==
  ASSUME TypeOK, NEW j \in Job, JobStep(j)
  PROVE  \E w \in Work \cup {Idle} :
           job' = [job EXCEPT ![j] = w] /\ (w.sema => job[j].sema) /\ w.step # "task"
<1>0. job[j] \in Work \cup {Idle}
  BY DEF TypeOK
<1>1. ~Idle.sema /\ Idle.step = "idle"
  BY DEF Idle
<1>2. CASE TaskCommand(j)
  BY <1>0, <1>2, AfterTaskFacts DEF TaskCommand
<1>3. CASE Members(j)
  <2>1. job[j].task \in Task /\ job[j].sema \in BOOLEAN /\ listKeys \in SUBSET ListKey
    BY <1>0, <1>3, WorkFacts DEF Members, TypeOK
  <2> DEFINE next == [step |-> "drop", task |-> job[j].task, keys |-> listKeys,
                      sema |-> job[j].sema]
  <2>2. next \in Work /\ next.sema = job[j].sema /\ next.step = "drop"
    BY <2>1 DEF Work
  <2>3. job' = [job EXCEPT ![j] = Idle] \/ job' = [job EXCEPT ![j] = next]
    BY <1>3 DEF Members
  <2> HIDE DEF next
  <2> QED BY <1>1, <2>2, <2>3
<1>4. CASE Drop(j) \/ SetList(j)
  BY <1>1, <1>4 DEF Drop, SetList
<1>5. CASE CommandFails(j)
  BY <1>0, <1>1, <1>5, AfterTaskFacts DEF CommandFails
<1> QED BY <1>2, <1>3, <1>4, <1>5 DEF JobStep

LEMMA JobType ==
  ASSUME TypeOK, NEW j \in Job, JobStep(j)
  PROVE  TypeOK'
<1>0. job[j] \in Work \cup {Idle}
  BY DEF TypeOK
<1>1. job' \in [Job -> Work \cup {Idle}] /\ Cardinality(Holders') <= SemaSize
  <2>1. PICK w \in Work \cup {Idle} :
               job' = [job EXCEPT ![j] = w] /\ (w.sema => job[j].sema)
    BY JobGoesOn
  <2> QED BY <2>1, SemaphoreKept DEF TypeOK
<1> USE DEF dbVars, redisVars, history, unannounced
<1>2. CASE TaskCommand(j)
  <2>1. job[j].task \in Task /\ job[j].value \in Copy \cup {None}
    BY <1>0, <1>2, WorkFacts DEF TaskCommand
  <2> QED BY <1>1, <1>2, <2>1 DEF TaskCommand, TypeOK, Holders
<1>3. CASE Members(j)
  BY <1>1, <1>3 DEF Members, TypeOK, Holders
<1>4. CASE Drop(j)
  BY <1>1, <1>4 DEF Drop, TypeOK, Holders
<1>5. CASE SetList(j)
  <2>1. job[j].key \in ListKey /\ job[j].view \in View
    BY <1>0, <1>5, WorkFacts DEF SetList
  <2> QED BY <1>1, <1>5, <2>1 DEF SetList, TrackedWith, TypeOK, Holders
<1>6. CASE CommandFails(j)
  BY <1>1, <1>6 DEF CommandFails, UncorrectedTasks, UncorrectedLists, TypeOK, Holders
<1> QED BY <1>2, <1>3, <1>4, <1>5, <1>6 DEF JobStep

Expiry ==
  \/ \E t \in Task : ExpireTask(t)
  \/ \E k \in ListKey : ExpireList(k)
  \/ ExpireListKeys

\* Changes of which nobody tells Redis.
Silent ==
  \/ \E t \in Task : DeadlinePasses(t)
  \/ OtherUserWrites

LEMMA OtherType ==
  ASSUME TypeOK, Silent \/ Expiry \/ Crash \/ UNCHANGED vars
  PROVE  TypeOK'
<1> USE DEF dbVars, redisVars, history, unannounced
<1>1. CASE Expiry
  BY <1>1 DEF Expiry, ExpireTask, ExpireList, ExpireListKeys, TypeOK
<1>2. CASE Crash
  <2>1. job' \in [Job -> Work \cup {Idle}] /\ Holders' = {}
    BY <1>2 DEF Crash, Idle, Holders
  <2>2. Cardinality(Holders') <= SemaSize
    BY <2>1, FS_EmptySet, CacheAssumption
  <2> QED BY <1>2, <2>1, <2>2 DEF Crash, UncorrectedTasks, UncorrectedLists, TypeOK, Holders
<1>3. CASE UNCHANGED vars
  BY <1>3 DEF vars, TypeOK
<1>4. ASSUME NEW t \in Task, DeadlinePasses(t) PROVE TypeOK'
  <2>1. /\ clock' \in Change /\ content' \in [Task -> Change] /\ listing' \in [Task -> Change]
        /\ others' \in Change \cup {None}
    BY <1>4, ContentTypes DEF DeadlinePasses
  <2>2. agedTask' \subseteq Task /\ agedList' \subseteq ListKey
    BY <1>4 DEF DeadlinePasses, CachedTasks, CachedLists, TypeOK
  <2> QED BY <1>4, <2>1, <2>2 DEF DeadlinePasses, TypeOK
<1>5. CASE OtherUserWrites
  <2>1. clock' \in Change
    BY <1>5, NextClock DEF OtherUserWrites
  <2>2. foreign' \subseteq ListKey
    BY <1>5 DEF OtherUserWrites, CachedLists, TypeOK
  <2> QED BY <1>5, <2>1, <2>2 DEF OtherUserWrites, TypeOK
<1> QED BY <1>1, <1>2, <1>3, <1>4, <1>5 DEF Silent

LEMMA NextKinds ==
  ASSUME [Next]_vars
  PROVE  Handler \/ (\E j \in Job : JobStep(j)) \/ Silent \/ Expiry \/ Crash \/ UNCHANGED vars
BY DEF Next, Handler, WriteTask, JobStep, Silent, Expiry

LEMMA InitType == Init => TypeOK
<1> SUFFICES ASSUME Init PROVE TypeOK
  OBVIOUS
<1>1. 0 \in Change
  BY CacheAssumption DEF Change
<1>2. Holders = {}
  BY DEF Init, Idle, Holders
<1>3. Cardinality(Holders) <= SemaSize
  BY <1>2, FS_EmptySet, CacheAssumption
<1> QED BY <1>1, <1>3 DEF Init, TypeOK, Holders

\* The state of the caches is well typed, and the goroutines never hold more
\* than the places of redisSema, which they take and release on every path
\* (handlers/handler.go:319-340).
THEOREM CacheTypeCorrect == Spec => []TypeOK
<1>1. TypeOK /\ [Next]_vars => TypeOK'
  BY NextKinds, HandlerType, JobType, OtherType
<1> QED BY InitType, <1>1, PTL DEF Spec

-----------------------------------------------------------------------------
(* Lists and user_list_keys are a tracked group of keys *)

\* What SMEMBERS returned to the jobs that are about to delete it.
Found == [j \in Job |-> IF job[j].step = "drop" THEN job[j].keys ELSE None]

LEMMA InitTracked == Init => Lists!Init
BY DEF Init, Lists!Init, Idle

LEMMA BeginsTracked ==
  ASSUME TypeOK, Begins
  PROVE  UNCHANGED Lists!vars
<1>1. Found' = Found
  BY DEF Begins, TypeOK, Found, Idle
<1> QED BY <1>1 DEF Begins, redisVars, Found, Lists!vars

\* Found after a step of job j.
LEMMA FoundAfter ==
  ASSUME TypeOK, NEW j \in Job, NEW w, job' = [job EXCEPT ![j] = w]
  PROVE  Found' = [Found EXCEPT ![j] = IF w.step = "drop" THEN w.keys ELSE None]
BY DEF TypeOK, Found

LEMMA JobTracked ==
  ASSUME TypeOK, NEW j \in Job, JobStep(j)
  PROVE  [Lists!Next]_(Lists!vars)
<1>0. job[j] \in Work \cup {Idle}
  BY DEF TypeOK
<1>1. Idle.step = "idle"
  BY DEF Idle
<1> USE DEF dbVars, redisVars, history, unannounced
<1>2. CASE TaskCommand(j)
  <2>1. Found' = Found
    BY <1>0, <1>2, AfterTaskFacts, FoundAfter DEF TaskCommand, Found
  <2> QED BY <1>2, <2>1 DEF TaskCommand, Found, Lists!vars
<1>3. CASE Members(j)
  <2>1. CASE listKeys = {}
    <3>1. Found' = Found
      BY <1>1, <1>3, <2>1, FoundAfter DEF Members, Found
    <3> QED BY <1>3, <3>1 DEF Members, Found, Lists!vars
  <2>2. CASE listKeys # {}
    <3> DEFINE next == [step |-> "drop", task |-> job[j].task, keys |-> listKeys,
                        sema |-> job[j].sema]
    <3>1. job' = [job EXCEPT ![j] = next] /\ next.step = "drop" /\ next.keys = listKeys
      BY <1>3, <2>2 DEF Members
    <3>2. Found[j] = None
      BY <1>3 DEF Members, Found
    <3> HIDE DEF next
    <3>3. Found' = [Found EXCEPT ![j] = listKeys] /\ Found[j] = None
      BY <3>1, <3>2, FoundAfter
    <3>4. Lists!Members(j)
      BY <1>3, <2>2, <3>3 DEF Members, Found, Lists!Members
    <3> QED BY <3>4 DEF Lists!Next
  <2> QED BY <2>1, <2>2
<1>4. CASE Drop(j)
  <2>1. Found[j] = job[j].keys /\ Found[j] # None /\ Found' = [Found EXCEPT ![j] = None]
    BY <1>0, <1>1, <1>4, WorkFacts, FoundAfter, CacheAssumption DEF Drop, Found
  <2>2. Lists!Drop(j)
    BY <1>4, <2>1 DEF Drop, Found, Lists!Drop
  <2> QED BY <2>2 DEF Lists!Next
<1>5. CASE SetList(j)
  <2>1. PICK k \in ListKey : k = job[j].key
    BY <1>0, <1>5, WorkFacts DEF SetList
  <2>2. job[j].view # None
    BY <1>0, <1>5, WorkFacts, CacheAssumption DEF SetList
  <2>3. Found' = Found
    BY <1>1, <1>5, FoundAfter DEF SetList, Found
  <2>4. Overtaken(k) <=> Lists!Overtakes(k)
    BY WorkFacts, CacheAssumption DEF Overtaken, Lists!Overtakes, TypeOK
  <2>5. overlapped' = IF Overtaken(k) THEN overlapped \cup {k} ELSE overlapped \ {k}
    BY <1>5, <2>1 DEF SetList
  <2>6. cachedList' = [cachedList EXCEPT ![k] = job[j].view] /\ listKeys' = listKeys \cup {k}
    BY <1>5, <2>1 DEF SetList, TrackedWith
  <2>7. Lists!Store(k)
    BY <2>2, <2>3, <2>4, <2>5, <2>6 DEF Found, Lists!Store, TypeOK
  <2> QED BY <2>7 DEF Lists!Next
<1>6. CASE CommandFails(j)
  <2>1. Found' = [Found EXCEPT ![j] = None]
    BY <1>0, <1>1, <1>6, AfterTaskFacts, FoundAfter DEF CommandFails
  <2>2. Lists!Abandon({j})
    BY <1>6, <2>1 DEF CommandFails, Found, Lists!Abandon
  <2> QED BY <2>2 DEF Lists!Next
<1> QED BY <1>2, <1>3, <1>4, <1>5, <1>6 DEF JobStep

LEMMA OtherTracked ==
  ASSUME TypeOK, Silent \/ Expiry \/ Crash \/ UNCHANGED vars
  PROVE  [Lists!Next]_(Lists!vars)
<1> USE DEF dbVars, redisVars, history, unannounced
<1>1. ASSUME NEW t \in Task, ExpireTask(t) PROVE UNCHANGED Lists!vars
  BY <1>1 DEF ExpireTask, Lists!vars
<1>2. ASSUME NEW k \in ListKey, ExpireList(k) PROVE Lists!Forget({k})
  BY <1>2 DEF ExpireList, Lists!Forget, TypeOK
<1>3. CASE ExpireListKeys
  <2>1. Lists!ExpireSet
    BY <1>3 DEF ExpireListKeys, Lists!ExpireSet
  <2> QED BY <2>1 DEF Lists!Next
<1>4. CASE Crash
  <2>1. Lists!Abandon(Job)
    BY <1>4 DEF Crash, Idle, Lists!Abandon
  <2> QED BY <2>1 DEF Lists!Next
<1>5. CASE Silent \/ UNCHANGED vars
  BY <1>5 DEF Silent, DeadlinePasses, OtherUserWrites, vars, Lists!vars
<1> QED BY <1>1, <1>2, <1>3, <1>4, <1>5 DEF Expiry, Lists!Next

LEMMA StepTracked ==
  ASSUME TypeOK, [Next]_vars
  PROVE  [Lists!Next]_(Lists!vars)
BY NextKinds, HandlerBegins, BeginsTracked, JobTracked, OtherTracked

\* redis.go:199-235: SetList and InvalidateUserLists, command by command and
\* interleaved in any way, implement a tracked group of keys.
THEOREM ListsTracked == Spec => ListsAreTracked
<1>1. TypeOK /\ [Next]_vars => [Lists!Next]_(Lists!vars)
  BY StepTracked
<1> QED BY CacheTypeCorrect, InitTracked, <1>1, PTL DEF Spec, ListsAreTracked, Lists!Spec

-----------------------------------------------------------------------------
(* Stale copies of tasks *)

\* A handler leaves the work in progress alone.
LEMMA BeginsKeeps ==
  ASSUME TypeOK, Begins, NEW i \in Job, job[i].step # "idle"
  PROVE  job'[i] = job[i]
BY DEF Begins, TypeOK, Idle

\* Why task:t may not say what the database says.
TaskExplained(t) ==
  \/ t \in lateTask \cup agedTask
  \/ FromRequest(t, cachedTask[t])
  \/ \E j \in Job : CorrectsTask(j, t)

\* Causes that are on record stay there.
TaskCausesStay == lateTask \subseteq lateTask' /\ agedTask \subseteq agedTask'

\* A copy of t that was explained still is, if t has not changed.
LEMMA TaskUntouched ==
  ASSUME TypeOK, Begins, StaleTaskIsExplained, NEW t \in Task,
         life'[t] = life[t], content'[t] = content[t], TaskCausesStay, StaleTask(t)'
  PROVE  TaskExplained(t)'
<1>0. RowOf(t)' = RowOf(t) /\ RequestOf(t)' = RequestOf(t)
  BY DEF RowOf, RequestOf
<1>1. StaleTask(t) /\ cachedTask' = cachedTask
  BY <1>0 DEF StaleTask, Begins, redisVars
<1>2. ASSUME NEW j \in Job, CorrectsTask(j, t) PROVE CorrectsTask(j, t)'
  <2>1. job'[j] = job[j]
    BY <1>2, BeginsKeeps DEF CorrectsTask
  <2> QED BY <1>0, <1>2, <2>1 DEF CorrectsTask
<1>3. FromRequest(t, cachedTask[t]) => FromRequest(t, cachedTask[t])'
  BY <1>0, <1>1 DEF FromRequest
<1> QED BY <1>1, <1>2, <1>3 DEF StaleTaskIsExplained, TaskExplained, TaskCausesStay

\* So is one of a task that is about to be created.
LEMMA TaskUnborn ==
  ASSUME TypeOK, Begins, StaleTaskIsExplained, NEW t \in Task, life[t] = "unborn", TaskCausesStay,
         StaleTask(t)'
  PROVE  TaskExplained(t)'
<1>1. StaleTask(t) /\ ~FromRequest(t, cachedTask[t])
  BY DEF StaleTask, FromRequest, Begins, redisVars
<1>2. ASSUME NEW j \in Job, CorrectsTask(j, t) PROVE CorrectsTask(j, t)'
  <2>1. job'[j] = job[j] /\ job[j].value = None
    BY <1>2, BeginsKeeps DEF CorrectsTask
  <2> QED BY <1>2, <2>1 DEF CorrectsTask
<1> QED BY <1>1, <1>2 DEF StaleTaskIsExplained, TaskExplained, TaskCausesStay

\* The handlers that change what task:t copies.
LEMMA HandlerWrites ==
  ASSUME TypeOK, Handler, NEW t \in Task, life'[t] # life[t] \/ content'[t] # content[t]
  PROVE  Create(t) \/ CreateRefused(t) \/ Update(t) \/ Delete(t) \/ CompleteBySubtask(t)
<1>1. ASSUME NEW u \in Task,
             Create(u) \/ CreateRefused(u) \/ Update(u) \/ Delete(u) \/ CompleteBySubtask(u)
      PROVE  u = t
  BY <1>1 DEF Create, CreateRefused, Update, Delete, CompleteBySubtask, WriteContent, TypeOK
<1>2. ASSUME NEW u \in Task,
             AdminDeleteTask(u) \/ AcknowledgeAdminDeletion(u) \/ AdminRestoreTask(u)
      PROVE  FALSE
  BY <1>2 DEF AdminDeleteTask, AcknowledgeAdminDeletion, AdminRestoreTask, WriteFlag, dbVars
<1>3. ASSUME NEW u \in Task, ChangeSubtasks(u) \/ SharedTaskChanged(u) \/ FindOne(u)
      PROVE  FALSE
  BY <1>3 DEF ChangeSubtasks, SharedTaskChanged, FindOne, dbVars
<1>4. ASSUME NEW k \in ListKey, GetList(k) \/ GetListByTag(k) PROVE FALSE
  BY <1>4 DEF GetList, GetListByTag, ReadList, dbVars
<1> QED BY <1>1, <1>2, <1>3, <1>4 DEF Handler, WriteTask

LEMMA HandlerCausesStay ==
  ASSUME TypeOK, Handler
  PROVE  TaskCausesStay /\ lateList \subseteq lateList' /\ UNCHANGED unannounced
BY DEF TaskCausesStay, Start, LeaveStale, StartIfFree, history, unannounced,
       Handler, WriteTask, Create, CreateRefused, Update, Delete, ChangeSubtasks, CompleteBySubtask,
       AdminDeleteTask, AcknowledgeAdminDeletion, AdminRestoreTask, SharedTaskChanged, FindOne,
       GetList, GetListByTag, ReadList

LEMMA HandlerTask ==
  ASSUME TypeOK, StaleTaskIsExplained, Handler
  PROVE  StaleTaskIsExplained'
<1>1. Begins /\ TaskCausesStay
  BY HandlerBegins, HandlerCausesStay
<1> SUFFICES ASSUME NEW t \in Task, StaleTask(t)'
             PROVE  TaskExplained(t)'
  BY DEF StaleTaskIsExplained, TaskExplained
<1>2. t \in CachedTasks
  BY <1>1 DEF StaleTask, CachedTasks, Begins, redisVars
<1> USE DEF Start, LeaveStale, StartIfFree
<1>3. CASE life'[t] = life[t] /\ content'[t] = content[t]
  BY <1>1, <1>3, TaskUntouched
<1>4. CASE life'[t] # life[t] \/ content'[t] # content[t]
  <2>1. Create(t) \/ CreateRefused(t) \/ Update(t) \/ Delete(t) \/ CompleteBySubtask(t)
    BY <1>4, HandlerWrites
  <2>2. CASE Create(t) \/ CreateRefused(t)
    BY <1>1, <2>2, TaskUnborn DEF Create, CreateRefused
  <2>3. ASSUME t \in lateTask' \/ \E j \in Job : CorrectsTask(j, t)' PROVE TaskExplained(t)'
    BY <2>3 DEF TaskExplained
  <2>4. CASE Update(t)
    <3>1. PICK v : v = [from |-> "row", at |-> clock']
      OBVIOUS
    <3>2. v = RowOf(t)' /\ life'[t] = "present"
      BY <2>4, <3>1 DEF Update, WriteContent, RowOf, TypeOK
    <3>3. ASSUME NEW j \in Job, Start(j, TaskWork(t, v, TRUE, TRUE)) PROVE CorrectsTask(j, t)'
      BY <3>2, <3>3 DEF CorrectsTask, TaskWork, TypeOK
    <3> QED BY <1>2, <2>3, <2>4, <3>1, <3>3 DEF Update
  <2>5. CASE CompleteBySubtask(t)
    <3>1. ASSUME NEW j \in Job, Start(j, Invalidation(t, TRUE)) PROVE CorrectsTask(j, t)'
      BY <3>1 DEF Invalidation, CorrectsTask, TaskWork, TypeOK
    <3> QED BY <1>2, <2>3, <2>5, <3>1 DEF CompleteBySubtask
  <2>6. CASE Delete(t)
    <3>1. \E j \in Job : CorrectsTask(j, t)'
      BY <2>6 DEF Delete, Invalidation, CorrectsTask, TaskWork, TypeOK
    <3> QED BY <2>3, <3>1
  <2> QED BY <2>1, <2>2, <2>4, <2>5, <2>6
<1> QED BY <1>3, <1>4

LEMMA JobTask ==
  ASSUME TypeOK, StaleTaskIsExplained, NEW j \in Job, JobStep(j)
  PROVE  StaleTaskIsExplained'
<1> SUFFICES ASSUME NEW t \in Task, StaleTask(t)'
             PROVE  TaskExplained(t)'
  BY DEF StaleTaskIsExplained, TaskExplained
<1>1. \A i \in Job \ {j} : job'[i] = job[i]
  BY JobGoesOn DEF TypeOK
<1>2. UNCHANGED dbVars
  BY DEF JobStep, TaskCommand, Members, Drop, SetList, CommandFails
<1>3. RowOf(t)' = RowOf(t) /\ RequestOf(t)' = RequestOf(t) /\ life'[t] = life[t]
  BY <1>2 DEF RowOf, RequestOf, dbVars
<1>4. \A i \in Job \ {j} : CorrectsTask(i, t) => CorrectsTask(i, t)'
  BY <1>1, <1>3 DEF CorrectsTask
<1>5. ASSUME cachedTask'[t] = cachedTask[t], t \in lateTask \cup agedTask => t \in lateTask' \cup agedTask',
             StaleTask(t) /\ CorrectsTask(j, t) => t \in lateTask'
      PROVE  TaskExplained(t)'
  <2>1. StaleTask(t)
    BY <1>3, <1>5 DEF StaleTask
  <2>2. FromRequest(t, cachedTask[t]) => FromRequest(t, cachedTask[t])'
    BY <1>3, <1>5 DEF FromRequest
  <2> QED BY <1>4, <1>5, <2>1, <2>2 DEF StaleTaskIsExplained, TaskExplained
<1> USE DEF redisVars, history, unannounced
<1>6. CASE TaskCommand(j)
  <2>1. CASE job[j].task = t
    <3>1. cachedTask'[t] = job[j].value
      BY <1>6, <2>1 DEF TaskCommand, TypeOK
    <3>2. \/ job[j].value = None \/ FromRequest(t, job[j].value)
          \/ life[t] = "present" /\ job[j].value = RowOf(t)
          \/ t \in lateTask'
      BY <1>6, <2>1 DEF TaskCommand
    <3>3. FromRequest(t, job[j].value) => FromRequest(t, cachedTask[t])'
      BY <1>3, <3>1 DEF FromRequest
    <3> QED BY <1>3, <3>1, <3>2, <3>3 DEF StaleTask, TaskExplained
  <2>2. CASE job[j].task # t
    <3>1. /\ cachedTask'[t] = cachedTask[t]
          /\ t \in lateTask \cup agedTask => t \in lateTask' \cup agedTask'
          /\ ~CorrectsTask(j, t)
      BY <1>6, <2>2 DEF TaskCommand, CorrectsTask, TypeOK
    <3> QED BY <1>5, <3>1
  <2> QED BY <2>1, <2>2
<1>7. CASE Members(j) \/ Drop(j) \/ SetList(j)
  <2>1. UNCHANGED <<cachedTask, lateTask, agedTask>> /\ ~CorrectsTask(j, t)
    BY <1>7 DEF Members, Drop, SetList, CorrectsTask
  <2> QED BY <1>5, <2>1
<1>8. CASE CommandFails(j)
  <2>1. UNCHANGED <<cachedTask, agedTask>> /\ lateTask \subseteq lateTask'
    BY <1>8 DEF CommandFails
  <2>2. StaleTask(t) /\ CorrectsTask(j, t) => t \in lateTask'
    BY <1>8 DEF CommandFails, UncorrectedTasks, CorrectsTask
  <2> QED BY <1>5, <2>1, <2>2
<1> QED BY <1>6, <1>7, <1>8 DEF JobStep

\* Silent changes leave Redis and the jobs alone.
LEMMA SilentBegins ==
  ASSUME Silent
  PROVE  Begins /\ TaskCausesStay /\ UNCHANGED <<lateList, lateTask>>
BY DEF Silent, DeadlinePasses, OtherUserWrites, Begins, TaskCausesStay

LEMMA OtherTask ==
  ASSUME TypeOK, StaleTaskIsExplained, Silent \/ Expiry \/ Crash \/ UNCHANGED vars
  PROVE  StaleTaskIsExplained'
<1> SUFFICES ASSUME NEW t \in Task, StaleTask(t)'
             PROVE  TaskExplained(t)'
  BY DEF StaleTaskIsExplained, TaskExplained
<1> USE DEF dbVars, redisVars, history, unannounced
<1>1. CASE Expiry \/ UNCHANGED vars
  <2>1. /\ job' = job /\ UNCHANGED dbVars
        /\ \/ cachedTask'[t] = None
           \/ UNCHANGED <<cachedTask, lateTask, agedTask>>
           \/ \E u \in Task \ {t} : /\ cachedTask' = [cachedTask EXCEPT ![u] = None]
                                    /\ lateTask' = lateTask \ {u} /\ agedTask' = agedTask \ {u}
    BY <1>1 DEF Expiry, ExpireTask, ExpireList, ExpireListKeys, vars, TypeOK
  <2>2. RowOf(t)' = RowOf(t) /\ RequestOf(t)' = RequestOf(t) /\ life'[t] = life[t]
    BY <2>1 DEF RowOf, RequestOf
  <2>3. /\ cachedTask'[t] = cachedTask[t] /\ StaleTask(t)
        /\ t \in lateTask \cup agedTask => t \in lateTask' \cup agedTask'
    BY <2>1, <2>2 DEF StaleTask, TypeOK
  <2>4. \A j \in Job : CorrectsTask(j, t) => CorrectsTask(j, t)'
    BY <2>1, <2>2 DEF CorrectsTask
  <2>5. FromRequest(t, cachedTask[t]) => FromRequest(t, cachedTask[t])'
    BY <2>2, <2>3 DEF FromRequest
  <2> QED BY <2>1, <2>3, <2>4, <2>5 DEF StaleTaskIsExplained, TaskExplained, StaleTask
<1>2. CASE Crash
  <2>1. UNCHANGED <<dbVars, cachedTask, agedTask>> /\ lateTask \subseteq lateTask'
    BY <1>2 DEF Crash
  <2>2. RowOf(t)' = RowOf(t) /\ RequestOf(t)' = RequestOf(t) /\ life'[t] = life[t]
    BY <2>1 DEF RowOf, RequestOf
  <2>3. StaleTask(t) /\ (FromRequest(t, cachedTask[t]) => FromRequest(t, cachedTask[t])')
    BY <2>1, <2>2 DEF StaleTask, FromRequest
  <2>4. ASSUME NEW i \in Job, CorrectsTask(i, t) PROVE t \in lateTask'
    BY <1>2, <2>3, <2>4 DEF Crash, CorrectsTask, UncorrectedTasks
  <2> QED BY <2>1, <2>3, <2>4 DEF StaleTaskIsExplained, TaskExplained
<1>3. CASE Silent
  <2>1. CASE life'[t] = life[t] /\ content'[t] = content[t]
    BY <1>3, <2>1, SilentBegins, TaskUntouched
  <2>2. CASE life'[t] # life[t] \/ content'[t] # content[t]
    <3>1. PICK u \in Task : DeadlinePasses(u)
      BY <1>3, <2>2 DEF Silent, OtherUserWrites
    <3>2. u = t
      BY <2>2, <3>1 DEF DeadlinePasses, WriteContent, TypeOK
    <3>3. t \in CachedTasks
      BY <3>1 DEF DeadlinePasses, CachedTasks, StaleTask
    <3> QED BY <3>1, <3>2, <3>3 DEF DeadlinePasses, TaskExplained
  <2> QED BY <2>1, <2>2
<1> QED BY <1>1, <1>2, <1>3

-----------------------------------------------------------------------------
(* Stale lists *)

\* Why the list k may not say what the database says.
ListExplained(k) ==
  \/ k \in lateList \cup agedList \cup foreign \cup overlapped
  \/ \E j \in Job : CorrectsList(j, k)

\* Whoever changes a task invalidates the lists, or is known not to.
LEMMA HandlerCorrects ==
  ASSUME TypeOK, Handler, NEW k \in ListKey, ViewOf(k)' # ViewOf(k), k \in CachedLists
  PROVE  k \in lateList' \/ \E j \in Job : CorrectsList(j, k)'
<1> USE DEF Start, LeaveStale, StartIfFree
<1>0. UNCHANGED dbVars => ViewOf(k)' = ViewOf(k)
  BY DEF ViewOf, Listed, dbVars
<1>1. ASSUME NEW t \in Task, Create(t) \/ Update(t)
      PROVE  k \in lateList' \/ \E j \in Job : CorrectsList(j, k)'
  BY <1>1 DEF Create, Update, TaskWork, CorrectsList, TypeOK
<1>2. ASSUME NEW t \in Task, Delete(t) \/ CompleteBySubtask(t)
      PROVE  k \in lateList' \/ \E j \in Job : CorrectsList(j, k)'
  BY <1>2 DEF Delete, CompleteBySubtask, Invalidation, TaskWork, CorrectsList, TypeOK
<1>3. ASSUME NEW t \in Task,
             AdminDeleteTask(t) \/ AcknowledgeAdminDeletion(t) \/ AdminRestoreTask(t)
      PROVE  \E j \in Job : CorrectsList(j, k)'
  BY <1>3 DEF AdminDeleteTask, AcknowledgeAdminDeletion, AdminRestoreTask, Invalidation,
              TaskWork, CorrectsList, TypeOK
<1>4. ASSUME NEW t \in Task, ChangeSubtasks(t) \/ SharedTaskChanged(t) \/ FindOne(t)
      PROVE  FALSE
  BY <1>0, <1>4 DEF ChangeSubtasks, SharedTaskChanged, FindOne
<1>5. ASSUME NEW l \in ListKey, GetList(l) \/ GetListByTag(l) PROVE FALSE
  BY <1>0, <1>5 DEF GetList, GetListByTag, ReadList
<1>6. ASSUME NEW t \in Task, CreateRefused(t) PROVE FALSE
  <2>1. \A u \in Task : Listed(k, u)' <=> Listed(k, u)
    BY <1>6 DEF CreateRefused, Listed, TypeOK
  <2> QED BY <1>6, <2>1 DEF CreateRefused, ViewOf
<1> QED BY <1>1, <1>2, <1>3, <1>4, <1>5, <1>6 DEF Handler, WriteTask

\* A list that was explained still is, if what it copies has not changed.
LEMMA ListUntouched ==
  ASSUME TypeOK, Begins, StaleListIsExplained, NEW k \in ListKey, ViewOf(k)' = ViewOf(k),
         lateList \subseteq lateList', agedList \subseteq agedList', foreign \subseteq foreign',
         StaleList(k)'
  PROVE  ListExplained(k)'
<1>1. StaleList(k) /\ overlapped' = overlapped
  BY DEF Begins, StaleList, redisVars
<1>2. ASSUME NEW j \in Job, CorrectsList(j, k) PROVE CorrectsList(j, k)'
  <2>1. job'[j] = job[j]
    BY <1>2, BeginsKeeps DEF CorrectsList
  <2> QED BY <1>2, <2>1 DEF CorrectsList
<1> QED BY <1>1, <1>2 DEF StaleListIsExplained, ListExplained

LEMMA HandlerList ==
  ASSUME TypeOK, StaleListIsExplained, Handler
  PROVE  StaleListIsExplained'
<1> SUFFICES ASSUME NEW k \in ListKey, StaleList(k)'
             PROVE  ListExplained(k)'
  BY DEF StaleListIsExplained, ListExplained
<1>1. Begins /\ lateList \subseteq lateList' /\ UNCHANGED <<agedList, foreign>>
  BY HandlerBegins, HandlerCausesStay DEF unannounced
<1>2. k \in CachedLists
  BY <1>1 DEF StaleList, CachedLists, Begins, redisVars
<1>3. CASE ViewOf(k)' # ViewOf(k)
  BY <1>2, <1>3, HandlerCorrects DEF ListExplained
<1>4. CASE ViewOf(k)' = ViewOf(k)
  BY <1>1, <1>4, ListUntouched
<1> QED BY <1>3, <1>4

\* The case Members is where the promise of TrackedCache is needed.
LEMMA JobList ==
  ASSUME TypeOK, Lists!UntrackedWasOverlapped, StaleListIsExplained, NEW j \in Job, JobStep(j)
  PROVE  StaleListIsExplained'
<1> SUFFICES ASSUME NEW k \in ListKey, StaleList(k)'
             PROVE  ListExplained(k)'
  BY DEF StaleListIsExplained, ListExplained
<1>0. job[j] \in Work \cup {Idle}
  BY DEF TypeOK
<1>1. \A i \in Job \ {j} : job'[i] = job[i]
  BY JobGoesOn DEF TypeOK
<1>2. UNCHANGED dbVars
  BY DEF JobStep, TaskCommand, Members, Drop, SetList, CommandFails
<1>3. \A i \in Job \ {j} : CorrectsList(i, k) => CorrectsList(i, k)'
  BY <1>1 DEF CorrectsList
<1>4. ViewOf(k)' = ViewOf(k)
  BY <1>2 DEF ViewOf, Listed, dbVars
<1> USE DEF redisVars, history, unannounced
<1>5. CASE TaskCommand(j)
  <2>1. StaleList(k) /\ UNCHANGED <<lateList, agedList, foreign, overlapped>>
    BY <1>4, <1>5 DEF TaskCommand, StaleList
  <2>2. job[j].lists => job'[j].step = "members"
    BY <1>0, <1>5, AfterTaskFacts DEF TaskCommand, TypeOK
  <2>3. CorrectsList(j, k) => CorrectsList(j, k)'
    BY <1>5, <2>2 DEF CorrectsList, TaskCommand
  <2> QED BY <1>3, <2>1, <2>3 DEF StaleListIsExplained, ListExplained
<1>6. CASE Members(j)
  <2>1. StaleList(k) /\ UNCHANGED <<lateList, unannounced, overlapped>>
    BY <1>4, <1>6 DEF Members, StaleList
  <2>2. CASE k \in listKeys
    <3> DEFINE next == [step |-> "drop", task |-> job[j].task, keys |-> listKeys,
                        sema |-> job[j].sema]
    <3>1. job'[j] = next /\ next.step = "drop" /\ next.keys = listKeys
      BY <1>6, <2>2 DEF Members, TypeOK
    <3> HIDE DEF next
    <3>2. CorrectsList(j, k)'
      BY <2>2, <3>1 DEF CorrectsList
    <3> QED BY <3>2 DEF ListExplained
  <2>3. CASE k \notin listKeys
    BY <2>1, <2>3 DEF StaleList, Lists!UntrackedWasOverlapped, ListExplained
  <2> QED BY <2>2, <2>3
<1>7. CASE Drop(j)
  <2>1. k \notin job[j].keys
    BY <1>7 DEF Drop, StaleList
  <2>2. /\ StaleList(k) /\ overlapped' = overlapped
        /\ k \in lateList \cup agedList \cup foreign => k \in lateList' \cup agedList' \cup foreign'
    BY <1>4, <1>7, <2>1 DEF Drop, StaleList
  <2>3. ~CorrectsList(j, k)
    BY <1>7, <2>1 DEF Drop, CorrectsList
  <2> QED BY <1>3, <2>2, <2>3 DEF StaleListIsExplained, ListExplained
<1>8. CASE SetList(j)
  <2>1. CASE job[j].key = k
    BY <1>4, <1>8, <2>1 DEF SetList, StaleList, TypeOK, ListExplained
  <2>2. CASE job[j].key # k
    <3>1. /\ StaleList(k) /\ (k \in overlapped => k \in overlapped')
          /\ k \in lateList \cup agedList \cup foreign => k \in lateList' \cup agedList' \cup foreign'
      BY <1>4, <1>8, <2>2 DEF SetList, StaleList, TypeOK
    <3>2. ~CorrectsList(j, k)
      BY <1>8 DEF SetList, CorrectsList
    <3> QED BY <1>3, <3>1, <3>2 DEF StaleListIsExplained, ListExplained
  <2> QED BY <2>1, <2>2
<1>9. CASE CommandFails(j)
  <2>1. StaleList(k) /\ lateList \subseteq lateList' /\ UNCHANGED <<unannounced, overlapped>>
    BY <1>4, <1>9 DEF CommandFails, StaleList
  <2>2. CASE job[j].step = "task"
    <3>1. job[j].lists => job'[j].step = "members"
      BY <1>0, <1>9, <2>2, AfterTaskFacts DEF CommandFails, TypeOK
    <3>2. CorrectsList(j, k) => CorrectsList(j, k)'
      BY <2>2, <3>1 DEF CorrectsList
    <3> QED BY <1>3, <2>1, <3>2 DEF StaleListIsExplained, ListExplained
  <2>3. CASE job[j].step # "task"
    <3>1. CorrectsList(j, k) => k \in lateList'
      BY <1>9, <2>1, <2>3 DEF CommandFails, CorrectsList, UncorrectedLists
    <3> QED BY <1>3, <2>1, <3>1 DEF StaleListIsExplained, ListExplained
  <2> QED BY <2>2, <2>3
<1> QED BY <1>5, <1>6, <1>7, <1>8, <1>9 DEF JobStep

LEMMA OtherList ==
  ASSUME TypeOK, StaleListIsExplained, Silent \/ Expiry \/ Crash \/ UNCHANGED vars
  PROVE  StaleListIsExplained'
<1> SUFFICES ASSUME NEW k \in ListKey, StaleList(k)'
             PROVE  ListExplained(k)'
  BY DEF StaleListIsExplained, ListExplained
<1>0. UNCHANGED dbVars => ViewOf(k)' = ViewOf(k)
  BY DEF ViewOf, Listed, dbVars
<1> USE DEF redisVars, history, unannounced
<1>1. CASE Expiry \/ UNCHANGED vars
  <2>1. /\ UNCHANGED <<dbVars, overlapped, job>>
        /\ \/ cachedList'[k] = None
           \/ /\ cachedList'[k] = cachedList[k]
              /\ k \in lateList \cup agedList \cup foreign
                   => k \in lateList' \cup agedList' \cup foreign'
    BY <1>1 DEF Expiry, ExpireTask, ExpireList, ExpireListKeys, vars, TypeOK
  <2>2. StaleList(k) /\ cachedList'[k] # None
    BY <1>0, <2>1 DEF StaleList
  <2>3. \A j \in Job : CorrectsList(j, k) => CorrectsList(j, k)'
    BY <2>1 DEF CorrectsList
  <2> QED BY <2>1, <2>2, <2>3 DEF StaleListIsExplained, ListExplained
<1>2. CASE Crash
  <2>1. StaleList(k) /\ lateList \subseteq lateList' /\ UNCHANGED <<agedList, foreign, overlapped>>
    BY <1>0, <1>2 DEF Crash, StaleList
  <2>2. ASSUME NEW i \in Job, CorrectsList(i, k) PROVE k \in lateList'
    BY <1>2, <2>1, <2>2 DEF Crash, CorrectsList, UncorrectedLists
  <2> QED BY <2>1, <2>2 DEF StaleListIsExplained, ListExplained
<1>3. CASE Silent
  <2>1. k \in CachedLists /\ Begins /\ lateList' = lateList
    BY <1>3, SilentBegins DEF StaleList, CachedLists, Begins
  <2>2. agedList \subseteq agedList' /\ foreign \subseteq foreign'
    BY <1>3 DEF Silent, DeadlinePasses, OtherUserWrites
  <2>3. CASE ViewOf(k)' = ViewOf(k)
    BY <2>1, <2>2, <2>3, ListUntouched
  <2>4. ASSUME NEW t \in Task, DeadlinePasses(t), ~Listed(k, t) PROVE ViewOf(k)' = ViewOf(k)
    <3>1. \A u \in Task : Listed(k, u)' <=> Listed(k, u)
      BY <2>4 DEF DeadlinePasses, Listed
    <3>2. others' = others /\ \A u \in Task : u # t => listing'[u] = listing[u]
      BY <2>4 DEF DeadlinePasses, WriteContent, TypeOK
    <3> QED BY <2>4, <3>1, <3>2 DEF ViewOf
  <2>5. ASSUME OtherUserWrites, k \notin TagListKey PROVE ViewOf(k)' = ViewOf(k)
    BY <2>5 DEF OtherUserWrites, ViewOf, Listed
  <2>6. ViewOf(k)' # ViewOf(k) => k \in agedList' \/ k \in foreign'
    BY <1>3, <2>1, <2>4, <2>5 DEF Silent, DeadlinePasses, OtherUserWrites
  <2> QED BY <2>3, <2>6 DEF ListExplained
<1> QED BY <1>1, <1>2, <1>3

-----------------------------------------------------------------------------

\* The theorems about TrackedCache, of user_list_keys.
Promise == INSTANCE TrackedCacheProofs WITH
  Key <- ListKey,
  Invalidator <- Job,
  stored <- {k \in ListKey : cachedList[k] # None},
  tracked <- listKeys,
  found <- [j \in Job |-> IF job[j].step = "drop" THEN job[j].keys ELSE None]

LEMMA PromiseKept ==
  ASSUME Lists!IInv, [Lists!Next]_(Lists!vars)
  PROVE  Lists!IInv'
<1>1. Promise!IInv <=> Lists!IInv
  BY DEF Promise!IInv, Promise!TypeOK, Promise!UntrackedWasOverlapped, Promise!FoundTheRest,
         Lists!IInv, Lists!TypeOK, Lists!UntrackedWasOverlapped, Lists!FoundTheRest
<1>2. Promise!Next <=> Lists!Next
  BY DEF Promise!Next, Promise!Store, Promise!Overtakes, Promise!Forget, Promise!ExpireSet,
         Promise!Members, Promise!Drop, Promise!Abandon,
         Lists!Next, Lists!Store, Lists!Overtakes, Lists!Forget, Lists!ExpireSet,
         Lists!Members, Lists!Drop, Lists!Abandon
<1>3. Promise!vars = Lists!vars /\ Promise!vars' = Lists!vars'
  BY DEF Promise!vars, Lists!vars
<1>4. Promise!IInv'
  BY <1>1, <1>2, <1>3, Promise!StepPreserves
<1> QED
  BY <1>4
  DEF Promise!IInv, Promise!TypeOK, Promise!UntrackedWasOverlapped, Promise!FoundTheRest,
      Lists!IInv, Lists!TypeOK, Lists!UntrackedWasOverlapped, Lists!FoundTheRest

LEMMA InitCacheIInv == Init => CacheIInv
<1> SUFFICES ASSUME Init PROVE CacheIInv
  OBVIOUS
<1>1. Lists!IInv
  BY DEF Init, Idle, Lists!IInv, Lists!TypeOK, Lists!UntrackedWasOverlapped, Lists!FoundTheRest
<1>2. StaleTaskIsExplained /\ StaleListIsExplained
  BY DEF Init, StaleTaskIsExplained, StaleListIsExplained, StaleTask, StaleList
<1> QED BY <1>1, <1>2, InitType DEF CacheIInv

\* The types, the promise of TrackedCache and both explanations hold in every
\* reachable state, crashes and failures of Redis included.
THEOREM CacheInvariant == Spec => []CacheIInv
<1>1. ASSUME CacheIInv, [Next]_vars PROVE CacheIInv'
  <2>1. TypeOK'
    BY <1>1, NextKinds, HandlerType, JobType, OtherType DEF CacheIInv
  <2>2. Lists!IInv'
    BY <1>1, StepTracked, PromiseKept DEF CacheIInv
  <2>3. StaleTaskIsExplained'
    BY <1>1, NextKinds, HandlerTask, JobTask, OtherTask DEF CacheIInv
  <2>4. StaleListIsExplained'
    BY <1>1, NextKinds, HandlerList, JobList, OtherList DEF CacheIInv, Lists!IInv
  <2> QED BY <2>1, <2>2, <2>3, <2>4 DEF CacheIInv
<1> QED BY InitCacheIInv, <1>1, PTL DEF Spec

\* handlers/handler.go: a changed or deleted task is found in Redis only if the
\* correction is on its way or was lost, or a copy was written late, however
\* many goroutines work on it.  Other copies that are not the row are those of
\* requests (handler.go:264, batch.go:158) and those from before a deadline.
THEOREM TasksExplained == Spec => []StaleTaskIsExplained
<1>1. CacheIInv => StaleTaskIsExplained
  BY DEF CacheIInv
<1> QED BY CacheInvariant, <1>1, PTL

\* The same of lists, where a copy may also have been stored between the two
\* commands of InvalidateUserLists (redis.go:220-235), or show what the deadline
\* or, under a tag (postgres.go:465-477), another user has changed since.
THEOREM ListsExplained == Spec => []StaleListIsExplained
<1>1. CacheIInv => StaleListIsExplained
  BY DEF CacheIInv
<1> QED BY CacheInvariant, <1>1, PTL
=============================================================================
