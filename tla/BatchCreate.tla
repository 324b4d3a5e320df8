------------------------------ MODULE BatchCreate ------------------------------
(***************************************************************************)
(* The creation of tasks in batches: the handler Create answers "accepted" *)
(* as soon as a task is in the channel, and one worker collects batches,   *)
(* inserts them and has goroutines cache them.  When the process stops,    *)
(* main closes its connections first and cancels the worker's context      *)
(* last.                                                                   *)
(*                                                                         *)
(* An insertion succeeds, or fails because PostgreSQL refuses one of its   *)
(* rows or because it has run out of time.  The insertions of one flush    *)
(* share a context of 15 seconds: once they are over, what is left of the  *)
(* batch fails too.                                                        *)
(***************************************************************************)
EXTENDS Naturals, FiniteSets, SequencesExt

CONSTANTS
  TaskId,       \* requests to create a task without subtasks, by its uuid
  Tagged,       \* those with a TagName, which get a statement of their own
  ChannelSize,  \* taskChannelSize, 10000 in the code
  MaxBatch,     \* taskMaxBatch, 500 in the code
  SemaSize      \* redisConcurrencyLimit, 500 in the code

ASSUME BatchAssumption ==
  /\ Tagged \subseteq TaskId
  /\ ChannelSize \in Nat \ {0} /\ MaxBatch \in Nat \ {0} /\ SemaSize \in Nat \ {0}

VARIABLES
  answer,   \* answer[t]: what the caller was told
  taskCh,   \* the channel
  batch,    \* what the worker has collected
  worker,   \* the loop the worker is in
  stage,    \* where flushCreate is, "none" outside
  todo,     \* the places in the batch this stage has not dealt with
  expired,  \* the context of this flush is past its deadline
  tasks,    \* the rows of tasks
  caching,  \* the goroutines that are about to cache a task
  cached,   \* task:* in Redis
  process,  \* how far the shutdown has come
  \* History, read by no action:
  missed,   \* missed[t]: why the insertion left t out
  flushes,  \* the batches flushCreate is through with
  timeouts  \* the flushes, by number, whose context ran out

vars == <<answer, taskCh, batch, worker, stage, todo, expired, tasks, caching, cached,
          process, missed, flushes, timeouts>>

-----------------------------------------------------------------------------
(* Helpers *)

\* main: Shutdown has returned, Redis is closed, PostgreSQL is closed (the
\* deferred calls run in the reverse order of their writing), cancel() is
\* called last of all, and the process ends.
Phases == <<"serving", "stopping", "stopped", "redisClosed", "databaseClosed",
            "cancelled", "exited">>

Reached(phase) ==
  \E i, j \in DOMAIN Phases : i <= j /\ Phases[i] = phase /\ Phases[j] = process

IsTagged_Never(t) == FALSE

\* strings.TrimSpace(t.TagName) != ""
IsTagged(t) == t \in Tagged

\* What a stage of flushCreate deals with.
Work(st, b) ==
  {i \in DOMAIN b : /\ st = "tagged" => IsTagged(b[i])
                    /\ st = "simple" => ~IsTagged(b[i])}

\* The loops of flushCreate follow the order of the batch.
IsFirst(i) == i \in todo /\ \A k \in todo : i <= k

StageAfter_CacheFirst(st) ==
  CASE st = "tagged" -> "cache" [] st = "cache" -> "simple" [] st = "simple" -> "none"

StageAfter(st) ==
  CASE st = "tagged" -> "simple" [] st = "simple" -> "cache" [] st = "cache" -> "none"

Init ==
  /\ answer = [t \in TaskId |-> "none"]
  /\ taskCh = <<>> /\ batch = <<>> /\ todo = {}
  /\ worker = "serving" /\ stage = "none" /\ expired = FALSE
  /\ tasks = {} /\ caching = {} /\ cached = {}
  /\ process = "serving"
  /\ missed = [t \in TaskId |-> "no"]
  /\ flushes = <<>> /\ timeouts = {}

-----------------------------------------------------------------------------
(* The handler; Shutdown waits for requests in progress, but only for ten  *)
(* seconds: those that take longer go on until the process ends            *)

Requested(t) == answer[t] = "none" /\ process # "exited"

EnqueueCreate(t) ==
  /\ Requested(t)
  /\ Len(taskCh) < ChannelSize
  /\ taskCh' = Append(taskCh, t)
  /\ answer' = [answer EXCEPT ![t] = "accepted"]
  /\ UNCHANGED <<batch, worker, stage, todo, expired, tasks, caching, cached, process, missed, flushes, timeouts>>

\* The channel is full: the handler inserts the task itself, and caches nothing.
CreateFallback(t) ==
  /\ Requested(t)
  /\ Len(taskCh) = ChannelSize
  /\ \/ /\ ~Reached("databaseClosed")
        /\ answer' = [answer EXCEPT ![t] = "created"] /\ tasks' = tasks \cup {t}
     \/ answer' = [answer EXCEPT ![t] = "failed"] /\ UNCHANGED tasks
  /\ UNCHANGED <<taskCh, batch, worker, stage, todo, expired, caching, cached, process, missed, flushes, timeouts>>

-----------------------------------------------------------------------------
(* runCreateWorker *)

NewContext_Shared == UNCHANGED expired

\* context.WithTimeout
NewContext == expired' = FALSE

StartFlush == stage' = "tagged" /\ todo' = Work("tagged", batch') /\ NewContext

Waiting(loop) == worker = loop /\ stage = "none" /\ process # "exited"

\* case task := <-p.taskCh, in either loop
Collect ==
  /\ Waiting("serving") \/ Waiting("draining")
  /\ taskCh # <<>>
  /\ taskCh' = Tail(taskCh)
  /\ batch' = Append(batch, Head(taskCh))
  /\ IF Len(batch') >= MaxBatch THEN StartFlush ELSE UNCHANGED <<stage, todo, expired>>
  /\ UNCHANGED <<answer, worker, tasks, caching, cached, process, missed, flushes, timeouts>>

TickFlushes_OnlyFull(b) == Len(b) >= MaxBatch

TickFlushes(b) == b # <<>>

\* case <-ticker.C
Tick ==
  /\ Waiting("serving")
  /\ TickFlushes(batch)
  /\ UNCHANGED batch
  /\ StartFlush
  /\ UNCHANGED <<answer, taskCh, worker, tasks, caching, cached, process, missed, flushes, timeouts>>

\* case <-ctx.Done(): flush the batch, then go on with the rest of the channel.
ContextDone ==
  /\ Waiting("serving")
  /\ Reached("cancelled")
  /\ worker' = "draining"
  /\ UNCHANGED batch
  /\ IF batch # <<>> THEN StartFlush ELSE UNCHANGED <<stage, todo, expired>>
  /\ UNCHANGED <<answer, taskCh, tasks, caching, cached, process, missed, flushes, timeouts>>

\* default: the channel is empty; flush what was read last, and return.
ChannelDrained ==
  /\ Waiting("draining")
  /\ taskCh = <<>>
  /\ worker' = "ended"
  /\ UNCHANGED batch
  /\ IF batch # <<>> THEN StartFlush ELSE UNCHANGED <<stage, todo, expired>>
  /\ UNCHANGED <<answer, taskCh, tasks, caching, cached, process, missed, flushes, timeouts>>

-----------------------------------------------------------------------------
(* flushCreate *)

\* The 15 seconds of the flush are over while rows are still to be inserted.
DeadlinePasses ==
  /\ stage \in {"tagged", "simple"} /\ todo # {}
  /\ process # "exited"
  /\ ~expired
  /\ expired' = TRUE
  /\ timeouts' = timeouts \cup {Len(flushes) + 1}
  /\ UNCHANGED <<answer, taskCh, batch, worker, stage, todo, tasks, caching, cached, process,
                 missed, flushes>>

\* The insertion of the rows of one statement or transaction.
InsertRows(rows) ==
  IF expired \/ Reached("databaseClosed")
  THEN /\ missed' = [t \in TaskId |-> IF t \notin rows THEN missed[t]
                                      ELSE IF expired THEN "timeout" ELSE "late"]
       /\ UNCHANGED tasks
  ELSE \/ tasks' = tasks \cup rows /\ UNCHANGED missed
       \/ /\ \E bad \in rows :
               missed' = [t \in TaskId |-> IF t = bad THEN "refused"
                                           ELSE IF t \in rows THEN "companion"
                                           ELSE missed[t]]
          /\ UNCHANGED tasks

\* Every tagged task has a CreateTask of its own.
InsertTagged ==
  /\ stage = "tagged"
  /\ process # "exited"
  /\ \E i \in DOMAIN batch : /\ IsFirst(i)
                             /\ InsertRows({batch[i]})
                             /\ todo' = todo \ {i}
  /\ UNCHANGED <<answer, taskCh, batch, worker, stage, caching, cached, expired, process, flushes, timeouts>>

\* CreateTaskBatch takes all the others at once.
InsertSimple ==
  /\ stage = "simple" /\ todo # {}
  /\ process # "exited"
  /\ InsertRows({batch[i] : i \in todo})
  /\ todo' = {}
  /\ UNCHANGED <<answer, taskCh, batch, worker, stage, caching, cached, expired, process, flushes, timeouts>>

SemaphoreFree_NeverAsked == TRUE

SemaphoreFree == Cardinality(caching) < SemaSize

\* Every task of the batch, inserted or not, is cached by a goroutine, or by
\* nobody if the semaphore has no place.
StartCaching ==
  /\ stage = "cache"
  /\ process # "exited"
  /\ \E i \in DOMAIN batch :
       /\ IsFirst(i)
       /\ caching' = IF SemaphoreFree THEN caching \cup {batch[i]} ELSE caching
       /\ todo' = todo \ {i}
  /\ UNCHANGED <<answer, taskCh, batch, worker, stage, expired, tasks, cached, process, missed, flushes, timeouts>>

BatchAfterFlush_Kept == batch

\* batch = batch[:0]
BatchAfterFlush == <<>>

FlushGoesOn ==
  /\ stage # "none" /\ todo = {}
  /\ process # "exited"
  /\ stage' = StageAfter(stage)
  /\ IF stage' = "none"
     THEN /\ batch' = BatchAfterFlush
          /\ flushes' = Append(flushes, ToSet(batch))
          /\ UNCHANGED todo
     ELSE /\ todo' = Work(stage', batch)
          /\ UNCHANGED <<batch, flushes>>
  /\ UNCHANGED <<answer, taskCh, worker, tasks, caching, cached, expired, process, missed, timeouts>>

-----------------------------------------------------------------------------

\* The goroutine sets the task, unless Redis fails, and releases the semaphore.
CacheTask(t) ==
  /\ t \in caching
  /\ process # "exited"
  /\ caching' = caching \ {t}
  /\ \/ ~Reached("redisClosed") /\ cached' = cached \cup {t}
     \/ UNCHANGED cached
  /\ UNCHANGED <<answer, taskCh, batch, worker, stage, todo, expired, tasks, process, missed, flushes, timeouts>>

\* The signal, Shutdown, the deferred calls of main, and its return.
ShutdownGoesOn ==
  /\ \E i \in DOMAIN Phases :
       i < Len(Phases) /\ process = Phases[i] /\ process' = Phases[i + 1]
  /\ UNCHANGED <<answer, taskCh, batch, worker, stage, todo, expired, tasks, caching, cached, missed, flushes, timeouts>>

-----------------------------------------------------------------------------

Worker ==
  \/ Collect \/ Tick \/ ContextDone \/ ChannelDrained
  \/ InsertTagged \/ InsertSimple \/ StartCaching \/ FlushGoesOn

Next ==
  \/ \E t \in TaskId : EnqueueCreate(t) \/ CreateFallback(t)
  \/ Collect
  \/ Tick
  \/ ContextDone
  \/ ChannelDrained
  \/ DeadlinePasses
  \/ InsertTagged
  \/ InsertSimple
  \/ StartCaching
  \/ FlushGoesOn
  \/ \E t \in TaskId : CacheTask(t)
  \/ ShutdownGoesOn

Spec == Init /\ [][Next]_vars

\* The worker's loop never stops by itself; its ticker goes on.
FairSpec == Spec /\ WF_vars(Worker)

-----------------------------------------------------------------------------
(* Properties *)

TypeOK ==
  /\ answer \in [TaskId -> {"none", "accepted", "created", "failed"}]
  /\ taskCh \in Seq(TaskId) /\ Len(taskCh) <= ChannelSize
  /\ batch \in Seq(TaskId) /\ Len(batch) <= MaxBatch
  /\ worker \in {"serving", "draining", "ended"}
  /\ stage \in {"none", "tagged", "simple", "cache"}
  /\ todo \subseteq DOMAIN batch /\ (stage = "none" => todo = {})
  /\ expired \in BOOLEAN
  /\ tasks \subseteq TaskId
  /\ caching \subseteq TaskId /\ Cardinality(caching) <= SemaSize
  /\ cached \subseteq TaskId
  /\ process \in ToSet(Phases)
  /\ missed \in [TaskId -> {"no", "refused", "companion", "timeout", "late"}]
  /\ flushes \in Seq(SUBSET TaskId)
  /\ timeouts \subseteq 1 .. Len(flushes) + 1

Flushed == UNION ToSet(flushes)

\* Every accepted task is in the channel, in the batch or was flushed, once: the
\* worker neither drops one between its two loops nor inserts one again, which
\* would make the whole next batch fail on the primary key.  What the fallback
\* inserted never comes to the worker.
AcceptedIsInOnePlace ==
  /\ {t \in TaskId : answer[t] = "accepted"} = ToSet(taskCh) \cup ToSet(batch) \cup Flushed
  /\ IsInjective(taskCh) /\ IsInjective(batch)
  /\ ToSet(taskCh) \cap ToSet(batch) = {}
  /\ (ToSet(taskCh) \cup ToSet(batch)) \cap Flushed = {}
  /\ \A i, j \in DOMAIN flushes : i # j => flushes[i] \cap flushes[j] = {}

\* The tasks of a flush by its number; that of the current batch is the last.
FlushOf(k) == IF k \in DOMAIN flushes THEN flushes[k] ELSE ToSet(batch)

\* A flushed task is a row, or its insertion failed, and then never because of
\* another flush: PostgreSQL refused it; it has no tag and shared the transaction
\* with an untagged one that was refused (a tagged one that is refused takes
\* nobody with it); the 15 seconds of its own flush were over, which one slow
\* row is enough for (batch.go:130); or the database was closed.
FailureIsConfined ==
  /\ \A t \in Flushed : t \in tasks <=> missed[t] = "no"
  /\ \A t \in TaskId : missed[t] = "companion" =>
       /\ t \notin Tagged
       /\ \E b \in ToSet(flushes) \cup {ToSet(batch)} :
            \E u \in b \ Tagged : t \in b /\ missed[u] = "refused"
  /\ \A t \in TaskId : missed[t] = "timeout" => \E k \in timeouts : t \in FlushOf(k)

\* A task is found in Redis before it is in the table only if its insertion has
\* already failed (then it is found there although it never existed).
CachedWasInserted == \A t \in caching \cup cached : t \in tasks \/ missed[t] # "no"

\* While the process serves, what was accepted gets flushed: the ticker
\* sees to an incomplete batch, and no full semaphore holds the worker up.
AcceptedGetsFlushed ==
  \A t \in TaskId : answer[t] = "accepted" ~> t \in Flushed \/ process # "serving"

-----------------------------------------------------------------------------
(* A claim of the code that it does not keep *)

\* batch.go:54, on cancellation of ctx the workers flush the rest and end.
RestIsSaved ==
  worker = "ended" /\ stage = "none" => \A t \in Flushed : missed[t] # "late"
=============================================================================
