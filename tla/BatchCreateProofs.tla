---------------------------- MODULE BatchCreateProofs ----------------------------
(***************************************************************************)
(* The safety of batch creation for any requests, any size of the channel, *)
(* of the batches and of the semaphore, the shutdown included.             *)
(*                                                                         *)
(* The invariant adds what flushCreate has done to which places of the     *)
(* batch: what its insertions have not come to is neither in the table nor *)
(* known to have failed, and what they have dealt with is exactly one of   *)
(* the two.                                                                *)
(***************************************************************************)
EXTENDS BatchCreate, FiniteSetTheorems, TLAPS

\* The insertions of flushCreate have come to the place i of the batch.
DealtWith(i) ==
  \/ stage = "cache"
  \/ stage = "simple" /\ (IsTagged(batch[i]) \/ i \notin todo)
  \/ stage = "tagged" /\ IsTagged(batch[i]) /\ i \notin todo

Settled(t) == t \in tasks <=> missed[t] = "no"
Untried(t) == t \notin tasks /\ missed[t] = "no"

\* A worker that collects has room in its batch; a stage deals with its own.
WorkerInLine ==
  /\ stage = "none" => Len(batch) < MaxBatch
  /\ todo \subseteq Work(stage, batch)
  /\ IsFiniteSet(caching)

RowsAreTold ==
  /\ \A t \in TaskId : answer[t] = "none" \/ t \in ToSet(taskCh) => Untried(t)
  /\ \A i \in DOMAIN batch : IF DealtWith(i) THEN Settled(batch[i]) ELSE Untried(batch[i])
  /\ \A t \in Flushed : Settled(t)

\* The second part of FailureIsConfined.
CompanionsExplained ==
  \A t \in TaskId : missed[t] = "companion" =>
    /\ t \notin Tagged
    /\ \E b \in ToSet(flushes) \cup {ToSet(batch)} :
         \E u \in b \ Tagged : t \in b /\ missed[u] = "refused"

\* The third part, and the flush that has run out of time is on record.
TimeoutsExplained ==
  /\ expired /\ stage # "none" => Len(flushes) + 1 \in timeouts
  /\ \A t \in TaskId : missed[t] = "timeout" => \E k \in timeouts : t \in FlushOf(k)

BatchIInv ==
  /\ TypeOK
  /\ WorkerInLine
  /\ AcceptedIsInOnePlace
  /\ RowsAreTold
  /\ CompanionsExplained
  /\ TimeoutsExplained
  /\ CachedWasInserted

-----------------------------------------------------------------------------
(* Sequences *)

LEMMA AppendFacts ==
  ASSUME NEW S, NEW s \in Seq(S), NEW x \in S
  PROVE  /\ Append(s, x) \in Seq(S) /\ Len(Append(s, x)) = Len(s) + 1
         /\ DOMAIN Append(s, x) = DOMAIN s \cup {Len(s) + 1} /\ Len(s) + 1 \notin DOMAIN s
         /\ \A i \in DOMAIN s : Append(s, x)[i] = s[i]
         /\ Append(s, x)[Len(s) + 1] = x
         /\ ToSet(Append(s, x)) = ToSet(s) \cup {x}
<1>1. /\ Append(s, x) \in Seq(S) /\ Len(Append(s, x)) = Len(s) + 1
      /\ DOMAIN Append(s, x) = DOMAIN s \cup {Len(s) + 1} /\ Len(s) + 1 \notin DOMAIN s
      /\ \A i \in DOMAIN s : Append(s, x)[i] = s[i]
      /\ Append(s, x)[Len(s) + 1] = x
  OBVIOUS
<1>2. ToSet(Append(s, x)) = ToSet(s) \cup {x}
  BY <1>1 DEF ToSet
<1> QED BY <1>1, <1>2

LEMMA TailFacts ==
  ASSUME NEW S, NEW s \in Seq(S), s # <<>>, IsInjective(s)
  PROVE  /\ Tail(s) \in Seq(S) /\ Len(Tail(s)) = Len(s) - 1
         /\ Head(s) \in S
         /\ IsInjective(Tail(s))
         /\ ToSet(s) = ToSet(Tail(s)) \cup {Head(s)} /\ Head(s) \notin ToSet(Tail(s))
<1> DEFINE rest == Tail(s)
           x == Head(s)
<1>1. /\ rest \in Seq(S) /\ Len(rest) = Len(s) - 1
      /\ x \in S /\ x = s[1] /\ 1 \in DOMAIN s
      /\ \A i \in DOMAIN rest : i \in Nat /\ i + 1 \in DOMAIN s /\ i + 1 # 1 /\ rest[i] = s[i + 1]
      /\ \A i \in DOMAIN s : i = 1 \/ (i - 1 \in DOMAIN rest /\ rest[i - 1] = s[i])
  OBVIOUS
<1> HIDE DEF rest, x
<1>2. IsInjective(rest)
  <2> SUFFICES ASSUME NEW a \in DOMAIN rest, NEW b \in DOMAIN rest, rest[a] = rest[b]
               PROVE  a = b
    BY DEF IsInjective
  <2>1. a + 1 = b + 1
    BY <1>1 DEF IsInjective
  <2> QED BY <2>1, <1>1
<1>3. ToSet(s) = ToSet(rest) \cup {x}
  <2>1. ASSUME NEW e \in ToSet(s) PROVE e \in ToSet(rest) \cup {x}
    <3>1. PICK i \in DOMAIN s : e = s[i]
      BY <2>1 DEF ToSet
    <3>2. CASE i = 1
      BY <1>1, <3>1, <3>2
    <3>3. CASE i - 1 \in DOMAIN rest /\ rest[i - 1] = s[i]
      BY <3>1, <3>3 DEF ToSet
    <3> QED BY <1>1, <3>2, <3>3
  <2>2. ASSUME NEW e \in ToSet(rest) \cup {x} PROVE e \in ToSet(s)
    BY <1>1, <2>2 DEF ToSet
  <2> QED BY <2>1, <2>2
<1>4. x \notin ToSet(rest)
  BY <1>1 DEF ToSet, IsInjective
<1> QED BY <1>1, <1>2, <1>3, <1>4 DEF rest, x

LEMMA InjectiveAppend ==
  ASSUME NEW S, NEW s \in Seq(S), NEW x \in S, IsInjective(s), x \notin ToSet(s)
  PROVE  IsInjective(Append(s, x))
<1> SUFFICES ASSUME NEW a \in DOMAIN Append(s, x), NEW b \in DOMAIN Append(s, x),
                    Append(s, x)[a] = Append(s, x)[b]
             PROVE  a = b
  BY DEF IsInjective
<1>1. \A i \in DOMAIN s : s[i] # x
  BY DEF ToSet
<1>2. CASE a \in DOMAIN s /\ b \in DOMAIN s
  BY <1>2, AppendFacts DEF IsInjective
<1>3. CASE a \notin DOMAIN s \/ b \notin DOMAIN s
  BY <1>1, <1>3, AppendFacts
<1> QED BY <1>2, <1>3

-----------------------------------------------------------------------------
(* Types, and the worker *)

LEMMA PhaseFacts ==
  /\ \A i \in DOMAIN Phases : Phases[i] \in ToSet(Phases)
  /\ DOMAIN Phases = 1 .. 7 /\ Len(Phases) = 7
BY DEF Phases, ToSet

LEMMA StageFacts ==
  /\ StageAfter("tagged") = "simple" /\ StageAfter("simple") = "cache"
  /\ StageAfter("cache") = "none"
BY DEF StageAfter

LEMMA InsertRowsType ==
  ASSUME TypeOK, NEW rows \in SUBSET TaskId, InsertRows(rows)
  PROVE  /\ tasks' \subseteq TaskId
         /\ missed' \in [TaskId -> {"no", "refused", "companion", "timeout", "late"}]
BY DEF TypeOK, InsertRows

LEMMA BatchTypeStep ==
  ASSUME TypeOK, WorkerInLine, IsInjective(taskCh), [Next]_vars
  PROVE  TypeOK' /\ WorkerInLine'
<1> DEFINE Goal == TypeOK /\ WorkerInLine
<1> USE BatchAssumption
<1>0. IsFiniteSet(caching) /\ Cardinality(caching) \in Nat
  BY FS_CardinalityType DEF WorkerInLine
<1>1. ASSUME NEW t \in TaskId, EnqueueCreate(t) PROVE Goal'
  <2>1. taskCh' \in Seq(TaskId) /\ Len(taskCh') = Len(taskCh) + 1
    BY <1>1, AppendFacts DEF EnqueueCreate, TypeOK
  <2> QED BY <1>1, <2>1 DEF EnqueueCreate, TypeOK, WorkerInLine, Work, IsTagged
<1>2. ASSUME NEW t \in TaskId, CreateFallback(t) PROVE Goal'
  BY <1>2 DEF CreateFallback, TypeOK, WorkerInLine, Work, IsTagged
<1>3. CASE Collect
  <2>1. stage = "none" /\ todo = {} /\ Len(batch) < MaxBatch
    BY <1>3 DEF Collect, Waiting, TypeOK, WorkerInLine
  <2>2. taskCh' \in Seq(TaskId) /\ Len(taskCh') = Len(taskCh) - 1 /\ Head(taskCh) \in TaskId
    BY <1>3, TailFacts DEF Collect, TypeOK
  <2>3. batch' \in Seq(TaskId) /\ Len(batch') = Len(batch) + 1 /\ Len(batch) \in Nat
    BY <1>3, <2>2, AppendFacts DEF Collect, TypeOK
  <2>4. \/ stage' = "tagged" /\ todo' = Work("tagged", batch')
        \/ stage' = "none" /\ todo' = {} /\ Len(batch') < MaxBatch
    BY <1>3, <2>1, <2>3 DEF Collect, StartFlush
  <2>5. todo' \subseteq Work(stage', batch') /\ todo' \subseteq DOMAIN batch'
    BY <2>4 DEF Work
  <2>6. TypeOK'
    <3>1. expired' \in BOOLEAN
      BY <1>3, Zenon DEF Collect, StartFlush, NewContext, TypeOK
    <3> QED BY <1>3, <2>1, <2>2, <2>3, <2>4, <2>5, <3>1 DEF Collect, TypeOK
  <2> QED BY <1>3, <2>4, <2>5, <2>6 DEF Collect, WorkerInLine, Work, IsTagged
<1>4. CASE Tick \/ ContextDone \/ ChannelDrained
  <2>1. stage = "none" /\ todo = {} /\ batch' = batch
    BY <1>4 DEF Tick, ContextDone, ChannelDrained, Waiting, TypeOK
  <2>2. \/ stage' = "tagged" /\ todo' = Work("tagged", batch')
        \/ stage' = "none" /\ todo' = {}
    BY <1>4, <2>1 DEF Tick, ContextDone, ChannelDrained, StartFlush
  <2>3. todo' \subseteq Work(stage', batch') /\ todo' \subseteq DOMAIN batch'
    BY <2>2 DEF Work
  <2>4. TypeOK'
    <3>1. expired' \in BOOLEAN
      BY <1>4, Zenon DEF Tick, ContextDone, ChannelDrained, StartFlush, NewContext, TypeOK
    <3> QED BY <1>4, <2>1, <2>2, <2>3, <3>1 DEF Tick, ContextDone, ChannelDrained, TypeOK
  <2> QED BY <1>4, <2>1, <2>2, <2>3, <2>4
          DEF Tick, ContextDone, ChannelDrained, WorkerInLine, Work, IsTagged
<1>5. CASE InsertTagged
  <2>1. PICK i \in DOMAIN batch : InsertRows({batch[i]}) /\ todo' = todo \ {i}
    BY <1>5 DEF InsertTagged
  <2>2. batch[i] \in TaskId
    BY DEF TypeOK
  <2>3. tasks' \subseteq TaskId /\ missed' \in [TaskId -> {"no", "refused", "companion", "timeout", "late"}]
    BY <2>1, <2>2, InsertRowsType
  <2> QED BY <1>5, <2>1, <2>3 DEF InsertTagged, TypeOK, WorkerInLine, Work, IsTagged
<1>6. CASE InsertSimple
  <2>1. {batch[i] : i \in todo} \in SUBSET TaskId
    BY DEF TypeOK
  <2>2. tasks' \subseteq TaskId /\ missed' \in [TaskId -> {"no", "refused", "companion", "timeout", "late"}]
    BY <1>6, <2>1, InsertRowsType DEF InsertSimple
  <2> QED BY <1>6, <2>2 DEF InsertSimple, TypeOK, WorkerInLine, Work, IsTagged
<1>7. CASE StartCaching
  <2>1. PICK i \in DOMAIN batch :
               /\ caching' = IF SemaphoreFree THEN caching \cup {batch[i]} ELSE caching
               /\ todo' = todo \ {i}
    BY <1>7 DEF StartCaching
  <2>2. batch[i] \in TaskId
    BY DEF TypeOK
  <2>3. IsFiniteSet(caching') /\ Cardinality(caching') <= SemaSize
    <3>1. CASE caching' = caching
      BY <3>1 DEF TypeOK, WorkerInLine
    <3>2. CASE caching' = caching \cup {batch[i]} /\ batch[i] \notin caching /\ SemaphoreFree
      <4>1. /\ IsFiniteSet(caching \cup {batch[i]})
            /\ Cardinality(caching \cup {batch[i]}) = Cardinality(caching) + 1
        BY <1>0, <3>2, FS_AddElement
      <4> QED BY <1>0, <3>2, <4>1 DEF SemaphoreFree
    <3> QED BY <2>1, <3>1, <3>2
  <2> QED BY <1>7, <2>1, <2>2, <2>3 DEF StartCaching, TypeOK, WorkerInLine, Work, IsTagged
<1>8. CASE FlushGoesOn
  <2>1. ToSet(batch) \in SUBSET TaskId
    BY DEF TypeOK, ToSet
  <2>2. CASE stage = "cache"
    <3>1. stage' = "none" /\ batch' = <<>> /\ todo' = {} /\ flushes' = Append(flushes, ToSet(batch))
      BY <1>8, <2>2, StageFacts DEF FlushGoesOn, BatchAfterFlush
    <3>2. flushes' \in Seq(SUBSET TaskId) /\ Len(flushes') = Len(flushes) + 1 /\ Len(flushes) \in Nat
      BY <2>1, <3>1, AppendFacts DEF TypeOK
    <3> QED BY <1>8, <3>1, <3>2 DEF FlushGoesOn, TypeOK, WorkerInLine, Work, IsTagged
  <2>3. CASE stage \in {"tagged", "simple"}
    <3>1. stage' \in {"simple", "cache"} /\ batch' = batch /\ todo' = Work(stage', batch)
      BY <1>8, <2>3, StageFacts DEF FlushGoesOn
    <3>2. todo' \subseteq DOMAIN batch
      BY <3>1 DEF Work
    <3> QED BY <1>8, <3>1, <3>2 DEF FlushGoesOn, TypeOK, WorkerInLine, Work, IsTagged
  <2> QED BY <1>8, <2>2, <2>3 DEF FlushGoesOn, TypeOK
<1>9. ASSUME NEW t \in TaskId, CacheTask(t) PROVE Goal'
  <2>1. IsFiniteSet(caching') /\ Cardinality(caching') <= SemaSize
    <3>1. caching' = caching \ {t} /\ t \in caching
      BY <1>9 DEF CacheTask
    <3>2. IsFiniteSet(caching \ {t}) /\ Cardinality(caching \ {t}) = Cardinality(caching) - 1
      BY <1>0, <3>1, FS_RemoveElement
    <3> QED BY <1>0, <3>1, <3>2 DEF TypeOK
  <2> QED BY <1>9, <2>1 DEF CacheTask, TypeOK, WorkerInLine, Work, IsTagged
<1>10. CASE ShutdownGoesOn
  <2>1. process' \in ToSet(Phases)
    BY <1>10, PhaseFacts DEF ShutdownGoesOn
  <2> QED BY <1>10, <2>1 DEF ShutdownGoesOn, TypeOK, WorkerInLine, Work, IsTagged
<1>11. CASE DeadlinePasses
  <2>1. Len(flushes) + 1 \in 1 .. Len(flushes) + 1
    BY DEF TypeOK
  <2> QED BY <1>11, <2>1 DEF DeadlinePasses, TypeOK, WorkerInLine, Work, IsTagged
<1>12. CASE UNCHANGED vars
  BY <1>12 DEF vars, TypeOK, WorkerInLine, Work, IsTagged
<1> QED
  BY <1>1, <1>2, <1>3, <1>4, <1>5, <1>6, <1>7, <1>8, <1>9, <1>10, <1>11, <1>12 DEF Next

-----------------------------------------------------------------------------
(* Every accepted task is in one place *)

LEMMA TailSets ==
  ASSUME TypeOK, AcceptedIsInOnePlace, Collect
  PROVE  /\ Head(taskCh) \in ToSet(taskCh) /\ Head(taskCh) \in TaskId
         /\ Head(taskCh) \notin ToSet(batch)
         /\ ToSet(taskCh') = ToSet(taskCh) \ {Head(taskCh)}
         /\ ToSet(batch') = ToSet(batch) \cup {Head(taskCh)}
         /\ IsInjective(taskCh') /\ IsInjective(batch')
<1>1. /\ taskCh \in Seq(TaskId) /\ batch \in Seq(TaskId) /\ taskCh # <<>>
      /\ IsInjective(taskCh) /\ IsInjective(batch)
      /\ taskCh' = Tail(taskCh) /\ batch' = Append(batch, Head(taskCh))
  BY DEF TypeOK, AcceptedIsInOnePlace, Collect
<1>2. /\ Head(taskCh) \in TaskId /\ IsInjective(taskCh')
      /\ ToSet(taskCh) = ToSet(taskCh') \cup {Head(taskCh)} /\ Head(taskCh) \notin ToSet(taskCh')
  BY <1>1, TailFacts
<1>3. Head(taskCh) \in ToSet(taskCh) /\ Head(taskCh) \notin ToSet(batch)
  BY <1>2 DEF AcceptedIsInOnePlace
<1>4. ToSet(batch') = ToSet(batch) \cup {Head(taskCh)} /\ IsInjective(batch')
  BY <1>1, <1>2, <1>3, AppendFacts, InjectiveAppend
<1> QED BY <1>2, <1>3, <1>4

\* The end of flushCreate.
LEMMA FlushEnds ==
  ASSUME TypeOK, FlushGoesOn, stage = "cache"
  PROVE  /\ stage' = "none" /\ batch' = <<>> /\ todo' = {} /\ ToSet(batch') = {}
         /\ DOMAIN flushes' = DOMAIN flushes \cup {Len(flushes) + 1}
         /\ Len(flushes) + 1 \notin DOMAIN flushes
         /\ \A i \in DOMAIN flushes : flushes'[i] = flushes[i]
         /\ flushes'[Len(flushes) + 1] = ToSet(batch)
         /\ ToSet(flushes') = ToSet(flushes) \cup {ToSet(batch)}
         /\ Flushed' = Flushed \cup ToSet(batch)
<1>1. stage' = "none" /\ batch' = <<>> /\ todo' = {} /\ flushes' = Append(flushes, ToSet(batch))
  BY StageFacts DEF FlushGoesOn, BatchAfterFlush
<1>2. ToSet(batch) \in SUBSET TaskId /\ flushes \in Seq(SUBSET TaskId)
  BY DEF TypeOK, ToSet
<1>3. ToSet(batch') = {}
  BY <1>1 DEF ToSet
<1>4. /\ DOMAIN flushes' = DOMAIN flushes \cup {Len(flushes) + 1}
      /\ Len(flushes) + 1 \notin DOMAIN flushes
      /\ \A i \in DOMAIN flushes : flushes'[i] = flushes[i]
      /\ flushes'[Len(flushes) + 1] = ToSet(batch)
      /\ ToSet(flushes') = ToSet(flushes) \cup {ToSet(batch)}
  BY <1>1, <1>2, AppendFacts
<1>5. Flushed' = Flushed \cup ToSet(batch)
  BY <1>4, Zenon DEF Flushed
<1> QED BY <1>1, <1>3, <1>4, <1>5

\* flushCreate goes on to its next stage.
LEMMA FlushContinues ==
  ASSUME TypeOK, FlushGoesOn, stage # "cache"
  PROVE  /\ UNCHANGED <<batch, flushes>> /\ todo' = Work(stage', batch)
         /\ \/ stage = "tagged" /\ stage' = "simple"
            \/ stage = "simple" /\ stage' = "cache"
BY StageFacts DEF FlushGoesOn, TypeOK

LEMMA PlaceStep ==
  ASSUME TypeOK, AcceptedIsInOnePlace, [Next]_vars
  PROVE  AcceptedIsInOnePlace'
<1>1. ASSUME NEW t \in TaskId, EnqueueCreate(t) PROVE AcceptedIsInOnePlace'
  <2>1. t \notin ToSet(taskCh) \cup ToSet(batch) \cup Flushed
    BY <1>1 DEF EnqueueCreate, Requested, AcceptedIsInOnePlace
  <2>2. taskCh \in Seq(TaskId) /\ IsInjective(taskCh) /\ taskCh' = Append(taskCh, t)
    BY <1>1 DEF EnqueueCreate, TypeOK, AcceptedIsInOnePlace
  <2>3. ToSet(taskCh') = ToSet(taskCh) \cup {t} /\ IsInjective(taskCh')
    BY <2>1, <2>2, AppendFacts, InjectiveAppend
  <2>4. Flushed' = Flushed /\ UNCHANGED <<batch, flushes>>
    BY <1>1 DEF EnqueueCreate, Flushed
  <2>5. {u \in TaskId : answer'[u] = "accepted"} = {u \in TaskId : answer[u] = "accepted"} \cup {t}
    BY <1>1 DEF EnqueueCreate, TypeOK
  <2> QED BY <2>1, <2>3, <2>4, <2>5 DEF AcceptedIsInOnePlace
<1>2. ASSUME NEW t \in TaskId, CreateFallback(t) PROVE AcceptedIsInOnePlace'
  <2>1. {u \in TaskId : answer'[u] = "accepted"} = {u \in TaskId : answer[u] = "accepted"}
    BY <1>2 DEF CreateFallback, Requested, TypeOK
  <2>2. Flushed' = Flushed /\ UNCHANGED <<taskCh, batch, flushes>>
    BY <1>2 DEF CreateFallback, Flushed
  <2> QED BY <2>1, <2>2 DEF AcceptedIsInOnePlace
<1>3. CASE Collect
  <2>1. Flushed' = Flushed /\ UNCHANGED <<answer, flushes>>
    BY <1>3 DEF Collect, Flushed
  <2> QED BY <1>3, <2>1, TailSets DEF AcceptedIsInOnePlace
<1>4. CASE FlushGoesOn /\ stage = "cache"
  <2>1. UNCHANGED <<answer, taskCh>> /\ IsInjective(batch')
    BY <1>4, FlushEnds DEF FlushGoesOn, IsInjective
  <2>2. ToSet(batch) \cap Flushed = {} /\ \A i \in DOMAIN flushes : flushes[i] \subseteq Flushed
    BY DEF AcceptedIsInOnePlace, Flushed, ToSet
  <2>3. \A i, j \in DOMAIN flushes' : i # j => flushes'[i] \cap flushes'[j] = {}
    BY <1>4, <2>2, FlushEnds DEF AcceptedIsInOnePlace
  <2>4. /\ {t \in TaskId : answer'[t] = "accepted"}
             = ToSet(taskCh') \cup ToSet(batch') \cup Flushed'
        /\ ToSet(taskCh') \cap ToSet(batch') = {}
        /\ (ToSet(taskCh') \cup ToSet(batch')) \cap Flushed' = {}
    BY <1>4, <2>1, FlushEnds DEF AcceptedIsInOnePlace
  <2> QED BY <2>1, <2>3, <2>4 DEF AcceptedIsInOnePlace
<1>5. CASE UNCHANGED <<answer, taskCh, batch, flushes>>
  BY <1>5 DEF AcceptedIsInOnePlace, Flushed
<1> QED
  BY <1>1, <1>2, <1>3, <1>4, <1>5, FlushContinues
  DEF Next, Tick, ContextDone, ChannelDrained, InsertTagged, InsertSimple, StartCaching,
      DeadlinePasses, FlushGoesOn, CacheTask, ShutdownGoesOn, vars

-----------------------------------------------------------------------------
(* Rows and failures *)

\* An insertion of rows that were not tried settles them and nothing else; a
\* row that fails for another one fails with it.
LEMMA InsertEffect ==
  ASSUME TypeOK, NEW rows \in SUBSET TaskId, InsertRows(rows), \A r \in rows : Untried(r)
  PROVE  /\ \A r \in rows : Settled(r)'
         /\ \A t \in TaskId \ rows : (t \in tasks' <=> t \in tasks) /\ missed'[t] = missed[t]
         /\ tasks \subseteq tasks'
         /\ \A r \in rows :
              missed'[r] = "companion" => \E u \in rows : u # r /\ missed'[u] = "refused"
         /\ \A r \in rows : missed'[r] = "timeout" => expired
BY DEF TypeOK, InsertRows, Untried, Settled

\* What the insertions of a stage take was not tried before.
LEMMA TodoUntried ==
  ASSUME TypeOK, WorkerInLine, RowsAreTold, stage \in {"tagged", "simple"}, NEW i \in todo
  PROVE  /\ i \in DOMAIN batch /\ batch[i] \in TaskId /\ Untried(batch[i])
         /\ IsTagged(batch[i]) <=> stage = "tagged"
<1>1. i \in DOMAIN batch /\ (IsTagged(batch[i]) <=> stage = "tagged")
  BY DEF WorkerInLine, Work
<1>2. ~DealtWith(i)
  BY <1>1 DEF DealtWith
<1> QED BY <1>1, <1>2 DEF RowsAreTold, TypeOK

LEMMA TaggedTold ==
  ASSUME TypeOK, WorkerInLine, AcceptedIsInOnePlace, RowsAreTold, CompanionsExplained,
         InsertTagged
  PROVE  RowsAreTold' /\ CompanionsExplained'
<1>1. PICK i \in DOMAIN batch : i \in todo /\ InsertRows({batch[i]}) /\ todo' = todo \ {i}
  BY DEF InsertTagged, IsFirst
<1>2. stage = "tagged" /\ UNCHANGED <<answer, taskCh, batch, stage, flushes>>
  BY DEF InsertTagged
<1>3. batch[i] \in TaskId /\ Untried(batch[i]) /\ IsTagged(batch[i])
  BY <1>1, <1>2, TodoUntried
<1>4. /\ Settled(batch[i])' /\ missed'[batch[i]] # "companion"
      /\ \A t \in TaskId \ {batch[i]} :
           (t \in tasks' <=> t \in tasks) /\ missed'[t] = missed[t]
  BY <1>1, <1>3, <1>2, InsertEffect
<1>5. \A t \in ToSet(taskCh) \cup Flushed : t \in TaskId /\ t # batch[i]
  BY DEF AcceptedIsInOnePlace, ToSet
<1>6. answer[batch[i]] = "accepted"
  BY <1>1, <1>3 DEF AcceptedIsInOnePlace, ToSet
<1>7. \A k \in DOMAIN batch : k # i => batch[k] # batch[i] /\ batch[k] \in TaskId
  BY DEF AcceptedIsInOnePlace, IsInjective, TypeOK
<1>8. \A k \in DOMAIN batch : DealtWith(k)' <=> (k = i \/ DealtWith(k))
  BY <1>1, <1>2, <1>3 DEF DealtWith, IsTagged
<1>9. RowsAreTold'
  <2>1. \A t \in TaskId : answer'[t] = "none" \/ t \in ToSet(taskCh') => Untried(t)'
    BY <1>2, <1>4, <1>5, <1>6 DEF RowsAreTold, Untried
  <2>2. \A k \in DOMAIN batch' :
          IF DealtWith(k)' THEN Settled(batch[k])' ELSE Untried(batch[k])'
    BY <1>2, <1>4, <1>7, <1>8 DEF RowsAreTold, Untried, Settled
  <2>3. \A t \in Flushed' : Settled(t)'
    BY <1>2, <1>4, <1>5 DEF RowsAreTold, Settled, Flushed
  <2> QED BY <1>2, <2>1, <2>2, <2>3 DEF RowsAreTold
<1>10. CompanionsExplained'
  <2> SUFFICES ASSUME NEW t \in TaskId, missed'[t] = "companion"
               PROVE  /\ t \notin Tagged
                      /\ \E b \in ToSet(flushes) \cup {ToSet(batch)} :
                           \E u \in b \ Tagged : t \in b /\ missed'[u] = "refused"
    BY <1>2 DEF CompanionsExplained
  <2>1. t # batch[i] /\ missed[t] = "companion"
    BY <1>4
  <2>2. \A u : u \notin Tagged /\ missed[u] = "refused" /\ u \in TaskId => missed'[u] = "refused"
    BY <1>3, <1>4 DEF IsTagged
  <2>3. \A b \in ToSet(flushes) \cup {ToSet(batch)} : b \subseteq TaskId
    BY DEF TypeOK, ToSet
  <2> QED BY <2>1, <2>2, <2>3 DEF CompanionsExplained
<1> QED BY <1>9, <1>10

LEMMA SimpleTold ==
  ASSUME TypeOK, WorkerInLine, AcceptedIsInOnePlace, RowsAreTold, CompanionsExplained,
         InsertSimple
  PROVE  RowsAreTold' /\ CompanionsExplained'
<1> DEFINE rows == {batch[i] : i \in todo}
<1>1. InsertRows(rows) /\ todo' = {}
  BY DEF InsertSimple
<1>2. stage = "simple" /\ UNCHANGED <<answer, taskCh, batch, stage, flushes>>
  BY DEF InsertSimple
<1>3. \A r \in rows : r \in TaskId /\ Untried(r) /\ ~IsTagged(r) /\ r \in ToSet(batch)
  BY <1>2, TodoUntried DEF ToSet
<1>4. \A k \in DOMAIN batch : batch[k] \in TaskId /\ (batch[k] \in rows <=> k \in todo)
  BY DEF AcceptedIsInOnePlace, IsInjective, TypeOK
<1>5. \A t \in ToSet(taskCh) \cup Flushed : t \in TaskId /\ t \notin rows
  BY <1>3 DEF AcceptedIsInOnePlace
<1>6. \A r \in rows : answer[r] = "accepted"
  BY <1>3 DEF AcceptedIsInOnePlace
<1> HIDE DEF rows
<1>7. /\ \A r \in rows : Settled(r)'
      /\ \A t \in TaskId \ rows : (t \in tasks' <=> t \in tasks) /\ missed'[t] = missed[t]
      /\ \A r \in rows :
           missed'[r] = "companion" => \E u \in rows : u # r /\ missed'[u] = "refused"
  BY <1>1, <1>3, InsertEffect
<1>8. \A k \in DOMAIN batch : DealtWith(k)' /\ (DealtWith(k) <=> k \notin todo)
  BY <1>1, <1>2, TodoUntried DEF DealtWith
<1>9. RowsAreTold'
  <2>1. \A t \in TaskId : answer'[t] = "none" \/ t \in ToSet(taskCh') => Untried(t)'
    BY <1>2, <1>5, <1>6, <1>7 DEF RowsAreTold, Untried
  <2>2. \A k \in DOMAIN batch : DealtWith(k)' /\ Settled(batch[k])'
    BY <1>2, <1>4, <1>7, <1>8 DEF RowsAreTold, Settled
  <2>3. \A t \in Flushed' : Settled(t)'
    BY <1>2, <1>5, <1>7 DEF RowsAreTold, Settled, Flushed
  <2> QED BY <1>2, <2>1, <2>2, <2>3 DEF RowsAreTold
<1>10. CompanionsExplained'
  <2> SUFFICES ASSUME NEW t \in TaskId, missed'[t] = "companion"
               PROVE  /\ t \notin Tagged
                      /\ \E b \in ToSet(flushes) \cup {ToSet(batch)} :
                           \E u \in b \ Tagged : t \in b /\ missed'[u] = "refused"
    BY <1>2 DEF CompanionsExplained
  <2>1. CASE t \in rows
    BY <1>3, <1>7, <2>1 DEF IsTagged
  <2>2. CASE t \notin rows
    <3>1. missed[t] = "companion"
      BY <1>7, <2>2
    <3>2. \A b \in ToSet(flushes) \cup {ToSet(batch)} : b \subseteq TaskId
      BY DEF TypeOK, ToSet
    <3>3. \A u \in TaskId : missed[u] = "refused" => missed'[u] = "refused"
      BY <1>3, <1>7 DEF Untried
    <3> QED BY <3>1, <3>2, <3>3 DEF CompanionsExplained
  <2> QED BY <2>1, <2>2
<1> QED BY <1>9, <1>10

LEMMA CollectTold ==
  ASSUME TypeOK, AcceptedIsInOnePlace, RowsAreTold, CompanionsExplained, Collect
  PROVE  RowsAreTold' /\ CompanionsExplained'
<1>1. stage = "none" /\ UNCHANGED <<answer, tasks, missed, flushes>>
  BY DEF Collect, Waiting
<1>2. /\ DOMAIN batch' = DOMAIN batch \cup {Len(batch) + 1}
      /\ \A i \in DOMAIN batch : batch'[i] = batch[i]
      /\ batch'[Len(batch) + 1] = Head(taskCh)
  BY TailSets, AppendFacts DEF Collect, TypeOK
<1>3. \A i \in DOMAIN batch : Untried(batch[i])
  BY <1>1 DEF RowsAreTold, DealtWith
<1>4. Untried(Head(taskCh))
  BY TailSets DEF RowsAreTold
<1>5. \A i \in DOMAIN batch' : ~DealtWith(i)'
  BY <1>1 DEF Collect, StartFlush, Work, DealtWith
<1>6. RowsAreTold'
  <2>1. \A t \in TaskId : answer'[t] = "none" \/ t \in ToSet(taskCh') => Untried(t)'
    BY <1>1, TailSets DEF RowsAreTold, Untried
  <2>2. \A i \in DOMAIN batch' : Untried(batch[i])'
    BY <1>1, <1>2, <1>3, <1>4 DEF Untried
  <2>3. \A t \in Flushed' : Settled(t)'
    BY <1>1 DEF RowsAreTold, Settled, Flushed
  <2> QED BY <1>5, <2>1, <2>2, <2>3 DEF RowsAreTold
<1>7. CompanionsExplained'
  <2> SUFFICES ASSUME NEW t \in TaskId, missed[t] = "companion"
               PROVE  /\ t \notin Tagged
                      /\ \E b \in ToSet(flushes) \cup {ToSet(batch')} :
                           \E u \in b \ Tagged : t \in b /\ missed[u] = "refused"
    BY <1>1 DEF CompanionsExplained
  <2> QED BY TailSets DEF CompanionsExplained
<1> QED BY <1>6, <1>7

\* A flush begins: nothing is dealt with yet.
LEMMA FlushStartTold ==
  ASSUME RowsAreTold, CompanionsExplained, Tick \/ ContextDone \/ ChannelDrained
  PROVE  RowsAreTold' /\ CompanionsExplained'
<1>1. stage = "none" /\ UNCHANGED <<answer, taskCh, batch, tasks, missed, flushes>>
  BY DEF Tick, ContextDone, ChannelDrained, Waiting
<1>2. \A i \in DOMAIN batch : ~DealtWith(i) /\ ~DealtWith(i)'
  BY <1>1 DEF Tick, ContextDone, ChannelDrained, StartFlush, Work, DealtWith, IsTagged
<1>3. RowsAreTold'
  BY <1>1, <1>2 DEF RowsAreTold, Untried, Settled, Flushed
<1> QED BY <1>1, <1>3 DEF CompanionsExplained

LEMMA FlushTold ==
  ASSUME TypeOK, RowsAreTold, CompanionsExplained, FlushGoesOn
  PROVE  RowsAreTold' /\ CompanionsExplained'
<1>1. todo = {} /\ stage # "none" /\ UNCHANGED <<answer, taskCh, tasks, missed>>
  BY DEF FlushGoesOn
<1>2. CASE stage = "cache"
  <2>1. \A i \in DOMAIN batch : Settled(batch[i])
    BY <1>2 DEF RowsAreTold, DealtWith
  <2>2. \A t \in Flushed' : Settled(t)'
    BY <1>1, <1>2, <2>1, FlushEnds DEF RowsAreTold, Settled, ToSet
  <2>3. \A t \in TaskId : answer'[t] = "none" \/ t \in ToSet(taskCh') => Untried(t)'
    BY <1>1 DEF RowsAreTold, Untried
  <2>4. DOMAIN batch' = {}
    BY <1>2, FlushEnds
  <2>5. RowsAreTold'
    BY <2>2, <2>3, <2>4 DEF RowsAreTold
  <2>6. CompanionsExplained'
    BY <1>1, <1>2, FlushEnds DEF CompanionsExplained
  <2> QED BY <2>5, <2>6
<1>3. CASE stage # "cache"
  <2>1. \A i \in DOMAIN batch : DealtWith(i)' <=> DealtWith(i)
    BY <1>1, <1>3, FlushContinues DEF DealtWith, Work, IsTagged
  <2>2. UNCHANGED <<batch, flushes>>
    BY <1>3, FlushContinues
  <2>3. RowsAreTold'
    BY <1>1, <2>1, <2>2 DEF RowsAreTold, Untried, Settled, Flushed
  <2> QED BY <1>1, <2>2, <2>3 DEF CompanionsExplained
<1> QED BY <1>2, <1>3

LEMMA RowsStep ==
  ASSUME TypeOK, WorkerInLine, AcceptedIsInOnePlace, RowsAreTold, CompanionsExplained,
         [Next]_vars
  PROVE  RowsAreTold' /\ CompanionsExplained'
<1>1. ASSUME NEW t \in TaskId, EnqueueCreate(t) PROVE RowsAreTold' /\ CompanionsExplained'
  <2>1. ToSet(taskCh') = ToSet(taskCh) \cup {t} /\ answer[t] = "none"
    BY <1>1, AppendFacts DEF EnqueueCreate, Requested, TypeOK
  <2>2. UNCHANGED <<batch, stage, todo, tasks, missed, flushes>>
    BY <1>1 DEF EnqueueCreate
  <2>3. \A u \in TaskId : answer'[u] = "none" \/ u \in ToSet(taskCh') => Untried(u)'
    BY <1>1, <2>1, <2>2 DEF RowsAreTold, Untried, EnqueueCreate, TypeOK
  <2>4. RowsAreTold'
    BY <2>2, <2>3 DEF RowsAreTold, Untried, Settled, DealtWith, IsTagged, Flushed
  <2> QED BY <2>2, <2>4 DEF CompanionsExplained
<1>2. ASSUME NEW t \in TaskId, CreateFallback(t) PROVE RowsAreTold' /\ CompanionsExplained'
  <2>1. UNCHANGED <<taskCh, batch, stage, todo, missed, flushes>>
    BY <1>2 DEF CreateFallback
  <2>2. t \notin ToSet(taskCh) \cup ToSet(batch) \cup Flushed
    BY <1>2 DEF CreateFallback, Requested, AcceptedIsInOnePlace
  <2>3. \A u \in TaskId : /\ u # t => (u \in tasks' <=> u \in tasks)
                          /\ answer'[u] = "none" => u # t /\ answer[u] = "none"
    BY <1>2 DEF CreateFallback, TypeOK
  <2>4. \A i \in DOMAIN batch : batch[i] # t /\ batch[i] \in TaskId
    BY <2>2 DEF ToSet, TypeOK
  <2>5. \A u \in TaskId : answer'[u] = "none" \/ u \in ToSet(taskCh') => Untried(u)'
    BY <2>1, <2>2, <2>3 DEF RowsAreTold, Untried
  <2>6. \A i \in DOMAIN batch : IF DealtWith(i)' THEN Settled(batch[i])' ELSE Untried(batch[i])'
    BY <2>1, <2>3, <2>4 DEF RowsAreTold, Untried, Settled, DealtWith, IsTagged
  <2>7. \A u \in Flushed' : Settled(u)'
    BY <2>1, <2>2, <2>3 DEF RowsAreTold, Settled, Flushed, AcceptedIsInOnePlace
  <2>8. RowsAreTold'
    BY <2>1, <2>5, <2>6, <2>7 DEF RowsAreTold
  <2> QED BY <2>1, <2>8 DEF CompanionsExplained
<1>3. CASE StartCaching
  <2>1. UNCHANGED <<answer, taskCh, batch, stage, tasks, missed, flushes>> /\ stage = "cache"
    BY <1>3 DEF StartCaching
  <2>2. RowsAreTold'
    BY <2>1 DEF RowsAreTold, Untried, Settled, DealtWith, Flushed
  <2> QED BY <2>1, <2>2 DEF CompanionsExplained
<1>4. CASE (\E t \in TaskId : CacheTask(t)) \/ DeadlinePasses \/ ShutdownGoesOn \/ UNCHANGED vars
  <2>1. UNCHANGED <<answer, taskCh, batch, stage, todo, tasks, missed, flushes>>
    BY <1>4 DEF CacheTask, DeadlinePasses, ShutdownGoesOn, vars
  <2>2. RowsAreTold'
    BY <2>1 DEF RowsAreTold, Untried, Settled, DealtWith, IsTagged, Flushed
  <2> QED BY <2>1, <2>2 DEF CompanionsExplained
<1> QED
  BY <1>1, <1>2, <1>3, <1>4, CollectTold, FlushStartTold, FlushTold, TaggedTold, SimpleTold
  DEF Next

\* What was in a flush stays in it.
LEMMA FlushesStay ==
  ASSUME TypeOK, AcceptedIsInOnePlace, [Next]_vars, NEW k \in 1 .. Len(flushes) + 1
  PROVE  FlushOf(k) \subseteq FlushOf(k)'
<1>1. CASE Collect
  BY <1>1, TailSets DEF Collect, FlushOf
<1>2. CASE FlushGoesOn /\ stage = "cache"
  <2>1. k \in DOMAIN flushes \/ k = Len(flushes) + 1
    BY DEF TypeOK
  <2> QED BY <1>2, <2>1, FlushEnds DEF FlushOf
<1>3. CASE UNCHANGED <<batch, flushes>>
  BY <1>3 DEF FlushOf
<1> QED
  BY <1>1, <1>2, <1>3, FlushContinues
  DEF Next, EnqueueCreate, CreateFallback, Tick, ContextDone, ChannelDrained, DeadlinePasses,
      InsertTagged, InsertSimple, StartCaching, FlushGoesOn, CacheTask, ShutdownGoesOn, vars

\* The rows that an insertion leaves out for lack of time are of the flush whose
\* context has run out.
LEMMA TimeoutsStep ==
  ASSUME TypeOK, WorkerInLine, AcceptedIsInOnePlace, RowsAreTold, TimeoutsExplained, [Next]_vars
  PROVE  TimeoutsExplained'
<1>0. /\ timeouts \subseteq timeouts' /\ timeouts \subseteq 1 .. Len(flushes) + 1
      /\ Len(flushes) + 1 \notin DOMAIN flushes
  BY DEF TypeOK, Next, EnqueueCreate, CreateFallback, Collect, Tick, ContextDone, ChannelDrained,
         DeadlinePasses, InsertTagged, InsertSimple, StartCaching, FlushGoesOn, CacheTask,
         ShutdownGoesOn, vars
<1>1. \A t \in TaskId :
        (\E k \in timeouts : t \in FlushOf(k)) => \E k \in timeouts' : t \in FlushOf(k)'
  BY <1>0, FlushesStay
<1>2. ASSUME missed' = missed
      PROVE  \A t \in TaskId : missed'[t] = "timeout" => \E k \in timeouts' : t \in FlushOf(k)'
  BY <1>1, <1>2 DEF TimeoutsExplained
<1>3. ASSUME NEW rows \in SUBSET ToSet(batch), InsertRows(rows), \A r \in rows : Untried(r),
             stage # "none", UNCHANGED <<batch, stage, expired, flushes, timeouts>>
      PROVE  TimeoutsExplained'
  <2>1. rows \subseteq TaskId
    BY DEF TypeOK, ToSet
  <2>2. /\ \A t \in TaskId \ rows : missed'[t] = missed[t]
        /\ \A r \in rows : missed'[r] = "timeout" => expired
    BY <1>3, <2>1, InsertEffect
  <2>3. expired => \A r \in rows : Len(flushes) + 1 \in timeouts /\ r \in FlushOf(Len(flushes) + 1)
    BY <1>0, <1>3 DEF TimeoutsExplained, FlushOf
  <2>4. \A t \in TaskId : missed'[t] = "timeout" => \E k \in timeouts : t \in FlushOf(k)
    BY <2>2, <2>3 DEF TimeoutsExplained
  <2> QED BY <1>1, <1>3, <2>4 DEF TimeoutsExplained
<1>4. CASE InsertTagged
  <2>1. PICK i \in DOMAIN batch : i \in todo /\ InsertRows({batch[i]})
    BY <1>4 DEF InsertTagged, IsFirst
  <2>2. Untried(batch[i]) /\ {batch[i]} \in SUBSET ToSet(batch)
    BY <1>4, <2>1, TodoUntried DEF InsertTagged, ToSet
  <2> QED BY <1>3, <1>4, <2>1, <2>2 DEF InsertTagged
<1>5. CASE InsertSimple
  <2> DEFINE rows == {batch[i] : i \in todo}
  <2>1. rows \in SUBSET ToSet(batch) /\ \A r \in rows : Untried(r)
    BY <1>5, TodoUntried DEF InsertSimple, ToSet
  <2>2. InsertRows(rows)
    BY <1>5 DEF InsertSimple
  <2> HIDE DEF rows
  <2> QED BY <1>3, <1>5, <2>1, <2>2 DEF InsertSimple
<1>6. CASE DeadlinePasses
  BY <1>2, <1>6 DEF DeadlinePasses, TimeoutsExplained
<1>7. CASE Collect \/ Tick \/ ContextDone \/ ChannelDrained
  <2>1. missed' = missed /\ stage = "none" /\ (stage' # "none" => expired' = FALSE)
    BY <1>7 DEF Collect, Tick, ContextDone, ChannelDrained, Waiting, StartFlush, NewContext
  <2> QED BY <1>2, <2>1 DEF TimeoutsExplained
<1>8. CASE FlushGoesOn
  <2>1. missed' = missed /\ expired' = expired /\ stage # "none" /\ timeouts' = timeouts
    BY <1>8 DEF FlushGoesOn
  <2>2. stage' # "none" => flushes' = flushes
    BY <1>8, FlushEnds, FlushContinues
  <2> QED BY <1>2, <2>1, <2>2 DEF TimeoutsExplained
<1>9. CASE UNCHANGED <<stage, expired, missed, flushes, timeouts>>
  BY <1>2, <1>9 DEF TimeoutsExplained
<1> QED
  BY <1>4, <1>5, <1>6, <1>7, <1>8, <1>9
  DEF Next, EnqueueCreate, CreateFallback, StartCaching, CacheTask, ShutdownGoesOn, vars

\* A goroutine is started for what the insertions have dealt with, and what is
\* in the table or known to have failed stays so.
LEMMA CachedStep ==
  ASSUME TypeOK, WorkerInLine, AcceptedIsInOnePlace, RowsAreTold, CachedWasInserted, [Next]_vars
  PROVE  CachedWasInserted'
<1>1. CASE InsertTagged
  <2>1. PICK i \in DOMAIN batch : i \in todo /\ InsertRows({batch[i]})
    BY <1>1 DEF InsertTagged, IsFirst
  <2>2. batch[i] \in TaskId /\ Untried(batch[i])
    BY <1>1, <2>1, TodoUntried DEF InsertTagged
  <2>3. UNCHANGED <<caching, cached>> /\ \A t \in caching \cup cached : t \in TaskId \ {batch[i]}
    BY <1>1, <2>2 DEF InsertTagged, CachedWasInserted, Untried, TypeOK
  <2> QED BY <2>1, <2>2, <2>3, InsertEffect DEF CachedWasInserted
<1>2. CASE InsertSimple
  <2> DEFINE rows == {batch[i] : i \in todo}
  <2>1. \A r \in rows : r \in TaskId /\ Untried(r)
    BY <1>2, TodoUntried DEF InsertSimple
  <2>2. InsertRows(rows) /\ UNCHANGED <<caching, cached>>
    BY <1>2 DEF InsertSimple
  <2> HIDE DEF rows
  <2>3. \A t \in caching \cup cached : t \in TaskId \ rows
    BY <2>1 DEF CachedWasInserted, Untried, TypeOK
  <2> QED BY <2>1, <2>2, <2>3, InsertEffect DEF CachedWasInserted
<1>3. CASE StartCaching
  <2>1. PICK i \in DOMAIN batch :
               caching' = IF SemaphoreFree THEN caching \cup {batch[i]} ELSE caching
    BY <1>3 DEF StartCaching
  <2>2. Settled(batch[i])
    BY <1>3 DEF StartCaching, RowsAreTold, DealtWith
  <2>3. caching' \subseteq caching \cup {batch[i]} /\ UNCHANGED <<tasks, missed, cached>>
    BY <1>3, <2>1 DEF StartCaching
  <2> QED BY <2>2, <2>3 DEF CachedWasInserted, Settled
<1>4. ASSUME NEW t \in TaskId, EnqueueCreate(t) \/ CreateFallback(t) \/ CacheTask(t)
      PROVE  CachedWasInserted'
  <2>1. /\ tasks \subseteq tasks' /\ missed' = missed
        /\ caching' \cup cached' \subseteq caching \cup cached
    BY <1>4 DEF EnqueueCreate, CreateFallback, CacheTask
  <2> QED BY <2>1 DEF CachedWasInserted
<1>5. CASE UNCHANGED <<tasks, missed, caching, cached>>
  BY <1>5 DEF CachedWasInserted
<1> QED
  BY <1>1, <1>2, <1>3, <1>4, <1>5
  DEF Next, Collect, Tick, ContextDone, ChannelDrained, DeadlinePasses, FlushGoesOn,
      ShutdownGoesOn, vars

-----------------------------------------------------------------------------

LEMMA BatchInitIInv == Init => BatchIInv
<1> SUFFICES ASSUME Init PROVE BatchIInv
  OBVIOUS
<1>1. /\ taskCh = <<>> /\ batch = <<>> /\ flushes = <<>> /\ todo = {} /\ caching = {}
      /\ stage = "none"
      /\ DOMAIN taskCh = {} /\ DOMAIN batch = {} /\ DOMAIN flushes = {}
  BY DEF Init
<1>2. ToSet(taskCh) = {} /\ ToSet(batch) = {} /\ Flushed = {}
  BY <1>1 DEF ToSet, Flushed
<1>3. IsFiniteSet(caching) /\ Cardinality(caching) = 0
  BY <1>1, FS_EmptySet
<1>4. TypeOK
  <2>1. process \in ToSet(Phases)
    BY DEF Init, Phases, ToSet
  <2>2. expired \in BOOLEAN
    BY DEF Init
  <2> QED BY <1>3, <2>1, <2>2, BatchAssumption DEF Init, TypeOK
<1>5. WorkerInLine
  BY <1>1, <1>3, BatchAssumption DEF WorkerInLine
<1>6. AcceptedIsInOnePlace
  BY <1>1, <1>2 DEF Init, AcceptedIsInOnePlace, IsInjective
<1>7. RowsAreTold /\ CompanionsExplained /\ TimeoutsExplained /\ CachedWasInserted
  BY <1>1, <1>2
  DEF Init, RowsAreTold, Untried, CompanionsExplained, TimeoutsExplained, CachedWasInserted
<1> QED BY <1>4, <1>5, <1>6, <1>7 DEF BatchIInv

\* The inductive invariant of the worker, its goroutines and the shutdown.
THEOREM BatchInvariant == Spec => []BatchIInv
<1>1. ASSUME BatchIInv, [Next]_vars PROVE BatchIInv'
  <2>1. TypeOK' /\ WorkerInLine'
    BY <1>1, BatchTypeStep DEF BatchIInv, AcceptedIsInOnePlace
  <2>2. AcceptedIsInOnePlace'
    BY <1>1, PlaceStep DEF BatchIInv
  <2>3. RowsAreTold' /\ CompanionsExplained'
    BY <1>1, RowsStep DEF BatchIInv
  <2>4. CachedWasInserted'
    BY <1>1, CachedStep DEF BatchIInv
  <2>5. TimeoutsExplained'
    BY <1>1, TimeoutsStep DEF BatchIInv
  <2> QED BY <2>1, <2>2, <2>3, <2>4, <2>5 DEF BatchIInv
<1> QED BY BatchInitIInv, <1>1, PTL DEF Spec

\* batch.go:62-167: channel, batch and semaphore keep their sizes.
THEOREM BatchTypeCorrect == Spec => []TypeOK
<1>1. BatchIInv => TypeOK
  BY DEF BatchIInv
<1> QED BY BatchInvariant, <1>1, PTL

\* batch.go:62-123: no accepted task is dropped or flushed twice, neither by
\* the two loops of the worker nor by the handler's fallback.
THEOREM InOnePlace == Spec => []AcceptedIsInOnePlace
<1>1. BatchIInv => AcceptedIsInOnePlace
  BY DEF BatchIInv
<1> QED BY BatchInvariant, <1>1, PTL

\* batch.go:129-148: a row that is refused takes only the untagged rows of its own
\* batch with it, and a flush that runs out of time only the rest of its own.
THEOREM FailuresConfined == Spec => []FailureIsConfined
<1>1. BatchIInv => FailureIsConfined
  BY DEF BatchIInv, RowsAreTold, Settled, CompanionsExplained, TimeoutsExplained,
         FailureIsConfined
<1> QED BY BatchInvariant, <1>1, PTL

\* batch.go:151-167: no task is cached before its insertion was tried.
THEOREM CachedAfterInsertion == Spec => []CachedWasInserted
<1>1. BatchIInv => CachedWasInserted
  BY DEF BatchIInv
<1> QED BY BatchInvariant, <1>1, PTL
=============================================================================
