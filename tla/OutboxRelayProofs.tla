--------------------------- MODULE OutboxRelayProofs ---------------------------
(***************************************************************************)
(* The safety of OutboxRelay for every set of tasks, requests and writers, *)
(* every batch size and every number of attempts.  The worker reads what   *)
(* the store writes, so its invariant rests on that of the store: an event *)
(* that appears while a batch is worked off is later than all its task was *)
(* told before.                                                            *)
(***************************************************************************)
EXTENDS OutboxRelay, TaskOutboxProofs, FiniteSetTheorems

-----------------------------------------------------------------------------
(* What the store does, as the worker sees it *)

\* The store adds events, all of them pending, and takes none away.
LEMMA StoreAdds ==
  ASSUME StoreIInv, StoreNext
  PROVE  /\ Events \subseteq Events'
         /\ \A e \in Events : outbox'[e] = outbox[e]
         /\ \A e \in Events' \ Events : outbox'[e] = Pending
<1>1. ASSUME NEW es, Insert(es)
      PROVE  /\ Events \subseteq Events'
             /\ \A e \in Events : outbox'[e] = outbox[e]
             /\ \A e \in Events' \ Events : outbox'[e] = Pending
  BY <1>1, InsertAdds
<1>2. ASSUME UNCHANGED outbox
      PROVE  Events' = Events
  BY <1>2 DEF Events
<1> QED BY <1>1, <1>2
    DEF StoreNext, Create, UpdateRow, InsertEvent, Commit, DeleteStamp, DeleteExec, Rollback

\* A readable event that appears is the latest of its task.
LEMMA NewIsLatest ==
  ASSUME StoreIInv, StoreNext, NEW f \in Events' \ Events, Readable(f),
         NEW e \in Events, e.task = f.task
  PROVE  ~(f.at < e.at)
<1>0. Events' \subseteq Event /\ Events \subseteq Event
  BY TypeStep DEF StoreIInv, StoreTypeOK
<1> DEFINE t == f.task
<1>1. t \in TaskId /\ f.at \in Nat /\ e.at \in Nat
  BY <1>0, EventFields
<1>2. f \in EventsOf(t)' /\ f \notin EventsOf(t) /\ e \in EventsOf(t)
  BY DEF EventsOf
<1> HIDE DEF t
<1>3. CASE \E ts \in SUBSET TaskId : \E requests \in [ts -> Request] : Create(requests)
  <2>0. PICK ts \in SUBSET TaskId : \E requests \in [ts -> Request] : Create(requests)
    BY <1>3
  <2>1. PICK requests \in [ts -> Request] : Create(requests)
    BY <2>0
  <2>2. DOMAIN requests = ts /\ t \in ts
    BY <1>2, <2>1, AfterCreate
  <2> QED BY <1>2, <2>1, <2>2 DEF Create
<1>4. CASE \E w \in Writer : Commit(w)
  <2>1. PICK w \in Writer : Commit(w)
    BY <1>4
  <2>2. slot[w].task = t /\ f = UpdateEvent(slot[w])
    BY <1>2, <2>1, AfterCommit
  <2>3. f.at = slot[w].at
    BY <2>2 DEF UpdateEvent
  <2>4. tasks[t] # None
    BY <2>1, <2>2 DEF StoreIInv, TransactionsHoldTheRow, Commit
  <2>5. e \in Told(t)
    BY <1>1, <1>2, <2>4, LiveTask DEF Told
  <2>6. e.at < slot[w].at
    BY <2>1, <2>2, <2>5, CommittedIsLatest
  <2> QED BY <1>1, <2>3, <2>6
<1>5. CASE \E w \in Writer : DeleteExec(w)
  <2>1. PICK w \in Writer : DeleteExec(w)
    BY <1>5
  <2>2. f = DeletedEvent(slot[w])
    BY <1>2, <2>1, AfterDelete
  <2> QED BY <2>2 DEF DeletedEvent, Readable
<1>6. CASE UNCHANGED outbox
  BY <1>2, <1>6, SameEvents
<1> QED BY <1>3, <1>4, <1>5, <1>6 DEF StoreNext, UpdateRow, InsertEvent, DeleteStamp, Rollback

\* The parts of the worker's invariant that a step of the worker has to keep;
\* that of the store follows when only the mutable columns change.
LEMMA RelayParts ==
  ASSUME RelayIInv
  PROVE  /\ StoreIInv /\ StoreTypeOK /\ TypeOK /\ ProcessedWasTaken /\ TakenIsAccounted
         /\ RetriedOnlyIfUnmarked /\ BatchHasThePast /\ OvertakenOnlyAfterFailure
         /\ \A e \in Events : /\ e.at \in Nat /\ outbox[e] \in Delivery
                              /\ outbox[e].attempts \in Nat /\ outbox[e].processed \in BOOLEAN
         /\ todo \subseteq Events /\ done \subseteq Events
         /\ taken \subseteq Events /\ failed \subseteq Events
<1>1. StoreTypeOK /\ TypeOK
  BY DEF RelayIInv, TypeOK
<1>2. \A e \in Events : e.at \in Nat
  BY <1>1, EventFields DEF StoreTypeOK
<1>3. \A e \in Events : /\ outbox[e] \in Delivery
                        /\ outbox[e].attempts \in Nat /\ outbox[e].processed \in BOOLEAN
  BY <1>1 DEF StoreTypeOK, Delivery
<1> QED BY <1>1, <1>2, <1>3 DEF RelayIInv, TypeOK

\* Types and the store's invariant when the worker leaves the store alone.
LEMMA StoreLeftAlone ==
  ASSUME RelayIInv, UNCHANGED storeVars
  PROVE  /\ StoreIInv' /\ StoreTypeOK' /\ Events' = Events
         /\ \A e \in Events : outbox'[e].attempts <= MaxAttempts
<1>1. Events' = Events /\ outbox' \in [Events -> Delivery]
  BY RelayParts DEF storeVars, Events, StoreTypeOK
<1>2. StoreIInv'
  BY <1>1, RelayParts, StoreUndisturbed DEF storeVars
<1> QED BY <1>1, <1>2, RelayParts DEF StoreIInv, TypeOK, storeVars

\* A step of the store beside the worker.
LEMMA StoreBeside ==
  ASSUME RelayIInv, StoreNext, UNCHANGED relayVars
  PROVE  RelayIInv'
<1> USE DEF relayVars, relayHistory
<1>1. StoreIInv'
  BY RelayParts, StoreStep
<1>2. /\ Events \subseteq Events'
      /\ \A e \in Events : outbox'[e] = outbox[e]
      /\ \A e \in Events' \ Events : outbox'[e] = Pending
  BY RelayParts, StoreAdds
<1>3. Pending.attempts = 0 /\ Pending.processed = FALSE
  BY DEF Pending
<1>4. \A f \in Events' \ Events, e \in Events :
        Readable(f) /\ e.task = f.task => ~(f.at < e.at)
  BY RelayParts, NewIsLatest
<1>5. TypeOK'
  <2>1. \A e \in Events' : outbox'[e].attempts <= MaxAttempts
    BY <1>2, <1>3, RelayParts, RelayAssumption DEF TypeOK
  <2> QED BY <1>1, <1>2, <2>1, RelayParts DEF TypeOK, StoreIInv
<1>6. ProcessedWasTaken'
  BY <1>2, <1>3, RelayParts DEF ProcessedWasTaken
<1>7. TakenIsAccounted'
  BY <1>2, RelayParts DEF TakenIsAccounted
<1>8. RetriedOnlyIfUnmarked'
  BY RelayParts DEF RetriedOnlyIfUnmarked
<1>9. BatchHasThePast'
  <2>1. todo \subseteq Events
    BY RelayParts
  <2> QED BY <1>4, <2>1, RelayParts DEF BatchHasThePast, Readable
<1>10. OvertakenOnlyAfterFailure'
  <2>1. taken \subseteq Events
    BY RelayParts
  <2> QED BY <1>4, <2>1, RelayParts DEF OvertakenOnlyAfterFailure, Readable
<1> QED BY <1>1, <1>5, <1>6, <1>7, <1>8, <1>9, <1>10 DEF RelayIInv

\* Fetching a batch: what the batch leaves out is later, or was taken.
LEMMA FetchStep ==
  ASSUME RelayIInv, GetUnprocessedEvents
  PROVE  RelayIInv'
<1> USE DEF relayHistory
<1>1. PICK batch \in SUBSET Unprocessed : Fetched(batch) /\ todo' = batch
  BY DEF GetUnprocessedEvents
<1>2. /\ UNCHANGED storeVars /\ UNCHANGED <<done, relayHistory>> /\ done = {}
      /\ UNCHANGED outbox
  BY DEF GetUnprocessedEvents, storeVars
<1>3. batch \subseteq Events /\ \A e \in batch : ~outbox[e].processed
  BY DEF Unprocessed
<1>4. StoreIInv' /\ StoreTypeOK' /\ Events' = Events
      /\ \A e \in Events : outbox'[e].attempts <= MaxAttempts
  BY <1>2, StoreLeftAlone
<1>5. TypeOK'
  BY <1>1, <1>2, <1>3, <1>4, RelayParts DEF TypeOK
<1>6. ProcessedWasTaken' /\ TakenIsAccounted'
  BY <1>2, <1>4, RelayParts DEF ProcessedWasTaken, TakenIsAccounted
<1>7. RetriedOnlyIfUnmarked'
  BY <1>1, <1>2, <1>3, RelayParts DEF RetriedOnlyIfUnmarked, TakenIsAccounted
<1>8. ASSUME NEW e \in batch, NEW f \in Events, f.at < e.at
      PROVE  f \in batch \cup taken
  <2>1. CASE outbox[f].processed
    BY <2>1, RelayParts DEF ProcessedWasTaken
  <2>2. CASE ~outbox[f].processed
    <3>1. f \in Unprocessed /\ e.at \in Nat /\ f.at \in Nat
      BY <1>3, <2>2, RelayParts DEF Unprocessed
    <3> QED BY <1>1, <1>8, <3>1 DEF Fetched
  <2> QED BY <2>1, <2>2
<1>9. BatchHasThePast'
  BY <1>1, <1>2, <1>4, <1>8 DEF BatchHasThePast, Readable
<1>10. OvertakenOnlyAfterFailure'
  BY <1>2, <1>4, RelayParts DEF OvertakenOnlyAfterFailure, Readable
<1> QED BY <1>4, <1>5, <1>6, <1>7, <1>9, <1>10 DEF RelayIInv

\* Handing an event over: no older one of the batch is left behind.
LEMMA HandOverStep ==
  ASSUME RelayIInv, NEW e \in todo, HandOver(e)
  PROVE  RelayIInv'
<1>1. /\ e \in Oldest(todo) /\ Readable(e)
      /\ todo' = todo \ {e} /\ done' = done \cup {e} /\ taken' = taken \cup {e}
      /\ UNCHANGED <<failed, unmarked>> /\ UNCHANGED storeVars
      /\ UNCHANGED outbox
  BY DEF HandOver, storeVars
<1>2. StoreIInv' /\ StoreTypeOK' /\ Events' = Events
      /\ \A x \in Events : outbox'[x].attempts <= MaxAttempts
  BY <1>1, StoreLeftAlone
<1>3. TypeOK'
  BY <1>1, <1>2, RelayParts DEF TypeOK
<1>4. ProcessedWasTaken' /\ TakenIsAccounted' /\ RetriedOnlyIfUnmarked'
  BY <1>1, <1>2, RelayParts DEF ProcessedWasTaken, TakenIsAccounted, RetriedOnlyIfUnmarked
<1>5. BatchHasThePast'
  BY <1>1, <1>2, RelayParts DEF BatchHasThePast, Readable
<1>6. ASSUME NEW f \in Events, e.task = f.task, f.at < e.at, Readable(f)
      PROVE  f \in taken \cup failed
  <2>1. f \in todo \cup taken \cup failed
    BY <1>6, RelayParts DEF BatchHasThePast
  <2>2. e.at \in Nat /\ f.at \in Nat
    BY RelayParts
  <2>3. f \notin todo
    BY <1>1, <1>6, <2>2 DEF Oldest
  <2> QED BY <2>1, <2>3
<1>7. OvertakenOnlyAfterFailure'
  BY <1>1, <1>2, <1>6, RelayParts DEF OvertakenOnlyAfterFailure, Readable
<1> QED BY <1>2, <1>3, <1>4, <1>5, <1>7 DEF RelayIInv

\* An attempt that fails: at most the number of attempts changes.
LEMMA FailStep ==
  ASSUME RelayIInv, NEW e \in todo, FailEvent(e)
  PROVE  RelayIInv'
<1>1. /\ todo' = todo \ {e} /\ failed' = failed \cup {e}
      /\ UNCHANGED <<tasks, clock, slot, done, taken, unmarked>>
  BY DEF FailEvent
<1>2. e \in Events
  BY RelayParts
<1>3. /\ outbox' \in [Events -> Delivery]
      /\ \A x \in Events : /\ outbox'[x].attempts <= MaxAttempts
                           /\ outbox'[x].processed = outbox[x].processed
  <2>1. CASE UNCHANGED outbox
    BY <2>1, RelayParts DEF StoreTypeOK, TypeOK
  <2>2. CASE AttemptsLeft(e) /\ outbox' = [outbox EXCEPT ![e].attempts = @ + 1]
    <3> DEFINE new == [outbox[e] EXCEPT !.attempts = @ + 1]
    <3>1. /\ new \in Delivery /\ new.attempts = outbox[e].attempts + 1
          /\ new.processed = outbox[e].processed
      BY <1>2, RelayParts DEF Delivery
    <3>2. outbox' = [outbox EXCEPT ![e] = new]
      BY <2>2
    <3>3. new.attempts <= MaxAttempts
      BY <1>2, <2>2, <3>1, RelayParts, RelayAssumption DEF AttemptsLeft
    <3> HIDE DEF new
    <3> QED BY <1>2, <3>1, <3>2, <3>3, RelayParts DEF StoreTypeOK, TypeOK
  <2> QED BY <2>1, <2>2 DEF FailEvent
<1>4. Events' = Events
  BY <1>3 DEF Events
<1>5. StoreIInv'
  BY <1>1, <1>3, <1>4, RelayParts, StoreUndisturbed
<1>6. TypeOK'
  BY <1>1, <1>2, <1>3, <1>4, <1>5, RelayParts DEF TypeOK, StoreIInv
<1>7. ProcessedWasTaken' /\ TakenIsAccounted' /\ RetriedOnlyIfUnmarked'
  BY <1>1, <1>3, <1>4, RelayParts DEF ProcessedWasTaken, TakenIsAccounted, RetriedOnlyIfUnmarked
<1>8. BatchHasThePast' /\ OvertakenOnlyAfterFailure'
  BY <1>1, <1>4, RelayParts DEF BatchHasThePast, OvertakenOnlyAfterFailure, Readable
<1> QED BY <1>5, <1>6, <1>7, <1>8 DEF RelayIInv

\* Marking the batch: processed are those that were taken.
LEMMA MarkStep ==
  ASSUME RelayIInv, MarkBatchAsProcessed
  PROVE  RelayIInv'
<1> USE DEF relayHistory
<1>1. /\ todo = {} /\ done' = {} /\ UNCHANGED <<tasks, clock, slot, todo, relayHistory>>
      /\ outbox' = [e \in Events |-> IF e \in done THEN [outbox[e] EXCEPT !.processed = TRUE]
                                     ELSE outbox[e]]
  BY DEF MarkBatchAsProcessed, Marked
<1>2. \A d \in Delivery : LET m == [d EXCEPT !.processed = TRUE]
                          IN  m \in Delivery /\ m.attempts = d.attempts /\ m.processed
  BY DEF Delivery
<1>3. /\ outbox' \in [Events -> Delivery] /\ Events' = Events
      /\ \A x \in Events : /\ outbox'[x].attempts <= MaxAttempts
                           /\ outbox'[x].processed <=> x \in done \/ outbox[x].processed
  <2>1. \A x \in Events : /\ outbox'[x] \in Delivery
                          /\ outbox'[x].attempts = outbox[x].attempts
                          /\ outbox'[x].processed <=> x \in done \/ outbox[x].processed
    BY <1>1, <1>2, RelayParts
  <2>2. outbox' \in [Events -> Delivery]
    BY <1>1, <2>1
  <2>3. Events' = Events
    BY <1>1 DEF Events
  <2> QED BY <2>1, <2>2, <2>3, RelayParts DEF TypeOK
<1>4. StoreIInv'
  BY <1>1, <1>3, RelayParts, StoreUndisturbed
<1>5. TypeOK'
  BY <1>1, <1>3, <1>4, RelayParts DEF TypeOK, StoreIInv
<1>6. ProcessedWasTaken' /\ TakenIsAccounted' /\ RetriedOnlyIfUnmarked'
  BY <1>1, <1>3, RelayParts DEF ProcessedWasTaken, TakenIsAccounted, RetriedOnlyIfUnmarked
<1>7. BatchHasThePast' /\ OvertakenOnlyAfterFailure'
  BY <1>1, <1>3, RelayParts DEF BatchHasThePast, OvertakenOnlyAfterFailure, Readable
<1> QED BY <1>4, <1>5, <1>6, <1>7 DEF RelayIInv

\* A batch is forgotten, by a failed statement or by a crash.
LEMMA ForgetStep ==
  ASSUME RelayIInv, MarkBatchFails \/ Crash
  PROVE  RelayIInv'
<1>1. /\ todo' \subseteq todo /\ done' = {} /\ unmarked' = unmarked \cup done
      /\ UNCHANGED <<tasks, outbox, clock, taken, failed>>
      /\ slot' = slot \/ slot' = [w \in Writer |-> Idle]
  BY DEF MarkBatchFails, Crash, storeVars
<1>2. outbox' \in [Events -> Delivery] /\ Events' = Events
  BY <1>1, RelayParts DEF Events, StoreTypeOK
<1>3. StoreIInv'
  BY <1>1, <1>2, RelayParts, StoreUndisturbed
<1>4. TypeOK'
  BY <1>1, <1>2, <1>3, RelayParts DEF TypeOK, StoreIInv, TakenIsAccounted
<1>5. ProcessedWasTaken' /\ TakenIsAccounted' /\ RetriedOnlyIfUnmarked'
  BY <1>1, <1>2, RelayParts DEF ProcessedWasTaken, TakenIsAccounted, RetriedOnlyIfUnmarked
<1>6. BatchHasThePast'
  <2>1. CASE todo' = {}
    BY <2>1 DEF BatchHasThePast
  <2>2. CASE todo' = todo
    BY <1>1, <1>2, <2>2, RelayParts DEF BatchHasThePast, Readable
  <2> QED BY <2>1, <2>2 DEF MarkBatchFails, Crash
<1>7. OvertakenOnlyAfterFailure'
  BY <1>1, <1>2, RelayParts DEF OvertakenOnlyAfterFailure, Readable
<1> QED BY <1>3, <1>4, <1>5, <1>6, <1>7 DEF RelayIInv

\* Nothing happens.
LEMMA RelayStutters ==
  ASSUME RelayIInv, UNCHANGED vars
  PROVE  RelayIInv'
<1>1. /\ UNCHANGED storeVars /\ UNCHANGED <<outbox, todo, done>>
      /\ UNCHANGED <<taken, failed, unmarked>>
  BY DEF vars, storeVars, relayVars, relayHistory
<1>2. StoreIInv' /\ StoreTypeOK' /\ Events' = Events
      /\ \A e \in Events : outbox'[e].attempts <= MaxAttempts
  BY <1>1, StoreLeftAlone
<1>3. TypeOK'
  BY <1>1, <1>2, RelayParts DEF TypeOK
<1>4. ProcessedWasTaken' /\ TakenIsAccounted' /\ RetriedOnlyIfUnmarked'
  BY <1>1, <1>2, RelayParts DEF ProcessedWasTaken, TakenIsAccounted, RetriedOnlyIfUnmarked
<1>5. BatchHasThePast' /\ OvertakenOnlyAfterFailure'
  BY <1>1, <1>2, RelayParts DEF BatchHasThePast, OvertakenOnlyAfterFailure, Readable
<1> QED BY <1>2, <1>3, <1>4, <1>5 DEF RelayIInv

-----------------------------------------------------------------------------
(* The theorems *)

\* The invariant of the worker and the store together is inductive.
THEOREM RelayInductive == Spec => []RelayIInv
<1>1. Init => RelayIInv
  <2> SUFFICES ASSUME Init PROVE RelayIInv
    OBVIOUS
  <2>1. StoreIInv /\ StoreTypeOK
    BY StoreStarts DEF Init, StoreIInv
  <2>2. Events = {} /\ todo = {} /\ done = {} /\ taken = {} /\ failed = {}
        /\ unmarked = {}
    BY DEF Init, StoreInit, RelayInit, Events
  <2>3. TypeOK /\ ProcessedWasTaken /\ TakenIsAccounted /\ RetriedOnlyIfUnmarked
    BY <2>1, <2>2 DEF TypeOK, ProcessedWasTaken, TakenIsAccounted, RetriedOnlyIfUnmarked
  <2>4. BatchHasThePast /\ OvertakenOnlyAfterFailure
    BY <2>2 DEF BatchHasThePast, OvertakenOnlyAfterFailure
  <2> QED BY <2>1, <2>3, <2>4 DEF RelayIInv
<1>2. RelayIInv /\ [Next]_vars => RelayIInv'
  BY StoreBeside, FetchStep, HandOverStep, FailStep, MarkStep, ForgetStep, RelayStutters
     DEF Next
<1> QED BY <1>1, <1>2, PTL DEF Spec

\* The types, and the attempts never exceed MaxAttempts.
THEOREM RelayTypeCorrect == Spec => []TypeOK
<1>1. RelayIInv => TypeOK
  BY DEF RelayIInv
<1> QED BY <1>1, RelayInductive, PTL

\* processBatch never marks an event that Kafka's writer did not take.
THEOREM NothingLost == Spec => []ProcessedWasTaken
<1>1. RelayIInv => ProcessedWasTaken
  BY DEF RelayIInv
<1> QED BY <1>1, RelayInductive, PTL

\* The order of a task's events turns around only after a failed attempt,
\* whatever commits while the worker works off its batch.
THEOREM OrderKept == Spec => []OvertakenOnlyAfterFailure
<1>1. RelayIInv => OvertakenOnlyAfterFailure
  BY DEF RelayIInv
<1> QED BY <1>1, RelayInductive, PTL

\* An event is handed over again only if MarkBatchAsProcessed failed or the
\* process ended before it.
THEOREM RetriesExplained == Spec => []RetriedOnlyIfUnmarked
<1>1. RelayIInv => RetriedOnlyIfUnmarked
  BY DEF RelayIInv
<1> QED BY <1>1, RelayInductive, PTL

\* What TaskOutbox promises of the store holds beside the worker too.
THEOREM StoreKeptBeside == Spec => []OutboxTellsTheTask
<1>1. RelayIInv => OutboxTellsTheTask
  BY DEF RelayIInv, StoreIInv
<1> QED BY <1>1, RelayInductive, PTL

\* The same of the log: the worker changes only the columns that say what
\* became of an event, and a crash forgets only what was not committed.
THEOREM LogKeptBeside == Spec => OutboxIsALog
<1>1. Init => Log!LogInit
  BY LogStarts DEF Init
<1>2. ASSUME RelayIInv, [Next]_vars PROVE [Log!LogNext]_(Log!logVars)
  <2>1. CASE StoreNext
    BY <1>2, <2>1, RelayParts, LogStep
  <2>2. CASE UNCHANGED vars \/ GetUnprocessedEvents \/ (\E e \in todo : HandOver(e))
             \/ MarkBatchFails \/ Crash
    <3>1. UNCHANGED <<tasks, Events>>
      BY <2>2 DEF vars, storeVars, GetUnprocessedEvents, HandOver, MarkBatchFails, Crash, Events
    <3> QED BY <3>1, LogUntouched
  <2>3. CASE MarkBatchAsProcessed
    <3>1. UNCHANGED <<tasks, Events>>
      BY <2>3 DEF MarkBatchAsProcessed, Events
    <3> QED BY <3>1, LogUntouched
  <2>4. ASSUME NEW e \in todo, FailEvent(e) PROVE UNCHANGED Log!logVars
    <3>1. UNCHANGED <<tasks, Events>>
      BY <2>4 DEF FailEvent, Events
    <3> QED BY <3>1, LogUntouched
  <2> QED BY <1>2, <2>1, <2>2, <2>3, <2>4 DEF Next
<1> QED BY <1>1, <1>2, RelayInductive, PTL DEF Spec, OutboxIsALog, Log!LogSpec

\* As long as no attempt at an event of a task has failed, what Kafka's writer
\* took of it is its log from the creation on, without a gap, whether or not
\* the process crashed between two events.
TakenWithoutGaps ==
  \A t \in TaskId :
    failed \cap Told(t) = {} =>
      \A e \in taken \cap Told(t) : \A i \in 1 .. Place(e) :
        \E f \in taken \cap Told(t) : Place(f) = i

\* The places of two events of a task are in the order of their stamps.
LEMMA PlacesAreInOrder ==
  ASSUME StoreIInv, NEW t \in TaskId, NEW e \in Told(t), NEW f \in Told(t), Place(f) < Place(e)
  PROVE  f.at < e.at
<1>1. \A x \in Told(t) : /\ x \in Events /\ x.task = t /\ x.version \in Nat
                         /\ x.type = "created" \/ x.type = "update"
  BY EventFields DEF StoreIInv, StoreTypeOK, Told, EventsOf, EventType
<1>2. CASE e.type = "created"
  BY <1>1, <1>2 DEF Place
<1>3. CASE e.type = "update" /\ f.type = "update"
  <2>1. f.version < e.version
    BY <1>1, <1>3 DEF Place
  <2> QED BY <1>1, <1>3, <2>1 DEF StoreIInv, OneStoryPerTask
<1>4. CASE e.type = "update" /\ f.type = "created"
  BY <1>1, <1>4 DEF StoreIInv, OneStoryPerTask
<1> QED BY <1>1, <1>2, <1>3, <1>4

\* worker.go:53-86: consumers read a prefix of the log unless an attempt fails.
THEOREM PrefixTaken == Spec => []TakenWithoutGaps
<1>1. ASSUME RelayIInv, NEW t \in TaskId, failed \cap Told(t) = {},
             NEW e \in taken \cap Told(t), NEW i \in 1 .. Place(e)
      PROVE  \E f \in taken \cap Told(t) : Place(f) = i
  <2>0. StoreIInv /\ OvertakenOnlyAfterFailure
    BY <1>1 DEF RelayIInv
  <2>1. PICK n \in 0 .. MaxTime : UpdateVersions(t) = 0 .. n - 1
    BY <2>0 DEF StoreIInv, NumberedFromZero
  <2>2. EventsOf(t) # {} /\ n \in Nat
    BY DEF Told
  <2>3. {Place(f) : f \in Told(t)} = 1 .. n + 1
    BY <2>0, <2>1, <2>2, PlacesFill
  <2>4. Place(e) \in 1 .. n + 1
    BY <2>3
  <2>5. i \in 1 .. n + 1
    BY <2>2, <2>4
  <2>6. PICK f \in Told(t) : Place(f) = i
    BY <2>3, <2>5
  <2>7. CASE i = Place(e)
    BY <2>7
  <2>8. CASE i # Place(e)
    <3>1. f.at < e.at
      BY <2>0, <2>4, <2>5, <2>6, <2>8, PlacesAreInOrder
    <3>2. e \in Events /\ f \in Events /\ e.task = f.task /\ Readable(f)
      BY DEF Told, EventsOf, Readable
    <3>3. f \in taken
      BY <1>1, <2>0, <3>1, <3>2 DEF OvertakenOnlyAfterFailure
    <3> QED BY <2>6, <3>3
  <2> QED BY <2>7, <2>8
<1>2. RelayIInv => TakenWithoutGaps
  BY <1>1 DEF TakenWithoutGaps
<1> QED BY <1>2, RelayInductive, PTL

-----------------------------------------------------------------------------
(* What the deletions do to the queue *)

\* A deletion is never taken, hence never marked: it stays at its place.
DeletionsStay == \A e \in Events : ~Readable(e) => e \notin taken /\ ~outbox[e].processed

\* worker.go:88-92: what json.Unmarshal refuses, the queue
\* keeps for ever, whatever becomes of its attempts.
THEOREM DeletionsNeverLeave == Spec => []DeletionsStay
<1> DEFINE TakenIsReadable == \A e \in taken : Readable(e)
<1>1. Init => TakenIsReadable
  BY DEF Init, RelayInit
<1>2. TakenIsReadable /\ [Next]_vars => TakenIsReadable'
  BY DEF Next, vars, relayVars, relayHistory, GetUnprocessedEvents, HandOver, FailEvent,
         MarkBatchAsProcessed, MarkBatchFails, Crash, Readable
<1>3. RelayIInv /\ TakenIsReadable => DeletionsStay
  BY DEF RelayIInv, ProcessedWasTaken, DeletionsStay
<1> HIDE DEF TakenIsReadable
<1> QED BY <1>1, <1>2, <1>3, RelayInductive, PTL DEF Spec

\* A poll that fetches nothing it can read although there is something has met a
\* full batch of deletions, none of them later than what it leaves behind.
StarvedByDeletions ==
  [][GetUnprocessedEvents /\ (\A e \in todo' : ~Readable(e)) =>
       \A r \in Unprocessed : Readable(r) =>
         /\ Cardinality(Stuck) >= BatchSize /\ Cardinality(todo') = BatchSize
         /\ \A e \in todo' : e \in Stuck /\ e.at <= r.at]_vars

\* Its task and its place tell an event from all others.
LEMMA EventsAreFinite ==
  ASSUME StoreIInv, IsFiniteSet(TaskId)
  PROVE  IsFiniteSet(Events)
<1> DEFINE P(e) == IF e.type = "deleted" THEN 0 ELSE Place(e)
<1> DEFINE T == TaskId \X (0 .. MaxTime + 2)
<1> DEFINE f == [e \in Events |-> <<e.task, P(e)>>]
<1>0. MaxTime + 2 \in Int /\ 0 \in Int /\ MaxTime \in Nat
  BY BoundAssumption
<1>1. IsFiniteSet(T)
  BY <1>0, FS_Interval, FS_Product
<1>2. \A e \in Events : /\ e.task \in TaskId /\ e.version \in 0 .. MaxTime
                        /\ e.type \in {"created", "update", "deleted"}
  BY EventFields DEF StoreIInv, StoreTypeOK, EventType
<1>3. \A e \in Events : P(e) \in 0 .. MaxTime + 2
  BY <1>0, <1>2 DEF Place
<1>4. ASSUME NEW e \in Events, NEW g \in Events, e.task = g.task, P(e) = P(g)
      PROVE  e = g
  <2>1. e.type = g.type /\ (e.type = "update" => e.version = g.version)
    BY <1>2, <1>4 DEF Place
  <2> QED BY <1>2, <1>4, <2>1 DEF StoreIInv, OneStoryPerTask
<1> HIDE DEF P
<1>5. f \in [Events -> T]
  BY <1>2, <1>3
<1>6. ASSUME NEW e \in Events, NEW g \in Events, f[e] = f[g] PROVE e = g
  BY <1>4, <1>6
<1>7. f \in Injection(Events, T)
  BY <1>5, <1>6 DEF Injection, IsInjective
<1> HIDE DEF f, T
<1> QED BY <1>1, <1>7, FS_Injection

LEMMA MinIsOneOf ==
  ASSUME NEW a \in Nat, NEW b \in Nat
  PROVE  Min({a, b}) = IF a <= b THEN a ELSE b
BY DEF Min

\* worker.go:53-86, GetUnprocessedEvents: only batchSize deletions that were never
\* marked can keep readable events out of the batch.  Together with
\* DeletionsNeverLeave this is why AllReadableProcessed asks for fewer of them,
\* and what happens when there are as many.
THEOREM OnlyDeletionsStarve ==
  ASSUME IsFiniteSet(TaskId)
  PROVE  Spec => StarvedByDeletions
<1>1. ASSUME RelayIInv, GetUnprocessedEvents, \A e \in todo' : ~Readable(e),
             NEW r \in Unprocessed, Readable(r)
      PROVE  /\ Cardinality(Stuck) >= BatchSize /\ Cardinality(todo') = BatchSize
             /\ \A e \in todo' : e \in Stuck /\ e.at <= r.at
  <2>1. PICK batch \in SUBSET Unprocessed :
          /\ Cardinality(batch) = Min({BatchSize, Cardinality(Unprocessed)})
          /\ Fetched(batch) /\ todo' = batch
    BY <1>1 DEF GetUnprocessedEvents
  <2>2. Unprocessed \subseteq Events /\ Stuck \subseteq Unprocessed /\ batch \subseteq Stuck
        /\ r \notin batch
    BY <1>1, <2>1 DEF Unprocessed, Stuck
  <2>3. IsFiniteSet(Unprocessed) /\ IsFiniteSet(Stuck) /\ IsFiniteSet(batch)
    BY <1>1, <2>2, EventsAreFinite, FS_Subset DEF RelayIInv
  <2>4. /\ Cardinality(Unprocessed) \in Nat /\ Cardinality(batch) \in Nat
        /\ Cardinality(Stuck) \in Nat
    BY <2>3, FS_CardinalityType
  <2>5. Cardinality(batch) # Cardinality(Unprocessed)
    BY <2>1, <2>2, <2>3, FS_Subset
  <2>6. Cardinality(batch) = BatchSize
    BY <2>1, <2>4, <2>5, MinIsOneOf, RelayAssumption
  <2>7. Cardinality(batch) <= Cardinality(Stuck)
    BY <2>2, <2>3, FS_Subset
  <2>8. \A e \in batch : e.at <= r.at
    BY <2>1, <2>2 DEF Fetched
  <2> QED BY <2>1, <2>2, <2>4, <2>6, <2>7, <2>8, RelayAssumption
<1>2. RelayIInv /\ [Next]_vars =>
        [GetUnprocessedEvents /\ (\A e \in todo' : ~Readable(e)) =>
           \A r \in Unprocessed : Readable(r) =>
             /\ Cardinality(Stuck) >= BatchSize /\ Cardinality(todo') = BatchSize
             /\ \A e \in todo' : e \in Stuck /\ e.at <= r.at]_vars
  BY <1>1
<1> QED BY <1>2, RelayInductive, PTL DEF Spec, StarvedByDeletions
=============================================================================
