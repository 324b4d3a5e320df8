------------------------------ MODULE OutboxRelay ------------------------------
(***************************************************************************)
(* The worker that relays outbox_events to Kafka, on top of TaskOutbox,    *)
(* whose writers run concurrently with it.                                 *)
(*                                                                         *)
(* One goroutine polls: it fetches a batch, tries the events one by one    *)
(* and marks those that Kafka's writer took, all in one statement at the   *)
(* end.  The writer is asynchronous: it takes an event into a buffer and   *)
(* reports nothing of what becomes of it, so the model ends there too.     *)
(***************************************************************************)
EXTENDS TaskOutbox

CONSTANTS
  BatchSize,   \* batchSize, 1000 in the code
  MaxAttempts  \* maxAttempts, 5 in the code

ASSUME RelayAssumption == BatchSize \in Nat \ {0} /\ MaxAttempts \in Nat

VARIABLES
  todo,      \* the events of the batch that are still to be tried
  done,      \* successIDs: those of the batch that Kafka's writer took
  \* History, read by no action:
  taken,     \* events Kafka's writer has taken at some time
  failed,    \* events an attempt at which has failed
  unmarked   \* events taken by the writer whose mark was then lost

relayHistory == <<taken, failed, unmarked>>
relayVars == <<todo, done, relayHistory>>
vars == <<storeVars, relayVars>>

TypeOK ==
  /\ StoreTypeOK
  /\ \A e \in Events : outbox[e].attempts <= MaxAttempts
  /\ todo \cup done \subseteq Events
  /\ todo \cap done = {}
  /\ taken \cup failed \subseteq Events
  /\ unmarked \subseteq taken

RelayInit ==
  /\ todo = {} /\ done = {}
  /\ taken = {} /\ failed = {} /\ unmarked = {}

Init == StoreInit /\ RelayInit

-----------------------------------------------------------------------------
(* processBatch *)

Unprocessed_All == Events

Unprocessed_AttemptsLeft ==
  {e \in Events : ~outbox[e].processed /\ outbox[e].attempts < MaxAttempts}

\* WHERE processed_at IS NULL, whatever the attempts.
Unprocessed == {e \in Events : ~outbox[e].processed}

Fetched_AnyOrder(batch) == TRUE

\* ORDER BY created_at: nothing older than an event of the batch is left out.
Fetched(batch) == \A e \in batch, f \in Unprocessed \ batch : e.at <= f.at

\* GetUnprocessedEvents: every poll reads up to BatchSize events.
GetUnprocessedEvents ==
  /\ todo = {} /\ done = {}
  /\ \E batch \in SUBSET Unprocessed :
       /\ batch # {}
       /\ Cardinality(batch) = Min({BatchSize, Cardinality(Unprocessed)})
       /\ Fetched(batch)
       /\ todo' = batch
  /\ UNCHANGED <<storeVars, done, relayHistory>>

\* The event of the batch that is tried next.
Oldest(events) == {e \in events : \A f \in events : e.at <= f.at}

\* json.Unmarshal of the payload.  Delete has PostgreSQL write the times of a
\* TIMESTAMP column, without a zone, which time.Time refuses.
Readable(e) == e.type # "deleted"

\* processEvent succeeds: Write returned without an immediate error.
HandOver(e) ==
  /\ e \in Oldest(todo)
  /\ Readable(e)
  /\ todo' = todo \ {e}
  /\ done' = done \cup {e}
  /\ taken' = taken \cup {e}
  /\ UNCHANGED <<storeVars, failed, unmarked>>

AttemptsLeft_OneMore(e) == outbox[e].attempts <= MaxAttempts

AttemptsLeft(e) == outbox[e].attempts < MaxAttempts

\* processEvent fails: an unreadable payload, or an immediate error of Write.
\* MarkAsFailed counts the attempt, or fails as well; past MaxAttempts there is
\* only a line in the log, "skipping", and the next poll fetches the event again.
FailEvent(e) ==
  /\ e \in Oldest(todo)
  /\ todo' = todo \ {e}
  /\ failed' = failed \cup {e}
  /\ \/ AttemptsLeft(e) /\ outbox' = [outbox EXCEPT ![e].attempts = @ + 1]
     \/ UNCHANGED outbox
  /\ UNCHANGED <<tasks, clock, slot, done, taken, unmarked>>

Marked_UpTo == {e \in Unprocessed : \E d \in done : e.at <= d.at}

\* The ids MarkBatchAsProcessed is called with.
Marked == done

MarkBatchAsProcessed ==
  /\ todo = {} /\ done # {}
  /\ outbox' = [e \in Events |-> IF e \in Marked THEN [outbox[e] EXCEPT !.processed = TRUE]
                                 ELSE outbox[e]]
  /\ done' = {}
  /\ UNCHANGED <<tasks, clock, slot, todo, relayHistory>>

\* The statement fails: an error in the log, the events stay unprocessed.
MarkBatchFails ==
  /\ todo = {} /\ done # {}
  /\ done' = {}
  /\ unmarked' = unmarked \cup done
  /\ UNCHANGED <<storeVars, todo, taken, failed>>

-----------------------------------------------------------------------------
\* The process ends and starts again: the batch is forgotten, transactions
\* in flight are rolled back.
Crash ==
  /\ todo' = {} /\ done' = {}
  /\ unmarked' = unmarked \cup done
  /\ slot' = [w \in Writer |-> Idle]
  /\ UNCHANGED <<tasks, outbox, clock, taken, failed>>

-----------------------------------------------------------------------------

Next ==
  \/ StoreNext /\ UNCHANGED relayVars
  \/ GetUnprocessedEvents
  \/ \E e \in todo : HandOver(e)
  \/ \E e \in todo : FailEvent(e)
  \/ MarkBatchAsProcessed
  \/ MarkBatchFails
  \/ Crash

Spec == Init /\ [][Next]_vars

\* The ticker runs as long as the process does, a batch is always worked off,
\* and errors of Kafka and of the database are transient: what is tried again
\* and again succeeds in the end.
Fairness ==
  /\ WF_vars(GetUnprocessedEvents)
  /\ WF_vars(\E e \in todo : HandOver(e) \/ FailEvent(e))
  /\ WF_vars(MarkBatchAsProcessed \/ MarkBatchFails)
  /\ SF_vars(\E e \in todo : HandOver(e))
  /\ SF_vars(MarkBatchAsProcessed)

FairSpec == Spec /\ Fairness

-----------------------------------------------------------------------------
(* Properties *)

\* processed_at is set only for events that Kafka's writer took, however
\* failures, lost marks and crashes interleave: the worker itself loses nothing.
ProcessedWasTaken == \A e \in Events : outbox[e].processed => e \in taken

\* A consumer sees an event of a task before an older one only if an attempt at
\* the older one had failed: neither a crash between two events nor an update
\* that commits while the worker runs turns the order around.
OvertakenOnlyAfterFailure ==
  \A e, f \in Events :
    /\ e.task = f.task
    /\ f.at < e.at
    /\ Readable(f)
    /\ e \in taken
    => f \in taken \cup failed

\* An event Kafka's writer already took is tried again only if its mark was
\* lost, by an error of MarkBatchAsProcessed or by a crash before it.
RetriedOnlyIfUnmarked == \A e \in todo : e \in taken => e \in unmarked

\* The deletions, which the worker cannot read, stay unprocessed for ever.
Stuck == {e \in Unprocessed : ~Readable(e)}

\* Once the process stays up, every event the worker can read gets processed,
\* also those that failed MaxAttempts times, of which the log says "skipping"
\* (worker.go:74).  The deletions are fetched again in every poll: it holds as
\* long as they do not fill the batch.
AllReadableProcessed ==
  [](Cardinality(Stuck) < BatchSize) /\ <>[][~Crash]_vars
    => <>[](\A e \in Events : Readable(e) => outbox[e].processed)

-----------------------------------------------------------------------------
(* The inductive strengthening *)

\* What the writer took is marked, about to be marked, or its mark was lost.
TakenIsAccounted ==
  /\ done \subseteq taken
  /\ \A e \in taken : outbox[e].processed \/ e \in done \cup unmarked

\* The batch leaves no older event of its tasks behind.
BatchHasThePast ==
  \A e \in todo, f \in Events :
    /\ e.task = f.task
    /\ f.at < e.at
    /\ Readable(f)
    => f \in todo \cup taken \cup failed

RelayIInv ==
  /\ StoreIInv
  /\ TypeOK
  /\ ProcessedWasTaken
  /\ TakenIsAccounted
  /\ RetriedOnlyIfUnmarked
  /\ BatchHasThePast
  /\ OvertakenOnlyAfterFailure
=============================================================================
