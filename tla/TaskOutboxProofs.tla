--------------------------- MODULE TaskOutboxProofs ---------------------------
(***************************************************************************)
(* The safety of TaskOutbox for every set of tasks, payloads and writers.  *)
(* Each conjunct of StoreIInv has a lemma of its own: every step of the    *)
(* store preserves it, given StoreIInv before the step.                    *)
(***************************************************************************)
EXTENDS TaskOutbox, Sequences, TLAPS

-----------------------------------------------------------------------------
(* Records and functions *)

\* The fields of an idle slot.
LEMMA IdleIs ==
  /\ Idle.pc = "idle" /\ Idle.task = None /\ Idle.row = None /\ Idle.told = None
  /\ Idle.version = 0 /\ Idle.at = 0
  /\ Idle \notin Busy
BY DEF Idle, Busy

\* The fields of an event.
LEMMA EventFields ==
  ASSUME NEW e \in Event
  PROVE  /\ e.task \in TaskId /\ e.type \in EventType /\ e.content \in Payload
         /\ e.version \in 0 .. MaxTime /\ e.at \in 0 .. MaxTime
BY DEF Event

\* A slot that is not idle works on a task.
LEMMA BusyFields ==
  ASSUME StoreTypeOK, NEW w \in Writer, slot[w] # Idle
  PROVE  /\ slot[w] \in Busy
         /\ slot[w].pc \in {"updated", "inserted", "stamped"}
         /\ slot[w].task \in TaskId
         /\ slot[w].row \in Row \cup {None} /\ slot[w].told \in Payload \cup {None}
         /\ slot[w].version \in 0 .. MaxTime /\ slot[w].at \in 0 .. MaxTime
<1>1. slot[w] \in Busy
  BY DEF StoreTypeOK
<1> QED BY <1>1 DEF Busy

\* Inserting rows leaves the others, with their columns, alone.
LEMMA InsertAdds ==
  ASSUME NEW es, Insert(es)
  PROVE  /\ Events' = Events \cup es
         /\ outbox' = [e \in Events' |-> IF e \in Events THEN outbox[e] ELSE Pending]
BY DEF Insert, Events

\* The next version of a task whose updates are numbered from 0 on.
LEMMA NextVersionIs ==
  ASSUME NEW t, NEW n \in Nat, UpdateVersions(t) = 0 .. n - 1
  PROVE  NextVersion(t) = n
<1>1. CASE n = 0
  BY <1>1 DEF NextVersion
<1>2. CASE n # 0
  <2>1. n - 1 \in UpdateVersions(t) /\ \A y \in UpdateVersions(t) : n - 1 >= y
    BY <1>2
  <2>2. \A x \in UpdateVersions(t) : (\A y \in UpdateVersions(t) : x >= y) => x = n - 1
    BY <2>1
  <2>3. Max(UpdateVersions(t)) = n - 1
    BY <2>1, <2>2 DEF Max
  <2> QED BY <2>1, <2>3 DEF NextVersion
<1> QED BY <1>1, <1>2

-----------------------------------------------------------------------------
(* Conversions: what they return tells the row. *)

LEMMA RequestTells ==
  ASSUME NEW q \in Request
  PROVE  /\ RowOf(q) \in Row /\ RequestPayload(q) \in Payload
         /\ \A at : SaidAt(RequestPayload(q), RowOf(q), at)
<1>1. /\ q.text \in Text /\ q.status \in Status
      /\ q.tag \in Tag \cup {None} /\ q.name \in Tag \cup {None}
  BY InputAssumption DEF NewTask
<1>2. ResolvedTag(q) \in Tag
  BY <1>1, PayloadAssumption DEF ResolvedTag
<1>3. RowOf(q) \in Row /\ RequestPayload(q) \in Payload
  BY <1>1, <1>2 DEF RowOf, Row, RequestPayload, Payload
<1>4. ResolvedTag(RequestPayload(q)) = ResolvedTag(q)
  BY DEF ResolvedTag, RequestPayload
<1> QED BY <1>3, <1>4 DEF SaidAt, Tells, RequestPayload, RowOf

LEMMA PatchedIsRow ==
  ASSUME NEW row \in Row, NEW p \in Patch
  PROVE  Patched(row, p) \in Row
<1>1. /\ p.text \in Text \cup {None} /\ p.status \in Status \cup {None}
      /\ p.name \in Tag \cup {None}
  BY InputAssumption DEF PatchOfTask
<1>2. row.text \in Text /\ row.status \in Status /\ row.tag \in Tag
  BY DEF Row
<1> QED BY <1>1, <1>2 DEF Patched, Row

LEMMA RowTells ==
  ASSUME NEW row \in Row, NEW now \in Nat
  PROVE  RowPayload(row, now) \in Payload /\ SaidAt(RowPayload(row, now), row, now)
<1> DEFINE p == RowPayload(row, now)
<1>1. row.text \in Text /\ row.status \in Status /\ row.tag \in Tag /\ row.tag # None
  BY PayloadAssumption DEF Row
<1>2. /\ p.text = row.text /\ p.tag = row.tag /\ p.dated = TRUE
      /\ p.name = None \/ p.name = row.tag
      /\ p.status = ShownStatus(row, now)
      /\ p = [text |-> p.text, status |-> p.status, tag |-> p.tag, name |-> p.name,
              dated |-> p.dated]
  BY DEF RowPayload
<1> HIDE DEF p
<1>3. \/ p.status = row.status
      \/ p.status = "not_completed" /\ row.status = "in_progress" /\ Due[row.text] < now
  BY <1>1, <1>2 DEF ShownStatus, Status
<1>4. p \in Payload
  BY <1>1, <1>2, <1>3 DEF Payload, Status
<1>5. ResolvedTag(p) = row.tag
  BY <1>1, <1>2 DEF ResolvedTag
<1>6. SaidAt(p, row, now)
  BY <1>2, <1>3, <1>5 DEF SaidAt, Tells
<1> QED BY <1>4, <1>6 DEF p

LEMMA DeletedTells ==
  ASSUME NEW row \in Row
  PROVE  /\ DeletedPayload(row) \in Payload
         /\ Tells(DeletedPayload(row), row) /\ DeletedPayload(row).status = row.status
         /\ [text |-> DeletedPayload(row).text, status |-> DeletedPayload(row).status,
             tag |-> DeletedPayload(row).tag] = row
<1>1. /\ row.text \in Text /\ row.status \in Status /\ row.tag \in Tag /\ row.tag # None
      /\ row = [text |-> row.text, status |-> row.status, tag |-> row.tag]
  BY PayloadAssumption DEF Row
<1> QED BY <1>1 DEF DeletedPayload, Payload, Tells, ResolvedTag

-----------------------------------------------------------------------------
(* Types *)

\* What an action writes into a slot is a slot.
LEMMA SlotsStaySlots ==
  ASSUME StoreTypeOK, NEW w \in Writer, NEW s \in Busy \cup {Idle},
         s.pc \in {"updated", "inserted"} => s.row \in Row /\ s.told \in Payload,
         slot' = [slot EXCEPT ![w] = s]
  PROVE  /\ slot' \in [Writer -> Busy \cup {Idle}]
         /\ \A x \in Writer : slot'[x].pc \in {"updated", "inserted"} =>
              slot'[x].row \in Row /\ slot'[x].told \in Payload
BY DEF StoreTypeOK

\* Inserted rows are pending.
LEMMA RowsStayRows ==
  ASSUME StoreTypeOK, NEW es, es \subseteq Event, Insert(es)
  PROVE  Events' \subseteq Event /\ outbox' \in [Events' -> Delivery]
<1>1. Pending \in Delivery
  BY DEF Pending, Delivery
<1> QED BY <1>1, InsertAdds DEF StoreTypeOK

\* Every step of the store keeps the types.
LEMMA TypeStep ==
  ASSUME StoreIInv, StoreNext
  PROVE  StoreTypeOK'
<1> USE BoundAssumption, NoneAssumption
<1>0. StoreTypeOK
  BY DEF StoreIInv
<1>1. ASSUME NEW ts \in SUBSET TaskId, NEW requests \in [ts -> Request], Create(requests)
      PROVE  StoreTypeOK'
  <2>1. clock \in 0 .. MaxTime /\ clock' \in 0 .. MaxTime /\ 0 \in 0 .. MaxTime
    BY <1>0, <1>1 DEF Create, Tick, StoreTypeOK
  <2>2. /\ DOMAIN requests = ts
        /\ \A t \in ts : RowOf(requests[t]) \in Row /\ RequestPayload(requests[t]) \in Payload
    BY RequestTells
  <2>3. tasks' \in [TaskId -> Row \cup {None}]
    BY <1>0, <1>1, <2>2 DEF Create, StoreTypeOK
  <2>4. {CreatedEvent(t, requests[t]) : t \in DOMAIN requests} \subseteq Event
    BY <2>1, <2>2 DEF CreatedEvent, Event, EventType
  <2>5. Events' \subseteq Event /\ outbox' \in [Events' -> Delivery]
    BY <1>0, <1>1, <2>4, RowsStayRows DEF Create
  <2> QED BY <1>0, <1>1, <2>1, <2>3, <2>5 DEF Create, StoreTypeOK
<1>2. ASSUME NEW w \in Writer, NEW t \in TaskId, NEW p \in Patch, UpdateRow(w, t, p)
      PROVE  StoreTypeOK'
  <2> DEFINE r == Patched(tasks[t], p)
             s == [pc |-> "updated", task |-> t, row |-> r, told |-> RowPayload(r, clock),
                   version |-> 0, at |-> 0]
  <2>0. r \in Row /\ RowPayload(r, clock) \in Payload
    <3>1. tasks[t] \in Row /\ clock \in Nat
      BY <1>0, <1>2 DEF UpdateRow, StoreTypeOK
    <3> QED BY <3>1, PatchedIsRow, RowTells
  <2>1. s \in Busy /\ s.row = r /\ s.told = RowPayload(r, clock)
    BY <2>0 DEF Busy
  <2>2. slot' = [slot EXCEPT ![w] = s]
    BY <1>2 DEF UpdateRow
  <2> HIDE DEF s, r
  <2> QED BY <1>0, <1>2, <2>0, <2>1, <2>2, SlotsStaySlots DEF UpdateRow, StoreTypeOK, Events
<1>3. ASSUME NEW w \in Writer, InsertEvent(w)
      PROVE  StoreTypeOK'
  <2> DEFINE t == slot[w].task
  <2> DEFINE s == [pc |-> "inserted", task |-> t, row |-> slot[w].row,
                   told |-> slot[w].told, version |-> NextVersion(t), at |-> clock]
  <2>1. /\ slot[w] # Idle /\ slot[w] \in Busy /\ t \in TaskId
        /\ slot[w].row \in Row /\ slot[w].told \in Payload
    BY <1>0, <1>3, IdleIs, BusyFields DEF InsertEvent, StoreTypeOK
  <2>2. clock \in 0 .. MaxTime /\ clock' \in 0 .. MaxTime
    BY <1>0, <1>3 DEF InsertEvent, Tick, StoreTypeOK
  <2>3. NextVersion(t) \in 0 .. MaxTime
    <3>1. PICK n \in 0 .. MaxTime : UpdateVersions(t) = 0 .. n - 1
      BY <2>1 DEF StoreIInv, NumberedFromZero
    <3> HIDE DEF t
    <3>2. n \in Nat
      BY BoundAssumption
    <3>3. NextVersion(t) = n
      BY <3>1, <3>2, NextVersionIs
    <3> QED BY <3>3
  <2>4. s \in Busy /\ s.row = slot[w].row /\ s.told = slot[w].told
    BY <2>1, <2>2, <2>3 DEF Busy
  <2>5. slot' = [slot EXCEPT ![w] = s]
    BY <1>3 DEF InsertEvent
  <2> HIDE DEF s, t
  <2> QED BY <1>0, <1>3, <2>1, <2>2, <2>4, <2>5, SlotsStaySlots
      DEF InsertEvent, StoreTypeOK, Events
<1>4. ASSUME NEW w \in Writer, Commit(w)
      PROVE  StoreTypeOK'
  <2>1. slot[w] # Idle /\ slot[w].row \in Row /\ slot[w].told \in Payload
    BY <1>0, <1>4, IdleIs DEF Commit, StoreTypeOK
  <2>2. UpdateEvent(slot[w]) \in Event
    BY <1>0, <2>1, BusyFields DEF UpdateEvent, Event, EventType
  <2>3. Events' \subseteq Event /\ outbox' \in [Events' -> Delivery]
    BY <1>0, <1>4, <2>2, RowsStayRows DEF Commit
  <2>4. tasks' \in [TaskId -> Row \cup {None}]
    BY <1>0, <1>4, <2>1, BusyFields DEF Commit, StoreTypeOK
  <2> QED BY <1>0, <1>4, <2>3, <2>4, SlotsStaySlots, IdleIs DEF Commit, StoreTypeOK
<1>5. ASSUME NEW w \in Writer, NEW t \in TaskId, DeleteStamp(w, t)
      PROVE  StoreTypeOK'
  <2> DEFINE s == [pc |-> "stamped", task |-> t, row |-> None, told |-> None,
                   version |-> 0, at |-> clock]
  <2>1. clock \in 0 .. MaxTime /\ clock' \in 0 .. MaxTime
    BY <1>0, <1>5 DEF DeleteStamp, Tick, StoreTypeOK
  <2>2. s \in Busy /\ s.pc = "stamped"
    BY <2>1 DEF Busy
  <2>3. slot' = [slot EXCEPT ![w] = s]
    BY <1>5 DEF DeleteStamp
  <2> HIDE DEF s
  <2> QED BY <1>0, <1>5, <2>1, <2>2, <2>3, SlotsStaySlots DEF DeleteStamp, StoreTypeOK, Events
<1>6. ASSUME NEW w \in Writer, DeleteExec(w)
      PROVE  StoreTypeOK'
  <2>1. slot[w] # Idle
    BY <1>6, IdleIs DEF DeleteExec
  <2>2. DeletedEvent(slot[w]) \in Event
    <3>1. tasks[slot[w].task] \in Row
      BY <1>0, <1>6, <2>1, BusyFields DEF DeleteExec, StoreTypeOK
    <3>2. DeletedPayload(tasks[slot[w].task]) \in Payload
      BY <3>1, DeletedTells
    <3> QED BY <1>0, <2>1, <3>2, BusyFields DEF DeletedEvent, Event, EventType
  <2>3. Events' \subseteq Event /\ outbox' \in [Events' -> Delivery]
    BY <1>0, <1>6, <2>2, RowsStayRows DEF DeleteExec
  <2>4. tasks' \in [TaskId -> Row \cup {None}]
    BY <1>0, <1>6 DEF DeleteExec, StoreTypeOK
  <2> QED BY <1>0, <1>6, <2>3, <2>4, SlotsStaySlots, IdleIs DEF DeleteExec, StoreTypeOK
<1>7. ASSUME NEW w \in Writer, Rollback(w)
      PROVE  StoreTypeOK'
  BY <1>0, <1>7, SlotsStaySlots, IdleIs DEF Rollback, StoreTypeOK, Events
<1> QED BY <1>1, <1>2, <1>3, <1>4, <1>5, <1>6, <1>7 DEF StoreNext

-----------------------------------------------------------------------------
(* What a step does to the events of one task *)

\* Steps that do not touch the outbox.
LEMMA SameEvents ==
  ASSUME UNCHANGED outbox, NEW t
  PROVE  /\ Events' = Events /\ EventsOf(t)' = EventsOf(t) /\ Told(t)' = Told(t)
         /\ UpdateVersions(t)' = UpdateVersions(t)
BY DEF Events, EventsOf, Told, UpdateVersions

\* A step that inserts one event adds it to its task and to no other.
LEMMA OneEventMore ==
  ASSUME NEW n, Insert({n}), NEW t
  PROVE  EventsOf(t)' = IF n.task = t THEN EventsOf(t) \cup {n} ELSE EventsOf(t)
<1>1. Events' = Events \cup {n}
  BY InsertAdds
<1> QED BY <1>1 DEF EventsOf

\* A creation gives each of its tasks one event, and the others none.
LEMMA CreatedEvents ==
  ASSUME NEW ts \in SUBSET TaskId, NEW requests \in [ts -> Request], Create(requests), NEW t
  PROVE  EventsOf(t)' = IF t \in ts
                        THEN {CreatedEvent(t, requests[t])}
                        ELSE EventsOf(t)
<1> DEFINE ev(x) == CreatedEvent(x, requests[x])
<1>1. DOMAIN requests = ts
  OBVIOUS
<1>2. Events' = Events \cup {ev(x) : x \in ts}
  BY <1>1, InsertAdds DEF Create
<1>3. \A x : ev(x).task = x
  BY DEF CreatedEvent
<1>4. t \in ts => EventsOf(t) = {}
  BY <1>1 DEF Create
<1> HIDE DEF ev
<1>5. EventsOf(t)' = EventsOf(t) \cup {ev(x) : x \in ts \cap {t}}
  BY <1>2, <1>3 DEF EventsOf
<1>6. EventsOf(t)' = IF t \in ts THEN {ev(t)} ELSE EventsOf(t)
  BY <1>4, <1>5
<1> QED BY <1>6 DEF ev

\* A task that a transaction has written has events, none of them a deletion.
LEMMA LiveTask ==
  ASSUME StoreIInv, NEW t \in TaskId, tasks[t] # None
  PROVE  EventsOf(t) # {} /\ \A e \in EventsOf(t) : e.type # "deleted"
BY DEF StoreIInv, OutboxTellsTheTask, Gone

-----------------------------------------------------------------------------
(* The conjuncts of StoreIInv *)

\* The row lock: a transaction has the row, alone.
LEMMA TransactionsStep ==
  ASSUME StoreIInv, StoreNext
  PROVE  TransactionsHoldTheRow'
<1>0. StoreTypeOK /\ TransactionsHoldTheRow
  BY DEF StoreIInv
<1> USE DEF TransactionsHoldTheRow, InTransaction
<1>1. ASSUME NEW ts \in SUBSET TaskId, NEW requests \in [ts -> Request], Create(requests)
      PROVE  TransactionsHoldTheRow'
  <2>1. \A t \in TaskId : tasks[t] # None => tasks'[t] # None
    BY <1>1, NoneAssumption, RequestTells DEF Create
  <2>2. \A w \in Writer : slot[w].pc \in {"updated", "inserted"} => slot[w].task \in TaskId
    BY <1>0, BusyFields, IdleIs
  <2> QED BY <1>0, <1>1, <2>1, <2>2 DEF Create
<1>2. ASSUME NEW w \in Writer, NEW t \in TaskId, NEW p \in Patch, UpdateRow(w, t, p)
      PROVE  TransactionsHoldTheRow'
  <2>1. /\ slot'[w].pc = "updated" /\ slot'[w].task = t
        /\ \A x \in Writer \ {w} : slot'[x] = slot[x]
    BY <1>0, <1>2 DEF UpdateRow, StoreTypeOK
  <2> QED BY <1>0, <1>2, <2>1 DEF UpdateRow, RowUnlocked
<1>3. ASSUME NEW w \in Writer, InsertEvent(w)
      PROVE  TransactionsHoldTheRow'
  <2>1. /\ slot'[w].pc = "inserted" /\ slot'[w].task = slot[w].task
        /\ \A x \in Writer \ {w} : slot'[x] = slot[x]
    BY <1>0, <1>3 DEF InsertEvent, StoreTypeOK
  <2> QED BY <1>0, <1>3, <2>1 DEF InsertEvent
<1>4. ASSUME NEW w \in Writer, Commit(w)
      PROVE  TransactionsHoldTheRow'
  <2>1. slot'[w].pc = "idle" /\ \A x \in Writer \ {w} : slot'[x] = slot[x]
    BY <1>0, <1>4, IdleIs DEF Commit, StoreTypeOK
  <2>2. \A x \in Writer \ {w} : slot[x].pc \in {"updated", "inserted"} =>
          tasks'[slot[x].task] = tasks[slot[x].task]
    BY <1>0, <1>4, BusyFields, IdleIs DEF Commit, StoreTypeOK
  <2> QED BY <1>0, <1>4, <2>1, <2>2
<1>5. ASSUME NEW w \in Writer, NEW t \in TaskId, DeleteStamp(w, t)
      PROVE  TransactionsHoldTheRow'
  <2>1. slot'[w].pc = "stamped" /\ \A x \in Writer \ {w} : slot'[x] = slot[x]
    BY <1>0, <1>5 DEF DeleteStamp, StoreTypeOK
  <2> QED BY <1>0, <1>5, <2>1 DEF DeleteStamp
<1>6. ASSUME NEW w \in Writer, DeleteExec(w)
      PROVE  TransactionsHoldTheRow'
  <2>1. slot'[w].pc = "idle" /\ \A x \in Writer \ {w} : slot'[x] = slot[x]
    BY <1>0, <1>6, IdleIs DEF DeleteExec, StoreTypeOK
  <2>2. \A x \in Writer : slot[x].pc \in {"updated", "inserted"} =>
          tasks'[slot[x].task] = tasks[slot[x].task]
    BY <1>0, <1>6 DEF DeleteExec, RowUnlocked, StoreTypeOK
  <2> QED BY <1>0, <1>6, <2>1, <2>2
<1>7. ASSUME NEW w \in Writer, Rollback(w)
      PROVE  TransactionsHoldTheRow'
  <2>1. slot'[w].pc = "idle" /\ \A x \in Writer \ {w} : slot'[x] = slot[x]
    BY <1>0, <1>7, IdleIs DEF Rollback, StoreTypeOK
  <2> QED BY <1>0, <1>7, <2>1 DEF Rollback
<1> QED BY <1>1, <1>2, <1>3, <1>4, <1>5, <1>6, <1>7 DEF StoreNext

\* The next version never runs ahead of the clock.
LEMMA NextVersionIsPast ==
  ASSUME StoreIInv, NEW t \in TaskId
  PROVE  /\ NextVersion(t) \in 0 .. clock
         /\ UpdateVersions(t) = 0 .. NextVersion(t) - 1
<1>0. clock \in 0 .. MaxTime
  BY DEF StoreIInv, StoreTypeOK
<1>1. PICK n \in 0 .. MaxTime : UpdateVersions(t) = 0 .. n - 1
  BY DEF StoreIInv, NumberedFromZero
<1>2. NextVersion(t) = n
  BY <1>1, NextVersionIs
<1>3. CASE n = 0
  BY <1>0, <1>1, <1>2, <1>3, BoundAssumption
<1>4. CASE n # 0
  <2>1. n - 1 \in UpdateVersions(t)
    BY <1>1, <1>4
  <2>2. PICK e \in Events : e.version = n - 1
    BY <2>1 DEF UpdateVersions, EventsOf
  <2>3. e \in Event
    BY DEF StoreIInv, StoreTypeOK
  <2>4. e.version <= e.at /\ e.at < clock /\ e.at \in Nat
    BY <2>3, EventFields DEF StoreIInv, StampsArePast
  <2> QED BY <1>0, <1>1, <1>2, <2>2, <2>4
<1> QED BY <1>3, <1>4

\* Stamps that were past stay past when the clock is read.
LEMMA StampsStayPast ==
  ASSUME StoreIInv, clock' = clock \/ clock' = clock + 1
  PROVE  /\ \A e \in Events : e.at < clock' /\ e.version <= e.at
         /\ \A w \in Writer : slot[w].pc \in {"inserted", "stamped"} =>
              slot[w].at < clock' /\ slot[w].version <= slot[w].at
<1>0. StoreTypeOK /\ StampsArePast /\ clock \in Nat
  BY DEF StoreIInv, StoreTypeOK
<1>1. \A e \in Events : e.at \in Nat
  BY <1>0, EventFields DEF StoreTypeOK
<1>2. \A w \in Writer : slot[w].pc \in {"inserted", "stamped"} => slot[w].at \in Nat
  BY <1>0, BusyFields, IdleIs
<1> QED BY <1>0, <1>1, <1>2 DEF StampsArePast

\* No stamp ahead of the clock, no version ahead of its stamp.
LEMMA StampsStep ==
  ASSUME StoreIInv, StoreNext
  PROVE  StampsArePast'
<1>0. StoreTypeOK /\ clock \in Nat
  BY DEF StoreIInv, StoreTypeOK
<1>1. ASSUME NEW ts \in SUBSET TaskId, NEW requests \in [ts -> Request], Create(requests)
      PROVE  StampsArePast'
  <2>1. clock' = clock + 1 /\ slot' = slot
    BY <1>1 DEF Create, Tick
  <2>2. Events' = Events \cup {CreatedEvent(t, requests[t]) : t \in DOMAIN requests}
    BY <1>1, InsertAdds DEF Create
  <2>3. \A e \in Events' : e.at < clock' /\ e.version <= e.at
    BY <1>0, <2>1, <2>2, StampsStayPast DEF CreatedEvent
  <2> QED BY <2>1, <2>3, StampsStayPast DEF StampsArePast
<1>2. ASSUME NEW w \in Writer, NEW t \in TaskId, NEW p \in Patch, UpdateRow(w, t, p)
      PROVE  StampsArePast'
  <2>1. slot'[w].pc = "updated" /\ \A x \in Writer \ {w} : slot'[x] = slot[x]
    BY <1>0, <1>2 DEF UpdateRow, StoreTypeOK
  <2> QED BY <1>2, <2>1, SameEvents, StampsStayPast DEF UpdateRow, StampsArePast
<1>3. ASSUME NEW w \in Writer, InsertEvent(w)
      PROVE  StampsArePast'
  <2>1. /\ slot'[w].at = clock /\ slot'[w].version = NextVersion(slot[w].task)
        /\ \A x \in Writer \ {w} : slot'[x] = slot[x]
    BY <1>0, <1>3 DEF InsertEvent, StoreTypeOK
  <2>2. NextVersion(slot[w].task) \in 0 .. clock
    BY <1>0, <1>3, BusyFields, IdleIs, NextVersionIsPast DEF InsertEvent
  <2>3. clock' = clock + 1 /\ Events' = Events
    BY <1>3 DEF InsertEvent, Tick, Events
  <2> QED BY <1>0, <2>1, <2>2, <2>3, StampsStayPast DEF StampsArePast
<1>4. ASSUME NEW w \in Writer, Commit(w)
      PROVE  StampsArePast'
  <2>1. slot'[w].pc = "idle" /\ \A x \in Writer \ {w} : slot'[x] = slot[x]
    BY <1>0, <1>4, IdleIs DEF Commit, StoreTypeOK
  <2>2. Events' = Events \cup {UpdateEvent(slot[w])} /\ clock' = clock
    BY <1>4, InsertAdds DEF Commit
  <2>3. UpdateEvent(slot[w]).at = slot[w].at /\ UpdateEvent(slot[w]).version = slot[w].version
    BY DEF UpdateEvent
  <2> QED BY <1>4, <2>1, <2>2, <2>3, StampsStayPast DEF Commit, StampsArePast
<1>5. ASSUME NEW w \in Writer, NEW t \in TaskId, DeleteStamp(w, t)
      PROVE  StampsArePast'
  <2>1. slot'[w].at = clock /\ slot'[w].version = 0 /\ \A x \in Writer \ {w} : slot'[x] = slot[x]
    BY <1>0, <1>5 DEF DeleteStamp, StoreTypeOK
  <2>2. clock' = clock + 1 /\ Events' = Events
    BY <1>5 DEF DeleteStamp, Tick, Events
  <2> QED BY <1>0, <2>1, <2>2, StampsStayPast DEF StampsArePast
<1>6. ASSUME NEW w \in Writer, DeleteExec(w)
      PROVE  StampsArePast'
  <2>1. slot'[w].pc = "idle" /\ \A x \in Writer \ {w} : slot'[x] = slot[x]
    BY <1>0, <1>6, IdleIs DEF DeleteExec, StoreTypeOK
  <2>2. Events' = Events \cup {DeletedEvent(slot[w])} /\ clock' = clock
    BY <1>6, InsertAdds DEF DeleteExec
  <2>3. DeletedEvent(slot[w]).at = slot[w].at /\ DeletedEvent(slot[w]).version = 0
    BY DEF DeletedEvent
  <2>4. slot[w].at \in Nat
    BY <1>0, <1>6, BusyFields, IdleIs DEF DeleteExec
  <2> QED BY <1>6, <2>1, <2>2, <2>3, <2>4, StampsStayPast DEF DeleteExec, StampsArePast
<1>7. ASSUME NEW w \in Writer, Rollback(w)
      PROVE  StampsArePast'
  <2>1. slot'[w].pc = "idle" /\ \A x \in Writer \ {w} : slot'[x] = slot[x]
    BY <1>0, <1>7, IdleIs DEF Rollback, StoreTypeOK
  <2> QED BY <1>7, <2>1, SameEvents, StampsStayPast DEF Rollback, StampsArePast
<1> QED BY <1>1, <1>2, <1>3, <1>4, <1>5, <1>6, <1>7 DEF StoreNext

\* A commit adds its event, and its version, to its task and to no other.
LEMMA AfterCommit ==
  ASSUME NEW w \in Writer, Commit(w), NEW t
  PROVE  /\ EventsOf(t)' = IF slot[w].task = t THEN EventsOf(t) \cup {UpdateEvent(slot[w])}
                           ELSE EventsOf(t)
         /\ Told(t)' = IF slot[w].task = t THEN Told(t) \cup {UpdateEvent(slot[w])}
                       ELSE Told(t)
         /\ UpdateVersions(t)' = IF slot[w].task = t THEN UpdateVersions(t) \cup {slot[w].version}
                                 ELSE UpdateVersions(t)
<1> DEFINE n == UpdateEvent(slot[w])
<1>1. n.task = slot[w].task /\ n.type = "update" /\ n.version = slot[w].version
  BY DEF UpdateEvent
<1> HIDE DEF n
<1>2. EventsOf(t)' = IF slot[w].task = t THEN EventsOf(t) \cup {n} ELSE EventsOf(t)
  BY <1>1, OneEventMore DEF Commit, n
<1>3. Told(t)' = IF slot[w].task = t THEN Told(t) \cup {n} ELSE Told(t)
  BY <1>1, <1>2 DEF Told
<1>4. UpdateVersions(t)' = IF slot[w].task = t THEN UpdateVersions(t) \cup {slot[w].version}
                           ELSE UpdateVersions(t)
  BY <1>1, <1>2 DEF UpdateVersions
<1> QED BY <1>2, <1>3, <1>4 DEF n

\* A deletion adds its event to its task, and nothing to what it was told.
LEMMA AfterDelete ==
  ASSUME NEW w \in Writer, DeleteExec(w), NEW t
  PROVE  /\ EventsOf(t)' = IF slot[w].task = t THEN EventsOf(t) \cup {DeletedEvent(slot[w])}
                           ELSE EventsOf(t)
         /\ Told(t)' = Told(t)
         /\ UpdateVersions(t)' = UpdateVersions(t)
<1> DEFINE n == DeletedEvent(slot[w])
<1>1. n.task = slot[w].task /\ n.type = "deleted"
  BY DEF DeletedEvent
<1> HIDE DEF n
<1>2. EventsOf(t)' = IF slot[w].task = t THEN EventsOf(t) \cup {n} ELSE EventsOf(t)
  BY <1>1, OneEventMore DEF DeleteExec, n
<1>3. Told(t)' = Told(t)
  BY <1>1, <1>2 DEF Told
<1>4. UpdateVersions(t)' = UpdateVersions(t)
  BY <1>1, <1>2 DEF UpdateVersions
<1> QED BY <1>2, <1>3, <1>4 DEF n

\* A creation is told of its tasks, and is nobody's update.
LEMMA AfterCreate ==
  ASSUME NEW ts \in SUBSET TaskId, NEW requests \in [ts -> Request], Create(requests), NEW t
  PROVE  /\ t \notin ts => EventsOf(t)' = EventsOf(t) /\ Told(t)' = Told(t)
         /\ t \in ts => Told(t)' = EventsOf(t)'
         /\ UpdateVersions(t)' = UpdateVersions(t)
<1> DEFINE n == CreatedEvent(t, requests[t])
<1>1. n.type = "created"
  BY DEF CreatedEvent
<1>2. EventsOf(t)' = IF t \in ts THEN {n} ELSE EventsOf(t)
  BY CreatedEvents
<1>3. t \in ts => EventsOf(t) = {}
  BY DEF Create
<1> HIDE DEF n
<1>4. UpdateVersions(t)' = UpdateVersions(t)
  BY <1>1, <1>2, <1>3 DEF UpdateVersions
<1> QED BY <1>1, <1>2, <1>4 DEF Told

\* The updates of a task stay numbered from 0 on: a commit adds the next one.
LEMMA NumberedStep ==
  ASSUME StoreIInv, StoreNext
  PROVE  NumberedFromZero'
<1>0. StoreTypeOK /\ NumberedFromZero /\ StampsArePast /\ InsertedIsNext
  BY DEF StoreIInv
<1>1. ASSUME NEW ts \in SUBSET TaskId, NEW requests \in [ts -> Request], Create(requests)
      PROVE  NumberedFromZero'
  BY <1>0, <1>1, AfterCreate DEF NumberedFromZero
<1>2. ASSUME NEW w \in Writer, Commit(w)
      PROVE  NumberedFromZero'
  <2> DEFINE v == slot[w].version
  <2>1. slot[w].pc = "inserted" /\ slot[w].at < clock /\ v <= slot[w].at
    BY <1>0, <1>2 DEF Commit, StampsArePast
  <2>2. v \in Nat /\ slot[w].at \in Nat /\ slot[w].task \in TaskId /\ clock \in 0 .. MaxTime
    BY <1>0, <2>1, BusyFields, IdleIs DEF StoreTypeOK
  <2>3. v + 1 \in 0 .. MaxTime
    BY <2>1, <2>2, BoundAssumption
  <2>4. UpdateVersions(slot[w].task) = 0 .. v - 1
    BY <1>0, <2>1 DEF InsertedIsNext
  <2>5. (0 .. v - 1) \cup {v} = 0 .. (v + 1) - 1
    BY <2>2
  <2> HIDE DEF v
  <2>6. ASSUME NEW t \in TaskId
        PROVE  \E n \in 0 .. MaxTime : UpdateVersions(t)' = 0 .. n - 1
    <3>1. CASE slot[w].task = t
      <4>1. UpdateVersions(t)' = 0 .. (v + 1) - 1
        BY <1>2, <2>4, <2>5, <3>1, AfterCommit DEF v
      <4> QED BY <2>3, <4>1
    <3>2. CASE slot[w].task # t
      BY <1>0, <1>2, <3>2, AfterCommit DEF NumberedFromZero
    <3> QED BY <3>1, <3>2
  <2> QED BY <2>6 DEF NumberedFromZero
<1>3. ASSUME NEW w \in Writer, DeleteExec(w)
      PROVE  NumberedFromZero'
  BY <1>0, <1>3, AfterDelete DEF NumberedFromZero
<1>4. ASSUME UNCHANGED outbox
      PROVE  NumberedFromZero'
  BY <1>0, <1>4, SameEvents DEF NumberedFromZero
<1> QED BY <1>1, <1>2, <1>3, <1>4
    DEF StoreNext, UpdateRow, InsertEvent, DeleteStamp, Rollback

\* InsertedIsNext after a step, with the slot's task read before the prime.
LEMMA InsertedIsNextAfter ==
  ASSUME \A x \in Writer : slot'[x].pc = "inserted" =>
           \E t \in TaskId :
             /\ slot'[x].task = t
             /\ UpdateVersions(t)' = 0 .. slot'[x].version - 1
             /\ \A e \in Told(t)' : e.at < slot'[x].at
  PROVE  InsertedIsNext'
BY DEF InsertedIsNext, UpdateVersions, Told, EventsOf, Events

\* A slot a step leaves alone, with what its task was told, stays the next one.
LEMMA InsertedStays ==
  ASSUME StoreIInv, NEW x \in Writer, slot'[x].pc = "inserted", slot'[x] = slot[x],
         \A t \in TaskId : slot[x].task = t =>
           Told(t)' = Told(t) /\ UpdateVersions(t)' = UpdateVersions(t)
  PROVE  \E t \in TaskId :
           /\ slot'[x].task = t
           /\ UpdateVersions(t)' = 0 .. slot'[x].version - 1
           /\ \A e \in Told(t)' : e.at < slot'[x].at
<1>1. slot[x].task \in TaskId
  BY BusyFields, IdleIs DEF StoreIInv
<1> QED BY <1>1 DEF StoreIInv, InsertedIsNext

\* The event a transaction is about to commit stays the next one: nobody else
\* adds to what its task was told, and it takes its stamp last.
LEMMA InsertedStep ==
  ASSUME StoreIInv, StoreNext
  PROVE  InsertedIsNext'
<1>0. StoreTypeOK /\ TransactionsHoldTheRow /\ StampsArePast
  BY DEF StoreIInv
<1>1. ASSUME NEW ts \in SUBSET TaskId, NEW requests \in [ts -> Request], Create(requests)
      PROVE  InsertedIsNext'
  <2>1. slot' = slot
    BY <1>1 DEF Create
  <2>2. ASSUME NEW x \in Writer, slot[x].pc = "inserted"
        PROVE  slot[x].task \in TaskId \ ts
    <3>1. slot[x].task \in TaskId /\ tasks[slot[x].task] # None
      BY <1>0, <2>2, BusyFields, IdleIs DEF TransactionsHoldTheRow
    <3>2. EventsOf(slot[x].task) # {}
      BY <3>1, LiveTask
    <3>3. DOMAIN requests = ts
      OBVIOUS
    <3> QED BY <1>1, <3>1, <3>2, <3>3 DEF Create
  <2> QED BY <1>1, <2>1, <2>2, AfterCreate, InsertedStays, InsertedIsNextAfter
<1>2. ASSUME NEW w \in Writer, NEW t \in TaskId, NEW p \in Patch, UpdateRow(w, t, p)
      PROVE  InsertedIsNext'
  <2>1. slot'[w].pc = "updated" /\ \A x \in Writer \ {w} : slot'[x] = slot[x]
    BY <1>0, <1>2 DEF UpdateRow, StoreTypeOK
  <2> QED BY <1>2, <2>1, SameEvents, InsertedStays, InsertedIsNextAfter DEF UpdateRow
<1>3. ASSUME NEW w \in Writer, InsertEvent(w)
      PROVE  InsertedIsNext'
  <2>1. /\ slot'[w].at = clock /\ slot'[w].version = NextVersion(slot[w].task)
        /\ slot'[w].task = slot[w].task
        /\ \A x \in Writer \ {w} : slot'[x] = slot[x]
    BY <1>0, <1>3 DEF InsertEvent, StoreTypeOK
  <2>2. slot[w].task \in TaskId
    BY <1>0, <1>3, BusyFields, IdleIs DEF InsertEvent
  <2>3. PICK t \in TaskId : t = slot[w].task
    BY <2>2
  <2>4. UpdateVersions(t)' = UpdateVersions(t) /\ Told(t)' = Told(t)
    BY <1>3, SameEvents DEF InsertEvent
  <2>5. UpdateVersions(t) = 0 .. NextVersion(t) - 1
    BY NextVersionIsPast
  <2>6. \A e \in Told(t) : e.at < clock
    BY <1>0 DEF StampsArePast, Told, EventsOf
  <2>7. /\ slot'[w].task = t
        /\ UpdateVersions(t)' = 0 .. slot'[w].version - 1
        /\ \A e \in Told(t)' : e.at < slot'[w].at
    BY <2>1, <2>3, <2>4, <2>5, <2>6
  <2> QED BY <1>3, <2>1, <2>7, SameEvents, InsertedStays, InsertedIsNextAfter DEF InsertEvent
<1>4. ASSUME NEW w \in Writer, Commit(w)
      PROVE  InsertedIsNext'
  <2>1. slot'[w].pc = "idle" /\ \A x \in Writer \ {w} : slot'[x] = slot[x]
    BY <1>0, <1>4, IdleIs DEF Commit, StoreTypeOK
  <2>2. ASSUME NEW x \in Writer \ {w}, slot[x].pc = "inserted"
        PROVE  slot[x].task # slot[w].task
    BY <1>0, <1>4, <2>2 DEF Commit, TransactionsHoldTheRow, InTransaction
  <2> QED BY <1>4, <2>1, <2>2, AfterCommit, InsertedStays, InsertedIsNextAfter
<1>5. ASSUME NEW w \in Writer, NEW t \in TaskId, DeleteStamp(w, t)
      PROVE  InsertedIsNext'
  <2>1. slot'[w].pc = "stamped" /\ \A x \in Writer \ {w} : slot'[x] = slot[x]
    BY <1>0, <1>5 DEF DeleteStamp, StoreTypeOK
  <2> QED BY <1>5, <2>1, SameEvents, InsertedStays, InsertedIsNextAfter DEF DeleteStamp
<1>6. ASSUME NEW w \in Writer, DeleteExec(w)
      PROVE  InsertedIsNext'
  <2>1. slot'[w].pc = "idle" /\ \A x \in Writer \ {w} : slot'[x] = slot[x]
    BY <1>0, <1>6, IdleIs DEF DeleteExec, StoreTypeOK
  <2> QED BY <1>6, <2>1, AfterDelete, InsertedStays, InsertedIsNextAfter
<1>7. ASSUME NEW w \in Writer, Rollback(w)
      PROVE  InsertedIsNext'
  <2>1. slot'[w].pc = "idle" /\ \A x \in Writer \ {w} : slot'[x] = slot[x]
    BY <1>0, <1>7, IdleIs DEF Rollback, StoreTypeOK
  <2> QED BY <1>7, <2>1, SameEvents, InsertedStays, InsertedIsNextAfter DEF Rollback
<1> QED BY <1>1, <1>2, <1>3, <1>4, <1>5, <1>6, <1>7 DEF StoreNext

\* The event of a commit is later than all its task was told before.
LEMMA CommittedIsLatest ==
  ASSUME StoreIInv, NEW w \in Writer, Commit(w), NEW f \in Told(slot[w].task)
  PROVE  /\ f.at < slot[w].at
         /\ f.type = "update" => f.version < slot[w].version
<1>1. f.at < slot[w].at /\ UpdateVersions(slot[w].task) = 0 .. slot[w].version - 1
  BY DEF StoreIInv, InsertedIsNext, Commit
<1>2. slot[w].version \in Nat
  BY BusyFields, IdleIs DEF Commit, StoreIInv
<1>3. f.type = "update" => f.version \in UpdateVersions(slot[w].task)
  BY DEF UpdateVersions, Told
<1> QED BY <1>1, <1>2, <1>3

\* One creation, one deletion, and updates whose order and numbers agree.
LEMMA StoryStep ==
  ASSUME StoreIInv, StoreNext
  PROVE  OneStoryPerTask'
<1> DEFINE Fits(e, f) ==
      /\ e.type # "update" => e.version = 0
      /\ e.type = f.type /\ e.type # "update" => e = f
      /\ e.type = "created" /\ f.type = "update" => e.at < f.at
      /\ e.type = "update" /\ f.type = "update" =>
           /\ e.version < f.version <=> e.at < f.at
           /\ e.version = f.version => e = f
<1>0. StoreTypeOK /\ OneStoryPerTask
  BY DEF StoreIInv
<1>a. \A t : \A e, f \in EventsOf(t) : Fits(e, f)
  BY <1>0 DEF OneStoryPerTask, EventsOf
<1>b. SUFFICES ASSUME NEW t \in TaskId, NEW e \in EventsOf(t)', NEW f \in EventsOf(t)'
               PROVE  Fits(e, f)
  <2>1. Events' \subseteq Event
    BY TypeStep DEF StoreTypeOK
  <2> QED BY <1>b, <2>1, EventFields DEF OneStoryPerTask, EventsOf
<1>1. ASSUME NEW ts \in SUBSET TaskId, NEW requests \in [ts -> Request], Create(requests)
      PROVE  Fits(e, f)
  <2>1. CASE t \in ts
    <3>1. e = f /\ e.type = "created" /\ e.version = 0
      BY <1>1, <2>1, CreatedEvents DEF CreatedEvent
    <3> QED BY <3>1
  <2>2. CASE t \notin ts
    <3>1. e \in EventsOf(t) /\ f \in EventsOf(t)
      BY <1>1, <2>2, AfterCreate
    <3> QED BY <1>a, <3>1
  <2> QED BY <2>1, <2>2
<1>2. ASSUME NEW w \in Writer, Commit(w)
      PROVE  Fits(e, f)
  <2> DEFINE n == UpdateEvent(slot[w])
  <2>1. n.type = "update" /\ n.version = slot[w].version /\ n.at = slot[w].at
    BY DEF UpdateEvent
  <2>2. slot[w].version \in Nat /\ slot[w].at \in Nat
    BY <1>0, <1>2, BusyFields, IdleIs DEF Commit
  <2> HIDE DEF n
  <2>3. CASE slot[w].task # t
    BY <1>2, <1>a, <2>3, AfterCommit
  <2>4. CASE slot[w].task = t
    <3>1. e \in EventsOf(t) \cup {n} /\ f \in EventsOf(t) \cup {n}
      BY <1>2, <2>4, AfterCommit DEF n
    <3>2. \A g \in EventsOf(t) :
            /\ g.at \in Nat /\ g.version \in Nat
            /\ g.type # "update" => g.version = 0
            /\ g.type # "deleted" => g.at < n.at
            /\ g.type = "update" => g.version < n.version
      BY <1>0, <1>2, <1>a, <2>1, <2>4, CommittedIsLatest, EventFields
         DEF Told, EventsOf, StoreTypeOK
    <3>3. CASE e \in EventsOf(t) /\ f \in EventsOf(t)
      BY <1>a, <3>3
    <3>4. CASE e \in EventsOf(t) /\ f = n
      BY <2>1, <2>2, <3>2, <3>4
    <3>5. CASE e = n /\ f \in EventsOf(t)
      BY <2>1, <2>2, <3>2, <3>5
    <3>6. CASE e = n /\ f = n
      BY <2>1, <2>2, <3>6
    <3> QED BY <3>1, <3>3, <3>4, <3>5, <3>6
  <2> QED BY <2>3, <2>4
<1>3. ASSUME NEW w \in Writer, DeleteExec(w)
      PROVE  Fits(e, f)
  <2> DEFINE n == DeletedEvent(slot[w])
  <2>1. n.type = "deleted" /\ n.version = 0
    BY DEF DeletedEvent
  <2> HIDE DEF n
  <2>2. CASE slot[w].task # t
    BY <1>3, <1>a, <2>2, AfterDelete
  <2>3. CASE slot[w].task = t
    <3>1. e \in EventsOf(t) \cup {n} /\ f \in EventsOf(t) \cup {n}
      BY <1>3, <2>3, AfterDelete DEF n
    <3>2. \A g \in EventsOf(t) : g.type # "deleted"
      BY <1>3, <2>3, LiveTask DEF DeleteExec
    <3> QED BY <1>a, <2>1, <3>1, <3>2
  <2> QED BY <2>2, <2>3
<1>4. ASSUME UNCHANGED outbox
      PROVE  Fits(e, f)
  BY <1>4, <1>a, SameEvents
<1> QED BY <1>1, <1>2, <1>3, <1>4
    DEF StoreNext, UpdateRow, InsertEvent, DeleteStamp, Rollback

\* What a transaction read back tells what it wrote, and goes on doing so: the
\* due date of a task told as not completed stays passed.
LEMMA ReadBackStep ==
  ASSUME StoreIInv, StoreNext
  PROVE  ReadBackTells'
<1> DEFINE Told1(s, c) ==
      s.pc \in {"updated", "inserted"} =>
        SaidAt(s.told, s.row, IF s.pc = "inserted" THEN s.at ELSE c)
<1>0. StoreTypeOK /\ clock \in Nat /\ \A w \in Writer : Told1(slot[w], clock)
  BY DEF StoreIInv, StoreTypeOK, ReadBackTells
<1>a. ~Told1(Idle, clock') => FALSE
  BY IdleIs
<1>b. clock' = clock \/ clock' = clock + 1
  BY DEF StoreNext, Create, UpdateRow, InsertEvent, Commit, DeleteStamp, DeleteExec, Rollback, Tick
<1>c. ASSUME NEW p, NEW row \in Row, SaidAt(p, row, clock)
      PROVE  SaidAt(p, row, clock')
  <2>1. Due[row.text] \in Nat
    BY PayloadAssumption DEF Row
  <2> QED BY <1>0, <1>b, <1>c, <2>1 DEF SaidAt
<1>d. \A w \in Writer : Told1(slot[w], clock')
  BY <1>0, <1>c DEF StoreTypeOK
<1>e. SUFFICES ASSUME NEW x \in Writer PROVE Told1(slot'[x], clock')
  BY DEF ReadBackTells
<1>f. ASSUME NEW w \in Writer, NEW s, slot' = [slot EXCEPT ![w] = s], Told1(s, clock')
      PROVE  Told1(slot'[x], clock')
  <2>1. slot'[x] = IF x = w THEN s ELSE slot[x]
    BY <1>0, <1>f DEF StoreTypeOK
  <2> QED BY <1>d, <1>f, <2>1
<1>1. ASSUME NEW w \in Writer, NEW t \in TaskId, NEW p \in Patch, UpdateRow(w, t, p)
      PROVE  Told1(slot'[x], clock')
  <2> DEFINE r == Patched(tasks[t], p)
             s == [pc |-> "updated", task |-> t, row |-> r, told |-> RowPayload(r, clock),
                   version |-> 0, at |-> 0]
  <2>1. tasks[t] \in Row
    BY <1>0, <1>1 DEF UpdateRow, StoreTypeOK
  <2>2. SaidAt(RowPayload(r, clock), r, clock)
    BY <1>0, <2>1, PatchedIsRow, RowTells
  <2>3. s.pc = "updated" /\ s.row = r /\ s.told = RowPayload(r, clock)
    OBVIOUS
  <2>4. slot' = [slot EXCEPT ![w] = s] /\ clock' = clock
    BY <1>1 DEF UpdateRow
  <2> HIDE DEF s, r
  <2>5. Told1(s, clock')
    BY <2>2, <2>3, <2>4
  <2> HIDE DEF Told1
  <2> QED BY <1>f, <2>4, <2>5
<1>2. ASSUME NEW w \in Writer, InsertEvent(w)
      PROVE  Told1(slot'[x], clock')
  <2> DEFINE s == [pc |-> "inserted", task |-> slot[w].task, row |-> slot[w].row,
                   told |-> slot[w].told, version |-> NextVersion(slot[w].task), at |-> clock]
  <2>1. SaidAt(slot[w].told, slot[w].row, clock)
    BY <1>0, <1>2 DEF InsertEvent
  <2>2. s.pc = "inserted" /\ s.row = slot[w].row /\ s.told = slot[w].told /\ s.at = clock
    OBVIOUS
  <2>3. slot' = [slot EXCEPT ![w] = s]
    BY <1>2 DEF InsertEvent
  <2> HIDE DEF s
  <2>4. Told1(s, clock')
    BY <2>1, <2>2
  <2> HIDE DEF Told1
  <2> QED BY <1>f, <2>3, <2>4
<1>3. ASSUME NEW w \in Writer, NEW t \in TaskId, DeleteStamp(w, t)
      PROVE  Told1(slot'[x], clock')
  <2> DEFINE s == [pc |-> "stamped", task |-> t, row |-> None, told |-> None,
                   version |-> 0, at |-> clock]
  <2>1. slot' = [slot EXCEPT ![w] = s]
    BY <1>3 DEF DeleteStamp
  <2>2. Told1(s, clock')
    OBVIOUS
  <2> HIDE DEF s, Told1
  <2> QED BY <1>f, <2>1, <2>2
<1>4. ASSUME NEW w \in Writer, slot' = [slot EXCEPT ![w] = Idle]
      PROVE  Told1(slot'[x], clock')
  <2> HIDE DEF Told1
  <2> QED BY <1>4, <1>a, <1>f
<1>5. CASE UNCHANGED slot
  BY <1>5, <1>d
<1> HIDE DEF Told1
<1> QED BY <1>1, <1>2, <1>3, <1>4, <1>5
    DEF StoreNext, Create, Commit, DeleteExec, Rollback

\* The outbox tells the task also after a step.
LEMMA TellsStep ==
  ASSUME StoreIInv, StoreNext
  PROVE  OutboxTellsTheTask'
<1> DEFINE Holds(t) ==
             /\ tasks[t] # None <=> EventsOf(t) # {} /\ Gone(t) = {}
             /\ EventsOf(t) # {} => \E e \in EventsOf(t) : e.type = "created"
             /\ \A e \in Told(t) :
                  (\A f \in Told(t) : f.at <= e.at) =>
                    \E row \in LastRow(t) :
                      LastRow(t) = {row} /\ SaidAt(e.content, row, e.at)
<1>0. StoreTypeOK /\ \A t \in TaskId : Holds(t)
  BY DEF StoreIInv, OutboxTellsTheTask
<1>a. SUFFICES ASSUME NEW t \in TaskId
               PROVE  Holds(t)'
  BY <1>a DEF OutboxTellsTheTask
<1>b. ASSUME tasks'[t] = tasks[t], EventsOf(t)' = EventsOf(t), Told(t)' = Told(t)
      PROVE  Holds(t)'
  <2>1. Gone(t)' = Gone(t) /\ LastRow(t)' = LastRow(t)
    BY <1>b DEF Gone, LastRow
  <2> QED BY <1>0, <1>b, <2>1
<1>1. ASSUME NEW ts \in SUBSET TaskId, NEW requests \in [ts -> Request], Create(requests)
      PROVE  Holds(t)'
  <2>0. DOMAIN requests = ts
    OBVIOUS
  <2>1. CASE t \in ts
    <3> DEFINE n == CreatedEvent(t, requests[t])
               r == RowOf(requests[t])
    <3>1. n.type = "created" /\ SaidAt(n.content, r, n.at)
      BY <2>1, RequestTells DEF CreatedEvent
    <3>2. tasks'[t] = r /\ r # None
      BY <1>1, <2>0, <2>1, NoneAssumption, RequestTells DEF Create
    <3>3. EventsOf(t)' = {n} /\ Told(t)' = {n}
      BY <1>1, <2>1, CreatedEvents, AfterCreate
    <3> HIDE DEF n, r
    <3>4. Gone(t)' = {} /\ LastRow(t)' = {r}
      BY <3>1, <3>2, <3>3 DEF Gone, LastRow
    <3> QED BY <3>1, <3>2, <3>3, <3>4
  <2>2. CASE t \notin ts
    <3>1. tasks'[t] = tasks[t]
      BY <1>1, <2>0, <2>2 DEF Create
    <3> QED BY <1>1, <1>b, <2>2, <3>1, AfterCreate
  <2> QED BY <2>1, <2>2
<1>2. ASSUME NEW w \in Writer, Commit(w)
      PROVE  Holds(t)'
  <2> DEFINE n == UpdateEvent(slot[w])
  <2>1. n.type = "update" /\ n.content = slot[w].told /\ n.at = slot[w].at
    BY DEF UpdateEvent
  <2> HIDE DEF n
  <2>2. CASE slot[w].task # t
    <3>1. tasks'[t] = tasks[t]
      BY <1>0, <1>2, <2>2 DEF Commit, StoreTypeOK
    <3> QED BY <1>2, <1>b, <2>2, <3>1, AfterCommit
  <2>3. CASE slot[w].task = t
    <3> DEFINE r == slot[w].row
    <3>1. tasks'[t] = r /\ r # None /\ tasks[t] # None
      BY <1>0, <1>2, <2>3, NoneAssumption
         DEF Commit, StoreTypeOK, StoreIInv, TransactionsHoldTheRow
    <3>s. SaidAt(n.content, r, n.at)
      BY <1>2, <2>1 DEF Commit, StoreIInv, ReadBackTells
    <3> HIDE DEF r
    <3>2. EventsOf(t)' = EventsOf(t) \cup {n} /\ Told(t)' = Told(t) \cup {n}
      BY <1>2, <2>3, AfterCommit DEF n
    <3>3. Gone(t)' = {} /\ LastRow(t)' = {r} /\ \E e \in EventsOf(t)' : e.type = "created"
      BY <1>0, <2>1, <3>1, <3>2 DEF Gone, LastRow
    <3>4. \A f \in Told(t) : f.at \in Nat /\ n.at \in Nat /\ f.at < n.at
      <4>1. n.at \in Nat
        BY <1>0, <1>2, <2>1, BusyFields, IdleIs DEF Commit
      <4>2. \A f \in Told(t) : f.at < n.at
        BY <1>2, <2>1, <2>3, CommittedIsLatest
      <4>3. \A f \in Told(t) : f.at \in Nat
        BY <1>0, EventFields DEF Told, EventsOf, StoreTypeOK
      <4> QED BY <4>1, <4>2, <4>3
    <3>5. \A e \in Told(t)' : (\A f \in Told(t)' : f.at <= e.at) => e = n
      BY <3>2, <3>4
    <3> QED BY <3>1, <3>s, <3>2, <3>3, <3>5
  <2> QED BY <2>2, <2>3
<1>3. ASSUME NEW w \in Writer, DeleteExec(w)
      PROVE  Holds(t)'
  <2> DEFINE n == DeletedEvent(slot[w])
  <2>1. n.type = "deleted" /\ n.content = DeletedPayload(tasks[slot[w].task])
    BY DEF DeletedEvent
  <2> HIDE DEF n
  <2>2. CASE slot[w].task # t
    <3>1. tasks'[t] = tasks[t]
      BY <1>0, <1>3, <2>2 DEF DeleteExec, StoreTypeOK
    <3> QED BY <1>3, <1>b, <2>2, <3>1, AfterDelete
  <2>3. CASE slot[w].task = t
    <3>1. /\ tasks[t] # None /\ tasks'[t] = None /\ n.content = DeletedPayload(tasks[t])
          /\ tasks[t] \in Row
      BY <1>0, <1>3, <2>1, <2>3 DEF DeleteExec, StoreTypeOK
    <3>2. EventsOf(t)' = EventsOf(t) \cup {n} /\ Told(t)' = Told(t)
      BY <1>3, <2>3, AfterDelete DEF n
    <3>3. Gone(t) = {} /\ Gone(t)' = {n} /\ LastRow(t) = {tasks[t]}
      BY <1>0, <2>1, <3>1, <3>2 DEF Gone, LastRow
    <3>4. LastRow(t)' = LastRow(t)
      <4>1. LastRow(t)' = {[text |-> n.content.text, status |-> n.content.status,
                            tag |-> n.content.tag]}
        BY <3>1, <3>3 DEF LastRow
      <4> QED BY <3>1, <3>3, <4>1, DeletedTells
    <3> QED BY <1>0, <3>1, <3>2, <3>3, <3>4
  <2> QED BY <2>2, <2>3
<1>4. ASSUME UNCHANGED <<tasks, outbox>>
      PROVE  Holds(t)'
  BY <1>4, <1>b, SameEvents
<1> QED BY <1>1, <1>2, <1>3, <1>4
    DEF StoreNext, UpdateRow, InsertEvent, DeleteStamp, Rollback

-----------------------------------------------------------------------------
(* The theorems *)

\* The empty store satisfies the invariant.
LEMMA StoreStarts ==
  ASSUME StoreInit
  PROVE  StoreIInv
<1>1. Events = {} /\ \A t : EventsOf(t) = {} /\ Told(t) = {} /\ UpdateVersions(t) = {}
  BY DEF StoreInit, Events, EventsOf, Told, UpdateVersions
<1>2. StoreTypeOK
  BY <1>1, IdleIs, BoundAssumption DEF StoreInit, StoreTypeOK, Events
<1>3. TransactionsHoldTheRow /\ StampsArePast /\ InsertedIsNext /\ ReadBackTells
  BY <1>1, IdleIs DEF StoreInit, TransactionsHoldTheRow, StampsArePast, InsertedIsNext,
                      ReadBackTells
<1>4. OneStoryPerTask
  BY <1>1 DEF OneStoryPerTask
<1>5. NumberedFromZero
  <2>1. {} = 0 .. 0 - 1 /\ 0 \in 0 .. MaxTime
    BY BoundAssumption
  <2> QED BY <1>1, <2>1 DEF NumberedFromZero
<1>6. OutboxTellsTheTask
  BY <1>1 DEF StoreInit, OutboxTellsTheTask, Gone
<1> QED BY <1>2, <1>3, <1>4, <1>5, <1>6 DEF StoreIInv

\* Steps of others may change the mutable columns of events, or end every
\* transaction, without hurting the invariant.
LEMMA StoreUndisturbed ==
  ASSUME StoreIInv, UNCHANGED <<tasks, clock, Events>>,
         outbox' \in [Events -> Delivery],
         slot' = slot \/ slot' = [w \in Writer |-> Idle]
  PROVE  StoreIInv'
<1>1. \A t : EventsOf(t)' = EventsOf(t) /\ Told(t)' = Told(t)
             /\ UpdateVersions(t)' = UpdateVersions(t)
  BY DEF EventsOf, Told, UpdateVersions
<1>2. \A w \in Writer : slot'[w] = slot[w] \/ slot'[w] = Idle
  OBVIOUS
<1>3. StoreTypeOK'
  BY IdleIs DEF StoreIInv, StoreTypeOK
<1>4. TransactionsHoldTheRow'
  BY <1>2, IdleIs DEF StoreIInv, TransactionsHoldTheRow, InTransaction
<1>5. StampsArePast'
  BY <1>2, IdleIs DEF StoreIInv, StampsArePast
<1>6. OneStoryPerTask'
  BY DEF StoreIInv, OneStoryPerTask
<1>7. NumberedFromZero' /\ OutboxTellsTheTask'
  <2>1. \A t : Gone(t)' = Gone(t) /\ LastRow(t)' = LastRow(t)
    BY <1>1 DEF Gone, LastRow
  <2> QED BY <1>1, <2>1 DEF StoreIInv, NumberedFromZero, OutboxTellsTheTask
<1>r. ReadBackTells'
  BY <1>2, IdleIs DEF StoreIInv, ReadBackTells
<1>8. InsertedIsNext'
  BY <1>1, <1>2, IdleIs, InsertedStays, InsertedIsNextAfter
<1> QED BY <1>3, <1>4, <1>5, <1>6, <1>7, <1>r, <1>8 DEF StoreIInv

\* Every step of the store keeps the invariant.
LEMMA StoreStep ==
  ASSUME StoreIInv, StoreNext
  PROVE  StoreIInv'
BY TypeStep, TransactionsStep, StampsStep, StoryStep, NumberedStep, InsertedStep,
   ReadBackStep, TellsStep
   DEF StoreIInv

\* The invariant is inductive, so every reachable state of the store has it.
THEOREM StoreInductive == StoreSpec => []StoreIInv
<1>1. StoreInit => StoreIInv
  BY StoreStarts
<1>2. StoreIInv /\ [StoreNext]_storeVars => StoreIInv'
  <2>1. CASE StoreIInv /\ UNCHANGED storeVars
    <3>1. outbox \in [Events -> Delivery] /\ UNCHANGED Events
      BY <2>1 DEF StoreIInv, StoreTypeOK, storeVars, Events
    <3> QED BY <2>1, <3>1, StoreUndisturbed DEF storeVars
  <2> QED BY <2>1, StoreStep
<1> QED BY <1>1, <1>2, PTL DEF StoreSpec

\* Rows, events and slots keep their types; versions and stamps their bounds.
THEOREM StoreTypeCorrect == StoreSpec => []StoreTypeOK
<1>1. StoreIInv => StoreTypeOK
  BY DEF StoreIInv
<1> QED BY <1>1, StoreInductive, PTL

\* The unique key of outbox_events never rejects the event of a Create, an
\* Update or a Delete (the row lock serialises MAX(version) + 1).
THEOREM UniqueKeys == StoreSpec => []KeysAreUnique
<1>1. ASSUME StoreIInv
      PROVE  KeysAreUnique
  <2>1. \A e, f \in Events : SameKey(e, f) => e = f
    BY <1>1 DEF StoreIInv, OneStoryPerTask, SameKey
  <2>2. ASSUME NEW w \in Writer, slot[w].pc = "inserted", NEW e \in Events,
               SameKey(e, UpdateEvent(slot[w]))
        PROVE  FALSE
    <3>1. e.task = slot[w].task /\ e.type = "update" /\ e.version = slot[w].version
      BY <2>2 DEF SameKey, UpdateEvent
    <3>2. slot[w].version \in UpdateVersions(slot[w].task)
      BY <3>1 DEF UpdateVersions, EventsOf
    <3>3. UpdateVersions(slot[w].task) = 0 .. slot[w].version - 1
      BY <1>1, <2>2 DEF StoreIInv, InsertedIsNext
    <3>4. slot[w].version \in Nat
      BY <1>1, <2>2, BusyFields, IdleIs DEF StoreIInv
    <3> QED BY <3>2, <3>3, <3>4
  <2> QED BY <2>1, <2>2 DEF KeysAreUnique
<1> QED BY <1>1, StoreInductive, PTL

\* For the updates of one task, versions, time stamps and commits agree on the
\* order, and no version is missing.
THEOREM NumberedUpdates == StoreSpec => []UpdatesAreNumberedInOrder
<1>1. ASSUME StoreIInv, NEW t \in TaskId
      PROVE  /\ \A e, f \in EventsOf(t) :
                  e.type = "update" /\ f.type = "update" =>
                    (e.version < f.version <=> e.at < f.at)
             /\ \A v \in UpdateVersions(t) : 0 .. v \subseteq UpdateVersions(t)
  <2>1. \A e, f \in EventsOf(t) :
          e.type = "update" /\ f.type = "update" => (e.version < f.version <=> e.at < f.at)
    BY <1>1 DEF StoreIInv, OneStoryPerTask, EventsOf
  <2>2. PICK n \in 0 .. MaxTime : UpdateVersions(t) = 0 .. n - 1
    BY <1>1 DEF StoreIInv, NumberedFromZero
  <2> QED BY <2>1, <2>2
<1>2. StoreIInv => UpdatesAreNumberedInOrder
  BY <1>1 DEF UpdatesAreNumberedInOrder
<1> QED BY <1>2, StoreInductive, PTL

\* The table and the outbox never part, whatever was committed, rolled back or
\* deleted in between.
THEOREM OutboxAgrees == StoreSpec => []OutboxTellsTheTask
<1>1. StoreIInv => OutboxTellsTheTask
  BY DEF StoreIInv
<1> QED BY <1>1, StoreInductive, PTL

-----------------------------------------------------------------------------
(* The outbox is a log *)

LEMMA NoStory == Story({}) = <<>>
BY DEF Story

LEMMA FirstOfStory ==
  ASSUME NEW e, Place(e) = 1
  PROVE  Story({e}) = <<e.content>>
<1>1. {Place(f) : f \in {e}} = {1} /\ (CHOOSE f \in {e} : Place(f) = 1) = e
  OBVIOUS
<1> QED BY <1>1 DEF Story

\* Events whose places are 1 .. n, each taken once, tell a sequence.
LEMMA StoryIs ==
  ASSUME NEW S, NEW n \in Nat, {Place(e) : e \in S} = 1 .. n,
         \A e, f \in S : Place(e) = Place(f) => e = f,
         \A e \in S : e.content \in Payload
  PROVE  /\ Story(S) \in Seq(Payload) /\ Len(Story(S)) = n
         /\ DOMAIN Story(S) = 1 .. n
         /\ \A e \in S : Story(S)[Place(e)] = e.content
<1>1. \A i \in 1 .. n : \E e \in S : Place(e) = i
  OBVIOUS
<1>2. \A e \in S : (CHOOSE f \in S : Place(f) = Place(e)) = e
  OBVIOUS
<1>3. Story(S) = [i \in 1 .. n |-> (CHOOSE e \in S : Place(e) = i).content]
  BY DEF Story
<1>4. \A e \in S : Place(e) \in 1 .. n
  OBVIOUS
<1>5. \A e \in S : Story(S)[Place(e)] = e.content
  BY <1>2, <1>3, <1>4
<1>6. \A i \in 1 .. n : Story(S)[i] \in Payload
  BY <1>1, <1>5
<1>7. Story(S) \in [1 .. n -> Payload]
  BY <1>3, <1>6
<1> QED BY <1>3, <1>5, <1>7

\* One event more, at the next place, adds what it says to the end.
LEMMA StoryGrows ==
  ASSUME NEW S, NEW n \in Nat, {Place(e) : e \in S} = 1 .. n,
         \A e, f \in S : Place(e) = Place(f) => e = f,
         \A e \in S : e.content \in Payload,
         NEW x, Place(x) = n + 1, x.content \in Payload
  PROVE  Story(S \cup {x}) = Append(Story(S), x.content)
<1> DEFINE T == S \cup {x}
<1>1. {Place(e) : e \in T} = 1 .. n + 1
  <2>1. {Place(e) : e \in T} = {Place(e) : e \in S} \cup {n + 1}
    OBVIOUS
  <2> QED BY <2>1
<1>2. \A e \in S : Place(e) \in 1 .. n
  OBVIOUS
<1>3. \A e, f \in T : Place(e) = Place(f) => e = f
  BY <1>2
<1>4. \A e \in T : e.content \in Payload
  OBVIOUS
<1>5. n + 1 \in Nat
  OBVIOUS
<1> HIDE DEF T
<1>6. /\ Story(T) \in Seq(Payload) /\ Len(Story(T)) = n + 1
      /\ \A e \in T : Story(T)[Place(e)] = e.content
  BY <1>1, <1>3, <1>4, <1>5, StoryIs
<1>7. /\ Story(S) \in Seq(Payload) /\ Len(Story(S)) = n
      /\ \A e \in S : Story(S)[Place(e)] = e.content
  BY StoryIs
<1>8. Story(T)[n + 1] = x.content
  BY <1>6 DEF T
<1>9. ASSUME NEW i \in 1 .. n PROVE Story(T)[i] = Story(S)[i]
  <2>1. PICK e \in S : Place(e) = i
    OBVIOUS
  <2> QED BY <1>6, <1>7, <2>1 DEF T
<1>10. Story(T) = Append(Story(S), x.content)
  BY <1>6, <1>7, <1>8, <1>9
<1> QED BY <1>10 DEF T

\* The places of what was told of a task that once was created.
LEMMA PlacesFill ==
  ASSUME StoreIInv, NEW t \in TaskId, EventsOf(t) # {},
         NEW n \in Nat, UpdateVersions(t) = 0 .. n - 1
  PROVE  /\ {Place(e) : e \in Told(t)} = 1 .. n + 1
         /\ \A e, f \in Told(t) : Place(e) = Place(f) => e = f
         /\ \A e \in Told(t) : e.content \in Payload
<1>1. \A e \in Told(t) : /\ e \in Event /\ e \in Events /\ e.task = t /\ e.content \in Payload
                         /\ e.version \in Nat
                         /\ e.type = "created" \/ e.type = "update"
  BY EventFields DEF StoreIInv, StoreTypeOK, Told, EventsOf, EventType
<1>2. PICK c \in Told(t) : c.type = "created"
  BY DEF StoreIInv, OutboxTellsTheTask, Told
<1>3. \A e \in Told(t) : e.type = "update" => e.version \in 0 .. n - 1
  BY DEF Told, UpdateVersions
<1>4. ASSUME NEW v \in 0 .. n - 1 PROVE \E e \in Told(t) : e.type = "update" /\ e.version = v
  BY DEF UpdateVersions, Told
<1>5. \A e \in Told(t) : Place(e) \in 1 .. n + 1
  BY <1>1, <1>3 DEF Place
<1>6. ASSUME NEW i \in 1 .. n + 1 PROVE \E e \in Told(t) : Place(e) = i
  <2>1. CASE i = 1
    BY <1>2, <2>1 DEF Place
  <2>2. CASE i # 1
    <3>1. i - 2 \in 0 .. n - 1
      BY <2>2
    <3>2. PICK e \in Told(t) : e.type = "update" /\ e.version = i - 2
      BY <1>4, <3>1
    <3> QED BY <3>2 DEF Place
  <2> QED BY <2>1, <2>2
<1>7. ASSUME NEW e \in Told(t), NEW f \in Told(t), Place(e) = Place(f) PROVE e = f
  <2>1. \/ e.type = "created" /\ f.type = "created"
        \/ e.type = "update" /\ f.type = "update" /\ e.version = f.version
    BY <1>1, <1>7 DEF Place
  <2> QED BY <1>1, <2>1 DEF StoreIInv, OneStoryPerTask
<1> QED BY <1>1, <1>5, <1>6, <1>7

LEMMA LogStarts ==
  ASSUME StoreInit
  PROVE  Log!LogInit
<1>1. \A t : EventsOf(t) = {} /\ Told(t) = {} /\ Gone(t) = {}
  BY DEF StoreInit, Events, EventsOf, Told, Gone
<1> QED BY <1>1, NoStory DEF StoreInit, Log!LogInit

LEMMA CreateOpens ==
  ASSUME StoreIInv, NEW ts \in SUBSET TaskId, NEW requests \in [ts -> Request], Create(requests)
  PROVE  \E rows \in [ts -> Row] : Log!Open(rows)
<1> DEFINE rows == [t \in ts |-> RowOf(requests[t])]
           said == [t \in ts |-> RequestPayload(requests[t])]
<1>0. /\ rows \in [ts -> Row] /\ DOMAIN rows = ts
      /\ said \in [ts -> Payload]
      /\ \A t \in ts : /\ rows[t] = RowOf(requests[t]) /\ said[t] = RequestPayload(requests[t])
                       /\ Tells(said[t], rows[t])
  BY RequestTells DEF SaidAt
<1> HIDE DEF rows, said
<1>1. DOMAIN requests = ts /\ \A t \in ts : EventsOf(t) = {} /\ Told(t) = {}
  BY DEF Create, Told
<1>2. ASSUME NEW t \in TaskId
      PROVE  Story(Told(t)') = IF t \in ts THEN <<said[t]>> ELSE Story(Told(t))
  <2> DEFINE n == CreatedEvent(t, requests[t])
  <2>1. Place(n) = 1 /\ n.content = RequestPayload(requests[t])
    BY DEF Place, CreatedEvent
  <2>2. t \in ts => Told(t)' = {n}
    BY AfterCreate, CreatedEvents
  <2>3. t \notin ts => Told(t)' = Told(t)
    BY AfterCreate
  <2> HIDE DEF n
  <2> QED BY <1>0, <2>1, <2>2, <2>3, FirstOfStory
<1>3. ASSUME NEW t \in TaskId PROVE Gone(t)' = Gone(t)
  <2>1. CASE t \in ts
    <3>1. EventsOf(t) = {}
      BY <1>1, <2>1
    <3>2. \A f \in EventsOf(t)' : f.type # "deleted"
      BY <2>1, CreatedEvents DEF CreatedEvent
    <3> QED BY <3>1, <3>2 DEF Gone
  <2>2. CASE t \notin ts
    BY <2>2, AfterCreate DEF Gone
  <2> QED BY <2>1, <2>2
<1>4. \A t \in ts : Story(Told(t)) = <<>>
  BY <1>1, NoStory
<1>5. tasks' = [t \in TaskId |-> IF t \in DOMAIN rows THEN rows[t] ELSE tasks[t]]
  BY <1>0, <1>1 DEF Create
<1>6. [t \in TaskId |-> Story(Told(t))]' =
        [t \in TaskId |-> IF t \in DOMAIN rows THEN <<said[t]>> ELSE Story(Told(t))]
  BY <1>0, <1>2
<1>7. [t \in TaskId |-> {e.content : e \in Gone(t)}]' = [t \in TaskId |-> {e.content : e \in Gone(t)}]
  BY <1>3
<1>8. said \in [DOMAIN rows -> Log!Payload]
  BY <1>0 DEF Payload, Log!Payload, Status, Log!Status
<1>9. \A t \in DOMAIN rows : Log!Tells(said[t], rows[t])
  BY <1>0 DEF Tells, Log!Tells, ResolvedTag, Log!ResolvedTag
<1>10. \A t \in DOMAIN rows : [u \in TaskId |-> Story(Told(u))][t] = <<>>
  BY <1>0, <1>4
<1>11. [t \in TaskId |-> IF t \in DOMAIN rows THEN <<said[t]>> ELSE Story(Told(t))] =
         [t \in TaskId |-> IF t \in DOMAIN rows THEN <<said[t]>>
                           ELSE [u \in TaskId |-> Story(Told(u))][t]]
  OBVIOUS
<1>12. Log!Open(rows)
  BY <1>5, <1>6, <1>7, <1>8, <1>9, <1>10, <1>11 DEF Log!Open
<1> QED BY <1>0, <1>12

LEMMA CommitSays ==
  ASSUME StoreIInv, NEW w \in Writer, Commit(w)
  PROVE  \E t \in TaskId, r \in Row : Log!Say(t, r)
<1> DEFINE n == UpdateEvent(slot[w])
<1>1. PICK t \in TaskId, r \in Row, c \in Payload :
        t = slot[w].task /\ r = slot[w].row /\ c = slot[w].told
  BY BusyFields, IdleIs DEF Commit, StoreIInv, StoreTypeOK
<1>2. tasks[t] # None /\ Tells(c, r)
  BY <1>1 DEF Commit, StoreIInv, TransactionsHoldTheRow, ReadBackTells, SaidAt
<1>3. /\ slot[w].version \in Nat
      /\ UpdateVersions(t) = 0 .. slot[w].version - 1
  BY <1>1, BusyFields, IdleIs DEF Commit, StoreIInv, InsertedIsNext
<1>4. Place(n) = slot[w].version + 2 /\ n.content = c /\ n.type = "update"
  BY <1>1 DEF Place, UpdateEvent
<1>5. EventsOf(t) # {}
  BY <1>2, LiveTask
<1> HIDE DEF n
<1>6. Story(Told(t) \cup {n}) = Append(Story(Told(t)), c)
  <2>1. PICK v \in Nat : v = slot[w].version
    BY <1>3
  <2>2. v + 1 \in Nat /\ Place(n) = (v + 1) + 1
    BY <1>4, <2>1
  <2>3. /\ {Place(e) : e \in Told(t)} = 1 .. v + 1
        /\ \A e, f \in Told(t) : Place(e) = Place(f) => e = f
        /\ \A e \in Told(t) : e.content \in Payload
    BY <1>3, <1>5, <2>1, PlacesFill
  <2> QED BY <1>4, <2>2, <2>3, StoryGrows
<1>7. ASSUME NEW u \in TaskId
      PROVE  /\ Told(u)' = IF u = t THEN Told(u) \cup {n} ELSE Told(u)
             /\ EventsOf(u)' = IF u = t THEN EventsOf(u) \cup {n} ELSE EventsOf(u)
  BY <1>1, AfterCommit DEF n
<1>8. [u \in TaskId |-> Story(Told(u))]' =
        [[u \in TaskId |-> Story(Told(u))] EXCEPT ![t] = Append(@, c)]
  BY <1>6, <1>7
<1>9. ASSUME NEW u \in TaskId PROVE Gone(u)' = Gone(u)
  BY <1>4, <1>7 DEF Gone
<1>10. [u \in TaskId |-> {e.content : e \in Gone(u)}]' = [u \in TaskId |-> {e.content : e \in Gone(u)}]
  BY <1>9
<1>11. tasks' = [tasks EXCEPT ![t] = r]
  BY <1>1 DEF Commit
<1>12. Log!Say(t, r)
  BY <1>1, <1>2, <1>8, <1>10, <1>11 DEF Log!Say, Tells, Log!Tells, Payload, Log!Payload,
     ResolvedTag, Log!ResolvedTag, Status, Log!Status
<1> QED BY <1>12

LEMMA DeleteCloses ==
  ASSUME StoreIInv, NEW w \in Writer, DeleteExec(w)
  PROVE  \E t \in TaskId : Log!Close(t)
<1> DEFINE n == DeletedEvent(slot[w])
<1>1. PICK t \in TaskId : t = slot[w].task
  BY BusyFields, IdleIs DEF DeleteExec, StoreIInv
<1>2. tasks[t] # None /\ tasks[t] \in Row
  BY <1>1 DEF DeleteExec, StoreIInv, StoreTypeOK
<1>p. PICK p \in Payload : /\ p = DeletedPayload(tasks[t])
                          /\ Tells(p, tasks[t]) /\ p.status = tasks[t].status
  BY <1>2, DeletedTells
<1>n. n.content = p /\ n.type = "deleted"
  BY <1>1, <1>p DEF DeletedEvent
<1>3. \A e \in EventsOf(t) : e.type # "deleted"
  BY <1>2, LiveTask
<1> HIDE DEF n
<1>4. ASSUME NEW u \in TaskId
      PROVE  /\ Told(u)' = Told(u)
             /\ EventsOf(u)' = IF u = t THEN EventsOf(u) \cup {n} ELSE EventsOf(u)
  BY <1>1, AfterDelete DEF n
<1> DEFINE Ends(u) == {e.content : e \in Gone(u)}
<1>5. Ends(t)' = {p}
  BY <1>n, <1>3, <1>4 DEF Gone
<1>6. ASSUME NEW u \in TaskId, u # t PROVE Ends(u)' = Ends(u)
  BY <1>4, <1>6 DEF Gone
<1>7. [u \in TaskId |-> Ends(u)]' = [[u \in TaskId |-> Ends(u)] EXCEPT ![t] = {p}]
  <2>1. \A u \in TaskId : Ends(u)' = IF u = t THEN {p} ELSE Ends(u)
    BY <1>5, <1>6
  <2> HIDE DEF Ends
  <2> QED BY <2>1
<1>8. [u \in TaskId |-> Story(Told(u))]' = [u \in TaskId |-> Story(Told(u))]
  BY <1>4
<1>9. tasks' = [tasks EXCEPT ![t] = None]
  BY <1>1 DEF DeleteExec
<1>10. Log!Close(t)
  BY <1>1, <1>2, <1>p, <1>7, <1>8, <1>9 DEF Log!Close, Tells, Log!Tells, Payload, Log!Payload,
     ResolvedTag, Log!ResolvedTag, Status, Log!Status
<1> QED BY <1>10

\* A step that writes neither the table nor a row of the outbox writes no log.
LEMMA LogUntouched ==
  ASSUME UNCHANGED <<tasks, Events>>
  PROVE  UNCHANGED Log!logVars
<1>1. \A t : EventsOf(t)' = EventsOf(t) /\ Told(t)' = Told(t) /\ Gone(t)' = Gone(t)
  BY DEF EventsOf, Told, Gone
<1> QED BY <1>1 DEF Log!logVars

LEMMA LogStep ==
  ASSUME StoreIInv, StoreNext
  PROVE  [Log!LogNext]_(Log!logVars)
<1>1. ASSUME NEW ts \in SUBSET TaskId \ {{}}, NEW requests \in [ts -> Request], Create(requests)
      PROVE  Log!LogNext
  BY <1>1, CreateOpens DEF Log!LogNext, Row, Log!Row, Status, Log!Status
<1>2. ASSUME NEW w \in Writer, Commit(w) PROVE Log!LogNext
  BY <1>2, CommitSays DEF Log!LogNext, Row, Log!Row, Status, Log!Status
<1>3. ASSUME NEW w \in Writer, DeleteExec(w) PROVE Log!LogNext
  BY <1>3, DeleteCloses DEF Log!LogNext
<1>4. ASSUME UNCHANGED <<tasks, outbox>> PROVE UNCHANGED Log!logVars
  BY <1>4, LogUntouched DEF Events
<1> QED BY <1>1, <1>2, <1>3, <1>4
    DEF StoreNext, UpdateRow, InsertEvent, DeleteStamp, Rollback

\* postgres.go:38-650: the writers, whose transactions take several steps and
\* run concurrently, implement single changes of rows that append to a log per
\* task; a consumer that goes by version reads what the row said, in order.
THEOREM OutboxLog == StoreSpec => OutboxIsALog
<1>1. StoreIInv /\ [StoreNext]_storeVars => [Log!LogNext]_(Log!logVars)
  <2>1. UNCHANGED storeVars => UNCHANGED Log!logVars
    BY LogUntouched DEF storeVars, Events
  <2> QED BY <2>1, LogStep
<1>2. StoreInit => Log!LogInit
  BY LogStarts
<1> QED BY <1>1, <1>2, StoreInductive, PTL DEF StoreSpec, OutboxIsALog, Log!LogSpec
=============================================================================
