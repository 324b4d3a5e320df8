-------------------------------- MODULE TaskLog --------------------------------
(***************************************************************************)
(* What the outbox promises a consumer: a log per task that only grows.    *)
(* Its first entry tells the task as it was created; every change of the   *)
(* row appends an entry that tells what the row is from then on, in the    *)
(* order of the changes and in the same moment; the deletion closes the    *)
(* log with what the row was last.  What telling leaves open is said in    *)
(* TaskPayload.                                                            *)
(***************************************************************************)
EXTENDS TaskPayload, Sequences

CONSTANT TaskId

VARIABLES
  row,    \* row[t]: the row of t, None without one
  log,    \* log[t]: what was said of t, from its creation on
  closed  \* closed[t]: what was said of t when it was deleted, {} before

logVars == <<row, log, closed>>

LogInit ==
  /\ row = [t \in TaskId |-> None]
  /\ log = [t \in TaskId |-> <<>>]
  /\ closed = [t \in TaskId |-> {}]

\* Tasks that never were, all at once, and what is said of them.
Open(rows) ==
  /\ \A t \in DOMAIN rows : log[t] = <<>>
  /\ row' = [t \in TaskId |-> IF t \in DOMAIN rows THEN rows[t] ELSE row[t]]
  /\ \E said \in [DOMAIN rows -> Payload] :
       /\ \A t \in DOMAIN rows : Tells(said[t], rows[t])
       /\ log' = [t \in TaskId |-> IF t \in DOMAIN rows THEN <<said[t]>> ELSE log[t]]
  /\ UNCHANGED closed

Say(t, r) ==
  /\ row[t] # None
  /\ row' = [row EXCEPT ![t] = r]
  /\ \E p \in Payload : Tells(p, r) /\ log' = [log EXCEPT ![t] = Append(@, p)]
  /\ UNCHANGED closed

Close(t) ==
  /\ row[t] # None
  /\ row' = [row EXCEPT ![t] = None]
  /\ \E p \in Payload :
       /\ Tells(p, row[t]) /\ p.status = row[t].status
       /\ closed' = [closed EXCEPT ![t] = {p}]
  /\ UNCHANGED log

LogNext ==
  \/ \E ts \in SUBSET TaskId \ {{}} : \E rows \in [ts -> Row] : Open(rows)
  \/ \E t \in TaskId, r \in Row : Say(t, r)
  \/ \E t \in TaskId : Close(t)

LogSpec == LogInit /\ [][LogNext]_logVars
=============================================================================
