------------------------------ MODULE TrackedCache ------------------------------
(***************************************************************************)
(* What a group of Redis keys with a tracking set promises.  Every key is  *)
(* entered in the set when it is stored; an invalidation reads the set     *)
(* with one command and deletes the keys it found, and the set, with       *)
(* another.  Lists of a user (user_list_keys) and cached tasks of a user   *)
(* (user_tasks) are kept this way.                                         *)
(*                                                                         *)
(* A key that loses its place in the set is beyond the reach of every      *)
(* later invalidation.  The promise is that this happens only to keys that *)
(* were stored between the two commands of some invalidation.              *)
(***************************************************************************)
EXTENDS Naturals

CONSTANTS
  Key,          \* the keys of the group
  Invalidator,  \* the invalidations that can be in progress at a time
  None          \* no value

VARIABLES
  stored,     \* the keys that hold a value
  tracked,    \* the tracking set
  found,      \* found[i]: the keys SMEMBERS returned to i, or None
  overlapped  \* keys stored between the two commands of an invalidation

vars == <<stored, tracked, found, overlapped>>

TypeOK ==
  /\ stored \subseteq Key
  /\ tracked \subseteq Key
  /\ found \in [Invalidator -> (SUBSET Key) \cup {None}]
  /\ overlapped \subseteq Key

Init ==
  /\ stored = {} /\ tracked = {} /\ overlapped = {}
  /\ found = [i \in Invalidator |-> None]

\* Some invalidation has read the set and did not find k in it.
Overtakes(k) == \E i \in Invalidator : found[i] # None /\ k \notin found[i]

\* SET and SADD in one pipeline.
Store(k) ==
  /\ stored' = stored \cup {k}
  /\ tracked' = tracked \cup {k}
  /\ overlapped' = IF Overtakes(k) THEN overlapped \cup {k} ELSE overlapped \ {k}
  /\ UNCHANGED found

\* DEL of single keys, or the end of their time to live.
Forget(keys) ==
  /\ stored' = stored \ keys
  /\ UNCHANGED <<tracked, found, overlapped>>

\* The set outlives the keys in it (25 hours against 24).
ExpireSet ==
  /\ stored \cap tracked = {}
  /\ tracked' = {}
  /\ UNCHANGED <<stored, found, overlapped>>

\* SMEMBERS; an empty set ends the invalidation.
Members(i) ==
  /\ found[i] = None
  /\ tracked # {}
  /\ found' = [found EXCEPT ![i] = tracked]
  /\ UNCHANGED <<stored, tracked, overlapped>>

\* DEL of the keys found, and of the set as it is by now.
Drop(i) ==
  /\ found[i] # None
  /\ stored' = stored \ found[i]
  /\ tracked' = {}
  /\ found' = [found EXCEPT ![i] = None]
  /\ UNCHANGED overlapped

\* The second command is never sent, or fails.
Abandon(who) ==
  /\ found' = [i \in Invalidator |-> IF i \in who THEN None ELSE found[i]]
  /\ UNCHANGED <<stored, tracked, overlapped>>

Next ==
  \/ \E k \in Key : Store(k)
  \/ \E keys \in SUBSET Key : Forget(keys)
  \/ ExpireSet
  \/ \E i \in Invalidator : Members(i) \/ Drop(i)
  \/ \E who \in SUBSET Invalidator : Abandon(who)

Spec == Init /\ [][Next]_vars

-----------------------------------------------------------------------------

\* A key that holds a value the tracking set does not know was stored between
\* the two commands of an invalidation.
UntrackedWasOverlapped == stored \ tracked \subseteq overlapped

\* What an invalidation in progress has not found is not there, or came later.
FoundTheRest ==
  \A i \in Invalidator :
    found[i] # None => (stored \cap tracked) \ found[i] \subseteq overlapped

IInv == TypeOK /\ UntrackedWasOverlapped /\ FoundTheRest
=============================================================================
