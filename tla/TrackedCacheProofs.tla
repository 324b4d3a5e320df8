--------------------------- MODULE TrackedCacheProofs ---------------------------
(***************************************************************************)
(* The promise of a tracked group of keys, for any keys and any number of  *)
(* invalidations in progress.  TaskCache and TagCache implement            *)
(* TrackedCache, so that it holds of user_list_keys and of user_tasks.     *)
(***************************************************************************)
EXTENDS TrackedCache, TLAPS

LEMMA InitIInv == Init => IInv
  BY DEF Init, IInv, TypeOK, UntrackedWasOverlapped, FoundTheRest

LEMMA StorePreserves ==
  ASSUME IInv, NEW k \in Key, Store(k)
  PROVE  IInv'
<1> USE DEF IInv, Store
<1>1. TypeOK'
  BY DEF TypeOK
<1>2. UntrackedWasOverlapped'
  BY DEF UntrackedWasOverlapped
<1>3. FoundTheRest'
  BY DEF FoundTheRest, Overtakes
<1> QED BY <1>1, <1>2, <1>3

LEMMA DropPreserves ==
  ASSUME IInv, NEW i \in Invalidator, Drop(i)
  PROVE  IInv'
<1> USE DEF IInv, Drop
<1>1. found[i] \subseteq Key
  BY DEF TypeOK
<1>2. TypeOK'
  BY <1>1 DEF TypeOK
\* What is left is out of the set already, or was not found: overlapped both ways.
<1>3. UntrackedWasOverlapped'
  BY DEF UntrackedWasOverlapped, FoundTheRest
<1>4. FoundTheRest'
  BY DEF FoundTheRest
<1> QED BY <1>2, <1>3, <1>4

LEMMA OtherStepsPreserve ==
  ASSUME IInv,
         \/ \E keys \in SUBSET Key : Forget(keys)
         \/ ExpireSet
         \/ \E i \in Invalidator : Members(i)
         \/ \E who \in SUBSET Invalidator : Abandon(who)
         \/ UNCHANGED vars
  PROVE  IInv'
<1> USE DEF IInv
<1>1. ASSUME NEW keys \in SUBSET Key, Forget(keys) PROVE IInv'
  BY <1>1 DEF Forget, TypeOK, UntrackedWasOverlapped, FoundTheRest
<1>2. CASE ExpireSet
  BY <1>2 DEF ExpireSet, TypeOK, UntrackedWasOverlapped, FoundTheRest
<1>3. ASSUME NEW i \in Invalidator, Members(i) PROVE IInv'
  <2> USE <1>3 DEF Members
  <2>1. TypeOK'
    BY DEF TypeOK
  <2>2. UntrackedWasOverlapped'
    BY DEF UntrackedWasOverlapped
  <2>3. FoundTheRest'
    BY DEF FoundTheRest, TypeOK
  <2> QED BY <2>1, <2>2, <2>3
<1>4. ASSUME NEW who \in SUBSET Invalidator, Abandon(who) PROVE IInv'
  BY <1>4 DEF Abandon, TypeOK, UntrackedWasOverlapped, FoundTheRest
<1>5. CASE UNCHANGED vars
  BY <1>5 DEF vars, TypeOK, UntrackedWasOverlapped, FoundTheRest
<1> QED BY <1>1, <1>2, <1>3, <1>4, <1>5

LEMMA StepPreserves ==
  ASSUME IInv, [Next]_vars
  PROVE  IInv'
BY StorePreserves, DropPreserves, OtherStepsPreserve DEF Next

\* A cached list or task that an invalidation can no longer reach was stored
\* between the two commands of one (redis.go:220-260), and in no other way.
THEOREM UnreachableWasOverlapped == Spec => []UntrackedWasOverlapped
<1>1. IInv => UntrackedWasOverlapped
  BY DEF IInv
<1> QED BY InitIInv, StepPreserves, <1>1, PTL DEF Spec
=============================================================================
