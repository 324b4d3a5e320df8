------------------------ MODULE SharedTaskNegotiation ------------------------
(***************************************************************************)
(* What the negotiation of a shared task promises to its two participants, *)
(* with no tables, requests or roles: a proposal is open between two       *)
(* different users, one of whom has to answer; a counter proposal passes   *)
(* the duty to answer to the other one; an answer is given once, by the    *)
(* user who has to give it; any proposal may be closed (deleted) for good. *)
(*                                                                         *)
(* SharedTasks implements it, see Negotiation there.                       *)
(***************************************************************************)

CONSTANTS Users, TaskId, None

VARIABLES
  stage,     \* stage[t]: where the negotiation of t stands
  parties,   \* parties[t]: the two users it is between
  answerer,  \* answerer[t]: the one who has to answer the open proposal
  answered   \* answered[t]: the one who answered it, None before

nVars == <<stage, parties, answerer, answered>>

Verdicts == {"accepted", "rejected"}

NInit ==
  /\ stage = [t \in TaskId |-> "none"]
  /\ parties = [t \in TaskId |-> {None}]
  /\ answerer = [t \in TaskId |-> None]
  /\ answered = [t \in TaskId |-> None]

\* p offers a shared task to a, who has to answer.
Offer(t, p, a) ==
  /\ stage[t] = "none"
  /\ p # a
  /\ stage' = [stage EXCEPT ![t] = "pending"]
  /\ parties' = [parties EXCEPT ![t] = {p, a}]
  /\ answerer' = [answerer EXCEPT ![t] = a]
  /\ UNCHANGED answered

\* The user who has to answer changes the offer: now the other one has to.
Counter(t) ==
  /\ stage[t] = "pending"
  /\ \E other \in parties[t] \ {answerer[t]} :
       answerer' = [answerer EXCEPT ![t] = other]
  /\ UNCHANGED <<stage, parties, answered>>

\* The user who has to answer accepts or rejects.
Answer(t, verdict) ==
  /\ stage[t] = "pending"
  /\ stage' = [stage EXCEPT ![t] = verdict]
  /\ answered' = [answered EXCEPT ![t] = answerer[t]]
  /\ UNCHANGED <<parties, answerer>>

\* The task is deleted; it never comes back.
Close(t) ==
  /\ stage[t] \in {"pending"} \cup Verdicts
  /\ stage' = [stage EXCEPT ![t] = "deleted"]
  /\ UNCHANGED <<parties, answerer, answered>>

NNext ==
  \E t \in TaskId :
    \/ \E p, a \in Users : Offer(t, p, a)
    \/ Counter(t)
    \/ \E v \in Verdicts : Answer(t, v)
    \/ Close(t)

NSpec == NInit /\ [][NNext]_nVars
=============================================================================
