---------------------------- MODULE MCTaskOutbox ----------------------------
(* TaskOutbox on a small instance. *)
EXTENDS TaskOutbox, TLC

CONSTANTS t1, t2, x1, x2, g1, g2, w1, w2

\* The due date of x1 passes early, that of x2 does not.
MCDue == x1 :> 1 @@ x2 :> MaxTime

\* A task without a tag, and one with an unknown id and a name, which wins.
MCRequest ==
  {[text |-> x1, status |-> "in_progress", tag |-> None, name |-> None],
   [text |-> x1, status |-> "in_progress", tag |-> g2, name |-> g1]}

\* Completion, and a new text.
MCPatch ==
  {[text |-> None, status |-> "completed", name |-> None],
   [text |-> x2, status |-> None, name |-> None]}

Symmetry == Permutations({t1, t2}) \cup Permutations({w1, w2})
=============================================================================
