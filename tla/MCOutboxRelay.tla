---------------------------- MODULE MCOutboxRelay ----------------------------
(* OutboxRelay on a small instance. *)
EXTENDS OutboxRelay, TLC

CONSTANTS x1, g1

MCDue == x1 :> 1

MCRequest == {[text |-> x1, status |-> "in_progress", tag |-> None, name |-> None]}

MCPatch == {[text |-> x1, status |-> None, name |-> None]}
=============================================================================
