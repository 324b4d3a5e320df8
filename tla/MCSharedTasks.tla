---------------------------- MODULE MCSharedTasks ----------------------------
(* SharedTasks on a small instance. *)
EXTENDS SharedTasks, TLC

CONSTANTS u1, u2, u3, r1, r2

\* Users differ only in who may propose, requests not at all.
Symmetry == Permutations({r1, r2}) \cup Permutations({u1, u2})
=============================================================================
