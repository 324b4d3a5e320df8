------------------------------ MODULE MCTaskCache ------------------------------
(* Model-checking instance of TaskCache: jobs are interchangeable. *)
EXTENDS TaskCache, TLC

JobSymmetry == Permutations(Job)
=============================================================================
