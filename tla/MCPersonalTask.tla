---------------------------- MODULE MCPersonalTask ----------------------------
(* PersonalTask on a small instance. *)
EXTENDS PersonalTask, TLC

CONSTANTS s1, s2, s3, r1, r2

Symmetry == Permutations({s1, s2, s3}) \cup Permutations({r1, r2})
=============================================================================
