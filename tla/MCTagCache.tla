------------------------------ MODULE MCTagCache ------------------------------
(* TagCache on a small instance. *)
EXTENDS TagCache, TLC

CONSTANTS j1, j2, n1, n2, k1, k2

Symmetry == Permutations({j1, j2}) \cup Permutations({n1, n2}) \cup Permutations({k1, k2})
=============================================================================
