----------------------------- MODULE MCSecrets ------------------------------
(***************************************************************************)
(* A small instance of Secrets for TLC: two jobs and two refreshing        *)
(* processes at once.                                                      *)
(***************************************************************************)
EXTENDS Secrets, TLC

CONSTANTS j1, j2, c1, c2
Jobs == {j1, j2}
Callers == {c1, c2}

Symmetry == Permutations(Job) \cup Permutations(Caller)
=============================================================================
