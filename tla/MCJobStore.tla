------------------------------ MODULE MCJobStore ------------------------------
(***************************************************************************)
(* JobStore on small instances.                                            *)
(***************************************************************************)
EXTENDS JobStore, TLC

\* Callers, jobs, runs and digests are interchangeable: nothing orders them.
Symmetry == Permutations(Clients) \union Permutations(Jobs)
              \union Permutations(Runs) \union Permutations(Digests)
=============================================================================
