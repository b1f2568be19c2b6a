----------------------------- MODULE MCScheduler -----------------------------
(***************************************************************************)
(* Scheduler on small instances.                                           *)
(***************************************************************************)
EXTENDS Scheduler, TLC

\* Runs are uuids, and nothing orders schedulers; jobs are in no order either
\* while schedule() may choose any of them.
RunSymmetry == Permutations(Runs)
RaceSymmetry == RunSymmetry \union Permutations(Schedulers)
FullSymmetry == RaceSymmetry \union Permutations(Jobs)
=============================================================================
