----------------------------- MODULE JobLifecycle -----------------------------
(***************************************************************************)
(* What a job promises its caller (docs/operations.md, "Jobs"): QUEUED ->  *)
(* RUNNING -> SUCCEEDED | FAILED | CANCELLED, RUNNING -> QUEUED when it is  *)
(* parked, one new run per dispatch, and a final outcome that never moves.  *)
(* Abstract specification; JobStore and Scheduler implement it.             *)
(***************************************************************************)
CONSTANTS Jobs, Runs, NoRun

VARIABLES phase,    \* phase[j]: the job's state, "ABSENT" before submission
          runner,   \* runner[j]: the run it is attached to
          lineage   \* lineage[j]: every run it was ever dispatched on

vars == <<phase, runner, lineage>>

Init == /\ phase \in [Jobs -> {"ABSENT", "QUEUED"}]
        /\ runner = [j \in Jobs |-> NoRun]
        /\ lineage = [j \in Jobs |-> {}]

Submit(j) ==
    /\ phase[j] = "ABSENT"
    /\ phase' \in {[phase EXCEPT ![j] = s] : s \in {"QUEUED", "FAILED"}}
    /\ UNCHANGED <<runner, lineage>>

\* A dispatch starts a run no job was ever dispatched on.
Dispatch(j, r) ==
    /\ phase[j] = "QUEUED"
    /\ \A i \in Jobs : r \notin lineage[i]
    /\ phase' = [phase EXCEPT ![j] = "RUNNING"]
    /\ runner' = [runner EXCEPT ![j] = r]
    /\ lineage' = [lineage EXCEPT ![j] = @ \union {r}]

Park(j) ==
    /\ phase[j] = "RUNNING"
    /\ phase' = [phase EXCEPT ![j] = "QUEUED"]
    /\ runner' = [runner EXCEPT ![j] = NoRun]
    /\ UNCHANGED lineage

Finish(j) ==
    /\ phase[j] = "RUNNING"
    /\ phase' \in {[phase EXCEPT ![j] = s] : s \in {"SUCCEEDED", "FAILED"}}
    /\ UNCHANGED <<runner, lineage>>

Cancel(j) ==
    /\ phase[j] \in {"QUEUED", "RUNNING"}
    /\ phase' = [phase EXCEPT ![j] = "CANCELLED"]
    /\ UNCHANGED <<runner, lineage>>

Next == \E j \in Jobs : \/ Submit(j)
                        \/ \E r \in Runs : Dispatch(j, r)
                        \/ Park(j)
                        \/ Finish(j)
                        \/ Cancel(j)

Spec == Init /\ [][Next]_vars
=============================================================================
