------------------------------- MODULE JobRows -------------------------------
(***************************************************************************)
(* The durable job row of SaberOps (jobs/models.py) and the row updates of *)
(* jobs/store.py as pure operators.  JobStore and Scheduler apply them     *)
(* under different interleavings.                                          *)
(***************************************************************************)
EXTENDS Integers

CONSTANTS Runs,   \* run identifiers, one drawn per dispatch
          NoRun   \* SQL NULL in current_run_id and resume_from_json

ASSUME NoRunAssumption == NoRun \notin Runs

RunOrNone == Runs \union {NoRun}

JobState == {"QUEUED", "RUNNING", "SUCCEEDED", "FAILED", "CANCELLED"}
TERMINAL_JOB_STATES == {"SUCCEEDED", "FAILED", "CANCELLED"}

\* PROBE_PENDING and CONCURRENCY are written only by set_waiting.
WaitingReason == {"NEW", "NO_CAPACITY", "PROBE_PENDING", "PREEMPTED", "CONCURRENCY"}
FAILURE_REASONS ==
    {"NO_ROUTE_FOR_REQUIREMENTS", "RUN_FAILED", "RUN_MISSING", "PREEMPTION_LIMIT"}

\* A row; "ABSENT" is a job id with no row, "NONE" is SQL NULL.  run_ids_json
\* is kept as the set of runs: callers only test membership.  resume names the
\* preempted run of the ResumeFrom capsule.
JobRow == [ state       : JobState \union {"ABSENT"},
            waiting     : WaitingReason \union {"NONE"},
            failure     : FAILURE_REASONS \union {"NONE"},
            run         : RunOrNone,
            run_ids     : SUBSET Runs,
            resume      : RunOrNone,
            preemptions : Nat ]

NoRow == [ state |-> "ABSENT", waiting |-> "NONE", failure |-> "NONE",
           run |-> NoRun, run_ids |-> {}, resume |-> NoRun, preemptions |-> 0 ]

\* submit_job: feasible requirements are queued, infeasible ones stored FAILED.
QueuedJob == [NoRow EXCEPT !.state = "QUEUED", !.waiting = "NEW"]
InfeasibleJob ==
    [NoRow EXCEPT !.state = "FAILED", !.failure = "NO_ROUTE_FOR_REQUIREMENTS"]

\* Job.__post_init__: what a row must satisfy to be read back as a Job.
Materialises(row) ==
    /\ row.state = "QUEUED" <=> row.waiting # "NONE"
    /\ row.state = "FAILED" <=> row.failure # "NONE"
    /\ row.state = "QUEUED" => row.run = NoRun
    /\ row.state = "RUNNING" => row.run # NoRun
    /\ row.preemptions >= 0

-----------------------------------------------------------------------------
(* The SET clauses of the UPDATE statements.                               *)

MarkDispatched(row, r) ==
    [row EXCEPT !.state = "RUNNING", !.waiting = "NONE", !.run = r,
                !.run_ids = @ \union {r}]

SetWaiting(row, reason) == [row EXCEPT !.waiting = reason]

\* Mutant: the count goes down instead of up.
RequeueCountingDown(row, reason, resume) ==
    [row EXCEPT !.state = "QUEUED", !.waiting = reason, !.run = NoRun,
                !.resume = resume,
                !.preemptions = @ - (IF reason = "PREEMPTED" THEN 1 ELSE 0)]

\* requeue and requeue_exact share this update; resume is NoRun when the
\* caller passes no resume_from, and then resume_from_json becomes NULL.
Requeue(row, reason, resume) ==
    [row EXCEPT !.state = "QUEUED", !.waiting = reason, !.run = NoRun,
                !.resume = resume,
                !.preemptions = @ + (IF reason = "PREEMPTED" THEN 1 ELSE 0)]

\* Mutant: fenced on nothing but the state, like requeue.
AnyGeneration(row, r, count) == TRUE

\* The WHERE clause requeue_exact adds to requeue's.
ExactGeneration(row, r, count) == row.run = r /\ row.preemptions = count

\* Mutant: waiting_reason kept.
CancelKeepingReason(row) == [row EXCEPT !.state = "CANCELLED"]

\* current_run_id is left alone.
CancelTransition(row) == [row EXCEPT !.state = "CANCELLED", !.waiting = "NONE"]

ReconcileTransition(row, to, reason) ==
    [row EXCEPT !.state = to, !.waiting = "NONE", !.failure = reason]
=============================================================================
