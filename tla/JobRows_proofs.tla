---------------------------- MODULE JobRows_proofs ----------------------------
(***************************************************************************)
(* Each row update, made where its caller may make it, produces a row that *)
(* can be read back as a Job.                                              *)
(***************************************************************************)
EXTENDS JobRows, TLAPS

\* submit_job.
LEMMA SubmittedRows ==
    \A row \in {QueuedJob, InfeasibleJob} :
        row \in JobRow /\ Materialises(row) /\ row.state # "ABSENT"
<1>1. NoRow \in JobRow
  BY DEF NoRow, JobRow, RunOrNone
<1>2. QueuedJob \in JobRow /\ InfeasibleJob \in JobRow
  BY <1>1 DEF QueuedJob, InfeasibleJob, JobRow, JobState, WaitingReason, FAILURE_REASONS
<1>3. /\ QueuedJob.state = "QUEUED" /\ QueuedJob.waiting = "NEW"
      /\ QueuedJob.failure = "NONE" /\ QueuedJob.run = NoRun /\ QueuedJob.preemptions = 0
  BY DEF QueuedJob, NoRow
<1>4. /\ InfeasibleJob.state = "FAILED" /\ InfeasibleJob.waiting = "NONE"
      /\ InfeasibleJob.failure = "NO_ROUTE_FOR_REQUIREMENTS"
      /\ InfeasibleJob.preemptions = 0
  BY DEF InfeasibleJob, NoRow
<1>5. Materialises(QueuedJob) /\ Materialises(InfeasibleJob)
  BY <1>3, <1>4 DEF Materialises
<1> QED BY <1>2, <1>3, <1>4, <1>5

\* mark_dispatched.
LEMMA DispatchedRow ==
    ASSUME NEW row \in JobRow, NEW r \in Runs, row.state = "QUEUED", Materialises(row)
    PROVE  MarkDispatched(row, r) \in JobRow /\ Materialises(MarkDispatched(row, r))
BY NoRunAssumption DEF MarkDispatched, JobRow, Materialises, RunOrNone, JobState

\* requeue and requeue_exact.
LEMMA RequeuedRow ==
    ASSUME NEW row \in JobRow, NEW reason \in WaitingReason, NEW resume \in RunOrNone,
           row.state = "RUNNING", Materialises(row)
    PROVE  /\ Requeue(row, reason, resume) \in JobRow
           /\ Materialises(Requeue(row, reason, resume))
<1> DEFINE new == Requeue(row, reason, resume)
           count == row.preemptions + (IF reason = "PREEMPTED" THEN 1 ELSE 0)
<1>1. count \in Nat
  BY DEF JobRow
<1>2. new = [row EXCEPT !.state = "QUEUED", !.waiting = reason, !.run = NoRun,
                        !.resume = resume, !.preemptions = count]
  BY DEF Requeue
<1> HIDE DEF count
<1>3. new \in JobRow
  BY <1>1, <1>2 DEF JobRow, RunOrNone, JobState
<1>4. new.failure = row.failure /\ row.failure = "NONE"
  BY <1>2 DEF JobRow, Materialises
<1>5. /\ new.state = "QUEUED" /\ new.waiting = reason /\ new.run = NoRun
      /\ new.preemptions = count
  BY <1>2 DEF JobRow
<1>6. Materialises(new)
  BY <1>1, <1>4, <1>5 DEF Materialises, WaitingReason
<1> QED BY <1>3, <1>6

\* set_waiting.
LEMMA WaitingRow ==
    ASSUME NEW row \in JobRow, NEW reason \in WaitingReason,
           row.state = "QUEUED", Materialises(row)
    PROVE  /\ SetWaiting(row, reason) \in JobRow
           /\ SetWaiting(row, reason).state = "QUEUED"
           /\ Materialises(SetWaiting(row, reason))
BY DEF SetWaiting, JobRow, Materialises, WaitingReason

\* cancel_transition.
LEMMA CancelledRow ==
    ASSUME NEW row \in JobRow, row.state \in {"QUEUED", "RUNNING"}, Materialises(row)
    PROVE  CancelTransition(row) \in JobRow /\ Materialises(CancelTransition(row))
BY DEF CancelTransition, JobRow, Materialises, JobState

\* reconcile_transition.
LEMMA ReconciledRow ==
    ASSUME NEW row \in JobRow, row.state = "RUNNING", Materialises(row),
           NEW to \in {"SUCCEEDED", "FAILED"}, NEW reason \in FAILURE_REASONS \union {"NONE"},
           to = "FAILED" <=> reason # "NONE"
    PROVE  /\ ReconcileTransition(row, to, reason) \in JobRow
           /\ Materialises(ReconcileTransition(row, to, reason))
BY DEF ReconcileTransition, JobRow, Materialises, JobState
=============================================================================
