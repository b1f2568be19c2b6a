------------------------------ MODULE OwnerState ------------------------------
(***************************************************************************)
(* The durable state one or more schedulers share - jobs, runs, capacity   *)
(* reservations, preemption receipts and the scheduler lease - and those   *)
(* who change it besides a scheduler: the process of each run, which may   *)
(* be preempted (preemption.py), and callers of cancel_job.  Every action  *)
(* is one SQLite transaction or one read.                                  *)
(***************************************************************************)
EXTENDS JobRows, FiniteSets

CONSTANTS Jobs,
          Schedulers,      \* scheduler processes
          Cancellers,      \* concurrent callers of cancel_job
          NoJob, NoHolder,
          MaxPreemptions,  \* preemption.py DEFAULT_MAX_PREEMPTIONS
          Faults           \* what may go wrong in a run of the model

ASSUME OwnerAssumption ==
    /\ NoJob \notin Jobs
    /\ NoHolder \notin Schedulers
    /\ MaxPreemptions \in Nat
    /\ Faults \subseteq {"crash", "expire", "tailCrash", "orphan", "busy",
                         "reserveError", "launchError", "readError"}

\* A table has finitely many rows.
ASSUME JobsAssumption == IsFiniteSet(Jobs)

VARIABLES rows,     \* table jobs
          run,      \* run[r]: status column of table runs, "ABSENT" without a row
          ledger,   \* ledger[r]: state of r's capacity_reservations
          receipt,  \* receipt[r]: durable D8 evidence in the run's events
          tail,     \* tail[r]: how far r's process is in complete_preemption
          lease,    \* the capacity_scheduler_lease row; live until it expires
          cancel    \* cancel[c]: where caller c is in cancel_job

ownerVars == <<rows, run, ledger, receipt, tail, lease, cancel>>

RunStatus == {"PENDING", "RUNNING", "COMPLETED", "FAILED", "ORPHANED", "PREEMPTED"}
TERMINAL_RUN_STATUSES == {"COMPLETED", "FAILED", "ORPHANED", "PREEMPTED"}
Status == RunStatus \union {"ABSENT"}
Live(r) == run[r] \in {"PENDING", "RUNNING"}

\* "LIMIT" is the typed PREEMPTION_LIMIT failure, "DECISION" the decision
\* bound to the job's count before the preemption.
Receipts == [kind : {"NONE", "DECISION", "LIMIT"}, before : Nat]
NoReceipt == [kind |-> "NONE", before |-> 0]
NoLease == [holder |-> NoHolder, live |-> FALSE]
NotCancelling == [pc |-> "idle", job |-> NoJob, run |-> NoRun]

OwnerTypeOK ==
    /\ rows \in [Jobs -> JobRow]
    /\ run \in [Runs -> Status]
    /\ ledger \in [Runs -> {"NONE", "RESERVED", "SETTLED", "RELEASED"}]
    /\ receipt \in [Runs -> Receipts]
    /\ tail \in [Runs -> {"none", "decided", "park", "failJob", "release"}]
    /\ lease \in [holder : Schedulers \union {NoHolder}, live : BOOLEAN]
    /\ cancel \in [Cancellers ->
                    [pc  : {"idle", "queued", "running", "transition", "release"},
                     job : Jobs \union {NoJob}, run : RunOrNone]]

OwnerInit ==
    /\ rows = [j \in Jobs |-> QueuedJob]
    /\ run = [r \in Runs |-> "ABSENT"]
    /\ ledger = [r \in Runs |-> "NONE"]
    /\ receipt = [r \in Runs |-> NoReceipt]
    /\ tail = [r \in Runs |-> "none"]
    /\ lease = NoLease
    /\ cancel = [c \in Cancellers |-> NotCancelling]

-----------------------------------------------------------------------------
(* Transactions.                                                           *)

Generation(j, r) == rows[j].state = "RUNNING" /\ rows[j].run = r

SetRow(j, row) == rows' = [rows EXCEPT ![j] = row]

\* release and release_terminal_debt.
Release(r) == ledger' = [ledger EXCEPT ![r] = IF @ = "RESERVED" THEN "RELEASED" ELSE @]

Settle(r) == ledger' = [ledger EXCEPT ![r] = IF @ = "RESERVED" THEN "SETTLED" ELSE @]

\* reconcile_transition, fenced on the state alone.
Reconcile(j, to, reason) ==
    IF rows[j].state = "RUNNING" THEN SetRow(j, ReconcileTransition(rows[j], to, reason))
                                 ELSE UNCHANGED rows

\* cancel_transition re-reads the state and accepts RUNNING as well.
CancelTransaction(j) ==
    IF rows[j].state \in {"QUEUED", "RUNNING"} THEN SetRow(j, CancelTransition(rows[j]))
                                               ELSE UNCHANGED rows

\* requeue_exact as complete_preemption calls it for run r.
Park(j, r) ==
    IF rows[j].state = "RUNNING" /\ ExactGeneration(rows[j], r, receipt[r].before)
    THEN SetRow(j, Requeue(rows[j], "PREEMPTED", r))
    ELSE UNCHANGED rows

-----------------------------------------------------------------------------
(* The process of a run.                                                   *)

SetRun(r, status) == run' = [run EXCEPT ![r] = status]

\* adopt_run_if_pending, or a failed spawn.
Start(r) ==
    /\ run[r] = "PENDING"
    /\ SetRun(r, "RUNNING") \/ SetRun(r, "FAILED")
    /\ UNCHANGED <<rows, ledger, receipt, tail, lease, cancel>>

Finish(r) ==
    /\ run[r] = "RUNNING" /\ receipt[r].kind = "NONE"
    /\ SetRun(r, "COMPLETED") \/ SetRun(r, "FAILED")
    /\ UNCHANGED <<rows, ledger, receipt, tail, lease, cancel>>

\* RunSupervisor.reconcile: the owner is dead, the worker too, and there is no
\* preemption to finish.
Orphan(r) ==
    /\ "orphan" \in Faults
    /\ run[r] = "RUNNING" /\ receipt[r].kind = "NONE"
    /\ SetRun(r, "ORPHANED")
    /\ UNCHANGED <<rows, ledger, receipt, tail, lease, cancel>>

\* complete_preemption on a running run: quota is exhausted and no candidate
\* remains.  Below the limit the decision becomes durable.
PreemptBegin(j, r) ==
    /\ run[r] = "RUNNING" /\ receipt[r].kind = "NONE" /\ Generation(j, r)
    /\ rows[j].preemptions < MaxPreemptions
    /\ receipt' = [receipt EXCEPT ![r] = [kind |-> "DECISION", before |-> rows[j].preemptions]]
    /\ tail' = [tail EXCEPT ![r] = "decided"]
    /\ UNCHANGED <<rows, run, ledger, lease, cancel>>

\* _fail_at_limit: the run fails at once, then its typed failure is recorded;
\* dying in between leaves a plainly FAILED run.
PreemptLimit(j, r) ==
    /\ run[r] = "RUNNING" /\ receipt[r].kind = "NONE" /\ Generation(j, r)
    /\ rows[j].preemptions >= MaxPreemptions
    /\ SetRun(r, "FAILED")
    /\ \/ /\ receipt' = [receipt EXCEPT ![r] = [kind |-> "LIMIT", before |-> rows[j].preemptions]]
          /\ tail' = [tail EXCEPT ![r] = "failJob"]
       \/ "tailCrash" \in Faults /\ UNCHANGED <<receipt, tail>>
    /\ UNCHANGED <<rows, ledger, lease, cancel>>

\* Checkpoint, capsule and intent become durable, then _terminalize_preempted;
\* when one of them fails the preemption is declined and the run just FAILED.
PreemptRun(r) ==
    /\ tail[r] = "decided"
    /\ \/ SetRun(r, "PREEMPTED") /\ tail' = [tail EXCEPT ![r] = "park"]
       \/ SetRun(r, "FAILED") /\ tail' = [tail EXCEPT ![r] = "none"]
    /\ UNCHANGED <<rows, ledger, receipt, lease, cancel>>

\* requeue_exact; any exception counts as a lost race.
PreemptPark(j, r) ==
    /\ tail[r] = "park" /\ r \in rows[j].run_ids
    /\ Park(j, r) \/ ("busy" \in Faults /\ UNCHANGED rows)
    /\ tail' = [tail EXCEPT ![r] = "release"]
    /\ UNCHANGED <<run, ledger, receipt, lease, cancel>>

\* The job's side of _fail_at_limit.
PreemptFailJob(j, r) ==
    /\ tail[r] = "failJob" /\ r \in rows[j].run_ids
    /\ Reconcile(j, "FAILED", "PREEMPTION_LIMIT") \/ ("busy" \in Faults /\ UNCHANGED rows)
    /\ tail' = [tail EXCEPT ![r] = "release"]
    /\ UNCHANGED <<run, ledger, receipt, lease, cancel>>

\* release_terminal_debt.
PreemptRelease(r) ==
    /\ tail[r] = "release"
    /\ Release(r)
    /\ tail' = [tail EXCEPT ![r] = "none"]
    /\ UNCHANGED <<rows, run, receipt, lease, cancel>>

\* The process dies inside complete_preemption ...
TailCrash(r) ==
    /\ "tailCrash" \in Faults
    /\ tail[r] # "none"
    /\ tail' = [tail EXCEPT ![r] = "none"]
    /\ UNCHANGED <<rows, run, ledger, receipt, lease, cancel>>

\* ... and the supervisor finishes a decided preemption of a dead owner
\* (_recover_preemption_transaction) while the job still is at its generation.
Recover(j, r) ==
    /\ run[r] = "RUNNING" /\ tail[r] = "none" /\ receipt[r].kind = "DECISION"
    /\ Generation(j, r) /\ rows[j].preemptions = receipt[r].before
    /\ tail' = [tail EXCEPT ![r] = "decided"]
    /\ UNCHANGED <<rows, run, ledger, receipt, lease, cancel>>

RunStep(r) ==
    \/ Start(r) \/ Finish(r) \/ PreemptRun(r) \/ PreemptRelease(r)
    \/ \E j \in Jobs : PreemptPark(j, r) \/ PreemptFailJob(j, r) \/ Recover(j, r)

-----------------------------------------------------------------------------
(* cancel_job.                                                             *)

SetCancel(c, pc, j, r) == cancel' = [cancel EXCEPT ![c] = [pc |-> pc, job |-> j, run |-> r]]
EndCancel(c) == cancel' = [cancel EXCEPT ![c] = NotCancelling]

CancelRead(c, j) ==
    /\ cancel[c].pc = "idle"
    /\ \/ rows[j].state = "QUEUED" /\ SetCancel(c, "queued", j, NoRun)
       \/ rows[j].state = "RUNNING" /\ SetCancel(c, "running", j, rows[j].run)
    /\ UNCHANGED <<rows, run, ledger, receipt, tail, lease>>

\* The job was read QUEUED: no run is asked.
CancelQueued(c) ==
    /\ cancel[c].pc = "queued"
    /\ CancelTransaction(cancel[c].job)
    /\ EndCancel(c)
    /\ UNCHANGED <<run, ledger, receipt, tail, lease>>

\* RunSupervisor.cancel: a run that is absent or terminal is not cancelled, a
\* live one is killed and FAILED unless ownership or liveness is undecidable.
CancelRun(c) ==
    LET r == cancel[c].run IN
    /\ cancel[c].pc = "running"
    /\ \/ EndCancel(c) /\ UNCHANGED <<run, tail>>
       \/ /\ Live(r)
          /\ SetRun(r, "FAILED")
          /\ tail' = [tail EXCEPT ![r] = "none"]
          /\ SetCancel(c, "transition", cancel[c].job, r)
    /\ UNCHANGED <<rows, ledger, receipt, lease>>

CancelJob(c) ==
    /\ cancel[c].pc = "transition"
    /\ CancelTransaction(cancel[c].job)
    /\ IF rows[cancel[c].job].state \in {"QUEUED", "RUNNING"}
       THEN SetCancel(c, "release", cancel[c].job, cancel[c].run)
       ELSE EndCancel(c)
    /\ UNCHANGED <<run, ledger, receipt, tail, lease>>

CancelRelease(c) ==
    /\ cancel[c].pc = "release"
    /\ Release(cancel[c].run)
    /\ EndCancel(c)
    /\ UNCHANGED <<rows, run, receipt, tail, lease>>

CancelStep(c) == \/ CancelQueued(c) \/ CancelRun(c) \/ CancelJob(c) \/ CancelRelease(c)
                 \/ \E j \in Jobs : CancelRead(c, j)

-----------------------------------------------------------------------------
\* Time passes: the lease was not renewed within its TTL.
Expire ==
    /\ "expire" \in Faults
    /\ lease.live
    /\ lease' = [lease EXCEPT !.live = FALSE]
    /\ UNCHANGED <<rows, run, ledger, receipt, tail, cancel>>

OthersStep ==
    \/ \E r \in Runs : \/ RunStep(r) \/ Orphan(r) \/ TailCrash(r)
                       \/ \E j \in Jobs : PreemptBegin(j, r) \/ PreemptLimit(j, r)
    \/ \E c \in Cancellers : CancelStep(c)
    \/ Expire
=============================================================================
