------------------------------ MODULE Scheduler ------------------------------
(***************************************************************************)
(* run_scheduler_loop and scheduler_tick (capacity/loop.py), with          *)
(* reconcile_jobs and settle_preemption_debts (jobs/service.py), for       *)
(* several scheduler processes over one owner database.  A tick is many    *)
(* transactions; the lease is read before some of them and may be lost     *)
(* between any two.  pc is the transaction a process is about to run.      *)
(***************************************************************************)
EXTENDS OwnerState

CONSTANT Limit    \* the effective global slot limit

ASSUME LimitAssumption == Limit \in Nat

VARIABLES pc,       \* pc[s]
          view,     \* view[s]: jobs s listed as RUNNING, with the run listed
          cache,    \* cache[s]: status_cache of this tick
          todo,     \* todo[s]: jobs left in the loop s is in
          waits,    \* waits[s]: queued jobs s decided not to dispatch
          changes,  \* changes[s]: <<run, "settle" | "release">> still to charge
          debts,    \* debts[s]: RESERVED runs left in the debt scan
          job,      \* job[s], gen[s]: the dispatch s is executing, or the
          gen       \* job it is reconciling with the run listed for it

localVars == <<pc, view, cache, todo, waits, changes, debts, job, gen>>
vars == <<ownerVars, localVars>>

Pcs == {"idle", "renew", "check", "snapshot", "guard", "lookup", "list",
        "reconcile", "apply", "owed", "charge", "debts", "settle", "queued", "plan", "exec",
        "mark", "checkB", "reserve", "checkD", "launch", "undo", "requeue", "wait", "stop"}

NoView == [j \in Jobs |-> NoRun]
Unseen == [r \in Runs |-> "UNSEEN"]

LocalTypeOK ==
    /\ pc \in [Schedulers -> Pcs]
    /\ view \in [Schedulers -> [Jobs -> RunOrNone]]
    /\ cache \in [Schedulers -> [Runs -> Status \union {"UNSEEN"}]]
    /\ todo \in [Schedulers -> SUBSET Jobs]
    /\ waits \in [Schedulers -> SUBSET Jobs]
    /\ changes \in [Schedulers -> SUBSET (Runs \X {"settle", "release"})]
    /\ debts \in [Schedulers -> SUBSET Runs]
    /\ job \in [Schedulers -> Jobs \union {NoJob}]
    /\ gen \in [Schedulers -> RunOrNone]

\* Types of the owner database and of a tick's locals.
TypeOK == OwnerTypeOK /\ LocalTypeOK

Init ==
    /\ OwnerInit
    /\ pc = [s \in Schedulers |-> "idle"]
    /\ view = [s \in Schedulers |-> NoView]
    /\ cache = [s \in Schedulers |-> Unseen]
    /\ todo = [s \in Schedulers |-> {}]
    /\ waits = [s \in Schedulers |-> {}]
    /\ changes = [s \in Schedulers |-> {}]
    /\ debts = [s \in Schedulers |-> {}]
    /\ job = [s \in Schedulers |-> NoJob]
    /\ gen = [s \in Schedulers |-> NoRun]

Goto(s, label) == pc' = [pc EXCEPT ![s] = label]
Set(f, s, value) == [f EXCEPT ![s] = value]

\* The tick is over: its locals are gone.
Return(s, label) ==
    /\ Goto(s, label)
    /\ view' = Set(view, s, NoView)
    /\ cache' = Set(cache, s, Unseen)
    /\ todo' = Set(todo, s, {})
    /\ waits' = Set(waits, s, {})
    /\ changes' = Set(changes, s, {})
    /\ debts' = Set(debts, s, {})
    /\ job' = Set(job, s, NoJob)
    /\ gen' = Set(gen, s, NoRun)

-----------------------------------------------------------------------------
(* The lease.  A process draws a fresh holder id and acquires once, so the *)
(* holder alone tells generations of the lease apart and the fencing token *)
(* adds nothing.  A restarted process is the same s: the row of its crashed *)
(* predecessor names an id nobody uses any more, which is NoHolder.        *)

\* Mutant: a live lease, whoever holds it.
CheckAnyLease(s) == lease.live

\* check_lease and _lease_still_valid.
CheckLease(s) == lease.holder = s /\ lease.live

Acquire(s) ==
    /\ pc[s] = "idle"
    /\ ~lease.live
    /\ lease' = [holder |-> s, live |-> TRUE]
    /\ Goto(s, "renew")
    /\ UNCHANGED <<rows, run, ledger, receipt, tail, cancel,
                   view, cache, todo, waits, changes, debts, job, gen>>

\* renew_lease revives an expired lease nobody took over.
Renew(s) ==
    /\ pc[s] = "renew"
    /\ IF lease.holder = s THEN lease' = [lease EXCEPT !.live = TRUE] /\ Goto(s, "check")
                           ELSE UNCHANGED lease /\ Goto(s, "stop")
    /\ UNCHANGED <<rows, run, ledger, receipt, tail, cancel,
                   view, cache, todo, waits, changes, debts, job, gen>>

\* release_lease deletes the row if it is ours; the process ends.
ReleaseLease(s) ==
    /\ pc[s] = "stop"
    /\ lease' = IF lease.holder = s THEN NoLease ELSE lease
    /\ Goto(s, "idle")
    /\ UNCHANGED <<rows, run, ledger, receipt, tail, cancel,
                   view, cache, todo, waits, changes, debts, job, gen>>

\* Between ticks: the next one, or the stop event.
Wait(s) ==
    /\ pc[s] = "wait"
    /\ Goto(s, "renew") \/ Goto(s, "stop")
    /\ UNCHANGED <<ownerVars, view, cache, todo, waits, changes, debts, job, gen>>

Crash(s) ==
    /\ "crash" \in Faults
    /\ pc[s] # "idle"
    /\ lease' = IF lease.holder = s THEN [lease EXCEPT !.holder = NoHolder] ELSE lease
    /\ Return(s, "idle")
    /\ UNCHANGED <<rows, run, ledger, receipt, tail, cancel>>

\* A read error, or launch_guard at the start, ends the tick without a write.
Abandon(s) ==
    /\ "readError" \in Faults
    /\ pc[s] \in {"check", "snapshot", "guard", "debts", "plan"}
    /\ Return(s, "stop")
    /\ UNCHANGED ownerVars

-----------------------------------------------------------------------------
(* Step 0: refuse the tick unless every RUNNING job is accounted for.      *)

TickBegin(s) ==
    /\ pc[s] = "check"
    /\ Goto(s, IF CheckLease(s) THEN "snapshot" ELSE "stop")
    /\ UNCHANGED <<ownerVars, view, cache, todo, waits, changes, debts, job, gen>>

\* list_jobs_raw(RUNNING).
Running == {j \in Jobs : rows[j].state = "RUNNING"}
Listed == [j \in Jobs |-> IF j \in Running THEN rows[j].run ELSE NoRun]

Snapshot(s) ==
    /\ pc[s] = "snapshot"
    /\ view' = Set(view, s, Listed)
    /\ todo' = Set(todo, s, Running)
    /\ Goto(s, "guard")
    /\ UNCHANGED <<ownerVars, cache, waits, changes, debts, job, gen>>

\* legacy_running_without_reservation holds the tick.
Guard(s) ==
    /\ pc[s] = "guard"
    /\ IF \A j \in todo[s] : ledger[view[s][j]] = "RESERVED"
       THEN Goto(s, "lookup") /\ UNCHANGED <<view, cache, todo, waits, changes, debts, job, gen>>
       ELSE Return(s, "stop")
    /\ UNCHANGED ownerVars

\* tick_status: the first lookup of a run is kept for the whole tick.
Memo(s, r) == IF cache[s][r] = "UNSEEN" THEN run[r] ELSE cache[s][r]
Memoise(s, r) == cache' = [cache EXCEPT ![s][r] = Memo(s, r)]

\* running_run_status_unresolved holds the tick.
Lookup(s, j) ==
    /\ pc[s] = "lookup" /\ j \in todo[s]
    /\ Memoise(s, view[s][j])
    /\ todo' = [todo EXCEPT ![s] = @ \ {j}]
    /\ UNCHANGED <<ownerVars, pc, view, waits, changes, debts, job, gen>>

LookupEnd(s) ==
    /\ pc[s] = "lookup" /\ todo[s] = {}
    /\ IF \E j \in Jobs : view[s][j] # NoRun /\ cache[s][view[s][j]] = "ABSENT"
       THEN Return(s, "stop")
       ELSE Goto(s, "list") /\ UNCHANGED <<view, cache, todo, waits, changes, debts, job, gen>>
    /\ UNCHANGED ownerVars

-----------------------------------------------------------------------------
(* Step 1: reconcile_jobs lists the RUNNING jobs again.                    *)

ReconcileList(s) ==
    /\ pc[s] = "list"
    /\ view' = Set(view, s, Listed)
    /\ todo' = Set(todo, s, Running)
    /\ Goto(s, "reconcile")
    /\ UNCHANGED <<ownerVars, cache, waits, changes, debts, job, gen>>

\* The next job of the list; a run the guard did not look up is looked up now.
ReconcileNext(s, j) ==
    /\ pc[s] = "reconcile" /\ j \in todo[s]
    /\ Memoise(s, view[s][j])
    /\ todo' = [todo EXCEPT ![s] = @ \ {j}]
    /\ job' = Set(job, s, j) /\ gen' = Set(gen, s, view[s][j])
    /\ Goto(s, "apply")
    /\ UNCHANGED <<ownerVars, view, waits, changes, debts>>

\* What a run's status makes of its job: <<status, state, reason, charge>>.
Outcomes == { <<"ABSENT",    "FAILED",    "RUN_MISSING", "release">>,
              <<"COMPLETED", "SUCCEEDED", "NONE",        "settle">>,
              <<"FAILED",    "FAILED",    "RUN_FAILED",  "release">> }

\* On to the next job of the list.
Reconciled(s) ==
    Goto(s, "reconcile") /\ job' = Set(job, s, NoJob) /\ gen' = Set(gen, s, NoRun)

\* Mutant: preempted runs are left to their own process.
ReconcileSkipPreempted(s) ==
    /\ pc[s] = "apply"
    /\ cache[s][gen[s]] \in {"PENDING", "RUNNING", "ORPHANED", "PREEMPTED"}
    /\ Reconciled(s)
    /\ UNCHANGED <<ownerVars, view, cache, todo, waits, changes, debts>>

\* PENDING, RUNNING and ORPHANED runs leave the job alone.
ReconcileSkip(s) ==
    /\ pc[s] = "apply"
    /\ cache[s][gen[s]] \in {"PENDING", "RUNNING", "ORPHANED"}
    /\ Reconciled(s)
    /\ UNCHANGED <<ownerVars, view, cache, todo, waits, changes, debts>>

ReconcileJob(s) ==
    /\ pc[s] = "apply"
    /\ \E o \in Outcomes :
          /\ cache[s][gen[s]] = o[1]
          /\ Reconcile(job[s], o[2], o[3])
          /\ changes' = [changes EXCEPT ![s] =
                IF job[s] \in Running THEN @ \union {<<gen[s], o[4]>>} ELSE @]
    /\ Reconciled(s)
    /\ UNCHANGED <<run, ledger, receipt, tail, lease, cancel, view, cache, todo, waits, debts>>

\* complete_preemption for a PREEMPTED run.  A job that left the generation is
\* not touched; one already parked for this run counts as a change all the same.
ReconcilePreempted(s) ==
    LET j == job[s]
        r == gen[s]
    IN /\ pc[s] = "apply"
       /\ cache[s][r] = "PREEMPTED"
       /\ IF Generation(j, r)
          THEN /\ Park(j, r) \/ ("busy" \in Faults /\ UNCHANGED rows)
               /\ Goto(s, "owed")
               /\ UNCHANGED <<job, gen>>
          ELSE UNCHANGED rows /\ Reconciled(s)
       /\ changes' = [changes EXCEPT ![s] =
             IF \/ Generation(j, r)
                \/ rows[j].waiting = "PREEMPTED" /\ rows[j].resume = r
             THEN @ \union {<<r, "release">>} ELSE @]
       /\ UNCHANGED <<run, ledger, receipt, tail, lease, cancel, view, cache, todo, waits, debts>>

\* release_terminal_debt at the end of complete_preemption.
ReconcileOwed(s) ==
    /\ pc[s] = "owed"
    /\ Release(gen[s])
    /\ Reconciled(s)
    /\ UNCHANGED <<rows, run, receipt, tail, lease, cancel,
                   view, cache, todo, waits, changes, debts>>

ReconcileEnd(s) ==
    /\ pc[s] = "reconcile" /\ todo[s] = {}
    /\ Goto(s, "charge")
    /\ UNCHANGED <<ownerVars, view, cache, todo, waits, changes, debts, job, gen>>

\* settle or release, one change at a time.
Charge(s, change) ==
    /\ pc[s] = "charge" /\ change \in changes[s]
    /\ IF change[2] = "settle" THEN Settle(change[1]) ELSE Release(change[1])
    /\ changes' = [changes EXCEPT ![s] = @ \ {change}]
    /\ UNCHANGED <<rows, run, receipt, tail, lease, cancel,
                   pc, view, cache, todo, waits, debts, job, gen>>

ChargeEnd(s) ==
    /\ pc[s] = "charge" /\ changes[s] = {}
    /\ Goto(s, "debts")
    /\ UNCHANGED <<ownerVars, view, cache, todo, waits, changes, debts, job, gen>>

-----------------------------------------------------------------------------
(* Step 1b: settle_preemption_debts, for reservations no RUNNING job shows. *)

DebtScan(s) ==
    /\ pc[s] = "debts"
    /\ debts' = Set(debts, s, {r \in Runs : ledger[r] = "RESERVED"})
    /\ Goto(s, "settle")
    /\ UNCHANGED <<ownerVars, view, cache, todo, waits, changes, job, gen>>

\* Mutant: the parked job's count is compared with the count before.
AuthenticUncounted(j, r) ==
    \/ receipt[r].kind = "LIMIT"
    \/ receipt[r].kind = "DECISION" /\ receipt[r].before = rows[j].preemptions

\* _run_has_authentic_d8_receipt: the decision is bound to the count the job
\* had, taken as one less than now once the run is no longer its generation.
Authentic(j, r) ==
    \/ receipt[r].kind = "LIMIT"
    \/ /\ receipt[r].kind = "DECISION"
       /\ receipt[r].before = rows[j].preemptions - (IF Generation(j, r) THEN 0 ELSE 1)

\* The status, the job and the receipt of a dead generation do not change any
\* more, so reading them and the fenced release are one step here.
Debt(s, r) ==
    /\ pc[s] = "settle" /\ r \in debts[s]
    /\ IF /\ run[r] \in {"FAILED", "ORPHANED", "PREEMPTED"}
          /\ Memo(s, r) \in {run[r], "ABSENT"}
          /\ \E j \in Jobs : /\ r \in rows[j].run_ids
                             /\ ~Generation(j, r)
                             /\ Authentic(j, r)
          /\ CheckLease(s)
       THEN Release(r) ELSE UNCHANGED ledger
    /\ debts' = [debts EXCEPT ![s] = @ \ {r}]
    /\ UNCHANGED <<rows, run, receipt, tail, lease, cancel,
                   pc, view, cache, todo, waits, changes, job, gen>>

\* The listing and the status cache are not read again in this tick.
DebtEnd(s) ==
    /\ pc[s] = "settle" /\ debts[s] = {}
    /\ Goto(s, "queued")
    /\ view' = Set(view, s, NoView)
    /\ cache' = Set(cache, s, Unseen)
    /\ UNCHANGED <<ownerVars, todo, waits, changes, debts, job, gen>>

-----------------------------------------------------------------------------
(* Steps 2 to 4: list, schedule, dispatch.                                 *)

ReadQueued(s) ==
    /\ pc[s] = "queued"
    /\ todo' = Set(todo, s, {j \in Jobs : rows[j].state = "QUEUED"})
    /\ Goto(s, "plan")
    /\ UNCHANGED <<ownerVars, view, cache, waits, changes, debts, job, gen>>

\* schedule() may choose any queued jobs, never more than the free slots.
Plan(s) ==
    /\ pc[s] = "plan"
    /\ \E chosen \in SUBSET todo[s] :
          /\ Cardinality(chosen) + Cardinality(Running) <= Limit \/ chosen = {}
          /\ todo' = Set(todo, s, chosen)
          /\ waits' = Set(waits, s, todo[s] \ chosen)
    /\ Goto(s, "exec")
    /\ UNCHANGED <<ownerVars, view, cache, changes, debts, job, gen>>

\* set_waiting, unless the job moved.
ExecWait(s, j) ==
    /\ pc[s] = "exec" /\ j \in waits[s]
    /\ IF rows[j].state = "QUEUED" THEN SetRow(j, SetWaiting(rows[j], "CONCURRENCY"))
                                   ELSE UNCHANGED rows
    /\ waits' = [waits EXCEPT ![s] = @ \ {j}]
    /\ UNCHANGED <<run, ledger, receipt, tail, lease, cancel,
                   pc, view, cache, todo, changes, debts, job, gen>>

\* A uuid: no job, and no scheduler, ever drew it.
Unused(r) == /\ \A j \in Jobs : r \notin rows[j].run_ids
             /\ \A s \in Schedulers : gen[s] # r

\* Leaving the loop over the decisions.
Break(s) == todo' = Set(todo, s, {}) /\ waits' = Set(waits, s, {})

ExecDispatch(s, j, r) ==
    /\ pc[s] = "exec" /\ j \in todo[s] /\ Unused(r)
    /\ IF CheckLease(s)
       THEN /\ job' = Set(job, s, j) /\ gen' = Set(gen, s, r)
            /\ todo' = [todo EXCEPT ![s] = @ \ {j}]
            /\ Goto(s, "mark")
            /\ UNCHANGED waits
       ELSE Break(s) /\ UNCHANGED <<pc, job, gen>>
    /\ UNCHANGED <<ownerVars, view, cache, changes, debts>>

\* The loop ends; the model also ends it when it has no run left to draw.
ExecEnd(s) ==
    /\ pc[s] = "exec" /\ waits[s] = {}
    /\ todo[s] = {} \/ \A r \in Runs : ~Unused(r)
    /\ Return(s, "wait")
    /\ UNCHANGED ownerVars

\* Back to the loop with the next decision.
Continue(s) == Goto(s, "exec") /\ job' = Set(job, s, NoJob) /\ gen' = Set(gen, s, NoRun)

\* Mutant: a job that is no longer QUEUED is dispatched again.
MarkUnchecked(s) ==
    /\ pc[s] = "mark"
    /\ SetRow(job[s], MarkDispatched(rows[job[s]], gen[s]))
    /\ Goto(s, "checkB")
    /\ UNCHANGED <<run, ledger, receipt, tail, lease, cancel,
                   view, cache, todo, waits, changes, debts, job, gen>>

\* Step A.
Mark(s) ==
    /\ pc[s] = "mark"
    /\ IF rows[job[s]].state = "QUEUED"
       THEN /\ SetRow(job[s], MarkDispatched(rows[job[s]], gen[s]))
            /\ Goto(s, "checkB")
            /\ UNCHANGED <<job, gen>>
       ELSE UNCHANGED rows /\ Continue(s)
    /\ UNCHANGED <<run, ledger, receipt, tail, lease, cancel,
                   view, cache, todo, waits, changes, debts>>

\* Step B.
CheckB(s) ==
    /\ pc[s] = "checkB"
    /\ IF CheckLease(s) THEN Goto(s, "reserve") /\ UNCHANGED <<todo, waits>>
                        ELSE Goto(s, "requeue") /\ Break(s)
    /\ UNCHANGED <<ownerVars, view, cache, changes, debts, job, gen>>

\* Mutant: a failed reservation does not stop the dispatch.
ReserveRunOrGoOn(s) ==
    /\ pc[s] = "reserve"
    /\ \/ ledger' = [ledger EXCEPT ![gen[s]] = "RESERVED"]
       \/ "reserveError" \in Faults /\ UNCHANGED ledger
    /\ Goto(s, "checkD")
    /\ UNCHANGED <<rows, run, receipt, tail, lease, cancel,
                   view, cache, todo, waits, changes, debts, job, gen>>

\* Step C.
ReserveRun(s) ==
    /\ pc[s] = "reserve"
    /\ \/ ledger' = [ledger EXCEPT ![gen[s]] = "RESERVED"] /\ Goto(s, "checkD")
       \/ "reserveError" \in Faults /\ UNCHANGED ledger /\ Goto(s, "undo")
    /\ UNCHANGED <<rows, run, receipt, tail, lease, cancel,
                   view, cache, todo, waits, changes, debts, job, gen>>

\* Step D.
CheckD(s) ==
    /\ pc[s] = "checkD"
    /\ IF CheckLease(s) THEN Goto(s, "launch") /\ UNCHANGED <<todo, waits>>
                        ELSE Goto(s, "undo") /\ Break(s)
    /\ UNCHANGED <<ownerVars, view, cache, changes, debts, job, gen>>

\* Mutant: an exception after the run row exists is compensated as well.
LaunchUndone(s) ==
    /\ pc[s] = "launch"
    /\ SetRun(gen[s], "PENDING")
    /\ Continue(s) \/ (Goto(s, "undo") /\ UNCHANGED <<job, gen>>)
    /\ UNCHANGED <<rows, ledger, receipt, tail, lease, cancel,
                   view, cache, todo, waits, changes, debts>>

\* Step E: the launcher creates the run row first; an exception after that
\* leaves the job RUNNING, one before it is compensated.
Launch(s) ==
    /\ pc[s] = "launch"
    /\ \/ SetRun(gen[s], "PENDING") /\ Continue(s)
       \/ "launchError" \in Faults /\ Goto(s, "undo") /\ UNCHANGED <<run, job, gen>>
    /\ UNCHANGED <<rows, ledger, receipt, tail, lease, cancel,
                   view, cache, todo, waits, changes, debts>>

\* Compensation: release, then requeue, whose exceptions are swallowed.
Undo(s) ==
    /\ pc[s] = "undo"
    /\ Release(gen[s])
    /\ Goto(s, "requeue")
    /\ UNCHANGED <<rows, run, receipt, tail, lease, cancel,
                   view, cache, todo, waits, changes, debts, job, gen>>

RequeueDispatch(s) ==
    LET j == job[s] IN
    /\ pc[s] = "requeue"
    /\ \/ IF rows[j].state = "RUNNING" THEN SetRow(j, Requeue(rows[j], "NO_CAPACITY", NoRun))
                                       ELSE UNCHANGED rows
       \/ "busy" \in Faults /\ UNCHANGED rows
    /\ Continue(s)
    /\ UNCHANGED <<run, ledger, receipt, tail, lease, cancel,
                   view, cache, todo, waits, changes, debts>>

-----------------------------------------------------------------------------

TickStep(s) ==
    \/ Acquire(s) \/ Renew(s) \/ ReleaseLease(s) \/ Wait(s) \/ TickBegin(s)
    \/ Snapshot(s) \/ Guard(s) \/ LookupEnd(s)
    \/ ReconcileList(s) \/ ReconcileSkip(s) \/ ReconcileJob(s) \/ ReconcilePreempted(s)
    \/ ReconcileOwed(s) \/ ReconcileEnd(s) \/ ChargeEnd(s)
    \/ DebtScan(s) \/ DebtEnd(s) \/ ReadQueued(s) \/ Plan(s) \/ ExecEnd(s)
    \/ Mark(s) \/ CheckB(s) \/ ReserveRun(s) \/ CheckD(s) \/ Launch(s) \/ Undo(s)
    \/ RequeueDispatch(s)
    \/ \E j \in Jobs : \/ Lookup(s, j) \/ ReconcileNext(s, j) \/ ExecWait(s, j)
                       \/ \E r \in Runs : ExecDispatch(s, j, r)
    \/ \E change \in changes[s] : Charge(s, change)
    \/ \E r \in Runs : Debt(s, r)

Next ==
    \/ \E s \in Schedulers : TickStep(s) \/ Crash(s) \/ Abandon(s)
    \/ OthersStep /\ UNCHANGED localVars

Spec == Init /\ [][Next]_vars

-----------------------------------------------------------------------------
(* Properties.                                                             *)

\* A job is never worked on by two runs at once: whatever schedulers, lease
\* losses, compensations and recoveries interleave, the only run of a job's
\* lineage that may be PENDING or RUNNING is the one the job is attached to, so
\* a QUEUED job has none.
OnlyCurrentRunLives ==
    \A j \in Jobs : \A r \in rows[j].run_ids : Live(r) => rows[j].run = r

\* Occupancy is truthful: while a job is RUNNING on a run that exists, the
\* run's reservation stays RESERVED.  Pool admission counts only RESERVED rows.
LiveGenerationCharged ==
    \A j \in Running : run[rows[j].run] # "ABSENT" => ledger[rows[j].run] = "RESERVED"

\* The global ceiling holds across schedulers although the lease is checked
\* before the writes it protects: never more launched jobs than slots.
LaunchCeiling ==
    Cardinality({j \in Running : run[rows[j].run] # "ABSENT"}) <= Limit

\* A preemption is counted once, whoever completes it - the run's process, the
\* supervisor or a tick - and the bound is kept.
PreemptedRuns(j) == {r \in rows[j].run_ids : run[r] = "PREEMPTED"}
PreemptionsCounted ==
    \A j \in Jobs :
        /\ rows[j].preemptions <= MaxPreemptions
        /\ rows[j].preemptions <= Cardinality(PreemptedRuns(j))
        /\ rows[j].state = "QUEUED" => rows[j].preemptions = Cardinality(PreemptedRuns(j))

\* cancel_job stops the run first: no run works for a cancelled job.
CancelledJobsAreStill ==
    \A j \in Jobs : rows[j].state = "CANCELLED" => \A r \in rows[j].run_ids : ~Live(r)

\* A job is failed as RUN_MISSING only if its run never existed.
MissingRunsAreMissing ==
    \A j \in Jobs : rows[j].failure = "RUN_MISSING" => run[rows[j].run] = "ABSENT"

\* A job waiting after a preemption still has the capsule of the preempted run.
CapsulesSurvive ==
    \A j \in Jobs : rows[j].state = "QUEUED" /\ rows[j].preemptions > 0
                        => rows[j].resume # NoRun

\* The life of every job, as the store promises it, under schedulers.
Lifecycle == INSTANCE JobLifecycle WITH
    phase   <- [j \in Jobs |-> rows[j].state],
    runner  <- [j \in Jobs |-> rows[j].run],
    lineage <- [j \in Jobs |-> rows[j].run_ids]

ImplementsLifecycle == Lifecycle!Spec

\* The scheduler process keeps running (or is started again) and a run ends:
\* its attempts, gates and processes have time limits.  A preemption the
\* supervisor resumes again and again is not killed every time (SF).  A run
\* need not be preempted, nor a job cancelled.
Fairness == /\ \A s \in Schedulers : WF_vars(TickStep(s))
            /\ \A r \in Runs : /\ WF_vars(RunStep(r) /\ UNCHANGED localVars)
                               /\ SF_vars(PreemptRun(r) /\ UNCHANGED localVars)

FairSpec == Spec /\ Fairness

\* Capacity is not lost: every reservation is settled or released in the end.
DebtsAreSettled ==
    \A r \in Runs : ledger[r] = "RESERVED" ~> ledger[r] # "RESERVED"

\* A dispatched job does not hold its global slot for ever.
JobsLeaveRunning ==
    \A j \in Jobs : rows[j].state = "RUNNING" ~> rows[j].state # "RUNNING"
=============================================================================
