---------------------------- MODULE Scheduler_proofs ----------------------------
(***************************************************************************)
(* What holds of the schedulers for every number of jobs, runs, scheduler  *)
(* processes and cancellers, every limit and every set of faults: the      *)
(* types, and that a job is never worked on by two runs.                   *)
(***************************************************************************)
EXTENDS Scheduler, JobRows_proofs

-----------------------------------------------------------------------------
(* The inductive invariant.                                                *)

\* What a process holds while it executes a dispatch.
Marked == {"checkB", "reserve", "checkD", "launch", "undo", "requeue"}
Dispatching == Marked \union {"mark"}

\* The locals a step is about to use are there.
LocalsFit ==
    \A s \in Schedulers :
        /\ pc[s] \in Dispatching \union {"apply", "owed"} => job[s] \in Jobs /\ gen[s] \in Runs
        /\ pc[s] \in {"guard", "lookup", "reconcile", "apply", "owed"} =>
              \A j \in todo[s] : view[s][j] \in Runs

CancelsFit ==
    \A c \in Cancellers :
        /\ cancel[c].pc # "idle" => cancel[c].job \in Jobs
        /\ cancel[c].pc \in {"running", "transition", "release"} => cancel[c].run \in Runs

\* Every row can be read back, and a job's run is in its run list.
RowsFit ==
    \A j \in Jobs : /\ rows[j].state # "ABSENT"
                    /\ Materialises(rows[j])
                    /\ rows[j].run # NoRun => rows[j].run \in rows[j].run_ids

TypeInv == TypeOK /\ LocalsFit /\ CancelsFit /\ RowsFit

\* No run belongs to two jobs, and every run belongs to one.
LineagesDisjoint ==
    \A i, j \in Jobs : i # j => rows[i].run_ids \intersect rows[j].run_ids = {}
RunsDispatched ==
    \A r \in Runs : run[r] # "ABSENT" => \E j \in Jobs : r \in rows[j].run_ids

\* A run being preempted is running until it is PREEMPTED, and a PREEMPTED
\* run stays so.
TailsFit ==
    \A r \in Runs :
        /\ tail[r] \in {"decided", "park"} => receipt[r].kind = "DECISION"
        /\ tail[r] = "decided" => run[r] = "RUNNING"
        /\ tail[r] = "park" => run[r] = "PREEMPTED"
CachesFit ==
    \A s \in Schedulers, r \in Runs : cache[s][r] = "PREEMPTED" => run[r] = "PREEMPTED"

\* A dispatch owns its run: nobody else draws it, and from mark_dispatched to
\* the launch it has no row and the job is attached to it.
RunsDrawnOnce ==
    \A s, t \in Schedulers :
        s # t /\ pc[s] \in Dispatching /\ pc[t] \in Dispatching => gen[s] # gen[t]
DrawnRunsAreNew ==
    \A s \in Schedulers : pc[s] = "mark" => \A j \in Jobs : gen[s] \notin rows[j].run_ids
MarkedRunsWait ==
    \A s \in Schedulers : pc[s] \in Marked =>
        rows[job[s]].run = gen[s] /\ run[gen[s]] = "ABSENT"

\* Split by who must look after them: the owner database and the locals.
OwnerRuns == LineagesDisjoint /\ RunsDispatched /\ OnlyCurrentRunLives /\ TailsFit
LocalRuns == CachesFit /\ RunsDrawnOnce /\ DrawnRunsAreNew /\ MarkedRunsWait

IInv == TypeInv /\ OwnerRuns /\ LocalRuns

-----------------------------------------------------------------------------
(* Writes to a row.                                                        *)

LEMMA RowWrite ==
    ASSUME TypeOK, RowsFit, NEW j \in Jobs, NEW row \in JobRow,
           row.state # "ABSENT", Materialises(row),
           row.run # NoRun => row.run \in row.run_ids, SetRow(j, row)
    PROVE  /\ rows' \in [Jobs -> JobRow]
           /\ RowsFit'
           /\ rows'[j] = row
           /\ \A i \in Jobs : i # j => rows'[i] = rows[i]
<1>1. /\ rows' \in [Jobs -> JobRow]
      /\ rows'[j] = row
      /\ \A i \in Jobs : i # j => rows'[i] = rows[i]
  BY DEF SetRow, TypeOK, OwnerTypeOK
<1> QED BY <1>1 DEF RowsFit

\* Every job keeps its run and its run list.
RunsKept == \A i \in Jobs : rows'[i].run = rows[i].run /\ rows'[i].run_ids = rows[i].run_ids

LEMMA NoRowWrite ==
    ASSUME RowsFit, UNCHANGED rows
    PROVE  RowsFit' /\ RunsKept
BY DEF RowsFit, RunsKept

LEMMA CancelWrite ==
    ASSUME TypeOK, RowsFit, NEW j \in Jobs, CancelTransaction(j)
    PROVE  rows' \in [Jobs -> JobRow] /\ RowsFit' /\ RunsKept
<1>1. rows[j] \in JobRow /\ Materialises(rows[j])
  BY DEF TypeOK, OwnerTypeOK, RowsFit
<1>2. CASE rows[j].state \in {"QUEUED", "RUNNING"}
  <2> DEFINE row == CancelTransition(rows[j])
  <2>1. row \in JobRow /\ Materialises(row)
    BY <1>1, <1>2, CancelledRow
  <2>2. row.run = rows[j].run /\ row.run_ids = rows[j].run_ids /\ row.state = "CANCELLED"
    BY <1>1 DEF CancelTransition, JobRow
  <2>3. SetRow(j, row)
    BY <1>2 DEF CancelTransaction
  <2> HIDE DEF row
  <2>4. row.run # NoRun => row.run \in row.run_ids
    BY <2>2 DEF RowsFit
  <2> QED BY <2>1, <2>2, <2>3, <2>4, RowWrite DEF RunsKept
<1>3. CASE rows[j].state \notin {"QUEUED", "RUNNING"}
  BY <1>3, NoRowWrite DEF CancelTransaction, TypeOK, OwnerTypeOK
<1> QED BY <1>2, <1>3

LEMMA ReconcileWrite ==
    ASSUME TypeOK, RowsFit, NEW j \in Jobs, NEW to \in {"SUCCEEDED", "FAILED"},
           NEW reason \in FAILURE_REASONS \union {"NONE"}, to = "FAILED" <=> reason # "NONE",
           Reconcile(j, to, reason)
    PROVE  rows' \in [Jobs -> JobRow] /\ RowsFit' /\ RunsKept
<1>1. rows[j] \in JobRow /\ Materialises(rows[j])
  BY DEF TypeOK, OwnerTypeOK, RowsFit
<1>2. CASE rows[j].state = "RUNNING"
  <2> DEFINE row == ReconcileTransition(rows[j], to, reason)
  <2>1. row \in JobRow /\ Materialises(row)
    BY <1>1, <1>2, ReconciledRow
  <2>2. row.run = rows[j].run /\ row.run_ids = rows[j].run_ids /\ row.state = to
    BY <1>1 DEF ReconcileTransition, JobRow
  <2>3. SetRow(j, row)
    BY <1>2 DEF Reconcile
  <2> HIDE DEF row
  <2>4. row.run # NoRun => row.run \in row.run_ids
    BY <2>2 DEF RowsFit
  <2> QED BY <2>1, <2>2, <2>3, <2>4, RowWrite DEF RunsKept
<1>3. CASE rows[j].state # "RUNNING"
  BY <1>3, NoRowWrite DEF Reconcile, TypeOK, OwnerTypeOK
<1> QED BY <1>2, <1>3

LEMMA WaitingWrite ==
    ASSUME TypeOK, RowsFit, NEW j \in Jobs, rows[j].state = "QUEUED",
           SetRow(j, SetWaiting(rows[j], "CONCURRENCY"))
    PROVE  rows' \in [Jobs -> JobRow] /\ RowsFit' /\ RunsKept
<1> DEFINE row == SetWaiting(rows[j], "CONCURRENCY")
<1>1. rows[j] \in JobRow /\ Materialises(rows[j]) /\ "CONCURRENCY" \in WaitingReason
  BY DEF TypeOK, OwnerTypeOK, RowsFit, WaitingReason
<1>2. row \in JobRow /\ Materialises(row) /\ row.state = "QUEUED"
  BY <1>1, WaitingRow
<1>3. row.run = rows[j].run /\ row.run_ids = rows[j].run_ids
  BY <1>1 DEF SetWaiting, JobRow
<1> HIDE DEF row
<1>4. row.run # NoRun => row.run \in row.run_ids
  BY <1>3 DEF RowsFit
<1> QED BY <1>2, <1>3, <1>4, RowWrite DEF RunsKept, row

\* A requeue takes the run from the job and keeps the run list.
Requeued(j) ==
    /\ rows'[j].run = NoRun
    /\ \A i \in Jobs : /\ rows'[i].run_ids = rows[i].run_ids
                       /\ i # j => rows'[i].run = rows[i].run

LEMMA RequeueWrite ==
    ASSUME TypeOK, RowsFit, NEW j \in Jobs, rows[j].state = "RUNNING",
           NEW reason \in WaitingReason, NEW resume \in RunOrNone,
           SetRow(j, Requeue(rows[j], reason, resume))
    PROVE  rows' \in [Jobs -> JobRow] /\ RowsFit' /\ Requeued(j)
<1> DEFINE row == Requeue(rows[j], reason, resume)
<1>1. rows[j] \in JobRow /\ Materialises(rows[j])
  BY DEF TypeOK, OwnerTypeOK, RowsFit
<1>2. row \in JobRow /\ Materialises(row)
  BY <1>1, RequeuedRow
<1>3. row.run = NoRun /\ row.run_ids = rows[j].run_ids /\ row.state = "QUEUED"
  BY <1>1 DEF Requeue, JobRow
<1> HIDE DEF row
<1> QED BY <1>2, <1>3, RowWrite DEF Requeued, row

LEMMA DispatchWrite ==
    ASSUME TypeOK, RowsFit, NEW j \in Jobs, rows[j].state = "QUEUED", NEW r \in Runs,
           SetRow(j, MarkDispatched(rows[j], r))
    PROVE  /\ rows' \in [Jobs -> JobRow] /\ RowsFit'
           /\ rows[j].run = NoRun /\ rows'[j].run = r
           /\ rows'[j].run_ids = rows[j].run_ids \union {r}
           /\ \A i \in Jobs : i # j => rows'[i] = rows[i]
<1> DEFINE row == MarkDispatched(rows[j], r)
<1>1. rows[j] \in JobRow /\ Materialises(rows[j])
  BY DEF TypeOK, OwnerTypeOK, RowsFit
<1>2. row \in JobRow /\ Materialises(row)
  BY <1>1, DispatchedRow
<1>3. row.run = r /\ row.run_ids = rows[j].run_ids \union {r} /\ row.state = "RUNNING"
  BY <1>1 DEF MarkDispatched, JobRow
<1>4. rows[j].run = NoRun
  BY <1>1 DEF Materialises
<1> HIDE DEF row
<1> QED BY <1>2, <1>3, <1>4, RowWrite DEF row

-----------------------------------------------------------------------------
(* Types.                                                                  *)

LEMMA InitTypes == Init => TypeInv
<1> SUFFICES ASSUME Init PROVE TypeInv
  OBVIOUS
<1> USE DEF Init, OwnerInit
<1>1. QueuedJob \in JobRow /\ Materialises(QueuedJob) /\ QueuedJob.state # "ABSENT"
  BY SubmittedRows
<1>2. QueuedJob.run = NoRun
  BY DEF QueuedJob, NoRow
<1>3. OwnerTypeOK
  BY <1>1 DEF OwnerTypeOK, Status, RunStatus, Receipts, NoReceipt, NoLease, NotCancelling,
              RunOrNone
<1>4. TypeOK
  BY <1>3 DEF TypeOK, LocalTypeOK, Pcs, NoView, Unseen, RunOrNone
<1>5. LocalsFit /\ CancelsFit
  BY DEF LocalsFit, CancelsFit, Dispatching, Marked, NotCancelling
<1>6. RowsFit
  BY <1>1, <1>2 DEF RowsFit
<1> QED BY <1>4, <1>5, <1>6 DEF TypeInv

\* A step of a tick that writes no row.
LEMMA TickTypes ==
    ASSUME TypeInv, UNCHANGED <<rows, cancel>>, OwnerTypeOK', LocalTypeOK', LocalsFit'
    PROVE  TypeInv'
BY NoRowWrite DEF TypeInv, TypeOK, CancelsFit

LEMMA OwnerKept ==
    ASSUME TypeInv, UNCHANGED ownerVars
    PROVE  OwnerTypeOK' /\ UNCHANGED <<rows, cancel>>
BY DEF TypeInv, TypeOK, OwnerTypeOK, ownerVars

\* A step that only moves on, to a place that needs nothing more.
LEMMA GotoTypes ==
    ASSUME TypeInv, NEW s \in Schedulers, NEW label \in Pcs, Goto(s, label),
           UNCHANGED <<view, cache, todo, waits, changes, debts, job, gen>>,
           label \in Dispatching => pc[s] \in Dispatching,
           label \in {"guard", "lookup", "reconcile"} =>
                \A j \in todo[s] : view[s][j] \in Runs,
           label \notin {"apply", "owed"}
    PROVE  LocalTypeOK' /\ LocalsFit'
<1> USE DEF TypeInv, TypeOK
<1>1. pc' = [pc EXCEPT ![s] = label]
  BY DEF Goto
<1>2. LocalTypeOK'
  BY <1>1 DEF LocalTypeOK
<1>3. LocalsFit'
  BY <1>1 DEF LocalTypeOK, LocalsFit
<1> QED BY <1>2, <1>3

\* The end of a tick.
LEMMA ReturnTypes ==
    ASSUME TypeInv, NEW s \in Schedulers, NEW label \in {"idle", "stop", "wait"},
           Return(s, label)
    PROVE  LocalTypeOK' /\ LocalsFit'
<1> USE DEF TypeInv, TypeOK
<1>1. LocalTypeOK'
  BY DEF Return, Goto, Set, LocalTypeOK, Pcs, NoView, Unseen, RunOrNone
<1>2. LocalsFit'
  BY DEF Return, Goto, Set, LocalTypeOK, LocalsFit, Dispatching, Marked
<1> QED BY <1>1, <1>2

\* The end of a dispatch or of the reconciliation of a job.
LEMMA LetGoTypes ==
    ASSUME TypeInv, NEW s \in Schedulers, NEW label \in {"reconcile", "exec"},
           label = "reconcile" => pc[s] \in {"apply", "owed"},
           Goto(s, label), job' = Set(job, s, NoJob), gen' = Set(gen, s, NoRun),
           UNCHANGED <<view, cache, todo, waits, debts>>,
           changes' \in [Schedulers -> SUBSET (Runs \X {"settle", "release"})]
    PROVE  LocalTypeOK' /\ LocalsFit'
<1> USE DEF TypeInv, TypeOK
<1>1. LocalTypeOK'
  BY DEF Goto, Set, LocalTypeOK, Pcs, RunOrNone
<1>2. LocalsFit'
  BY DEF Goto, Set, LocalTypeOK, LocalsFit, Dispatching, Marked
<1> QED BY <1>1, <1>2

LEMMA TickKeepsTypes ==
    ASSUME TypeInv, NEW s \in Schedulers, TickStep(s)
    PROVE  TypeInv'
<1> USE DEF TypeInv, TypeOK
<1>1. CASE Acquire(s) \/ Renew(s) \/ ReleaseLease(s)
  <2> DEFINE Leases == [holder : Schedulers \union {NoHolder}, live : BOOLEAN]
  <2>a. lease \in Leases
    BY DEF OwnerTypeOK
  <2>b. /\ [lease EXCEPT !.live = TRUE] \in Leases
        /\ [holder |-> s, live |-> TRUE] \in Leases
        /\ NoLease \in Leases
    BY <2>a DEF NoLease
  <2> HIDE DEF Leases
  <2>c. lease' \in Leases
    BY <1>1, <2>a, <2>b DEF Acquire, Renew, ReleaseLease
  <2> USE DEF Leases
  <2>1. OwnerTypeOK'
    BY <1>1, <2>c DEF Acquire, Renew, ReleaseLease, OwnerTypeOK
  <2>2. PICK label \in {"renew", "check", "stop", "idle"} :
           /\ Goto(s, label)
           /\ UNCHANGED <<view, cache, todo, waits, changes, debts, job, gen>>
           /\ UNCHANGED <<rows, cancel>>
    BY <1>1 DEF Acquire, Renew, ReleaseLease
  <2>3. LocalTypeOK' /\ LocalsFit'
    BY <2>2, GotoTypes DEF Pcs, Dispatching, Marked
  <2> QED BY <2>1, <2>2, <2>3, TickTypes
<1>2. CASE Wait(s) \/ TickBegin(s)
  <2>1. PICK label \in {"renew", "stop", "snapshot"} :
           /\ Goto(s, label)
           /\ UNCHANGED <<view, cache, todo, waits, changes, debts, job, gen>>
           /\ UNCHANGED ownerVars
    BY <1>2 DEF Wait, TickBegin
  <2>2. LocalTypeOK' /\ LocalsFit'
    BY <2>1, GotoTypes DEF Pcs, Dispatching, Marked
  <2> QED BY <2>1, <2>2, OwnerKept, TickTypes
<1>3. ASSUME NEW label \in {"guard", "reconcile"},
             view' = Set(view, s, Listed), todo' = Set(todo, s, Running), Goto(s, label),
             UNCHANGED <<ownerVars, cache, waits, changes, debts, job, gen>>
      PROVE  TypeInv'
  <2>1. Listed \in [Jobs -> RunOrNone] /\ Running \subseteq Jobs
    BY DEF Listed, Running, OwnerTypeOK, JobRow, RunOrNone
  <2>2. \A j \in Running : Listed[j] \in Runs
    BY DEF Listed, Running, RowsFit, Materialises, OwnerTypeOK, JobRow, RunOrNone
  <2> HIDE DEF Listed, Running
  <2>4. LocalTypeOK'
    BY <1>3, <2>1 DEF Goto, Set, LocalTypeOK, Pcs
  <2>5. LocalsFit'
    BY <1>3, <2>1, <2>2 DEF Goto, Set, LocalTypeOK, LocalsFit, Dispatching, Marked
  <2> QED BY <1>3, <2>4, <2>5, OwnerKept, TickTypes
<1>4. CASE Snapshot(s) \/ ReconcileList(s)
  BY <1>3, <1>4 DEF Snapshot, ReconcileList
<1>5. CASE Guard(s) \/ LookupEnd(s) \/ ReconcileEnd(s) \/ ChargeEnd(s) \/ ExecEnd(s)
  <2>1. UNCHANGED ownerVars
    BY <1>5 DEF Guard, LookupEnd, ReconcileEnd, ChargeEnd, ExecEnd
  <2>2. \/ Return(s, "stop") \/ Return(s, "wait")
        \/ /\ \E label \in {"list", "charge", "debts"} : Goto(s, label)
           /\ UNCHANGED <<view, cache, todo, waits, changes, debts, job, gen>>
        \/ /\ pc[s] = "guard" /\ Goto(s, "lookup")
           /\ UNCHANGED <<view, cache, todo, waits, changes, debts, job, gen>>
    BY <1>5 DEF Guard, LookupEnd, ReconcileEnd, ChargeEnd, ExecEnd
  <2>3. pc[s] = "guard" => \A j \in todo[s] : view[s][j] \in Runs
    BY DEF LocalsFit
  <2>4. LocalTypeOK' /\ LocalsFit'
    BY <2>2, <2>3, GotoTypes, ReturnTypes DEF Pcs, Dispatching, Marked
  <2> QED BY <2>1, <2>4, OwnerKept, TickTypes
<1>a. ASSUME NEW r \in Runs, Memoise(s, r)
      PROVE  cache' \in [Schedulers -> [Runs -> Status \union {"UNSEEN"}]]
  <2>1. Memo(s, r) \in Status \union {"UNSEEN"}
    BY DEF Memo, OwnerTypeOK, LocalTypeOK
  <2> QED BY <1>a, <2>1 DEF Memoise, LocalTypeOK
<1>6. ASSUME NEW j \in Jobs, Lookup(s, j)
      PROVE  TypeInv'
  <2>1. view[s][j] \in Runs
    BY <1>6 DEF Lookup, LocalsFit
  <2>2. cache' \in [Schedulers -> [Runs -> Status \union {"UNSEEN"}]]
    BY <1>6, <1>a, <2>1 DEF Lookup
  <2>3. LocalTypeOK'
    BY <1>6, <2>2 DEF Lookup, LocalTypeOK
  <2>4. LocalsFit'
    BY <1>6 DEF Lookup, LocalsFit, LocalTypeOK
  <2> QED BY <1>6, <2>3, <2>4, OwnerKept, TickTypes DEF Lookup
<1>7. ASSUME NEW j \in Jobs, ReconcileNext(s, j)
      PROVE  TypeInv'
  <2>1. view[s][j] \in Runs
    BY <1>7 DEF ReconcileNext, LocalsFit
  <2>2. cache' \in [Schedulers -> [Runs -> Status \union {"UNSEEN"}]]
    BY <1>7, <1>a, <2>1 DEF ReconcileNext
  <2>3. LocalTypeOK'
    BY <1>7, <2>1, <2>2 DEF ReconcileNext, Goto, Set, LocalTypeOK, Pcs, RunOrNone
  <2>4. LocalsFit'
    BY <1>7, <2>1 DEF ReconcileNext, Goto, Set, LocalsFit, LocalTypeOK, Dispatching, Marked
  <2> QED BY <1>7, <2>3, <2>4, OwnerKept, TickTypes DEF ReconcileNext
<1>8. CASE ReconcileSkip(s)
  <2>1. LocalTypeOK' /\ LocalsFit'
    BY <1>8, LetGoTypes DEF ReconcileSkip, Reconciled, LocalTypeOK
  <2> QED BY <1>8, <2>1, OwnerKept, TickTypes DEF ReconcileSkip
<1>b. ASSUME NEW r \in Runs, Release(r) \/ Settle(r) \/ UNCHANGED ledger,
             UNCHANGED <<rows, run, receipt, tail, lease, cancel>>
      PROVE  OwnerTypeOK' /\ UNCHANGED <<rows, cancel>>
  BY <1>b DEF Release, Settle, OwnerTypeOK
<1>9. CASE ReconcileOwed(s)
  <2>1. LocalTypeOK' /\ LocalsFit'
    BY <1>9, LetGoTypes DEF ReconcileOwed, Reconciled, LocalTypeOK
  <2>2. gen[s] \in Runs
    BY <1>9 DEF ReconcileOwed, LocalsFit
  <2> QED BY <1>9, <1>b, <2>1, <2>2, TickTypes DEF ReconcileOwed
<1>10. ASSUME NEW change \in changes[s], Charge(s, change)
       PROVE  TypeInv'
  <2>1. change[1] \in Runs
    BY DEF LocalTypeOK
  <2>2. LocalTypeOK'
    BY <1>10 DEF Charge, LocalTypeOK
  <2>3. LocalsFit'
    BY <1>10 DEF Charge, LocalsFit
  <2> QED BY <1>10, <1>b, <2>1, <2>2, <2>3, TickTypes DEF Charge
<1>11. CASE DebtScan(s)
  <2>1. LocalTypeOK'
    BY <1>11 DEF DebtScan, Goto, Set, LocalTypeOK, Pcs
  <2>2. LocalsFit'
    BY <1>11 DEF DebtScan, Goto, Set, LocalTypeOK, LocalsFit, Dispatching, Marked
  <2> QED BY <1>11, <2>1, <2>2, OwnerKept, TickTypes DEF DebtScan
<1>12. ASSUME NEW r \in Runs, Debt(s, r)
       PROVE  TypeInv'
  <2>1. LocalTypeOK'
    BY <1>12 DEF Debt, LocalTypeOK
  <2>2. LocalsFit'
    BY <1>12 DEF Debt, LocalsFit
  <2>3. Release(r) \/ UNCHANGED ledger
    BY <1>12 DEF Debt
  <2> QED BY <1>12, <1>b, <2>1, <2>2, <2>3, TickTypes DEF Debt
<1>13. CASE DebtEnd(s)
  <2>1. LocalTypeOK'
    BY <1>13 DEF DebtEnd, Goto, Set, LocalTypeOK, Pcs, NoView, Unseen, RunOrNone
  <2>2. LocalsFit'
    BY <1>13 DEF DebtEnd, Goto, Set, LocalTypeOK, LocalsFit, Dispatching, Marked
  <2> QED BY <1>13, <2>1, <2>2, OwnerKept, TickTypes DEF DebtEnd
<1>14. CASE ReadQueued(s) \/ Plan(s)
  <2>1. \E label \in {"plan", "exec"} : Goto(s, label)
    BY <1>14 DEF ReadQueued, Plan
  <2>2. PICK jobs \in SUBSET Jobs : todo' = Set(todo, s, jobs)
    BY <1>14 DEF ReadQueued, Plan, LocalTypeOK
  <2>3. waits' \in [Schedulers -> SUBSET Jobs]
    <3>1. PICK later \in SUBSET Jobs : waits' = waits \/ waits' = Set(waits, s, later)
      <4>1. todo[s] \in SUBSET Jobs
        BY DEF LocalTypeOK
      <4>2. CASE ReadQueued(s)
        BY <4>2 DEF ReadQueued
      <4>3. CASE Plan(s)
        BY <4>1, <4>3 DEF Plan
      <4> QED BY <1>14, <4>2, <4>3
    <3> QED BY <3>1 DEF Set, LocalTypeOK
  <2>4. UNCHANGED <<view, cache, changes, debts, job, gen>> /\ UNCHANGED ownerVars
    BY <1>14 DEF ReadQueued, Plan
  <2>5. LocalTypeOK'
    BY <2>1, <2>2, <2>3, <2>4 DEF Goto, Set, LocalTypeOK, Pcs
  <2>6. LocalsFit'
    BY <2>1, <2>2, <2>4 DEF Goto, Set, LocalTypeOK, LocalsFit, Dispatching, Marked
  <2> QED BY <2>4, <2>5, <2>6, OwnerKept, TickTypes
<1>15. ASSUME NEW j \in Jobs, NEW r \in Runs, ExecDispatch(s, j, r)
       PROVE  TypeInv'
  <2>1. CASE CheckLease(s)
    <3>a. /\ pc' = [pc EXCEPT ![s] = "mark"]
          /\ job' = [job EXCEPT ![s] = j] /\ gen' = [gen EXCEPT ![s] = r]
          /\ todo' = [todo EXCEPT ![s] = @ \ {j}]
          /\ UNCHANGED <<view, cache, waits, changes, debts>>
      BY <1>15, <2>1 DEF ExecDispatch, Goto, Set
    <3>1. LocalTypeOK'
      BY <3>a DEF LocalTypeOK, Pcs, RunOrNone
    <3>2. LocalsFit'
      <4>1. pc'[s] = "mark" /\ job'[s] = j /\ gen'[s] = r
        BY <3>a DEF LocalTypeOK
      <4>2. \A t \in Schedulers \ {s} :
               pc'[t] = pc[t] /\ job'[t] = job[t] /\ gen'[t] = gen[t] /\ todo'[t] = todo[t]
        BY <3>a DEF LocalTypeOK
      <4> QED BY <3>a, <4>1, <4>2 DEF LocalsFit
    <3> QED BY <1>15, <3>1, <3>2, OwnerKept, TickTypes DEF ExecDispatch
  <2>2. CASE ~CheckLease(s)
    <3>1. LocalTypeOK'
      BY <1>15, <2>2 DEF ExecDispatch, Break, Set, LocalTypeOK
    <3>2. LocalsFit'
      BY <1>15, <2>2 DEF ExecDispatch, Break, Set, LocalTypeOK, LocalsFit
    <3> QED BY <1>15, <3>1, <3>2, OwnerKept, TickTypes DEF ExecDispatch
  <2> QED BY <2>1, <2>2
<1>16. CASE CheckB(s) \/ CheckD(s)
  <2>1. \E label \in {"reserve", "requeue", "launch", "undo"} : Goto(s, label)
    BY <1>16 DEF CheckB, CheckD
  <2>2. /\ pc[s] \in Marked
        /\ UNCHANGED <<view, cache, changes, debts, job, gen>> /\ UNCHANGED ownerVars
    BY <1>16 DEF CheckB, CheckD, Marked
  <2>3. todo' \in [Schedulers -> SUBSET Jobs] /\ waits' \in [Schedulers -> SUBSET Jobs]
    BY <1>16 DEF CheckB, CheckD, Break, Set, LocalTypeOK
  <2>4. \A t \in Schedulers : t # s => todo'[t] = todo[t]
    BY <1>16 DEF CheckB, CheckD, Break, Set, LocalTypeOK
  <2>5. LocalTypeOK'
    BY <2>1, <2>2, <2>3 DEF Goto, LocalTypeOK, Pcs
  <2>6. LocalsFit'
    BY <2>1, <2>2, <2>4 DEF Goto, LocalTypeOK, LocalsFit, Dispatching, Marked
  <2> QED BY <2>2, <2>5, <2>6, OwnerKept, TickTypes
<1>17. CASE ReserveRun(s) \/ Undo(s)
  <2>1. PICK label \in {"checkD", "undo", "requeue"} : Goto(s, label)
    BY <1>17 DEF ReserveRun, Undo
  <2>2. /\ pc[s] \in Marked
        /\ UNCHANGED <<view, cache, todo, waits, changes, debts, job, gen>>
    BY <1>17 DEF ReserveRun, Undo, Marked
  <2>3. LocalTypeOK' /\ LocalsFit'
    BY <2>1, <2>2, GotoTypes DEF Pcs, Dispatching, Marked
  <2>4. gen[s] \in Runs
    BY <2>2 DEF LocalsFit, Dispatching
  <2>5. OwnerTypeOK' /\ UNCHANGED <<rows, cancel>>
    BY <1>17, <2>4 DEF ReserveRun, Undo, Release, OwnerTypeOK
  <2> QED BY <2>3, <2>5, TickTypes
<1>18. CASE Launch(s)
  <2>1. pc[s] = "launch" /\ gen[s] \in Runs
    BY <1>18 DEF Launch, LocalsFit, Dispatching, Marked
  <2>2. \/ Continue(s)
        \/ Goto(s, "undo") /\ UNCHANGED <<job, gen>>
    BY <1>18 DEF Launch
  <2>3. UNCHANGED <<view, cache, todo, waits, changes, debts>>
    BY <1>18 DEF Launch
  <2>4. LocalTypeOK' /\ LocalsFit'
    BY <2>1, <2>2, <2>3, GotoTypes, LetGoTypes DEF Continue, Pcs, Dispatching, Marked, LocalTypeOK
  <2>5. OwnerTypeOK' /\ UNCHANGED <<rows, cancel>>
    BY <1>18, <2>1 DEF Launch, SetRun, OwnerTypeOK, Status, RunStatus
  <2> QED BY <2>4, <2>5, TickTypes
\* A step that writes a row.
<1>c. ASSUME rows' \in [Jobs -> JobRow], RowsFit', LocalTypeOK', LocalsFit',
             UNCHANGED <<run, ledger, receipt, tail, lease, cancel>>
      PROVE  TypeInv'
  BY <1>c DEF OwnerTypeOK, CancelsFit
<1>19. CASE ReconcileJob(s)
  <2>1. PICK o \in Outcomes :
           /\ Reconcile(job[s], o[2], o[3])
           /\ changes' = [changes EXCEPT ![s] =
                IF job[s] \in Running THEN @ \union {<<gen[s], o[4]>>} ELSE @]
    BY <1>19 DEF ReconcileJob
  <2>2. /\ pc[s] = "apply" /\ Reconciled(s)
        /\ UNCHANGED <<run, ledger, receipt, tail, lease, cancel, view, cache, todo, waits, debts>>
    BY <1>19 DEF ReconcileJob
  <2>3. job[s] \in Jobs /\ gen[s] \in Runs
    BY <2>2 DEF LocalsFit
  <2>4. /\ o[2] \in {"SUCCEEDED", "FAILED"} /\ o[3] \in FAILURE_REASONS \union {"NONE"}
        /\ o[2] = "FAILED" <=> o[3] # "NONE"
        /\ o[4] \in {"settle", "release"}
    BY DEF Outcomes, FAILURE_REASONS
  <2>5. rows' \in [Jobs -> JobRow] /\ RowsFit'
    BY <2>1, <2>3, <2>4, ReconcileWrite
  <2>6. changes' \in [Schedulers -> SUBSET (Runs \X {"settle", "release"})]
    BY <2>1, <2>3, <2>4 DEF LocalTypeOK
  <2>7. LocalTypeOK' /\ LocalsFit'
    BY <2>2, <2>6, LetGoTypes DEF Reconciled
  <2> QED BY <1>c, <2>2, <2>5, <2>7
<1>20. CASE ReconcilePreempted(s)
  <2> DEFINE j == job[s]
             r == gen[s]
  <2>1. /\ pc[s] = "apply"
        /\ UNCHANGED <<run, ledger, receipt, tail, lease, cancel, view, cache, todo, waits, debts>>
    BY <1>20 DEF ReconcilePreempted
  <2>2. j \in Jobs /\ r \in Runs
    BY <2>1 DEF LocalsFit
  <2>3. Park(j, r) \/ UNCHANGED rows
    BY <1>20 DEF ReconcilePreempted
  <2>4. rows' \in [Jobs -> JobRow] /\ RowsFit'
    <3>1. CASE UNCHANGED rows
      BY <3>1, NoRowWrite DEF OwnerTypeOK
    <3>2. CASE ~UNCHANGED rows
      BY <2>2, <2>3, <3>2, RequeueWrite DEF Park, WaitingReason, RunOrNone
    <3> QED BY <3>1, <3>2
  <2>5. changes' \in [Schedulers -> SUBSET (Runs \X {"settle", "release"})]
    <3>1. PICK more \in SUBSET (Runs \X {"settle", "release"}) :
             changes' = [changes EXCEPT ![s] = @ \union more]
      <4>1. \/ changes' = [changes EXCEPT ![s] = @ \union {<<r, "release">>}]
            \/ changes' = [changes EXCEPT ![s] = @ \union {}]
        BY <1>20 DEF ReconcilePreempted
      <4>2. {<<r, "release">>} \in SUBSET (Runs \X {"settle", "release"})
        BY <2>2
      <4> QED BY <4>1, <4>2
    <3> QED BY <3>1 DEF LocalTypeOK
  <2>6. CASE Reconciled(s)
    BY <1>c, <2>1, <2>4, <2>5, <2>6, LetGoTypes DEF Reconciled
  <2>7. CASE Goto(s, "owed") /\ UNCHANGED <<job, gen>>
    <3>1. LocalTypeOK'
      BY <2>1, <2>5, <2>7 DEF Goto, LocalTypeOK, Pcs
    <3>2. LocalsFit'
      BY <2>1, <2>2, <2>7 DEF Goto, LocalTypeOK, LocalsFit, Dispatching, Marked
    <3> QED BY <1>c, <2>1, <2>4, <3>1, <3>2
  <2> QED BY <1>20, <2>6, <2>7 DEF ReconcilePreempted
<1>21. ASSUME NEW j \in Jobs, ExecWait(s, j)
       PROVE  TypeInv'
  <2>1. rows' \in [Jobs -> JobRow] /\ RowsFit'
    BY <1>21, WaitingWrite, NoRowWrite DEF ExecWait, OwnerTypeOK
  <2>2. LocalTypeOK'
    BY <1>21 DEF ExecWait, LocalTypeOK
  <2>3. LocalsFit'
    BY <1>21 DEF ExecWait, LocalsFit
  <2> QED BY <1>c, <1>21, <2>1, <2>2, <2>3 DEF ExecWait
<1>22. CASE Mark(s)
  <2>1. pc[s] = "mark" /\ job[s] \in Jobs /\ gen[s] \in Runs
    BY <1>22 DEF Mark, LocalsFit, Dispatching
  <2>2. rows' \in [Jobs -> JobRow] /\ RowsFit'
    <3>1. CASE rows[job[s]].state = "QUEUED"
      BY <1>22, <2>1, <3>1, DispatchWrite DEF Mark
    <3>2. CASE rows[job[s]].state # "QUEUED"
      BY <1>22, <3>2, NoRowWrite DEF Mark, OwnerTypeOK
    <3> QED BY <3>1, <3>2
  <2>3. \/ Continue(s)
        \/ Goto(s, "checkB") /\ UNCHANGED <<job, gen>>
    BY <1>22 DEF Mark
  <2>4. UNCHANGED <<run, ledger, receipt, tail, lease, cancel,
                    view, cache, todo, waits, changes, debts>>
    BY <1>22 DEF Mark
  <2>5. LocalTypeOK' /\ LocalsFit'
    BY <2>1, <2>3, <2>4, GotoTypes, LetGoTypes DEF Continue, Pcs, Dispatching, Marked, LocalTypeOK
  <2> QED BY <1>c, <2>2, <2>4, <2>5
<1>23. CASE RequeueDispatch(s)
  <2>1. pc[s] = "requeue" /\ job[s] \in Jobs
    BY <1>23 DEF RequeueDispatch, LocalsFit, Dispatching, Marked
  <2>2. rows' \in [Jobs -> JobRow] /\ RowsFit'
    <3>1. CASE UNCHANGED rows
      BY <3>1, NoRowWrite DEF OwnerTypeOK
    <3>2. CASE ~UNCHANGED rows
      BY <1>23, <2>1, <3>2, RequeueWrite DEF RequeueDispatch, WaitingReason, RunOrNone
    <3> QED BY <3>1, <3>2
  <2>3. LocalTypeOK' /\ LocalsFit'
    BY <1>23, LetGoTypes DEF RequeueDispatch, Continue, LocalTypeOK
  <2> QED BY <1>c, <1>23, <2>2, <2>3 DEF RequeueDispatch
<1> QED
  BY <1>1, <1>2, <1>4, <1>5, <1>6, <1>7, <1>8, <1>9, <1>10, <1>11, <1>12, <1>13, <1>14, <1>15,
     <1>16, <1>17, <1>18, <1>19, <1>20, <1>21, <1>22, <1>23 DEF TickStep

\* The others leave the locals of the schedulers alone.
LEMMA OthersTypes ==
    ASSUME TypeInv, UNCHANGED localVars, OwnerTypeOK', CancelsFit', RowsFit'
    PROVE  TypeInv'
BY DEF TypeInv, TypeOK, LocalTypeOK, LocalsFit, localVars

LEMMA OthersKeepTypes ==
    ASSUME TypeInv, OthersStep, UNCHANGED localVars
    PROVE  TypeInv'
<1> USE DEF TypeInv, TypeOK
\* A step of a run's process or of the supervisor that writes no row.
<1>a. ASSUME OwnerTypeOK', UNCHANGED <<rows, cancel>>
      PROVE  TypeInv'
  BY <1>a, NoRowWrite, OthersTypes DEF CancelsFit
<1>1. ASSUME NEW r \in Runs, Start(r) \/ Finish(r) \/ Orphan(r)
      PROVE  TypeInv'
  BY <1>1, <1>a DEF Start, Finish, Orphan, SetRun, OwnerTypeOK, Status, RunStatus
<1>2. ASSUME NEW r \in Runs, NEW j \in Jobs, PreemptBegin(j, r) \/ PreemptLimit(j, r)
      PROVE  TypeInv'
  <2>1. rows[j].preemptions \in Nat
    BY DEF OwnerTypeOK, JobRow
  <2>2. /\ [kind |-> "DECISION", before |-> rows[j].preemptions] \in Receipts
        /\ [kind |-> "LIMIT", before |-> rows[j].preemptions] \in Receipts
    BY <2>1 DEF Receipts
  <2>3. /\ receipt' \in [Runs -> Receipts]
        /\ tail' \in [Runs -> {"none", "decided", "park", "failJob", "release"}]
    BY <1>2, <2>2 DEF PreemptBegin, PreemptLimit, OwnerTypeOK
  <2>4. run' \in [Runs -> Status]
    BY <1>2 DEF PreemptBegin, PreemptLimit, SetRun, OwnerTypeOK, Status, RunStatus
  <2> QED BY <1>2, <1>a, <2>3, <2>4 DEF PreemptBegin, PreemptLimit, OwnerTypeOK
<1>3. ASSUME NEW r \in Runs, PreemptRun(r) \/ PreemptRelease(r) \/ TailCrash(r)
      PROVE  TypeInv'
  BY <1>3, <1>a DEF PreemptRun, PreemptRelease, TailCrash, SetRun, Release, OwnerTypeOK,
                    Status, RunStatus
<1>4. ASSUME NEW r \in Runs, NEW j \in Jobs, Recover(j, r)
      PROVE  TypeInv'
  BY <1>4, <1>a DEF Recover, OwnerTypeOK
\* A step that writes a row.
<1>b. ASSUME rows' \in [Jobs -> JobRow], RowsFit', UNCHANGED <<run, ledger, receipt, lease>>,
             tail' \in [Runs -> {"none", "decided", "park", "failJob", "release"}],
             UNCHANGED cancel \/ \E c \in Cancellers : EndCancel(c)
      PROVE  TypeInv'
  <2>1. OwnerTypeOK' /\ CancelsFit'
    BY <1>b DEF EndCancel, OwnerTypeOK, CancelsFit, NotCancelling, RunOrNone
  <2> QED BY <1>b, <2>1, OthersTypes
<1>5. ASSUME NEW r \in Runs, NEW j \in Jobs, PreemptPark(j, r)
      PROVE  TypeInv'
  <2>1. rows' \in [Jobs -> JobRow] /\ RowsFit'
    <3>1. CASE UNCHANGED rows
      BY <3>1, NoRowWrite DEF OwnerTypeOK
    <3>2. CASE ~UNCHANGED rows
      BY <1>5, <3>2, RequeueWrite DEF PreemptPark, Park, WaitingReason, RunOrNone
    <3> QED BY <3>1, <3>2
  <2> QED BY <1>5, <1>b, <2>1 DEF PreemptPark, OwnerTypeOK
<1>6. ASSUME NEW r \in Runs, NEW j \in Jobs, PreemptFailJob(j, r)
      PROVE  TypeInv'
  <2>1. rows' \in [Jobs -> JobRow] /\ RowsFit'
    <3>1. CASE UNCHANGED rows
      BY <3>1, NoRowWrite DEF OwnerTypeOK
    <3>2. CASE Reconcile(j, "FAILED", "PREEMPTION_LIMIT")
      BY <3>2, ReconcileWrite DEF FAILURE_REASONS
    <3> QED BY <1>6, <3>1, <3>2 DEF PreemptFailJob
  <2> QED BY <1>6, <1>b, <2>1 DEF PreemptFailJob, OwnerTypeOK
<1>7. ASSUME NEW c \in Cancellers, NEW j \in Jobs, CancelRead(c, j)
      PROVE  TypeInv'
  <2>1. UNCHANGED <<rows, run, ledger, receipt, tail, lease>>
    BY <1>7 DEF CancelRead
  <2>2. \/ SetCancel(c, "queued", j, NoRun)
        \/ rows[j].run \in Runs /\ SetCancel(c, "running", j, rows[j].run)
    BY <1>7 DEF CancelRead, RowsFit, Materialises, OwnerTypeOK, JobRow, RunOrNone
  <2>3. OwnerTypeOK'
    BY <2>1, <2>2 DEF SetCancel, OwnerTypeOK, RunOrNone
  <2>4. CancelsFit'
    BY <2>2 DEF SetCancel, CancelsFit, OwnerTypeOK
  <2> QED BY <2>1, <2>3, <2>4, NoRowWrite, OthersTypes
<1>8. ASSUME NEW c \in Cancellers, CancelQueued(c)
      PROVE  TypeInv'
  <2>1. cancel[c].job \in Jobs
    BY <1>8 DEF CancelQueued, CancelsFit
  <2> QED BY <1>8, <1>b, <2>1, CancelWrite DEF CancelQueued, OwnerTypeOK
<1>9. ASSUME NEW c \in Cancellers, CancelRun(c) \/ CancelRelease(c)
      PROVE  TypeInv'
  <2>1. cancel[c].job \in Jobs /\ cancel[c].run \in Runs
    BY <1>9 DEF CancelRun, CancelRelease, CancelsFit
  <2>2. UNCHANGED <<rows, receipt, lease>>
    BY <1>9 DEF CancelRun, CancelRelease
  <2>3. EndCancel(c) \/ SetCancel(c, "transition", cancel[c].job, cancel[c].run)
    BY <1>9 DEF CancelRun, CancelRelease
  <2>4. /\ run' \in [Runs -> Status]
        /\ ledger' \in [Runs -> {"NONE", "RESERVED", "SETTLED", "RELEASED"}]
        /\ tail' \in [Runs -> {"none", "decided", "park", "failJob", "release"}]
    BY <1>9, <2>1 DEF CancelRun, CancelRelease, SetRun, Release, OwnerTypeOK, Status, RunStatus
  <2>5. PICK call \in [pc : {"idle", "transition"}, job : Jobs \union {NoJob}, run : RunOrNone] :
          /\ cancel' = [cancel EXCEPT ![c] = call]
          /\ call.pc = "idle" \/ call = [pc |-> "transition", job |-> cancel[c].job, run |-> cancel[c].run]
    <3>1. NotCancelling \in [pc : {"idle", "transition"}, job : Jobs \union {NoJob}, run : RunOrNone]
      BY DEF NotCancelling, RunOrNone
    <3>2. [pc |-> "transition", job |-> cancel[c].job, run |-> cancel[c].run]
            \in [pc : {"idle", "transition"}, job : Jobs \union {NoJob}, run : RunOrNone]
      BY <2>1 DEF RunOrNone
    <3> QED BY <2>3, <3>1, <3>2 DEF EndCancel, SetCancel, NotCancelling
  <2>6. OwnerTypeOK'
    BY <2>2, <2>4, <2>5 DEF OwnerTypeOK
  <2>7. CancelsFit'
    BY <2>1, <2>5 DEF OwnerTypeOK, CancelsFit
  <2> QED BY <2>2, <2>6, <2>7, NoRowWrite, OthersTypes
<1>10. ASSUME NEW c \in Cancellers, CancelJob(c)
       PROVE  TypeInv'
  <2>1. cancel[c].job \in Jobs /\ cancel[c].run \in Runs
    BY <1>10 DEF CancelJob, CancelsFit
  <2>2. rows' \in [Jobs -> JobRow] /\ RowsFit'
    BY <1>10, <2>1, CancelWrite DEF CancelJob
  <2>3. EndCancel(c) \/ SetCancel(c, "release", cancel[c].job, cancel[c].run)
    BY <1>10 DEF CancelJob
  <2>a. UNCHANGED <<run, ledger, receipt, tail, lease>>
    BY <1>10 DEF CancelJob
  <2>4. OwnerTypeOK' /\ CancelsFit'
    BY <2>a, <2>1, <2>2, <2>3
       DEF EndCancel, SetCancel, OwnerTypeOK, CancelsFit, NotCancelling, RunOrNone
  <2> QED BY <2>2, <2>4, OthersTypes
<1>11. CASE Expire
  <2>1. [lease EXCEPT !.live = FALSE] \in [holder : Schedulers \union {NoHolder}, live : BOOLEAN]
    BY DEF OwnerTypeOK
  <2> QED BY <1>11, <1>a, <2>1 DEF Expire, OwnerTypeOK
<1> QED
  BY <1>1, <1>2, <1>3, <1>4, <1>5, <1>6, <1>7, <1>8, <1>9, <1>10, <1>11
  DEF OthersStep, RunStep, CancelStep

LEMMA TypesKept == TypeInv /\ [Next]_vars => TypeInv'
<1> SUFFICES ASSUME TypeInv, [Next]_vars PROVE TypeInv'
  OBVIOUS
<1>1. ASSUME NEW s \in Schedulers, Crash(s)
      PROVE  TypeInv'
  <2>1. LocalTypeOK' /\ LocalsFit'
    BY <1>1, ReturnTypes DEF Crash
  <2>2. [lease EXCEPT !.holder = NoHolder] \in [holder : Schedulers \union {NoHolder}, live : BOOLEAN]
    BY DEF TypeInv, TypeOK, OwnerTypeOK
  <2>3. OwnerTypeOK' /\ UNCHANGED <<rows, cancel>>
    BY <1>1, <2>2 DEF Crash, TypeInv, TypeOK, OwnerTypeOK
  <2> QED BY <2>1, <2>3, TickTypes
<1>2. ASSUME NEW s \in Schedulers, Abandon(s)
      PROVE  TypeInv'
  BY <1>2, ReturnTypes, OwnerKept, TickTypes DEF Abandon
<1>3. CASE UNCHANGED vars
  <2>1. UNCHANGED ownerVars /\ UNCHANGED localVars
    BY <1>3 DEF vars
  <2> QED BY <2>1, OwnerKept, NoRowWrite, OthersTypes DEF TypeInv, TypeOK, CancelsFit
<1> QED BY <1>1, <1>2, <1>3, TickKeepsTypes, OthersKeepTypes DEF Next

LEMMA TypesInvariant == Spec => []TypeInv
BY InitTypes, TypesKept, PTL DEF Spec

\* Every variable of the owner database and of the schedulers keeps its type:
\* no step looks up a run or a job it does not have, no count goes below zero.
THEOREM SchedulerTypes == Spec => []TypeOK
<1>1. TypeInv => TypeOK
  BY DEF TypeInv
<1> QED BY <1>1, TypesInvariant, PTL

-----------------------------------------------------------------------------
(* One run works for a job at a time.                                      *)

LEMMA InitRuns == Init => OwnerRuns /\ LocalRuns
<1> SUFFICES ASSUME Init PROVE OwnerRuns /\ LocalRuns
  OBVIOUS
<1> USE DEF Init, OwnerInit
<1>1. QueuedJob.run_ids = {}
  BY DEF QueuedJob, NoRow
<1>2. OwnerRuns
  BY <1>1 DEF OwnerRuns, LineagesDisjoint, RunsDispatched, OnlyCurrentRunLives, TailsFit, Live
<1>3. LocalRuns
  BY DEF LocalRuns, CachesFit, RunsDrawnOnce, DrawnRunsAreNew, MarkedRunsWait,
         Dispatching, Marked, Unseen
<1> QED BY <1>2, <1>3

LEMMA OwnerRunsKept ==
    ASSUME OwnerRuns, RunsKept, UNCHANGED <<run, receipt, tail>>
    PROVE  OwnerRuns'
BY DEF OwnerRuns, RunsKept, LineagesDisjoint, RunsDispatched, OnlyCurrentRunLives, TailsFit, Live

\* The dispatches of the other schedulers.
OthersKeep(s) ==
    \A t \in Schedulers :
        t # s => pc'[t] = pc[t] /\ job'[t] = job[t] /\ gen'[t] = gen[t]

\* A step of s that leaves the runs alone, outside of a dispatch or between
\* two steps of one.
Quiet(s) ==
    /\ OthersKeep(s)
    /\ \/ pc'[s] \notin Dispatching
       \/ pc[s] \in Marked /\ pc'[s] \in Marked /\ job'[s] = job[s] /\ gen'[s] = gen[s]
    /\ UNCHANGED <<run, receipt, tail>>
    /\ CachesFit'

LEMMA QuietRuns ==
    ASSUME TypeInv, OwnerRuns, LocalRuns, NEW s \in Schedulers, Quiet(s), RunsKept
    PROVE  OwnerRuns' /\ LocalRuns'
<1> USE DEF Quiet, OthersKeep
<1>1. OwnerRuns'
  BY OwnerRunsKept
<1>2. \A t \in Schedulers : pc[t] \in Marked => job[t] \in Jobs /\ gen[t] \in Runs
  BY DEF TypeInv, LocalsFit, Dispatching
<1>3. RunsDrawnOnce'
  BY DEF LocalRuns, RunsDrawnOnce, Dispatching
<1>4. DrawnRunsAreNew'
  BY DEF LocalRuns, DrawnRunsAreNew, RunsKept, Dispatching, Marked
<1>5. MarkedRunsWait'
  BY <1>2 DEF LocalRuns, MarkedRunsWait, RunsKept, Dispatching
<1> QED BY <1>1, <1>3, <1>4, <1>5 DEF LocalRuns

LEMMA CachesKept ==
    ASSUME TypeInv, CachesFit, UNCHANGED run, NEW s \in Schedulers,
           UNCHANGED cache \/ cache' = Set(cache, s, Unseen)
    PROVE  CachesFit'
<1>1. CASE UNCHANGED cache
  BY <1>1 DEF CachesFit
<1>2. CASE cache' = Set(cache, s, Unseen)
  <2>1. \A r \in Runs : cache'[s][r] = Unseen[r]
    BY <1>2 DEF Set, TypeInv, TypeOK, LocalTypeOK
  <2>2. \A t \in Schedulers : t # s => cache'[t] = cache[t]
    BY <1>2 DEF Set, TypeInv, TypeOK, LocalTypeOK
  <2> QED BY <2>1, <2>2 DEF CachesFit, Unseen
<1> QED BY <1>1, <1>2

LEMMA CachesMemoised ==
    ASSUME TypeInv, CachesFit, UNCHANGED run, NEW s \in Schedulers, NEW r \in Runs,
           Memoise(s, r)
    PROVE  CachesFit'
BY DEF CachesFit, Memoise, Memo, TypeInv, TypeOK, LocalTypeOK

LEMMA QuietTicks ==
    ASSUME TypeInv, OwnerRuns, LocalRuns, NEW s \in Schedulers,
           \/ Acquire(s) \/ Renew(s) \/ ReleaseLease(s) \/ Wait(s) \/ TickBegin(s)
           \/ Snapshot(s) \/ ReconcileList(s) \/ ReconcileSkip(s) \/ ReconcileOwed(s)
           \/ Guard(s) \/ LookupEnd(s) \/ ReconcileEnd(s) \/ ChargeEnd(s) \/ ExecEnd(s)
           \/ DebtScan(s) \/ DebtEnd(s) \/ ReadQueued(s) \/ Plan(s)
           \/ Crash(s) \/ Abandon(s)
    PROVE  OwnerRuns' /\ LocalRuns'
<1>1. UNCHANGED <<rows, run, receipt, tail>>
  BY DEF Acquire, Renew, ReleaseLease, Wait, TickBegin, Snapshot, ReconcileList, ReconcileSkip,
         ReconcileOwed, Guard, LookupEnd, ReconcileEnd, ChargeEnd, ExecEnd, DebtScan, DebtEnd,
         ReadQueued, Plan, Crash, Abandon, ownerVars
<1>2. UNCHANGED cache \/ cache' = Set(cache, s, Unseen)
  BY DEF Acquire, Renew, ReleaseLease, Wait, TickBegin, Snapshot, ReconcileList, ReconcileSkip,
         ReconcileOwed, Guard, LookupEnd, ReconcileEnd, ChargeEnd, ExecEnd, DebtScan, DebtEnd,
         ReadQueued, Plan, Crash, Abandon, Return
<1>3. PICK label \in Pcs \ Dispatching : Goto(s, label)
  <2>1. \E label \in {"idle", "renew", "check", "snapshot", "guard", "lookup", "list", "reconcile",
                      "charge", "debts", "settle", "queued", "plan", "exec", "wait", "stop"} :
            Goto(s, label)
    BY DEF Acquire, Renew, ReleaseLease, Wait, TickBegin, Snapshot, ReconcileList, ReconcileSkip,
           ReconcileOwed, Guard, LookupEnd, ReconcileEnd, ChargeEnd, ExecEnd, DebtScan, DebtEnd,
           ReadQueued, Plan, Crash, Abandon, Return, Reconciled
  <2> QED BY <2>1 DEF Pcs, Dispatching, Marked
<1>4. /\ job' = job \/ job' = Set(job, s, NoJob)
      /\ gen' = gen \/ gen' = Set(gen, s, NoRun)
  BY DEF Acquire, Renew, ReleaseLease, Wait, TickBegin, Snapshot, ReconcileList, ReconcileSkip,
         ReconcileOwed, Guard, LookupEnd, ReconcileEnd, ChargeEnd, ExecEnd, DebtScan, DebtEnd,
         ReadQueued, Plan, Crash, Abandon, Return, Reconciled
<1>5. OthersKeep(s) /\ pc'[s] \notin Dispatching
  BY <1>3, <1>4 DEF OthersKeep, Goto, Set, TypeInv, TypeOK, LocalTypeOK
<1>6. CachesFit'
  BY <1>1, <1>2, CachesKept DEF LocalRuns
<1>7. RunsKept
  BY <1>1 DEF RunsKept
<1> QED BY <1>1, <1>5, <1>6, <1>7, QuietRuns DEF Quiet

\* Parking the job of a preempted run: nobody launches that run any more.
LEMMA ParkedRuns ==
    ASSUME TypeInv, OwnerRuns, LocalRuns, NEW j \in Jobs, NEW r \in Runs,
           run[r] = "PREEMPTED", UNCHANGED run, Park(j, r) \/ UNCHANGED rows
    PROVE  /\ LineagesDisjoint' /\ RunsDispatched' /\ OnlyCurrentRunLives'
           /\ \A i \in Jobs : rows'[i].run_ids = rows[i].run_ids
           /\ \A t \in Schedulers : pc[t] \in Marked => rows'[job[t]].run = rows[job[t]].run
<1>1. CASE UNCHANGED rows
  BY <1>1 DEF OwnerRuns, LineagesDisjoint, RunsDispatched, OnlyCurrentRunLives, Live
<1>2. CASE ~UNCHANGED rows
  <2>1. rows[j].state = "RUNNING" /\ rows[j].run = r
    BY <1>2 DEF Park, ExactGeneration
  <2>2. Requeued(j)
    BY <1>2, RequeueWrite DEF Park, WaitingReason, RunOrNone, TypeInv
  <2>a. \A i \in Jobs : rows'[i].run_ids = rows[i].run_ids
    BY <2>2 DEF Requeued
  <2>3. LineagesDisjoint' /\ RunsDispatched'
    BY <2>a DEF OwnerRuns, LineagesDisjoint, RunsDispatched
  <2>4. OnlyCurrentRunLives'
    <3> SUFFICES ASSUME NEW i \in Jobs, NEW q \in rows[i].run_ids, Live(q)
                 PROVE  rows'[i].run = q
      BY <2>a DEF OnlyCurrentRunLives, Live
    <3>1. rows[i].run = q
      BY DEF OwnerRuns, OnlyCurrentRunLives
    <3>2. q # r
      BY DEF Live
    <3> QED BY <2>1, <2>2, <3>1, <3>2 DEF Requeued
  <2>5. \A t \in Schedulers : pc[t] \in Marked => job[t] \in Jobs /\ job[t] # j
    BY <2>1 DEF LocalRuns, MarkedRunsWait, TypeInv, LocalsFit, Dispatching
  <2> QED BY <2>2, <2>a, <2>3, <2>4, <2>5 DEF Requeued
<1> QED BY <1>1, <1>2

LEMMA TickKeepsRuns ==
    ASSUME TypeInv, OwnerRuns, LocalRuns, NEW s \in Schedulers, TickStep(s)
    PROVE  OwnerRuns' /\ LocalRuns'
<1> USE DEF TypeInv, TypeOK, LocalTypeOK
<1>1. ASSUME NEW j \in Jobs, Lookup(s, j) \/ ReconcileNext(s, j)
      PROVE  OwnerRuns' /\ LocalRuns'
  <2>1. UNCHANGED <<rows, run, receipt, tail>>
    BY <1>1 DEF Lookup, ReconcileNext, ownerVars
  <2>2. view[s][j] \in Runs /\ Memoise(s, view[s][j])
    BY <1>1 DEF Lookup, ReconcileNext, LocalsFit
  <2>3. OthersKeep(s) /\ pc'[s] \notin Dispatching
    BY <1>1 DEF Lookup, ReconcileNext, Goto, Set, OthersKeep, Dispatching, Marked
  <2>4. CachesFit'
    BY <2>1, <2>2, CachesMemoised DEF LocalRuns
  <2> QED BY <2>1, <2>3, <2>4, QuietRuns DEF Quiet, RunsKept
<1>2. ASSUME UNCHANGED <<run, receipt, tail, cache>>, RunsKept, OthersKeep(s),
             \/ pc'[s] \notin Dispatching
             \/ pc[s] \in Marked /\ pc'[s] \in Marked /\ job'[s] = job[s] /\ gen'[s] = gen[s]
      PROVE  OwnerRuns' /\ LocalRuns'
  BY <1>2, CachesKept, QuietRuns DEF Quiet, LocalRuns
<1>3. ASSUME NEW change \in changes[s], Charge(s, change)
      PROVE  OwnerRuns' /\ LocalRuns'
  BY <1>2, <1>3 DEF Charge, OthersKeep, RunsKept, Dispatching, Marked
<1>4. ASSUME NEW r \in Runs, Debt(s, r)
      PROVE  OwnerRuns' /\ LocalRuns'
  BY <1>2, <1>4 DEF Debt, OthersKeep, RunsKept, Dispatching, Marked
<1>5. ASSUME NEW j \in Jobs, ExecWait(s, j)
      PROVE  OwnerRuns' /\ LocalRuns'
  <2>1. RunsKept
    BY <1>5, WaitingWrite, NoRowWrite DEF ExecWait
  <2> QED BY <1>2, <1>5, <2>1 DEF ExecWait, OthersKeep, Dispatching, Marked
<1>6. CASE ReconcileJob(s)
  <2>1. PICK o \in Outcomes : Reconcile(job[s], o[2], o[3])
    BY <1>6 DEF ReconcileJob
  <2>2. job[s] \in Jobs
    BY <1>6 DEF ReconcileJob, LocalsFit
  <2>3. /\ o[2] \in {"SUCCEEDED", "FAILED"} /\ o[3] \in FAILURE_REASONS \union {"NONE"}
        /\ o[2] = "FAILED" <=> o[3] # "NONE"
    BY DEF Outcomes, FAILURE_REASONS
  <2>4. RunsKept
    BY <2>1, <2>2, <2>3, ReconcileWrite
  <2>5. OthersKeep(s) /\ pc'[s] \notin Dispatching
    BY <1>6 DEF ReconcileJob, Reconciled, Goto, Set, OthersKeep, Dispatching, Marked
  <2> QED BY <1>2, <1>6, <2>4, <2>5 DEF ReconcileJob
<1>7. CASE CheckB(s) \/ CheckD(s) \/ ReserveRun(s) \/ Undo(s)
  <2>1. pc[s] \in Marked /\ \E label \in Marked : Goto(s, label)
    BY <1>7 DEF CheckB, CheckD, ReserveRun, Undo, Marked
  <2>2. UNCHANGED <<rows, run, receipt, tail, cache, job, gen>>
    BY <1>7 DEF CheckB, CheckD, ReserveRun, Undo, ownerVars
  <2>3. OthersKeep(s) /\ pc'[s] \in Marked
    BY <2>1, <2>2 DEF Goto, OthersKeep
  <2> QED BY <1>2, <2>1, <2>2, <2>3 DEF RunsKept
<1>8. CASE ReconcilePreempted(s)
  <2>1. pc[s] = "apply" /\ job[s] \in Jobs /\ gen[s] \in Runs
    BY <1>8 DEF ReconcilePreempted, LocalsFit
  <2>2. run[gen[s]] = "PREEMPTED"
    BY <1>8, <2>1 DEF ReconcilePreempted, LocalRuns, CachesFit
  <2>3. UNCHANGED <<run, receipt, tail, cache>> /\ (Park(job[s], gen[s]) \/ UNCHANGED rows)
    BY <1>8 DEF ReconcilePreempted
  <2>4. OthersKeep(s) /\ pc'[s] \notin Dispatching
    BY <1>8 DEF ReconcilePreempted, Reconciled, Goto, Set, OthersKeep, Dispatching, Marked
  <2>5. /\ LineagesDisjoint' /\ RunsDispatched' /\ OnlyCurrentRunLives'
        /\ \A i \in Jobs : rows'[i].run_ids = rows[i].run_ids
        /\ \A t \in Schedulers : pc[t] \in Marked => rows'[job[t]].run = rows[job[t]].run
    BY <2>1, <2>2, <2>3, ParkedRuns
  <2>6. OwnerRuns'
    BY <2>3, <2>5 DEF OwnerRuns, TailsFit
  <2>7a. CachesFit'
    BY <2>3 DEF LocalRuns, CachesFit
  <2>7b. RunsDrawnOnce'
    BY <2>4 DEF LocalRuns, RunsDrawnOnce, OthersKeep
  <2>7c. DrawnRunsAreNew'
    BY <2>4, <2>5 DEF LocalRuns, DrawnRunsAreNew, OthersKeep, Dispatching
  <2>8. MarkedRunsWait'
    <3> SUFFICES ASSUME NEW t \in Schedulers, pc[t] \in Marked, t # s
                 PROVE  rows'[job[t]].run = gen[t] /\ run[gen[t]] = "ABSENT"
      BY <2>3, <2>4 DEF MarkedRunsWait, OthersKeep, Dispatching
    <3> QED BY <2>5 DEF LocalRuns, MarkedRunsWait
  <2> QED BY <2>6, <2>7a, <2>7b, <2>7c, <2>8 DEF LocalRuns
<1>9. ASSUME NEW j \in Jobs, NEW r \in Runs, ExecDispatch(s, j, r)
      PROVE  OwnerRuns' /\ LocalRuns'
  <2>1. UNCHANGED <<rows, run, receipt, tail, cache>>
    BY <1>9 DEF ExecDispatch, ownerVars
  <2>2. CASE CheckLease(s)
    <3>1. /\ pc' = [pc EXCEPT ![s] = "mark"]
          /\ job' = [job EXCEPT ![s] = j] /\ gen' = [gen EXCEPT ![s] = r]
          /\ Unused(r)
      BY <1>9, <2>2 DEF ExecDispatch, Goto, Set
    <3>2. OwnerRuns' /\ CachesFit'
      BY <2>1, OwnerRunsKept, CachesKept DEF RunsKept, LocalRuns
    <3>3. RunsDrawnOnce' /\ DrawnRunsAreNew'
      BY <2>1, <3>1 DEF Unused, LocalRuns, RunsDrawnOnce, DrawnRunsAreNew, Dispatching
    <3>4. MarkedRunsWait'
      BY <2>1, <3>1 DEF LocalRuns, MarkedRunsWait, Marked
    <3> QED BY <3>2, <3>3, <3>4 DEF LocalRuns
  <2>3. CASE ~CheckLease(s)
    BY <1>2, <1>9, <2>1, <2>3 DEF ExecDispatch, OthersKeep, RunsKept, Dispatching, Marked
  <2> QED BY <2>2, <2>3
<1>10. CASE Mark(s)
  <2> DEFINE j == job[s]
             r == gen[s]
  <2>1. pc[s] = "mark" /\ j \in Jobs /\ r \in Runs /\ UNCHANGED <<run, receipt, tail, cache>>
    BY <1>10 DEF Mark, LocalsFit, Dispatching
  <2>2. CASE rows[j].state # "QUEUED"
    <3>1. UNCHANGED rows /\ Continue(s)
      BY <1>10, <2>2 DEF Mark
    <3> QED BY <1>2, <2>1, <3>1 DEF Continue, Goto, Set, OthersKeep, RunsKept, Dispatching, Marked
  <2>3. CASE rows[j].state = "QUEUED"
    <3>1. /\ SetRow(j, MarkDispatched(rows[j], r))
          /\ pc' = [pc EXCEPT ![s] = "checkB"] /\ UNCHANGED <<job, gen>>
      BY <1>10, <2>3 DEF Mark, Goto
    <3>2. /\ rows[j].run = NoRun /\ rows'[j].run = r
          /\ rows'[j].run_ids = rows[j].run_ids \union {r}
          /\ \A i \in Jobs : i # j => rows'[i] = rows[i]
      BY <2>1, <2>3, <3>1, DispatchWrite
    <3>3. \A i \in Jobs : r \notin rows[i].run_ids
      BY <2>1 DEF LocalRuns, DrawnRunsAreNew
    <3>4. run[r] = "ABSENT"
      BY <2>1, <3>3 DEF OwnerRuns, RunsDispatched
    <3>5. LineagesDisjoint'
      <4> SUFFICES ASSUME NEW i \in Jobs, NEW k \in Jobs, i # k
                   PROVE  rows'[i].run_ids \intersect rows'[k].run_ids = {}
        BY DEF LineagesDisjoint
      <4>1. rows[i].run_ids \intersect rows[k].run_ids = {}
        BY DEF OwnerRuns, LineagesDisjoint
      <4> HIDE DEF j, r
      <4> QED BY <3>2, <3>3, <4>1
    <3>6. RunsDispatched'
      <4> SUFFICES ASSUME NEW q \in Runs, run[q] # "ABSENT"
                   PROVE  \E i \in Jobs : q \in rows'[i].run_ids
        BY <2>1 DEF RunsDispatched
      <4>1. PICK i \in Jobs : q \in rows[i].run_ids
        BY DEF OwnerRuns, RunsDispatched
      <4> HIDE DEF j, r
      <4> QED BY <3>2, <4>1
    <3>7. OnlyCurrentRunLives'
      <4> SUFFICES ASSUME NEW i \in Jobs, NEW q \in rows'[i].run_ids, Live(q)
                   PROVE  rows'[i].run = q
        BY <2>1 DEF OnlyCurrentRunLives, Live
      <4>1. \A k \in Jobs : q \in rows[k].run_ids => rows[k].run = q
        BY DEF OwnerRuns, OnlyCurrentRunLives
      <4>2. q # r
        BY <3>4 DEF Live
      <4>3. q # NoRun \/ i # j
        <5>1. rows[j].run_ids \subseteq Runs
          BY <2>1 DEF OwnerTypeOK, JobRow
        <5> HIDE DEF j, r
        <5> QED BY <2>1, <3>2, <5>1, NoRunAssumption
      <4> HIDE DEF j, r
      <4> QED BY <3>2, <4>1, <4>2, <4>3
    <3>8. OwnerRuns'
      BY <2>1, <3>5, <3>6, <3>7 DEF OwnerRuns, TailsFit
    <3>9. CachesFit' /\ RunsDrawnOnce'
      BY <2>1, <3>1 DEF LocalRuns, CachesFit, RunsDrawnOnce, Dispatching, Marked
    <3>10. DrawnRunsAreNew'
      <4> SUFFICES ASSUME NEW t \in Schedulers, pc[t] = "mark", t # s, NEW i \in Jobs
                   PROVE  gen[t] \notin rows'[i].run_ids
        BY <3>1 DEF DrawnRunsAreNew
      <4>1. gen[t] # r /\ gen[t] \notin rows[i].run_ids
        BY <2>1 DEF LocalRuns, RunsDrawnOnce, DrawnRunsAreNew, Dispatching
      <4> HIDE DEF j, r
      <4> QED BY <3>2, <4>1
    <3>11. MarkedRunsWait'
      <4>1. ASSUME NEW t \in Schedulers, pc[t] \in Marked
            PROVE  rows'[job[t]].run = gen[t] /\ run[gen[t]] = "ABSENT"
        <5>1. rows[job[t]].run = gen[t] /\ run[gen[t]] = "ABSENT" /\ job[t] \in Jobs /\ gen[t] \in Runs
          BY <4>1 DEF LocalRuns, MarkedRunsWait, LocalsFit, Dispatching
        <5>2. job[t] # j
          BY <3>2, <5>1, NoRunAssumption
        <5> HIDE DEF j, r
        <5> QED BY <3>2, <5>1, <5>2
      <4>2. rows'[job[s]].run = gen[s] /\ run[gen[s]] = "ABSENT"
        BY <3>2, <3>4
      <4> HIDE DEF j, r
      <4> QED BY <2>1, <3>1, <4>1, <4>2 DEF MarkedRunsWait
    <3> QED BY <3>8, <3>9, <3>10, <3>11 DEF LocalRuns
  <2> QED BY <2>2, <2>3
<1>11. CASE Launch(s)
  <2>1. /\ pc[s] = "launch" /\ job[s] \in Jobs /\ gen[s] \in Runs
        /\ UNCHANGED <<rows, receipt, tail, cache>>
    BY <1>11 DEF Launch, LocalsFit, Dispatching, Marked
  <2>2. CASE UNCHANGED run /\ Goto(s, "undo") /\ UNCHANGED <<job, gen>>
    BY <1>2, <2>1, <2>2 DEF Goto, OthersKeep, RunsKept, Marked
  <2>3. CASE SetRun(gen[s], "PENDING") /\ Continue(s)
    <3>1. run' = [run EXCEPT ![gen[s]] = "PENDING"]
      BY <2>3 DEF SetRun
    <3>2. OthersKeep(s) /\ pc'[s] \notin Dispatching
      BY <2>3 DEF Continue, Goto, Set, OthersKeep, Dispatching, Marked
    <3>3. rows[job[s]].run = gen[s] /\ run[gen[s]] = "ABSENT"
      BY <2>1 DEF LocalRuns, MarkedRunsWait, Marked
    <3>4. gen[s] \in rows[job[s]].run_ids
      BY <2>1, <3>3, NoRunAssumption DEF RowsFit
    <3>5. LineagesDisjoint' /\ RunsDispatched'
      BY <2>1, <3>1, <3>4 DEF OwnerRuns, LineagesDisjoint, RunsDispatched
    <3>6. OnlyCurrentRunLives'
      <4> SUFFICES ASSUME NEW i \in Jobs, NEW q \in rows[i].run_ids, Live(q)'
                   PROVE  rows[i].run = q
        BY <2>1 DEF OnlyCurrentRunLives
      <4>1. q \in Runs
        BY DEF OwnerTypeOK, JobRow
      <4>2. CASE q = gen[s]
        BY <2>1, <3>3, <3>4, <4>2 DEF OwnerRuns, LineagesDisjoint
      <4>3. CASE q # gen[s]
        BY <3>1, <4>1, <4>3 DEF OwnerRuns, OnlyCurrentRunLives, Live, OwnerTypeOK
      <4> QED BY <4>2, <4>3
    <3>7. TailsFit' /\ CachesFit'
      BY <2>1, <3>1, <3>3 DEF OwnerRuns, LocalRuns, TailsFit, CachesFit, OwnerTypeOK
    <3>8. RunsDrawnOnce' /\ DrawnRunsAreNew'
      <4>1. RunsDrawnOnce'
        BY <2>1, <3>2 DEF LocalRuns, RunsDrawnOnce, OthersKeep, Dispatching
      <4>2. DrawnRunsAreNew'
        <5> SUFFICES ASSUME NEW t \in Schedulers, pc'[t] = "mark", NEW i \in Jobs
                     PROVE  gen'[t] \notin rows[i].run_ids
          BY <2>1 DEF DrawnRunsAreNew
        <5>1. t # s
          BY <3>2 DEF Dispatching
        <5>2. pc[t] = "mark" /\ gen'[t] = gen[t]
          BY <3>2, <5>1 DEF OthersKeep
        <5> QED BY <5>2 DEF LocalRuns, DrawnRunsAreNew
      <4> QED BY <4>1, <4>2
    <3>9. MarkedRunsWait'
      <4> SUFFICES ASSUME NEW t \in Schedulers, pc[t] \in Marked, t # s
                   PROVE  rows[job[t]].run = gen[t] /\ run'[gen[t]] = "ABSENT"
        BY <2>1, <3>2 DEF MarkedRunsWait, OthersKeep, Dispatching
      <4>1. gen[t] # gen[s] /\ gen[t] \in Runs
        BY <2>1 DEF LocalRuns, RunsDrawnOnce, LocalsFit, Dispatching, Marked
      <4> QED BY <3>1, <4>1 DEF LocalRuns, MarkedRunsWait, OwnerTypeOK
    <3> QED BY <3>5, <3>6, <3>7, <3>8, <3>9 DEF OwnerRuns, LocalRuns
  <2> QED BY <1>11, <2>2, <2>3 DEF Launch
<1>12. CASE RequeueDispatch(s)
  <2> DEFINE j == job[s]
  <2>1. /\ pc[s] = "requeue" /\ j \in Jobs /\ UNCHANGED <<run, receipt, tail, cache>>
    BY <1>12 DEF RequeueDispatch, LocalsFit, Dispatching, Marked
  <2>2. OthersKeep(s) /\ pc'[s] \notin Dispatching
    BY <1>12 DEF RequeueDispatch, Continue, Goto, Set, OthersKeep, Dispatching, Marked
  <2>3. CASE UNCHANGED rows
    BY <1>2, <2>1, <2>2, <2>3 DEF RunsKept
  <2>4. CASE ~UNCHANGED rows
    <3>1. rows[j].state = "RUNNING" /\ SetRow(j, Requeue(rows[j], "NO_CAPACITY", NoRun))
      BY <1>12, <2>4 DEF RequeueDispatch
    <3>2. Requeued(j)
      BY <2>1, <3>1, RequeueWrite DEF WaitingReason, RunOrNone
    <3>3. rows[j].run = gen[s] /\ run[gen[s]] = "ABSENT"
      BY <2>1 DEF LocalRuns, MarkedRunsWait, Marked
    <3>a. \A i \in Jobs : rows'[i].run_ids = rows[i].run_ids
      BY <3>2 DEF Requeued
    <3>4. LineagesDisjoint' /\ RunsDispatched'
      BY <2>1, <3>a DEF OwnerRuns, LineagesDisjoint, RunsDispatched
    <3>5. OnlyCurrentRunLives'
      <4> SUFFICES ASSUME NEW i \in Jobs, NEW q \in rows[i].run_ids, Live(q)
                   PROVE  rows'[i].run = q
        BY <2>1, <3>a DEF OnlyCurrentRunLives, Live
      <4>1. rows[i].run = q
        BY DEF OwnerRuns, OnlyCurrentRunLives
      <4>2. q # gen[s]
        BY <3>3 DEF Live
      <4> HIDE DEF j
      <4> QED BY <3>2, <3>3, <4>1, <4>2 DEF Requeued
    <3>6. OwnerRuns'
      BY <2>1, <3>4, <3>5 DEF OwnerRuns, TailsFit
    <3>7. CachesFit' /\ RunsDrawnOnce' /\ DrawnRunsAreNew'
      <4>1. CachesFit'
        BY <2>1 DEF LocalRuns, CachesFit
      <4>2. RunsDrawnOnce'
        BY <2>1, <2>2 DEF LocalRuns, RunsDrawnOnce, OthersKeep
      <4>3. DrawnRunsAreNew'
        BY <2>1, <2>2, <3>a DEF LocalRuns, DrawnRunsAreNew, OthersKeep, Dispatching
      <4> QED BY <4>1, <4>2, <4>3
    <3>8. MarkedRunsWait'
      <4> SUFFICES ASSUME NEW t \in Schedulers, pc[t] \in Marked, t # s
                   PROVE  rows'[job[t]].run = gen[t] /\ run[gen[t]] = "ABSENT"
        BY <2>1, <2>2 DEF MarkedRunsWait, OthersKeep, Dispatching
      <4>1. gen[t] # gen[s] /\ job[t] \in Jobs
        BY <2>1 DEF LocalRuns, RunsDrawnOnce, LocalsFit, Dispatching, Marked
      <4>2. rows[job[t]].run = gen[t] /\ run[gen[t]] = "ABSENT"
        BY DEF LocalRuns, MarkedRunsWait
      <4>3. job[t] # j
        BY <3>3, <4>1, <4>2
      <4> HIDE DEF j
      <4> QED BY <3>2, <4>1, <4>2, <4>3 DEF Requeued
    <3> QED BY <3>6, <3>7, <3>8 DEF LocalRuns
  <2> QED BY <2>3, <2>4
<1> QED
  BY <1>1, <1>3, <1>4, <1>5, <1>6, <1>7, <1>8, <1>9, <1>10, <1>11, <1>12, QuietTicks DEF TickStep

\* A run that has a row and is not PREEMPTED changes its status; it does not
\* come back to life.
LEMMA StatusRuns ==
    ASSUME TypeInv, OwnerRuns, LocalRuns, UNCHANGED rows, UNCHANGED localVars,
           NEW r \in Runs, run[r] \notin {"ABSENT", "PREEMPTED"},
           NEW status \in RunStatus, SetRun(r, status), Live(r) \/ status \in TERMINAL_RUN_STATUSES
    PROVE  LineagesDisjoint' /\ RunsDispatched' /\ OnlyCurrentRunLives' /\ LocalRuns'
<1>1. run' = [run EXCEPT ![r] = status] /\ run \in [Runs -> Status]
  BY DEF SetRun, TypeInv, TypeOK, OwnerTypeOK
<1>2. LineagesDisjoint'
  BY DEF OwnerRuns, LineagesDisjoint
<1>3. RunsDispatched'
  BY <1>1 DEF OwnerRuns, RunsDispatched
<1>4. OnlyCurrentRunLives'
  <2> SUFFICES ASSUME NEW i \in Jobs, NEW q \in rows[i].run_ids, Live(q)'
               PROVE  rows[i].run = q
    BY DEF OnlyCurrentRunLives
  <2>1. q \in Runs
    BY DEF TypeInv, TypeOK, OwnerTypeOK, JobRow
  <2>2. Live(q)
    BY <1>1, <2>1 DEF Live, TERMINAL_RUN_STATUSES
  <2> QED BY <2>2 DEF OwnerRuns, OnlyCurrentRunLives
<1>5. CachesFit'
  BY <1>1 DEF LocalRuns, CachesFit, localVars
<1>6. RunsDrawnOnce' /\ DrawnRunsAreNew'
  BY DEF LocalRuns, RunsDrawnOnce, DrawnRunsAreNew, localVars
<1>7. MarkedRunsWait'
  <2> SUFFICES ASSUME NEW t \in Schedulers, pc[t] \in Marked
               PROVE  rows[job[t]].run = gen[t] /\ run'[gen[t]] = "ABSENT"
    BY DEF MarkedRunsWait, localVars
  <2>1. rows[job[t]].run = gen[t] /\ run[gen[t]] = "ABSENT" /\ gen[t] \in Runs
    BY DEF LocalRuns, MarkedRunsWait, TypeInv, LocalsFit, Dispatching
  <2> QED BY <1>1, <2>1
<1> QED BY <1>2, <1>3, <1>4, <1>5, <1>6, <1>7 DEF LocalRuns

\* The locals fit as long as run statuses and job runs stay.
LEMMA OthersQuiet ==
    ASSUME TypeInv, OwnerRuns, LocalRuns, UNCHANGED localVars, UNCHANGED run, RunsKept, TailsFit'
    PROVE  OwnerRuns' /\ LocalRuns'
<1>1. OwnerRuns'
  BY DEF OwnerRuns, RunsKept, LineagesDisjoint, RunsDispatched, OnlyCurrentRunLives, Live
<1>2. CachesFit' /\ RunsDrawnOnce' /\ DrawnRunsAreNew'
  BY DEF LocalRuns, CachesFit, RunsDrawnOnce, DrawnRunsAreNew, RunsKept, localVars
<1>3. MarkedRunsWait'
  BY DEF LocalRuns, MarkedRunsWait, RunsKept, localVars, TypeInv, LocalsFit, Dispatching
<1> QED BY <1>1, <1>2, <1>3 DEF LocalRuns

LEMMA OthersKeepRuns ==
    ASSUME TypeInv, OwnerRuns, LocalRuns, OthersStep, UNCHANGED localVars
    PROVE  OwnerRuns' /\ LocalRuns'
<1>a. TypeOK /\ OwnerTypeOK /\ RowsFit /\ TailsFit
  BY DEF TypeInv, TypeOK, OwnerRuns
<1>1. ASSUME NEW r \in Runs, Start(r) \/ Finish(r) \/ Orphan(r)
      PROVE  OwnerRuns' /\ LocalRuns'
  <2>1. UNCHANGED <<rows, receipt, tail>>
    BY <1>1 DEF Start, Finish, Orphan
  <2>2. PICK status \in RunStatus \ {"PENDING"} : SetRun(r, status)
    BY <1>1 DEF Start, Finish, Orphan, RunStatus
  <2>3. run[r] \in {"PENDING", "RUNNING"} /\ (run[r] = "PENDING" \/ receipt[r].kind = "NONE")
    BY <1>1 DEF Start, Finish, Orphan
  <2>4. TailsFit'
    BY <1>a, <2>1, <2>2, <2>3 DEF TailsFit, SetRun, OwnerTypeOK
  <2>5. LineagesDisjoint' /\ RunsDispatched' /\ OnlyCurrentRunLives' /\ LocalRuns'
    BY <2>1, <2>2, <2>3, StatusRuns DEF Live
  <2> QED BY <2>4, <2>5 DEF OwnerRuns
<1>2. ASSUME NEW r \in Runs, NEW j \in Jobs, PreemptBegin(j, r)
      PROVE  OwnerRuns' /\ LocalRuns'
  <2>1. /\ run[r] = "RUNNING" /\ UNCHANGED <<rows, run>> /\ tail' = [tail EXCEPT ![r] = "decided"]
        /\ receipt' = [receipt EXCEPT ![r] = [kind |-> "DECISION", before |-> rows[j].preemptions]]
    BY <1>2 DEF PreemptBegin
  <2>2. TailsFit'
    BY <1>a, <2>1 DEF TailsFit, OwnerTypeOK
  <2> QED BY <2>1, <2>2, OthersQuiet DEF RunsKept
<1>11. ASSUME NEW r \in Runs, NEW j \in Jobs, PreemptLimit(j, r)
       PROVE  OwnerRuns' /\ LocalRuns'
  <2>1. run[r] = "RUNNING" /\ receipt[r].kind = "NONE" /\ UNCHANGED rows /\ SetRun(r, "FAILED")
    BY <1>11 DEF PreemptLimit
  <2>2. \/ /\ tail' = [tail EXCEPT ![r] = "failJob"]
           /\ receipt' = [receipt EXCEPT ![r] = [kind |-> "LIMIT", before |-> rows[j].preemptions]]
        \/ UNCHANGED <<receipt, tail>>
    BY <1>11 DEF PreemptLimit
  <2>3. TailsFit'
    BY <1>a, <2>1, <2>2 DEF TailsFit, SetRun, OwnerTypeOK
  <2>4. LineagesDisjoint' /\ RunsDispatched' /\ OnlyCurrentRunLives' /\ LocalRuns'
    BY <2>1, StatusRuns DEF RunStatus, Live
  <2> QED BY <2>3, <2>4 DEF OwnerRuns
<1>3. ASSUME NEW r \in Runs, PreemptRun(r)
      PROVE  OwnerRuns' /\ LocalRuns'
  <2>1. run[r] = "RUNNING" /\ receipt[r].kind = "DECISION" /\ UNCHANGED <<rows, receipt>>
    BY <1>3, <1>a DEF PreemptRun, TailsFit
  <2>2. \/ SetRun(r, "PREEMPTED") /\ tail' = [tail EXCEPT ![r] = "park"]
        \/ SetRun(r, "FAILED") /\ tail' = [tail EXCEPT ![r] = "none"]
    BY <1>3 DEF PreemptRun
  <2>3. TailsFit'
    BY <1>a, <2>1, <2>2 DEF TailsFit, SetRun, OwnerTypeOK
  <2>4. LineagesDisjoint' /\ RunsDispatched' /\ OnlyCurrentRunLives' /\ LocalRuns'
    BY <2>1, <2>2, StatusRuns DEF RunStatus, Live
  <2> QED BY <2>3, <2>4 DEF OwnerRuns
<1>4. ASSUME NEW r \in Runs, PreemptRelease(r) \/ TailCrash(r)
      PROVE  OwnerRuns' /\ LocalRuns'
  <2>1. TailsFit'
    BY <1>4, <1>a DEF PreemptRelease, TailCrash, TailsFit, OwnerTypeOK
  <2> QED BY <1>4, <2>1, OthersQuiet DEF PreemptRelease, TailCrash, RunsKept
<1>5. ASSUME NEW r \in Runs, NEW j \in Jobs, Recover(j, r)
      PROVE  OwnerRuns' /\ LocalRuns'
  <2>1. TailsFit'
    BY <1>5, <1>a DEF Recover, TailsFit, OwnerTypeOK
  <2> QED BY <1>5, <2>1, OthersQuiet DEF Recover, RunsKept
<1>6. ASSUME NEW r \in Runs, NEW j \in Jobs, PreemptPark(j, r)
      PROVE  OwnerRuns' /\ LocalRuns'
  <2>1. /\ UNCHANGED <<run, receipt>> /\ tail' = [tail EXCEPT ![r] = "release"]
        /\ Park(j, r) \/ UNCHANGED rows
    BY <1>6 DEF PreemptPark
  <2>2. run[r] = "PREEMPTED"
    BY <1>6, <1>a DEF PreemptPark, TailsFit
  <2>3. /\ LineagesDisjoint' /\ RunsDispatched' /\ OnlyCurrentRunLives'
        /\ \A i \in Jobs : rows'[i].run_ids = rows[i].run_ids
        /\ \A t \in Schedulers : pc[t] \in Marked => rows'[job[t]].run = rows[job[t]].run
    BY <2>1, <2>2, ParkedRuns
  <2>4. TailsFit'
    BY <1>a, <2>1 DEF TailsFit, OwnerTypeOK
  <2>5. CachesFit' /\ RunsDrawnOnce' /\ DrawnRunsAreNew'
    BY <2>1, <2>3 DEF LocalRuns, CachesFit, RunsDrawnOnce, DrawnRunsAreNew, localVars
  <2>6. MarkedRunsWait'
    BY <2>1, <2>3 DEF LocalRuns, MarkedRunsWait, localVars
  <2> QED BY <2>3, <2>4, <2>5, <2>6 DEF OwnerRuns, LocalRuns
<1>7. ASSUME NEW r \in Runs, NEW j \in Jobs, PreemptFailJob(j, r)
      PROVE  OwnerRuns' /\ LocalRuns'
  <2>1. RunsKept
    <3>1. CASE UNCHANGED rows
      BY <3>1 DEF RunsKept
    <3>2. CASE Reconcile(j, "FAILED", "PREEMPTION_LIMIT")
      BY <1>a, <3>2, ReconcileWrite DEF FAILURE_REASONS
    <3> QED BY <1>7, <3>1, <3>2 DEF PreemptFailJob
  <2>2. TailsFit'
    BY <1>7, <1>a DEF PreemptFailJob, TailsFit, OwnerTypeOK
  <2> QED BY <1>7, <2>1, <2>2, OthersQuiet DEF PreemptFailJob
<1>8. ASSUME NEW c \in Cancellers, CancelRun(c)
      PROVE  OwnerRuns' /\ LocalRuns'
  <2> DEFINE r == cancel[c].run
  <2>1. r \in Runs /\ UNCHANGED <<rows, receipt>>
    BY <1>8 DEF CancelRun, TypeInv, CancelsFit
  <2>2. CASE UNCHANGED <<run, tail>>
    BY <1>a, <2>1, <2>2, OthersQuiet DEF RunsKept, TailsFit
  <2>3. CASE Live(r) /\ SetRun(r, "FAILED") /\ tail' = [tail EXCEPT ![r] = "none"]
    <3>1. TailsFit'
      BY <1>a, <2>1, <2>3 DEF TailsFit, SetRun, OwnerTypeOK
    <3>2. LineagesDisjoint' /\ RunsDispatched' /\ OnlyCurrentRunLives' /\ LocalRuns'
      BY <2>1, <2>3, StatusRuns DEF RunStatus, Live
    <3> QED BY <3>1, <3>2 DEF OwnerRuns
  <2> QED BY <1>8, <2>2, <2>3 DEF CancelRun
<1>9. ASSUME NEW c \in Cancellers, CancelQueued(c) \/ CancelJob(c)
      PROVE  OwnerRuns' /\ LocalRuns'
  <2>1. cancel[c].job \in Jobs
    BY <1>9 DEF CancelQueued, CancelJob, TypeInv, CancelsFit
  <2>2. RunsKept
    BY <1>9, <1>a, <2>1, CancelWrite DEF CancelQueued, CancelJob
  <2>3. UNCHANGED <<run, receipt, tail>>
    BY <1>9 DEF CancelQueued, CancelJob
  <2> QED BY <1>a, <2>2, <2>3, OthersQuiet DEF TailsFit
<1>10. CASE \/ \E c \in Cancellers : \/ CancelRelease(c)
                                     \/ \E j \in Jobs : CancelRead(c, j)
            \/ Expire
  <2>1. UNCHANGED <<rows, run, receipt, tail>>
    BY <1>10 DEF CancelRelease, CancelRead, Expire
  <2> QED BY <1>a, <2>1, OthersQuiet DEF RunsKept, TailsFit
<1> QED
  BY <1>1, <1>2, <1>3, <1>4, <1>5, <1>6, <1>7, <1>8, <1>9, <1>10, <1>11 DEF OthersStep, RunStep, CancelStep

LEMMA RunsPreserved == IInv /\ [Next]_vars => OwnerRuns' /\ LocalRuns'
<1> SUFFICES ASSUME IInv, [Next]_vars PROVE OwnerRuns' /\ LocalRuns'
  OBVIOUS
<1> USE DEF IInv
<1>1. CASE UNCHANGED vars
  <2>1. UNCHANGED <<rows, run, receipt, tail>> /\ UNCHANGED localVars
    BY <1>1 DEF vars, ownerVars
  <2> QED BY <2>1, OthersQuiet DEF RunsKept, TailsFit, OwnerRuns
<1>2. ASSUME NEW s \in Schedulers, Crash(s) \/ Abandon(s)
      PROVE  OwnerRuns' /\ LocalRuns'
  BY <1>2, QuietTicks
<1> QED BY <1>1, <1>2, TickKeepsRuns, OthersKeepRuns DEF Next

LEMMA Invariance == Spec => []IInv
<1>1. Init => IInv
  BY InitTypes, InitRuns DEF IInv
<1>2. IInv /\ [Next]_vars => IInv'
  BY TypesKept, RunsPreserved DEF IInv
<1> QED BY <1>1, <1>2, PTL DEF Spec

\* A job is never worked on by two runs at once, however schedulers, lease
\* losses, compensations, preemptions, cancellations and crashes interleave.
THEOREM OneRunAtATime == Spec => []OnlyCurrentRunLives
<1>1. IInv => OnlyCurrentRunLives
  BY DEF IInv, OwnerRuns
<1> QED BY <1>1, Invariance, PTL
-----------------------------------------------------------------------------
(* The schedulers implement the lifecycle of a job.                        *)

\* What rows' is when a row is written, under the refinement mapping.
LEMMA Mapping ==
    ASSUME TypeOK, NEW j \in Jobs, NEW row \in JobRow, SetRow(j, row)
    PROVE  /\ [i \in Jobs |-> rows[i].state]' =
                 [[i \in Jobs |-> rows[i].state] EXCEPT ![j] = row.state]
           /\ [i \in Jobs |-> rows[i].run]' =
                 [[i \in Jobs |-> rows[i].run] EXCEPT ![j] = row.run]
           /\ [i \in Jobs |-> rows[i].run_ids]' =
                 [[i \in Jobs |-> rows[i].run_ids] EXCEPT ![j] = row.run_ids]
BY DEF SetRow, TypeOK, OwnerTypeOK

\* What every step does to the rows: a step of the lifecycle, and the count of
\* preemptions stays while a job is RUNNING.
CountsKept ==
    \A j \in Jobs : rows[j].state = "RUNNING" /\ rows'[j].state = "RUNNING"
                      => rows'[j].preemptions = rows[j].preemptions
RowStep == [Lifecycle!Next]_(Lifecycle!vars) /\ CountsKept

LEMMA NoWriteStutters == UNCHANGED rows => RowStep
BY DEF RowStep, CountsKept, Lifecycle!vars

\* A write that keeps the run list parks the job, ends it or does not show.
LEMMA WriteImplements ==
    ASSUME TypeOK, NEW j \in Jobs, NEW row \in JobRow, SetRow(j, row),
           row.run_ids = rows[j].run_ids,
           \/ rows[j].state = "RUNNING" /\ row.state = "QUEUED" /\ row.run = NoRun
           \/ /\ rows[j].state = "RUNNING" /\ row.state \in {"SUCCEEDED", "FAILED"}
              /\ row.run = rows[j].run
           \/ /\ rows[j].state \in {"QUEUED", "RUNNING"} /\ row.state = "CANCELLED"
              /\ row.run = rows[j].run
           \/ /\ row.state = rows[j].state /\ row.run = rows[j].run
              /\ row.preemptions = rows[j].preemptions
    PROVE  RowStep
<1> DEFINE phase == [i \in Jobs |-> rows[i].state]
           runner == [i \in Jobs |-> rows[i].run]
           lineage == [i \in Jobs |-> rows[i].run_ids]
<1>1. /\ phase' = [phase EXCEPT ![j] = row.state]
      /\ runner' = [runner EXCEPT ![j] = row.run]
      /\ lineage' = [lineage EXCEPT ![j] = row.run_ids]
  BY Mapping
<1>2. phase[j] = rows[j].state /\ runner[j] = rows[j].run /\ lineage[j] = rows[j].run_ids
  OBVIOUS
<1>3. /\ UNCHANGED lineage
      /\ row.run = rows[j].run => UNCHANGED runner
      /\ row.state = rows[j].state => UNCHANGED phase
  BY <1>1, <1>2
<1>8. CountsKept
  BY DEF CountsKept, SetRow, TypeOK, OwnerTypeOK
<1> HIDE DEF phase, runner, lineage
<1>4. CASE rows[j].state = "RUNNING" /\ row.state = "QUEUED" /\ row.run = NoRun
  <2>1. Lifecycle!Park(j)
    BY <1>1, <1>2, <1>3, <1>4 DEF Lifecycle!Park, phase, runner, lineage
  <2> QED BY <1>8, <2>1 DEF RowStep, Lifecycle!Next
<1>5. CASE rows[j].state = "RUNNING" /\ row.state \in {"SUCCEEDED", "FAILED"} /\ row.run = rows[j].run
  <2>1. Lifecycle!Finish(j)
    BY <1>1, <1>2, <1>3, <1>5 DEF Lifecycle!Finish, phase, runner, lineage
  <2> QED BY <1>8, <2>1 DEF RowStep, Lifecycle!Next
<1>6. CASE rows[j].state \in {"QUEUED", "RUNNING"} /\ row.state = "CANCELLED" /\ row.run = rows[j].run
  <2>1. Lifecycle!Cancel(j)
    BY <1>1, <1>2, <1>3, <1>6 DEF Lifecycle!Cancel, phase, runner, lineage
  <2> QED BY <1>8, <2>1 DEF RowStep, Lifecycle!Next
<1>7. CASE row.state = rows[j].state /\ row.run = rows[j].run
  BY <1>3, <1>7, <1>8 DEF RowStep, Lifecycle!vars, phase, runner, lineage
<1> QED BY <1>4, <1>5, <1>6, <1>7

LEMMA CancelImplements ==
    ASSUME TypeOK, NEW j \in Jobs, CancelTransaction(j)
    PROVE  RowStep
<1> DEFINE row == CancelTransition(rows[j])
<1>0. rows[j] \in JobRow
  BY DEF TypeOK, OwnerTypeOK
<1>1. /\ row \in JobRow /\ row.state = "CANCELLED" /\ row.run = rows[j].run
      /\ row.run_ids = rows[j].run_ids
  BY <1>0 DEF CancelTransition, JobRow, JobState
<1>2. \/ rows[j].state \in {"QUEUED", "RUNNING"} /\ SetRow(j, row)
      \/ UNCHANGED rows
  BY DEF CancelTransaction
<1> HIDE DEF row
<1> QED BY <1>1, <1>2, WriteImplements, NoWriteStutters

LEMMA ReconcileImplements ==
    ASSUME TypeOK, NEW j \in Jobs, NEW to \in {"SUCCEEDED", "FAILED"},
           NEW reason \in FAILURE_REASONS \union {"NONE"}, Reconcile(j, to, reason)
    PROVE  RowStep
<1> DEFINE row == ReconcileTransition(rows[j], to, reason)
<1>0. rows[j] \in JobRow
  BY DEF TypeOK, OwnerTypeOK
<1>1. /\ row \in JobRow /\ row.state = to /\ row.run = rows[j].run
      /\ row.run_ids = rows[j].run_ids
  BY <1>0 DEF ReconcileTransition, JobRow, JobState
<1>2. (rows[j].state = "RUNNING" /\ SetRow(j, row)) \/ UNCHANGED rows
  BY DEF Reconcile
<1> HIDE DEF row
<1> QED BY <1>1, <1>2, WriteImplements, NoWriteStutters

LEMMA RequeueImplements ==
    ASSUME TypeOK, RowsFit, NEW j \in Jobs, rows[j].state = "RUNNING",
           NEW reason \in WaitingReason, NEW resume \in RunOrNone,
           SetRow(j, Requeue(rows[j], reason, resume))
    PROVE  RowStep
<1> DEFINE row == Requeue(rows[j], reason, resume)
<1>1. rows[j] \in JobRow /\ Materialises(rows[j])
  BY DEF TypeOK, OwnerTypeOK, RowsFit
<1>2. row \in JobRow
  BY <1>1, RequeuedRow
<1>3. row.run = NoRun /\ row.run_ids = rows[j].run_ids /\ row.state = "QUEUED"
  BY <1>1 DEF Requeue, JobRow
<1>4. SetRow(j, row)
  OBVIOUS
<1> HIDE DEF row
<1> QED BY <1>2, <1>3, <1>4, WriteImplements

LEMMA ParkImplements ==
    ASSUME TypeOK, RowsFit, NEW j \in Jobs, NEW r \in Runs, Park(j, r)
    PROVE  RowStep
<1>1. CASE UNCHANGED rows
  BY <1>1, NoWriteStutters
<1>2. CASE ~UNCHANGED rows
  <2>1. rows[j].state = "RUNNING" /\ SetRow(j, Requeue(rows[j], "PREEMPTED", r))
    BY <1>2 DEF Park
  <2> QED BY <2>1, RequeueImplements DEF WaitingReason, RunOrNone
<1> QED BY <1>1, <1>2

LEMMA WaitImplements ==
    ASSUME TypeOK, NEW j \in Jobs, SetRow(j, SetWaiting(rows[j], "CONCURRENCY"))
    PROVE  RowStep
<1> DEFINE row == SetWaiting(rows[j], "CONCURRENCY")
<1>1. /\ row \in JobRow /\ row.state = rows[j].state /\ row.run = rows[j].run
      /\ row.run_ids = rows[j].run_ids /\ row.preemptions = rows[j].preemptions
  BY DEF TypeOK, OwnerTypeOK, SetWaiting, JobRow, WaitingReason
<1>2. SetRow(j, row)
  OBVIOUS
<1> HIDE DEF row
<1> QED BY <1>1, <1>2, WriteImplements

\* A dispatch needs a run no job was ever dispatched on.
LEMMA MarkImplements ==
    ASSUME TypeOK, NEW j \in Jobs, NEW r \in Runs, rows[j].state = "QUEUED",
           \A i \in Jobs : r \notin rows[i].run_ids,
           SetRow(j, MarkDispatched(rows[j], r))
    PROVE  RowStep
<1> DEFINE row == MarkDispatched(rows[j], r)
           phase == [i \in Jobs |-> rows[i].state]
           runner == [i \in Jobs |-> rows[i].run]
           lineage == [i \in Jobs |-> rows[i].run_ids]
<1>0. rows[j] \in JobRow
  BY DEF TypeOK, OwnerTypeOK
<1>1. /\ row \in JobRow /\ row.state = "RUNNING" /\ row.run = r
      /\ row.run_ids = rows[j].run_ids \union {r}
  BY <1>0 DEF MarkDispatched, JobRow, JobState, RunOrNone
<1>2. /\ phase[j] = "QUEUED" /\ lineage[j] = rows[j].run_ids
      /\ \A i \in Jobs : r \notin lineage[i]
  OBVIOUS
<1>3. SetRow(j, row)
  OBVIOUS
<1> HIDE DEF row
<1>4. /\ phase' = [phase EXCEPT ![j] = row.state]
      /\ runner' = [runner EXCEPT ![j] = row.run]
      /\ lineage' = [lineage EXCEPT ![j] = row.run_ids]
  BY <1>1, <1>3, Mapping
<1> HIDE DEF phase, runner, lineage
<1>5. Lifecycle!Dispatch(j, r)
  BY <1>1, <1>2, <1>4 DEF Lifecycle!Dispatch, phase, runner, lineage
<1>6. CountsKept
  BY <1>3 DEF CountsKept, SetRow, TypeOK, OwnerTypeOK
<1> QED BY <1>5, <1>6 DEF Lifecycle!Next, RowStep

LEMMA TickImplements ==
    ASSUME TypeInv, OwnerRuns, LocalRuns, NEW s \in Schedulers, TickStep(s)
    PROVE  RowStep
<1>a. TypeOK /\ RowsFit
  BY DEF TypeInv
<1>1. ASSUME \/ Acquire(s) \/ Renew(s) \/ ReleaseLease(s) \/ Wait(s) \/ TickBegin(s)
             \/ Snapshot(s) \/ ReconcileList(s) \/ ReconcileSkip(s) \/ ReconcileOwed(s)
             \/ Guard(s) \/ LookupEnd(s) \/ ReconcileEnd(s) \/ ChargeEnd(s) \/ ExecEnd(s)
             \/ DebtScan(s) \/ DebtEnd(s) \/ ReadQueued(s) \/ Plan(s)
             \/ CheckB(s) \/ ReserveRun(s) \/ CheckD(s) \/ Launch(s) \/ Undo(s)
      PROVE  RowStep
  <2>1. UNCHANGED rows
    BY <1>1 DEF Acquire, Renew, ReleaseLease, Wait, TickBegin, Snapshot, ReconcileList,
         ReconcileSkip, ReconcileOwed, Guard, LookupEnd, ReconcileEnd, ChargeEnd, ExecEnd,
         DebtScan, DebtEnd, ReadQueued, Plan, CheckB, ReserveRun, CheckD, Launch, Undo, ownerVars
  <2> QED BY <2>1, NoWriteStutters
<1>2. ASSUME NEW j \in Jobs,
             Lookup(s, j) \/ ReconcileNext(s, j) \/ \E r \in Runs : ExecDispatch(s, j, r)
      PROVE  RowStep
  BY <1>2, NoWriteStutters DEF Lookup, ReconcileNext, ExecDispatch, ownerVars
<1>3. CASE ReconcileJob(s)
  <2>1. PICK o \in Outcomes : Reconcile(job[s], o[2], o[3])
    BY <1>3 DEF ReconcileJob
  <2>2. job[s] \in Jobs
    BY <1>3 DEF ReconcileJob, TypeInv, LocalsFit
  <2>3. o[2] \in {"SUCCEEDED", "FAILED"} /\ o[3] \in FAILURE_REASONS \union {"NONE"}
    BY DEF Outcomes, FAILURE_REASONS
  <2> QED BY <1>a, <2>1, <2>2, <2>3, ReconcileImplements
<1>4. CASE ReconcilePreempted(s)
  <2>1. job[s] \in Jobs /\ gen[s] \in Runs
    BY <1>4 DEF ReconcilePreempted, TypeInv, LocalsFit
  <2>2. Park(job[s], gen[s]) \/ UNCHANGED rows
    BY <1>4 DEF ReconcilePreempted
  <2> QED BY <1>a, <2>1, <2>2, ParkImplements, NoWriteStutters
<1>5. ASSUME NEW j \in Jobs, ExecWait(s, j)
      PROVE  RowStep
  BY <1>5, <1>a, WaitImplements, NoWriteStutters DEF ExecWait
<1>6. CASE Mark(s)
  <2>1. pc[s] = "mark" /\ job[s] \in Jobs /\ gen[s] \in Runs
    BY <1>6 DEF Mark, TypeInv, LocalsFit, Dispatching
  <2>2. \A i \in Jobs : gen[s] \notin rows[i].run_ids
    BY <2>1 DEF LocalRuns, DrawnRunsAreNew
  <2>3. \/ rows[job[s]].state = "QUEUED" /\ SetRow(job[s], MarkDispatched(rows[job[s]], gen[s]))
        \/ UNCHANGED rows
    BY <1>6 DEF Mark
  <2> QED BY <1>a, <2>1, <2>2, <2>3, MarkImplements, NoWriteStutters
<1>7. CASE RequeueDispatch(s)
  <2>1. job[s] \in Jobs
    BY <1>7 DEF RequeueDispatch, TypeInv, LocalsFit, Dispatching, Marked
  <2>2. \/ /\ rows[job[s]].state = "RUNNING"
           /\ SetRow(job[s], Requeue(rows[job[s]], "NO_CAPACITY", NoRun))
        \/ UNCHANGED rows
    BY <1>7 DEF RequeueDispatch
  <2> QED BY <1>a, <2>1, <2>2, RequeueImplements, NoWriteStutters DEF WaitingReason, RunOrNone
<1>8. ASSUME NEW change \in changes[s], Charge(s, change)
      PROVE  RowStep
  BY <1>8, NoWriteStutters DEF Charge
<1>9. ASSUME NEW r \in Runs, Debt(s, r)
      PROVE  RowStep
  BY <1>9, NoWriteStutters DEF Debt
<1> QED
  BY <1>1, <1>2, <1>3, <1>4, <1>5, <1>6, <1>7, <1>8, <1>9 DEF TickStep

LEMMA OthersImplement ==
    ASSUME TypeInv, OthersStep
    PROVE  RowStep
<1>a. TypeOK /\ RowsFit
  BY DEF TypeInv
<1>1. ASSUME NEW r \in Runs,
             \/ Start(r) \/ Finish(r) \/ Orphan(r) \/ TailCrash(r) \/ PreemptRun(r)
             \/ PreemptRelease(r)
             \/ \E j \in Jobs : Recover(j, r) \/ PreemptBegin(j, r) \/ PreemptLimit(j, r)
      PROVE  RowStep
  BY <1>1, NoWriteStutters
     DEF Start, Finish, Orphan, TailCrash, PreemptRun, PreemptRelease, Recover, PreemptBegin,
         PreemptLimit
<1>2. ASSUME NEW r \in Runs, NEW j \in Jobs, PreemptPark(j, r)
      PROVE  RowStep
  BY <1>2, <1>a, ParkImplements, NoWriteStutters DEF PreemptPark
<1>3. ASSUME NEW r \in Runs, NEW j \in Jobs, PreemptFailJob(j, r)
      PROVE  RowStep
  BY <1>3, <1>a, ReconcileImplements, NoWriteStutters DEF PreemptFailJob, FAILURE_REASONS
<1>4. ASSUME NEW c \in Cancellers, CancelQueued(c) \/ CancelJob(c)
      PROVE  RowStep
  <2>1. cancel[c].job \in Jobs
    BY <1>4 DEF CancelQueued, CancelJob, TypeInv, CancelsFit
  <2> QED BY <1>4, <1>a, <2>1, CancelImplements DEF CancelQueued, CancelJob
<1>5. CASE \/ \E c \in Cancellers : \/ CancelRun(c) \/ CancelRelease(c)
                                    \/ \E j \in Jobs : CancelRead(c, j)
           \/ Expire
  BY <1>5, NoWriteStutters DEF CancelRun, CancelRelease, CancelRead, Expire
<1> QED BY <1>1, <1>2, <1>3, <1>4, <1>5 DEF OthersStep, RunStep, CancelStep

LEMMA StepImplements == IInv /\ [Next]_vars => RowStep
<1> SUFFICES ASSUME IInv, [Next]_vars PROVE RowStep
  OBVIOUS
<1>1. CASE UNCHANGED vars
  BY <1>1, NoWriteStutters DEF vars, ownerVars
<1>2. ASSUME NEW s \in Schedulers, Crash(s) \/ Abandon(s)
      PROVE  RowStep
  BY <1>2, NoWriteStutters DEF Crash, Abandon, ownerVars
<1>3. ASSUME NEW s \in Schedulers, TickStep(s)
      PROVE  RowStep
  BY <1>3, TickImplements DEF IInv
<1>4. CASE OthersStep
  BY <1>4, OthersImplement DEF IInv
<1> QED BY <1>1, <1>2, <1>3, <1>4 DEF Next

\* Whatever schedulers, run processes and callers do to each other, each job
\* moves only along the promised lifecycle: a fresh run per dispatch, parked
\* only while RUNNING, final states final.
THEOREM SchedulersImplementLifecycle == Spec => ImplementsLifecycle
<1>1. Init => Lifecycle!Init
  <2> SUFFICES ASSUME Init PROVE Lifecycle!Init
    OBVIOUS
  <2> QED BY DEF Init, OwnerInit, Lifecycle!Init, QueuedJob, NoRow
<1>2. IInv /\ [Next]_vars => [Lifecycle!Next]_(Lifecycle!vars)
  BY StepImplements DEF RowStep
<1> QED BY <1>1, <1>2, Invariance, PTL DEF Spec, ImplementsLifecycle, Lifecycle!Spec
=============================================================================
