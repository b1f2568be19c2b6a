------------------------ MODULE SchedulerCapacity_proofs ------------------------
(***************************************************************************)
(* What is proved of the capacity the schedulers hand out, for every       *)
(* number of jobs, runs, schedulers and cancellers.  Under every set of    *)
(* faults: no more jobs are launched than there are slots, and a           *)
(* preemption is counted once.  Under every set in which a transition of a *)
(* job does not fail with a busy database: a job that is RUNNING on a run  *)
(* is charged for it.                                                      *)
(***************************************************************************)
EXTENDS Scheduler_proofs, FiniteSetTheorems

-----------------------------------------------------------------------------
(* A live run stays charged.                                               *)

\* A run that was dispatched and that no job is RUNNING on; it never becomes
\* one again.
Gone(r) ==
    /\ \E j \in Jobs : r \in rows[j].run_ids
    /\ \A j \in Jobs : ~Generation(j, r)

\* Whoever is about to settle or release a run's reservation holds a gone run.
OwedRunsAreGone ==
    /\ \A s \in Schedulers : /\ \A change \in changes[s] : Gone(change[1])
                             /\ pc[s] = "owed" => Gone(gen[s])
    /\ \A r \in Runs : tail[r] = "release" => Gone(r)
    /\ \A c \in Cancellers : cancel[c].pc = "release" => Gone(cancel[c].run)

\* What a process remembers about a run: the job it was dispatched for.
LineagesSeen ==
    /\ \A s \in Schedulers :
          /\ \A j \in Jobs : view[s][j] # NoRun => view[s][j] \in rows[j].run_ids
          /\ pc[s] \in {"apply", "owed"} => gen[s] \in rows[job[s]].run_ids
    /\ \A c \in Cancellers : cancel[c].pc \in {"running", "transition"} =>
          cancel[c].run \in rows[cancel[c].job].run_ids

\* A decision is bound to the count of the job it stopped, so requeue_exact
\* cannot miss the job while it still is RUNNING on that run.
ReceiptsFit ==
    \A r \in Runs :
        /\ run[r] = "ABSENT" => receipt[r].kind = "NONE"
        /\ run[r] = "PREEMPTED" => receipt[r].kind = "DECISION"
        /\ receipt[r].kind = "DECISION" =>
              \A j \in Jobs : Generation(j, r) => rows[j].preemptions = receipt[r].before

\* Between the reservation and the launch.
ReservedBeforeLaunch ==
    \A s \in Schedulers : pc[s] \in {"checkD", "launch"} =>
        (rows[job[s]].state = "RUNNING" => ledger[gen[s]] = "RESERVED")

ChargeInv ==
    OwedRunsAreGone /\ LineagesSeen /\ ReceiptsFit /\ ReservedBeforeLaunch /\ LiveGenerationCharged

-----------------------------------------------------------------------------
(* A gone run stays gone.                                                  *)

\* The same of the rows after the step, for a run named before it.
GenerationAfter(j, r) == rows'[j].state = "RUNNING" /\ rows'[j].run = r
GoneAfter(r) ==
    /\ \E j \in Jobs : r \in rows'[j].run_ids
    /\ \A j \in Jobs : ~GenerationAfter(j, r)

\* A run in some list becomes no job's run again; the lists only grow.
LEMMA OldGenerations ==
    ASSUME RowStep
    PROVE  \A j \in Jobs, r \in Runs :
              GenerationAfter(j, r) /\ (\E i \in Jobs : r \in rows[i].run_ids)
                  => Generation(j, r)
<1> SUFFICES ASSUME NEW j \in Jobs, NEW r \in Runs, GenerationAfter(j, r),
                    \E i \in Jobs : r \in rows[i].run_ids
             PROVE  Generation(j, r)
  OBVIOUS
<1> DEFINE phase == [i \in Jobs |-> rows[i].state]
           runner == [i \in Jobs |-> rows[i].run]
           lineage == [i \in Jobs |-> rows[i].run_ids]
<1>0. /\ phase[j] = rows[j].state /\ runner[j] = rows[j].run
      /\ phase'[j] = rows'[j].state /\ runner'[j] = rows'[j].run
      /\ \E i \in Jobs : r \in lineage[i]
  OBVIOUS
<1>a. DOMAIN phase = Jobs /\ DOMAIN runner = Jobs
  OBVIOUS
<1>b. Lifecycle!Next \/ UNCHANGED <<phase, runner, lineage>>
  BY DEF RowStep, Lifecycle!vars
<1>1. CASE UNCHANGED <<phase, runner, lineage>>
  <2> HIDE DEF phase, runner, lineage
  <2> QED BY <1>0, <1>1 DEF Generation, GenerationAfter
<1>2. ASSUME NEW i \in Jobs, Lifecycle!Submit(i)
      PROVE  Generation(j, r)
  <2>1. /\ \E p \in {"QUEUED", "FAILED"} : phase' = [phase EXCEPT ![i] = p]
        /\ UNCHANGED runner
    BY <1>2 DEF Lifecycle!Submit
  <2> HIDE DEF phase, runner, lineage
  <2> QED BY <1>0, <1>a, <2>1 DEF Generation, GenerationAfter
<1>3. ASSUME NEW i \in Jobs, NEW q \in Runs, Lifecycle!Dispatch(i, q)
      PROVE  Generation(j, r)
  <2>1. /\ \A k \in Jobs : q \notin lineage[k]
        /\ phase' = [phase EXCEPT ![i] = "RUNNING"] /\ runner' = [runner EXCEPT ![i] = q]
    BY <1>3 DEF Lifecycle!Dispatch
  <2> HIDE DEF phase, runner, lineage
  <2> QED BY <1>0, <1>a, <2>1 DEF Generation, GenerationAfter
<1>4. ASSUME NEW i \in Jobs, Lifecycle!Park(i)
      PROVE  Generation(j, r)
  <2>1. phase' = [phase EXCEPT ![i] = "QUEUED"] /\ runner' = [runner EXCEPT ![i] = NoRun]
    BY <1>4 DEF Lifecycle!Park
  <2> HIDE DEF phase, runner, lineage
  <2> QED BY <1>0, <1>a, <2>1 DEF Generation, GenerationAfter
<1>5. ASSUME NEW i \in Jobs, Lifecycle!Finish(i) \/ Lifecycle!Cancel(i)
      PROVE  Generation(j, r)
  <2>1. /\ \E p \in {"SUCCEEDED", "FAILED", "CANCELLED"} : phase' = [phase EXCEPT ![i] = p]
        /\ UNCHANGED runner
    BY <1>5 DEF Lifecycle!Finish, Lifecycle!Cancel
  <2> HIDE DEF phase, runner, lineage
  <2> QED BY <1>0, <1>a, <2>1 DEF Generation, GenerationAfter
<1> HIDE DEF phase, runner, lineage
<1> QED BY <1>b, <1>1, <1>2, <1>3, <1>4, <1>5 DEF Lifecycle!Next

LEMMA LineagesGrow ==
    ASSUME RowStep, NEW j \in Jobs
    PROVE  rows[j].run_ids \subseteq rows'[j].run_ids
<1> DEFINE lineage == [i \in Jobs |-> rows[i].run_ids]
<1>0. lineage[j] = rows[j].run_ids /\ lineage'[j] = rows'[j].run_ids /\ DOMAIN lineage = Jobs
  OBVIOUS
<1>1. \/ UNCHANGED lineage
      \/ \E i \in Jobs, q \in Runs : lineage' = [lineage EXCEPT ![i] = @ \union {q}]
  <2>1. CASE UNCHANGED Lifecycle!vars
    BY <2>1 DEF Lifecycle!vars
  <2>2. CASE Lifecycle!Next
    BY <2>2 DEF Lifecycle!Next, Lifecycle!Submit, Lifecycle!Dispatch, Lifecycle!Park,
                Lifecycle!Finish, Lifecycle!Cancel
  <2> QED BY <2>1, <2>2 DEF RowStep
<1> HIDE DEF lineage
<1> QED BY <1>0, <1>1

LEMMA GoneStays ==
    ASSUME RowStep
    PROVE  \A r \in Runs : Gone(r) => GoneAfter(r)
<1> SUFFICES ASSUME NEW r \in Runs, Gone(r) PROVE GoneAfter(r)
  OBVIOUS
<1>1. \E j \in Jobs : r \in rows'[j].run_ids
  BY LineagesGrow DEF Gone
<1>2. ASSUME NEW j \in Jobs, GenerationAfter(j, r)
      PROVE  FALSE
  BY <1>2, OldGenerations DEF Gone
<1> QED BY <1>1, <1>2 DEF GoneAfter

\* A run of j's list that j is not RUNNING on is gone.
LEMMA LeftRuns ==
    ASSUME RowsFit, LineagesDisjoint, NEW j \in Jobs, NEW r \in rows[j].run_ids,
           r # NoRun, ~Generation(j, r)
    PROVE  Gone(r)
BY DEF Gone, Generation, RowsFit, LineagesDisjoint

LEMMA InitCharge == Init => ChargeInv
<1> SUFFICES ASSUME Init PROVE ChargeInv
  OBVIOUS
<1> USE DEF Init, OwnerInit
<1>1. OwedRunsAreGone
  BY DEF OwedRunsAreGone, NotCancelling
<1>2. LineagesSeen
  BY DEF LineagesSeen, NoView, NotCancelling
<1>3. ReceiptsFit /\ ReservedBeforeLaunch
  BY DEF ReceiptsFit, ReservedBeforeLaunch, NoReceipt
<1>4. LiveGenerationCharged
  BY DEF LiveGenerationCharged, Running, QueuedJob, NoRow
<1> QED BY <1>1, <1>2, <1>3, <1>4 DEF ChargeInv

-----------------------------------------------------------------------------
(* What a step may do to the ledger, to a run and to a dispatch.           *)

\* Nobody gives up the reservation of a run some job is RUNNING on, except the
\* compensation of a dispatch that was not launched.
LedgerFit ==
    \A r \in Runs : ledger[r] = "RESERVED" =>
        \/ ledger'[r] = "RESERVED"
        \/ Gone(r)
        \/ \E s \in Schedulers : pc[s] = "undo" /\ gen[s] = r

LaunchFit ==
    \A r \in Runs : run'[r] # "ABSENT" =>
        run[r] # "ABSENT" \/ \E s \in Schedulers : pc[s] = "launch" /\ gen[s] = r

ReserveFit ==
    \A s \in Schedulers : pc'[s] \in {"checkD", "launch"} =>
        \/ ledger'[gen'[s]] = "RESERVED"
        \/ pc[s] \in {"checkD", "launch"} /\ gen'[s] = gen[s] /\ job'[s] = job[s]

LEMMA ChargedAfter ==
    ASSUME IInv, IInv', ChargeInv, RowStep, LedgerFit, LaunchFit, ReserveFit
    PROVE  LiveGenerationCharged' /\ ReservedBeforeLaunch'
<1>a. /\ TypeOK /\ RowsFit /\ LineagesDisjoint /\ RunsDispatched /\ RunsDrawnOnce /\ MarkedRunsWait
      /\ TypeOK' /\ MarkedRunsWait' /\ RowsFit'
  BY DEF IInv, TypeInv, OwnerRuns, LocalRuns
<1>b. \A s \in Schedulers : pc[s] \in Marked => job[s] \in Jobs /\ gen[s] \in Runs
  BY DEF IInv, TypeInv, LocalsFit, Dispatching
\* A dispatch whose job is RUNNING keeps its reservation until it is undone.
<1>1. ASSUME NEW s \in Schedulers, pc[s] \in {"checkD", "launch"}, Generation(job[s], gen[s])
      PROVE  ledger'[gen[s]] = "RESERVED"
  <2>1. job[s] \in Jobs /\ gen[s] \in Runs
    BY <1>1, <1>b DEF Marked
  <2>2. ledger[gen[s]] = "RESERVED"
    BY <1>1 DEF ChargeInv, ReservedBeforeLaunch, Generation
  <2>3. ~Gone(gen[s])
    BY <1>1, <2>1 DEF Gone
  <2>4. \A t \in Schedulers : ~(pc[t] = "undo" /\ gen[t] = gen[s])
    BY <1>a, <1>1 DEF RunsDrawnOnce, Dispatching, Marked
  <2> QED BY <2>1, <2>2, <2>3, <2>4 DEF LedgerFit
<1>2. ReservedBeforeLaunch'
  <2> SUFFICES ASSUME NEW s \in Schedulers, pc'[s] \in {"checkD", "launch"},
                      rows'[job'[s]].state = "RUNNING", ledger'[gen'[s]] # "RESERVED"
               PROVE  FALSE
    BY DEF ReservedBeforeLaunch
  <2>1. pc[s] \in {"checkD", "launch"} /\ gen'[s] = gen[s] /\ job'[s] = job[s]
    BY DEF ReserveFit
  <2>2. job[s] \in Jobs /\ gen[s] \in Runs /\ rows[job[s]].run = gen[s]
    BY <1>a, <1>b, <2>1 DEF MarkedRunsWait, Marked
  <2>3. GenerationAfter(job[s], gen[s])
    BY <1>a, <2>1 DEF MarkedRunsWait, Marked, GenerationAfter
  <2>4. gen[s] \in rows[job[s]].run_ids
    BY <1>a, <2>2, NoRunAssumption DEF RowsFit
  <2>5. Generation(job[s], gen[s])
    BY <2>2, <2>3, <2>4, OldGenerations
  <2> QED BY <1>1, <2>1, <2>5
<1>3. LiveGenerationCharged'
  <2> SUFFICES ASSUME NEW j \in Jobs, rows'[j].state = "RUNNING", run'[rows'[j].run] # "ABSENT"
               PROVE  ledger'[rows'[j].run] = "RESERVED"
    BY DEF LiveGenerationCharged, Running
  <2>1. PICK r \in Runs : r = rows'[j].run
    BY <1>a DEF RowsFit, Materialises, TypeOK, OwnerTypeOK, JobRow, RunOrNone
  <2>2. GenerationAfter(j, r)
    BY <2>1 DEF GenerationAfter
  <2>3. CASE run[r] # "ABSENT"
    <3>1. Generation(j, r)
      BY <1>a, <2>2, <2>3, OldGenerations DEF RunsDispatched
    <3>2. ledger[r] = "RESERVED"
      BY <2>3, <3>1 DEF ChargeInv, LiveGenerationCharged, Running, Generation
    <3>3. ~Gone(r)
      BY <3>1 DEF Gone
    <3>4. \A s \in Schedulers : ~(pc[s] = "undo" /\ gen[s] = r)
      BY <1>a, <2>3 DEF MarkedRunsWait, Marked
    <3> QED BY <2>1, <3>2, <3>3, <3>4 DEF LedgerFit
  <2>4. CASE run[r] = "ABSENT"
    <3>1. PICK s \in Schedulers : pc[s] = "launch" /\ gen[s] = r
      BY <2>1, <2>4 DEF LaunchFit
    <3>2. job[s] \in Jobs /\ rows[job[s]].run = r
      BY <1>a, <1>b, <3>1 DEF MarkedRunsWait, Marked
    <3>3. r \in rows[job[s]].run_ids
      BY <1>a, <2>1, <3>2, NoRunAssumption DEF RowsFit
    <3>4. Generation(j, r)
      BY <2>2, <3>2, <3>3, OldGenerations
    <3>5. r \in rows[j].run_ids
      BY <1>a, <2>1, <3>4, NoRunAssumption DEF RowsFit, Generation
    <3>6. j = job[s]
      BY <1>a, <3>2, <3>3, <3>5 DEF LineagesDisjoint
    <3> QED BY <1>1, <2>1, <3>1, <3>4, <3>6
  <2> QED BY <2>3, <2>4
<1> QED BY <1>2, <1>3

-----------------------------------------------------------------------------
(* What a step may do to the rest.                                         *)

OwedFit ==
    /\ \A s \in Schedulers :
          /\ \A change \in changes'[s] : change \in changes[s] \/ GoneAfter(change[1])
          /\ pc'[s] = "owed" => (pc[s] = "owed" /\ gen'[s] = gen[s]) \/ GoneAfter(gen'[s])
    /\ \A r \in Runs : tail'[r] = "release" => tail[r] = "release" \/ GoneAfter(r)
    /\ \A c \in Cancellers : cancel'[c].pc = "release" =>
          (cancel[c].pc = "release" /\ cancel'[c].run = cancel[c].run) \/ GoneAfter(cancel'[c].run)

SeenFit ==
    /\ \A s \in Schedulers :
          /\ \A j \in Jobs : view'[s][j] # NoRun => view'[s][j] \in rows[j].run_ids
          /\ pc'[s] \in {"apply", "owed"} => job'[s] \in Jobs /\ gen'[s] \in rows[job'[s]].run_ids
    /\ \A c \in Cancellers : cancel'[c].pc \in {"running", "transition"} =>
          cancel'[c].job \in Jobs /\ cancel'[c].run \in rows[cancel'[c].job].run_ids

ReceiptFit ==
    \A r \in Runs :
        /\ run'[r] = "ABSENT" => receipt'[r].kind = "NONE"
        /\ run'[r] = "PREEMPTED" => receipt'[r].kind = "DECISION"
        /\ receipt'[r].kind = "DECISION" =>
              /\ run[r] # "ABSENT"
              /\ \/ receipt'[r] = receipt[r]
                 \/ \E j \in Jobs : Generation(j, r) /\ receipt'[r].before = rows[j].preemptions

Fits == LedgerFit /\ LaunchFit /\ ReserveFit /\ OwedFit /\ SeenFit /\ ReceiptFit

LEMMA ChargePreserved ==
    ASSUME IInv, IInv', ChargeInv, RowStep, Fits
    PROVE  ChargeInv'
<1>a. /\ TypeOK /\ RowsFit /\ LineagesDisjoint /\ RunsDispatched /\ TypeOK'
      /\ LocalsFit /\ CancelsFit /\ LocalsFit' /\ CancelsFit'
  BY DEF IInv, TypeInv, OwnerRuns, LocalRuns
<1>b. LedgerFit /\ LaunchFit /\ ReserveFit /\ OwedFit /\ SeenFit /\ ReceiptFit
  BY DEF Fits
<1>c. OwedRunsAreGone /\ LineagesSeen /\ ReceiptsFit
  BY DEF ChargeInv
<1>1. LiveGenerationCharged' /\ ReservedBeforeLaunch'
  BY <1>b, ChargedAfter
<1>d. \A r \in Runs : Gone(r) => GoneAfter(r)
  BY GoneStays
<1>2. OwedRunsAreGone'
  <2>1. ASSUME NEW s \in Schedulers, NEW change \in changes'[s]
        PROVE  GoneAfter(change[1])
    <3>1. CASE change \in changes[s]
      <4>1. change[1] \in Runs /\ Gone(change[1])
        BY <1>a, <1>c, <3>1 DEF OwedRunsAreGone, TypeOK, LocalTypeOK
      <4> QED BY <1>d, <4>1
    <3> QED BY <1>b, <2>1, <3>1 DEF OwedFit
  <2>2. ASSUME NEW s \in Schedulers, pc'[s] = "owed"
        PROVE  GoneAfter(gen'[s])
    <3>1. CASE pc[s] = "owed" /\ gen'[s] = gen[s]
      <4>1. gen[s] \in Runs /\ Gone(gen[s])
        BY <1>a, <1>c, <3>1 DEF OwedRunsAreGone, LocalsFit
      <4> QED BY <1>d, <3>1, <4>1
    <3> QED BY <1>b, <2>2, <3>1 DEF OwedFit
  <2>3. ASSUME NEW r \in Runs, tail'[r] = "release"
        PROVE  GoneAfter(r)
    BY <1>b, <1>c, <1>d, <2>3 DEF OwedFit, OwedRunsAreGone
  <2>4. ASSUME NEW c \in Cancellers, cancel'[c].pc = "release"
        PROVE  GoneAfter(cancel'[c].run)
    <3>1. CASE cancel[c].pc = "release" /\ cancel'[c].run = cancel[c].run
      <4>1. cancel[c].run \in Runs /\ Gone(cancel[c].run)
        BY <1>a, <1>c, <3>1 DEF OwedRunsAreGone, CancelsFit
      <4> QED BY <1>d, <3>1, <4>1
    <3> QED BY <1>b, <2>4, <3>1 DEF OwedFit
  <2> QED BY <2>1, <2>2, <2>3, <2>4 DEF OwedRunsAreGone, GoneAfter, GenerationAfter, Gone, Generation
<1>3. LineagesSeen'
  <2>1. \A j \in Jobs : rows[j].run_ids \subseteq rows'[j].run_ids
    BY LineagesGrow
  <2> QED BY <1>b, <2>1 DEF LineagesSeen, SeenFit
<1>4. ReceiptsFit'
  <2> SUFFICES ASSUME NEW r \in Runs, receipt'[r].kind = "DECISION",
                      NEW j \in Jobs, GenerationAfter(j, r)
               PROVE  rows'[j].preemptions = receipt'[r].before
    BY <1>b DEF ReceiptsFit, ReceiptFit, Generation, GenerationAfter
  <2>1. run[r] # "ABSENT"
    BY <1>b DEF ReceiptFit
  <2>2. Generation(j, r)
    BY <1>a, <2>1, OldGenerations DEF RunsDispatched
  <2>3. rows'[j].preemptions = rows[j].preemptions
    BY <2>2 DEF RowStep, CountsKept, Generation, GenerationAfter
  <2>4. CASE receipt'[r] = receipt[r]
    BY <1>c, <2>2, <2>3, <2>4 DEF ReceiptsFit
  <2>5. CASE receipt'[r] # receipt[r]
    <3>1. PICK i \in Jobs : Generation(i, r) /\ receipt'[r].before = rows[i].preemptions
      BY <1>b, <2>5 DEF ReceiptFit
    <3>2. i = j
      BY <1>a, <2>2, <3>1, NoRunAssumption DEF Generation, RowsFit, LineagesDisjoint
    <3> QED BY <2>3, <3>1, <3>2
  <2> QED BY <2>4, <2>5
<1> QED BY <1>1, <1>2, <1>3, <1>4 DEF ChargeInv

\* A run of j's list that j is not RUNNING on after the step is gone then.
LEMMA LeftAfter ==
    ASSUME RowStep, RowsFit, LineagesDisjoint
    PROVE  \A j \in Jobs, r \in Runs :
              r \in rows[j].run_ids /\ ~GenerationAfter(j, r) => GoneAfter(r)
<1> SUFFICES ASSUME NEW j \in Jobs, NEW r \in Runs, r \in rows[j].run_ids, ~GenerationAfter(j, r)
             PROVE  GoneAfter(r)
  OBVIOUS
<1>1. r \in rows'[j].run_ids
  BY LineagesGrow
<1>2. ASSUME NEW i \in Jobs, GenerationAfter(i, r)
      PROVE  FALSE
  <2>1. Generation(i, r)
    BY <1>2, OldGenerations
  <2>2. r \in rows[i].run_ids
    BY <2>1, NoRunAssumption DEF Generation, RowsFit
  <2> QED BY <1>2, <2>2 DEF LineagesDisjoint
<1> QED BY <1>1, <1>2 DEF GoneAfter

\* requeue_exact for a PREEMPTED run takes the job from it.
LEMMA ParkLeaves ==
    ASSUME TypeOK, ReceiptsFit, NEW j \in Jobs, NEW r \in Runs, run[r] = "PREEMPTED", Park(j, r)
    PROVE  ~GenerationAfter(j, r)
<1>1. CASE Generation(j, r)
  <2>1. ExactGeneration(rows[j], r, receipt[r].before)
    BY <1>1 DEF ReceiptsFit, ExactGeneration, Generation
  <2>2. rows' = [rows EXCEPT ![j] = Requeue(rows[j], "PREEMPTED", r)]
    BY <1>1, <2>1 DEF Park, Generation, SetRow
  <2>3. rows[j] \in JobRow /\ rows'[j] = Requeue(rows[j], "PREEMPTED", r)
    BY <2>2 DEF TypeOK, OwnerTypeOK
  <2> QED BY <2>3 DEF Requeue, JobRow, GenerationAfter
<1>2. CASE ~Generation(j, r)
  BY <1>2 DEF Park, ExactGeneration, Generation, GenerationAfter
<1> QED BY <1>1, <1>2

LEMMA ReconcileLeaves ==
    ASSUME TypeOK, NEW j \in Jobs, NEW to \in {"SUCCEEDED", "FAILED"}, NEW reason,
           Reconcile(j, to, reason), NEW r \in Runs
    PROVE  ~GenerationAfter(j, r)
<1>1. CASE rows[j].state = "RUNNING"
  <2>1. rows[j] \in JobRow /\ rows'[j] = ReconcileTransition(rows[j], to, reason)
    BY <1>1 DEF Reconcile, SetRow, TypeOK, OwnerTypeOK
  <2> QED BY <2>1 DEF ReconcileTransition, JobRow, GenerationAfter
<1>2. CASE rows[j].state # "RUNNING"
  BY <1>2 DEF Reconcile, GenerationAfter
<1> QED BY <1>1, <1>2

-----------------------------------------------------------------------------
(* The steps of a scheduler.                                               *)

SchedulerStep(s) == TickStep(s) \/ Crash(s) \/ Abandon(s)

\* Steps of a tick that touch nothing but the locals and the lease.
Bookkeeping(s) ==
    \/ Acquire(s) \/ Renew(s) \/ ReleaseLease(s) \/ Wait(s) \/ TickBegin(s)
    \/ Guard(s) \/ LookupEnd(s) \/ ReconcileSkip(s) \/ ReconcileEnd(s) \/ ChargeEnd(s)
    \/ DebtScan(s) \/ DebtEnd(s) \/ ReadQueued(s) \/ Plan(s) \/ ExecEnd(s)
    \/ CheckB(s) \/ Crash(s) \/ Abandon(s)
    \/ \E j \in Jobs : Lookup(s, j) \/ \E r \in Runs : ExecDispatch(s, j, r)

\* The other processes' locals.
Aside(s) ==
    \A t \in Schedulers : t # s =>
        /\ pc'[t] = pc[t] /\ job'[t] = job[t] /\ gen'[t] = gen[t]
        /\ view'[t] = view[t] /\ changes'[t] = changes[t]

\* A step of s that lists no jobs and owes nothing new.
Modest(s) ==
    /\ changes'[s] \subseteq changes[s]
    /\ view'[s] \in {view[s], NoView}
    /\ pc'[s] \notin {"apply", "owed", "checkD", "launch"}

LEMMA BookkeepingFits ==
    ASSUME TypeOK, NEW s \in Schedulers, Bookkeeping(s)
    PROVE  /\ UNCHANGED <<rows, run, ledger, receipt, tail, cancel>>
           /\ Aside(s) /\ Modest(s)
<1>1. UNCHANGED <<rows, run, ledger, receipt, tail, cancel>>
  BY DEF Bookkeeping, Acquire, Renew, ReleaseLease, Wait, TickBegin, Guard, LookupEnd,
         ReconcileSkip, ReconcileEnd, ChargeEnd, DebtScan, DebtEnd, ReadQueued, Plan, ExecEnd,
         CheckB, Crash, Abandon, Lookup, ExecDispatch, ownerVars
<1>2. /\ changes' = changes \/ changes' = Set(changes, s, {})
      /\ view' = view \/ view' = Set(view, s, NoView)
  BY DEF Bookkeeping, Acquire, Renew, ReleaseLease, Wait, TickBegin, Guard, LookupEnd,
         ReconcileSkip, ReconcileEnd, ChargeEnd, DebtScan, DebtEnd, ReadQueued, Plan, ExecEnd,
         CheckB, Crash, Abandon, Lookup, ExecDispatch, Return
<1>3. \E label \in Pcs \ {"apply", "owed", "checkD", "launch"} :
          Goto(s, label) \/ (UNCHANGED pc /\ pc[s] = label)
  <2>1. \E label \in {"idle", "renew", "check", "snapshot", "lookup", "list", "reconcile", "charge",
                      "debts", "settle", "queued", "plan", "exec", "mark", "reserve", "requeue",
                      "wait", "stop"} :
            Goto(s, label) \/ (UNCHANGED pc /\ pc[s] = label)
    BY DEF Bookkeeping, Acquire, Renew, ReleaseLease, Wait, TickBegin, Guard, LookupEnd,
           ReconcileSkip, ReconcileEnd, ChargeEnd, DebtScan, DebtEnd, ReadQueued, Plan, ExecEnd,
           CheckB, Crash, Abandon, Lookup, ExecDispatch, Return, Reconciled
  <2> QED BY <2>1 DEF Pcs
<1>4. /\ \E i \in Jobs \union {NoJob} : job' = job \/ job' = Set(job, s, i)
      /\ \E r \in RunOrNone : gen' = gen \/ gen' = Set(gen, s, r)
  BY DEF Bookkeeping, Acquire, Renew, ReleaseLease, Wait, TickBegin, Guard, LookupEnd,
         ReconcileSkip, ReconcileEnd, ChargeEnd, DebtScan, DebtEnd, ReadQueued, Plan, ExecEnd,
         CheckB, Crash, Abandon, Lookup, ExecDispatch, Return, Reconciled, RunOrNone
<1>5. Aside(s)
  BY <1>2, <1>3, <1>4 DEF Aside, Goto, Set, TypeOK, LocalTypeOK
<1>6. Modest(s)
  BY <1>2, <1>3 DEF Modest, Goto, Set, TypeOK, LocalTypeOK
<1> QED BY <1>1, <1>5, <1>6

\* What follows for OwedFit and SeenFit from a modest step, and for the other
\* processes from any step.
LEMMA OwedTick ==
    ASSUME NEW s \in Schedulers, Aside(s), UNCHANGED <<tail, cancel>>,
           \A change \in changes'[s] : change \in changes[s] \/ GoneAfter(change[1]),
           pc'[s] = "owed" => GoneAfter(gen'[s])
    PROVE  OwedFit
BY DEF OwedFit, Aside

LEMMA SeenTick ==
    ASSUME TypeInv, LineagesSeen, NEW s \in Schedulers, Aside(s), UNCHANGED cancel,
           \A j \in Jobs : view'[s][j] # NoRun => view'[s][j] \in rows[j].run_ids,
           pc'[s] \in {"apply", "owed"} => job'[s] \in Jobs /\ gen'[s] \in rows[job'[s]].run_ids
    PROVE  SeenFit
BY DEF SeenFit, LineagesSeen, Aside, TypeInv, LocalsFit, CancelsFit

LEMMA ReserveTick ==
    ASSUME NEW s \in Schedulers, Aside(s), pc'[s] \notin {"checkD", "launch"}
    PROVE  ReserveFit
BY DEF ReserveFit, Aside

LEMMA QuietLedger == UNCHANGED ledger => LedgerFit
BY DEF LedgerFit

LEMMA QuietRun ==
    ASSUME IInv, ReceiptsFit, UNCHANGED <<run, receipt>>
    PROVE  LaunchFit /\ ReceiptFit
BY DEF LaunchFit, ReceiptFit, ReceiptsFit

\* A modest step that leaves the owner database alone, or only its ledger.
LEMMA ModestFits ==
    ASSUME IInv, ChargeInv, NEW s \in Schedulers, Aside(s), Modest(s),
           UNCHANGED <<run, receipt, tail, cancel>>, LedgerFit
    PROVE  Fits
<1>a. TypeInv /\ LineagesSeen /\ ReceiptsFit
  BY DEF IInv, ChargeInv
<1>1. LaunchFit /\ ReceiptFit
  BY <1>a, QuietRun
<1>2. ReserveFit
  BY ReserveTick DEF Modest
<1>3. OwedFit
  BY OwedTick DEF Modest
<1>4. \A j \in Jobs : view'[s][j] # NoRun => view'[s][j] \in rows[j].run_ids
  BY <1>a DEF Modest, NoView, LineagesSeen
<1>5. SeenFit
  BY <1>a, <1>4, SeenTick DEF Modest
<1> QED BY <1>1, <1>2, <1>3, <1>5 DEF Fits

LEMMA TickFits ==
    ASSUME IInv, ChargeInv, RowStep, "busy" \notin Faults,
           NEW s \in Schedulers, SchedulerStep(s)
    PROVE  Fits
<1>a. /\ TypeInv /\ TypeOK /\ RowsFit /\ LocalsFit /\ LineagesDisjoint /\ CachesFit
      /\ OwedRunsAreGone /\ LineagesSeen /\ ReceiptsFit
  BY DEF IInv, TypeInv, OwnerRuns, LocalRuns, ChargeInv
<1>b. \A j \in Jobs, r \in Runs : r \in rows[j].run_ids /\ ~GenerationAfter(j, r) => GoneAfter(r)
  BY <1>a, LeftAfter
<1>v. \A j \in Jobs : view[s][j] # NoRun => view[s][j] \in rows[j].run_ids
  BY <1>a DEF LineagesSeen
<1>1. CASE Bookkeeping(s)
  BY <1>1, <1>a, BookkeepingFits, ModestFits, QuietLedger
\* Listings.
<1>2. CASE Snapshot(s) \/ ReconcileList(s)
  <2>1. UNCHANGED <<run, ledger, receipt, tail, cancel>>
    BY <1>2 DEF Snapshot, ReconcileList, ownerVars
  <2>2. Aside(s) /\ pc'[s] \notin {"apply", "owed", "checkD", "launch"} /\ changes'[s] = changes[s]
    BY <1>2, <1>a DEF Snapshot, ReconcileList, Aside, Goto, Set, TypeOK, LocalTypeOK
  <2>3. view'[s] = Listed
    BY <1>2, <1>a DEF Snapshot, ReconcileList, Set, TypeOK, LocalTypeOK
  <2>4. \A j \in Jobs : view'[s][j] # NoRun => view'[s][j] \in rows[j].run_ids
    BY <2>3, <1>a DEF Listed, RowsFit
  <2>5. SeenFit /\ OwedFit /\ ReserveFit
    BY <1>a, <2>1, <2>2, <2>4, SeenTick, OwedTick, ReserveTick
  <2> QED BY <1>a, <2>1, <2>5, QuietLedger, QuietRun DEF Fits
<1>3. ASSUME NEW j \in Jobs, ReconcileNext(s, j)
      PROVE  Fits
  <2>1. UNCHANGED <<run, ledger, receipt, tail, cancel, view, changes>>
    BY <1>3 DEF ReconcileNext, ownerVars
  <2>2. Aside(s) /\ pc'[s] = "apply" /\ job'[s] = j /\ gen'[s] = view[s][j]
    BY <1>3, <1>a DEF ReconcileNext, Aside, Goto, Set, TypeOK, LocalTypeOK
  <2>3. view[s][j] \in Runs
    BY <1>3, <1>a DEF ReconcileNext, LocalsFit
  <2>4. gen'[s] \in rows[job'[s]].run_ids
    BY <1>v, <2>2, <2>3, NoRunAssumption
  <2>5. SeenFit /\ OwedFit /\ ReserveFit
    BY <1>a, <1>v, <2>1, <2>2, <2>4, SeenTick, OwedTick, ReserveTick
  <2> QED BY <1>a, <2>1, <2>5, QuietLedger, QuietRun DEF Fits
\* Reconciliation.
<1>4. CASE ReconcileJob(s)
  <2>1. UNCHANGED <<run, ledger, receipt, tail, cancel, view>>
    BY <1>4 DEF ReconcileJob
  <2>2. Aside(s) /\ pc'[s] = "reconcile"
    BY <1>4, <1>a DEF ReconcileJob, Reconciled, Aside, Goto, Set, TypeOK, LocalTypeOK
  <2>3. job[s] \in Jobs /\ gen[s] \in Runs /\ gen[s] \in rows[job[s]].run_ids
    BY <1>4, <1>a DEF ReconcileJob, LocalsFit, LineagesSeen
  <2>4. PICK o \in Outcomes :
          /\ Reconcile(job[s], o[2], o[3])
          /\ changes' = [changes EXCEPT ![s] =
                IF job[s] \in Running THEN @ \union {<<gen[s], o[4]>>} ELSE @]
    BY <1>4 DEF ReconcileJob
  <2>5. ~GenerationAfter(job[s], gen[s])
    BY <1>a, <2>3, <2>4, ReconcileLeaves DEF Outcomes
  <2>6. GoneAfter(gen[s])
    BY <1>b, <2>3, <2>5
  <2>7. \A change \in changes'[s] : change \in changes[s] \/ GoneAfter(change[1])
    BY <1>a, <2>4, <2>6 DEF TypeOK, LocalTypeOK
  <2>8. SeenFit /\ OwedFit /\ ReserveFit
    BY <1>a, <1>v, <2>1, <2>2, <2>7, SeenTick, OwedTick, ReserveTick
  <2> QED BY <1>a, <2>1, <2>8, QuietLedger, QuietRun DEF Fits
<1>5. CASE ReconcilePreempted(s)
  <2>1. UNCHANGED <<run, ledger, receipt, tail, cancel, view>>
    BY <1>5 DEF ReconcilePreempted
  <2>2. Aside(s) /\ pc'[s] \in {"reconcile", "owed"}
    BY <1>5, <1>a DEF ReconcilePreempted, Reconciled, Aside, Goto, Set, TypeOK, LocalTypeOK
  <2>3. job[s] \in Jobs /\ gen[s] \in Runs /\ gen[s] \in rows[job[s]].run_ids
    BY <1>5, <1>a DEF ReconcilePreempted, LocalsFit, LineagesSeen
  <2>4. run[gen[s]] = "PREEMPTED"
    BY <1>5, <1>a, <2>3 DEF ReconcilePreempted, CachesFit
  <2>5. ~GenerationAfter(job[s], gen[s])
    <3>1. CASE Generation(job[s], gen[s])
      <4>1. Park(job[s], gen[s])
        BY <1>5, <3>1 DEF ReconcilePreempted
      <4> QED BY <1>a, <2>3, <2>4, <4>1, ParkLeaves
    <3>2. CASE ~Generation(job[s], gen[s])
      <4>1. UNCHANGED rows
        BY <1>5, <3>2 DEF ReconcilePreempted
      <4> QED BY <3>2, <4>1 DEF Generation, GenerationAfter
    <3> QED BY <3>1, <3>2
  <2>6. GoneAfter(gen[s])
    BY <1>b, <2>3, <2>5
  <2>7. \A change \in changes'[s] : change \in changes[s] \/ GoneAfter(change[1])
    <3>1. changes'[s] \in {changes[s], changes[s] \union {<<gen[s], "release">>}}
      BY <1>5, <1>a DEF ReconcilePreempted, TypeOK, LocalTypeOK
    <3> QED BY <2>6, <3>1
  <2>8. pc'[s] = "owed" => gen'[s] = gen[s] /\ job'[s] = job[s]
    BY <1>5, <1>a DEF ReconcilePreempted, Reconciled, Goto, TypeOK, LocalTypeOK
  <2>9. SeenFit /\ OwedFit /\ ReserveFit
    BY <1>a, <1>v, <2>1, <2>2, <2>3, <2>6, <2>7, <2>8, SeenTick, OwedTick, ReserveTick
  <2> QED BY <1>a, <2>1, <2>9, QuietLedger, QuietRun DEF Fits
\* The ledger.
<1>6. CASE ReconcileOwed(s)
  <2>1. UNCHANGED <<run, receipt, tail, cancel>> /\ Release(gen[s]) /\ pc[s] = "owed"
    BY <1>6 DEF ReconcileOwed
  <2>2. Aside(s) /\ Modest(s)
    BY <1>6, <1>a DEF ReconcileOwed, Reconciled, Aside, Modest, Goto, Set, TypeOK, LocalTypeOK
  <2>3. LedgerFit
    BY <1>a, <2>1 DEF LedgerFit, Release, OwedRunsAreGone, TypeOK, OwnerTypeOK
  <2> QED BY <2>1, <2>2, <2>3, ModestFits
<1>7. ASSUME NEW change \in changes[s], Charge(s, change)
      PROVE  Fits
  <2>1. /\ UNCHANGED <<run, receipt, tail, cancel>> /\ pc[s] = "charge"
        /\ Settle(change[1]) \/ Release(change[1])
    BY <1>7 DEF Charge
  <2>2. Aside(s) /\ Modest(s)
    BY <1>7, <1>a DEF Charge, Aside, Modest, TypeOK, LocalTypeOK
  <2>3. Gone(change[1])
    BY <1>a, <1>7 DEF OwedRunsAreGone
  <2>4. LedgerFit
    BY <1>a, <2>1, <2>3 DEF LedgerFit, Release, Settle, TypeOK, OwnerTypeOK
  <2> QED BY <2>1, <2>2, <2>4, ModestFits
<1>8. ASSUME NEW r \in Runs, Debt(s, r)
      PROVE  Fits
  <2>1. /\ UNCHANGED <<run, receipt, tail, cancel>> /\ pc[s] = "settle"
        /\ UNCHANGED ledger \/ (Release(r) /\ \E j \in Jobs : r \in rows[j].run_ids /\ ~Generation(j, r))
    BY <1>8 DEF Debt
  <2>2. Aside(s) /\ Modest(s)
    BY <1>8, <1>a DEF Debt, Aside, Modest, TypeOK, LocalTypeOK
  <2>3. CASE UNCHANGED ledger
    BY <2>1, <2>2, <2>3, ModestFits, QuietLedger
  <2>4. CASE ~UNCHANGED ledger
    <3>1. Release(r) /\ Gone(r)
      BY <1>a, <2>1, <2>4, LeftRuns, NoRunAssumption
    <3>2. LedgerFit
      BY <1>a, <3>1 DEF LedgerFit, Release, TypeOK, OwnerTypeOK
    <3> QED BY <2>1, <2>2, <3>2, ModestFits
  <2> QED BY <2>3, <2>4
<1>9. CASE Undo(s)
  <2>1. UNCHANGED <<run, receipt, tail, cancel>> /\ pc[s] = "undo" /\ Release(gen[s])
    BY <1>9 DEF Undo
  <2>2. Aside(s) /\ Modest(s)
    BY <1>9, <1>a DEF Undo, Aside, Modest, Goto, TypeOK, LocalTypeOK
  <2>3. LedgerFit
    BY <1>a, <2>1 DEF LedgerFit, Release, TypeOK, OwnerTypeOK
  <2> QED BY <2>1, <2>2, <2>3, ModestFits
\* The dispatch.
<1>10. CASE ReserveRun(s)
  <2>1. /\ UNCHANGED <<run, receipt, tail, cancel, view, changes, job, gen>> /\ pc[s] = "reserve"
        /\ gen[s] \in Runs
    BY <1>10, <1>a DEF ReserveRun, LocalsFit, Dispatching, Marked
  <2>2. Aside(s) /\ pc'[s] \in {"checkD", "undo"}
    BY <1>10, <1>a DEF ReserveRun, Aside, Goto, TypeOK, LocalTypeOK
  <2>3. LedgerFit
    BY <1>10, <1>a DEF ReserveRun, LedgerFit, TypeOK, OwnerTypeOK
  <2>4. pc'[s] = "checkD" => ledger'[gen[s]] = "RESERVED"
    BY <1>10, <1>a, <2>1 DEF ReserveRun, Goto, TypeOK, OwnerTypeOK, LocalTypeOK
  <2>5. ReserveFit
    BY <2>1, <2>2, <2>4 DEF ReserveFit, Aside
  <2>6. SeenFit /\ OwedFit
    BY <1>a, <1>v, <2>1, <2>2, SeenTick, OwedTick
  <2> QED BY <1>a, <2>1, <2>3, <2>5, <2>6, QuietRun DEF Fits
<1>11. CASE CheckD(s)
  <2>1. UNCHANGED <<run, ledger, receipt, tail, cancel, view, changes, job, gen>> /\ pc[s] = "checkD"
    BY <1>11 DEF CheckD, ownerVars
  <2>2. Aside(s) /\ pc'[s] \in {"launch", "undo"}
    BY <1>11, <1>a DEF CheckD, Aside, Goto, TypeOK, LocalTypeOK
  <2>3. ReserveFit
    BY <2>1, <2>2 DEF ReserveFit, Aside
  <2>4. SeenFit /\ OwedFit
    BY <1>a, <1>v, <2>1, <2>2, SeenTick, OwedTick
  <2> QED BY <1>a, <2>1, <2>3, <2>4, QuietRun, QuietLedger DEF Fits
<1>12. CASE Launch(s)
  <2>1. /\ UNCHANGED <<rows, ledger, receipt, tail, cancel, view, changes>> /\ pc[s] = "launch"
        /\ gen[s] \in Runs
        /\ UNCHANGED run \/ run' = [run EXCEPT ![gen[s]] = "PENDING"]
    BY <1>12, <1>a DEF Launch, SetRun, LocalsFit, Dispatching, Marked
  <2>2. Aside(s) /\ pc'[s] \in {"exec", "undo"}
    BY <1>12, <1>a DEF Launch, Continue, Set, Aside, Goto, TypeOK, LocalTypeOK
  <2>3. SeenFit /\ OwedFit /\ ReserveFit
    BY <1>a, <1>v, <2>1, <2>2, SeenTick, OwedTick, ReserveTick
  <2>4. LaunchFit
    BY <1>a, <2>1 DEF LaunchFit, TypeOK, OwnerTypeOK
  <2>5. ReceiptFit
    BY <1>a, <2>1 DEF ReceiptFit, ReceiptsFit, TypeOK, OwnerTypeOK
  <2> QED BY <2>1, <2>3, <2>4, <2>5, QuietLedger DEF Fits
<1>13. CASE Mark(s) \/ RequeueDispatch(s) \/ \E j \in Jobs : ExecWait(s, j)
  <2>1. UNCHANGED <<run, ledger, receipt, tail, cancel>>
    BY <1>13 DEF Mark, RequeueDispatch, ExecWait
  <2>2. Aside(s) /\ Modest(s)
    BY <1>13, <1>a DEF Mark, RequeueDispatch, ExecWait, Continue, Set, Aside, Modest, Goto,
                       TypeOK, LocalTypeOK
  <2> QED BY <2>1, <2>2, ModestFits, QuietLedger
<1> QED
  BY <1>1, <1>2, <1>3, <1>4, <1>5, <1>6, <1>7, <1>8, <1>9, <1>10, <1>11, <1>12, <1>13
     DEF SchedulerStep, TickStep, Bookkeeping

-----------------------------------------------------------------------------
(* The steps of everyone else.                                             *)

\* The locals stay: what is left of OwedFit and SeenFit.
LEMMA OthersOwed ==
    ASSUME UNCHANGED localVars,
           \A r \in Runs : tail'[r] = "release" => tail[r] = "release" \/ GoneAfter(r),
           UNCHANGED cancel
    PROVE  OwedFit
BY DEF OwedFit, localVars

LEMMA OthersSeen ==
    ASSUME TypeInv, LineagesSeen, UNCHANGED localVars, UNCHANGED cancel
    PROVE  SeenFit
BY DEF SeenFit, LineagesSeen, localVars, TypeInv, LocalsFit, CancelsFit

LEMMA OthersReserve == UNCHANGED localVars => ReserveFit
BY DEF ReserveFit, localVars

LEMMA RunFits ==
    ASSUME IInv, ChargeInv, RowStep, "busy" \notin Faults, UNCHANGED localVars, UNCHANGED cancel,
           NEW r \in Runs,
           \/ RunStep(r) \/ Orphan(r) \/ TailCrash(r)
           \/ \E j \in Jobs : PreemptBegin(j, r) \/ PreemptLimit(j, r)
    PROVE  Fits
<1>a. /\ TypeInv /\ TypeOK /\ OwnerTypeOK /\ RowsFit /\ LineagesDisjoint /\ TailsFit
      /\ OwedRunsAreGone /\ LineagesSeen /\ ReceiptsFit
  BY DEF IInv, TypeInv, TypeOK, OwnerRuns, LocalRuns, ChargeInv
<1>b. \A j \in Jobs : r \in rows[j].run_ids /\ ~GenerationAfter(j, r) => GoneAfter(r)
  BY <1>a, LeftAfter
<1>c. SeenFit /\ ReserveFit
  BY <1>a, OthersSeen, OthersReserve
<1>1. CASE Start(r) \/ Finish(r) \/ Orphan(r)
  <2>1. /\ UNCHANGED <<ledger, receipt, tail>> /\ run[r] \in {"PENDING", "RUNNING"}
        /\ \E status \in {"RUNNING", "FAILED", "COMPLETED", "ORPHANED"} :
              run' = [run EXCEPT ![r] = status]
    BY <1>1 DEF Start, Finish, Orphan, SetRun
  <2>2. LaunchFit /\ ReceiptFit
    BY <1>a, <2>1 DEF LaunchFit, ReceiptFit, ReceiptsFit, OwnerTypeOK
  <2> QED BY <1>c, <2>1, <2>2, OthersOwed, QuietLedger DEF Fits
<1>2. ASSUME NEW j \in Jobs, PreemptBegin(j, r)
      PROVE  Fits
  <2>1. /\ UNCHANGED <<run, ledger>> /\ tail' = [tail EXCEPT ![r] = "decided"]
        /\ run[r] = "RUNNING" /\ Generation(j, r)
        /\ receipt' = [receipt EXCEPT ![r] = [kind |-> "DECISION", before |-> rows[j].preemptions]]
    BY <1>2 DEF PreemptBegin
  <2>2. ReceiptFit /\ LaunchFit
    BY <1>a, <2>1 DEF LaunchFit, ReceiptFit, ReceiptsFit, OwnerTypeOK
  <2>3. OwedFit
    BY <1>a, <2>1, OthersOwed DEF OwnerTypeOK
  <2> QED BY <1>c, <2>1, <2>2, <2>3, QuietLedger DEF Fits
<1>3. ASSUME NEW j \in Jobs, PreemptLimit(j, r)
      PROVE  Fits
  <2>1. /\ UNCHANGED ledger /\ run[r] = "RUNNING" /\ run' = [run EXCEPT ![r] = "FAILED"]
        /\ \/ /\ tail' = [tail EXCEPT ![r] = "failJob"]
              /\ receipt' = [receipt EXCEPT ![r] = [kind |-> "LIMIT", before |-> rows[j].preemptions]]
           \/ UNCHANGED <<receipt, tail>>
    BY <1>3 DEF PreemptLimit, SetRun
  <2>2. ReceiptFit /\ LaunchFit
    BY <1>a, <2>1 DEF LaunchFit, ReceiptFit, ReceiptsFit, OwnerTypeOK
  <2>3. OwedFit
    BY <1>a, <2>1, OthersOwed DEF OwnerTypeOK
  <2> QED BY <1>c, <2>1, <2>2, <2>3, QuietLedger DEF Fits
<1>4. CASE PreemptRun(r)
  <2>1. /\ UNCHANGED <<ledger, receipt>> /\ run[r] = "RUNNING" /\ receipt[r].kind = "DECISION"
        /\ \/ run' = [run EXCEPT ![r] = "PREEMPTED"] /\ tail' = [tail EXCEPT ![r] = "park"]
           \/ run' = [run EXCEPT ![r] = "FAILED"] /\ tail' = [tail EXCEPT ![r] = "none"]
    BY <1>4, <1>a DEF PreemptRun, SetRun, TailsFit
  <2>2. ReceiptFit /\ LaunchFit
    BY <1>a, <2>1 DEF LaunchFit, ReceiptFit, ReceiptsFit, OwnerTypeOK
  <2>3. OwedFit
    BY <1>a, <2>1, OthersOwed DEF OwnerTypeOK
  <2> QED BY <1>c, <2>1, <2>2, <2>3, QuietLedger DEF Fits
\* The two that take the job from the run.
<1>5. ASSUME NEW j \in Jobs, PreemptPark(j, r) \/ PreemptFailJob(j, r)
      PROVE  Fits
  <2>1. /\ UNCHANGED <<run, ledger, receipt>> /\ tail' = [tail EXCEPT ![r] = "release"]
        /\ r \in rows[j].run_ids
    BY <1>5 DEF PreemptPark, PreemptFailJob
  <2>2. ~GenerationAfter(j, r)
    <3>1. CASE PreemptPark(j, r)
      <4>1. run[r] = "PREEMPTED" /\ Park(j, r)
        BY <1>a, <3>1 DEF PreemptPark, TailsFit
      <4> QED BY <1>a, <4>1, ParkLeaves
    <3>2. CASE PreemptFailJob(j, r)
      BY <1>a, <3>2, ReconcileLeaves DEF PreemptFailJob
    <3> QED BY <1>5, <3>1, <3>2
  <2>3. OwedFit
    BY <1>a, <1>b, <2>1, <2>2, OthersOwed DEF OwnerTypeOK
  <2> QED BY <1>a, <1>c, <2>1, <2>3, QuietLedger, QuietRun DEF Fits
<1>6. CASE PreemptRelease(r)
  <2>1. /\ UNCHANGED <<run, receipt>> /\ tail' = [tail EXCEPT ![r] = "none"]
        /\ tail[r] = "release" /\ Release(r)
    BY <1>6 DEF PreemptRelease
  <2>2. LedgerFit
    BY <1>a, <2>1 DEF LedgerFit, Release, OwedRunsAreGone, OwnerTypeOK
  <2>3. OwedFit
    BY <1>a, <2>1, OthersOwed DEF OwnerTypeOK
  <2> QED BY <1>a, <1>c, <2>1, <2>2, <2>3, QuietRun DEF Fits
<1>7. CASE TailCrash(r) \/ \E j \in Jobs : Recover(j, r)
  <2>1. /\ UNCHANGED <<run, receipt, ledger>>
        /\ \E label \in {"none", "decided"} : tail' = [tail EXCEPT ![r] = label]
    BY <1>7 DEF TailCrash, Recover
  <2>2. OwedFit
    BY <1>a, <2>1, OthersOwed DEF OwnerTypeOK
  <2> QED BY <1>a, <1>c, <2>1, <2>2, QuietLedger, QuietRun DEF Fits
<1> QED BY <1>1, <1>2, <1>3, <1>4, <1>5, <1>6, <1>7 DEF RunStep

LEMMA CancelFits ==
    ASSUME IInv, ChargeInv, RowStep, UNCHANGED localVars, NEW c \in Cancellers, CancelStep(c)
    PROVE  Fits
<1>a. /\ TypeInv /\ TypeOK /\ OwnerTypeOK /\ RowsFit /\ LineagesDisjoint /\ CancelsFit /\ TailsFit
      /\ LocalsFit /\ OwedRunsAreGone /\ LineagesSeen /\ ReceiptsFit
  BY DEF IInv, TypeInv, TypeOK, OwnerRuns, LocalRuns, ChargeInv
<1>b. ReserveFit
  BY OthersReserve
\* All that a cancellation can owe or remember is its own.
<1>c. ASSUME \A r \in Runs : tail'[r] = "release" => tail[r] = "release",
             \A d \in Cancellers : d # c => cancel'[d] = cancel[d],
             cancel'[c].pc = "release" => GoneAfter(cancel'[c].run),
             cancel'[c].pc \in {"running", "transition"} =>
                cancel'[c].job \in Jobs /\ cancel'[c].run \in rows[cancel'[c].job].run_ids
      PROVE  OwedFit /\ SeenFit
  <2>1. OwedFit
    BY <1>c DEF OwedFit, localVars
  <2>2. SeenFit
    BY <1>a, <1>c DEF SeenFit, LineagesSeen, localVars, LocalsFit, CancelsFit
  <2> QED BY <2>1, <2>2
<1>1. ASSUME NEW j \in Jobs, CancelRead(c, j)
      PROVE  Fits
  <2>1. /\ UNCHANGED <<run, ledger, receipt, tail>>
        /\ \/ cancel' = [cancel EXCEPT ![c] = [pc |-> "queued", job |-> j, run |-> NoRun]]
           \/ /\ cancel' = [cancel EXCEPT ![c] = [pc |-> "running", job |-> j, run |-> rows[j].run]]
              /\ rows[j].state = "RUNNING"
    BY <1>1 DEF CancelRead, SetCancel
  <2>2. rows[j].state = "RUNNING" => rows[j].run \in rows[j].run_ids
    BY <1>a DEF RowsFit, Materialises
  <2>3. OwedFit /\ SeenFit
    BY <1>a, <1>c, <2>1, <2>2 DEF OwnerTypeOK
  <2> QED BY <1>a, <1>b, <2>1, <2>3, QuietLedger, QuietRun DEF Fits
<1>2. CASE CancelQueued(c)
  <2>1. /\ UNCHANGED <<run, ledger, receipt, tail>>
        /\ cancel' = [cancel EXCEPT ![c] = NotCancelling]
    BY <1>2 DEF CancelQueued, EndCancel
  <2>2. OwedFit /\ SeenFit
    BY <1>a, <1>c, <2>1 DEF OwnerTypeOK, NotCancelling
  <2> QED BY <1>a, <1>b, <2>1, <2>2, QuietLedger, QuietRun DEF Fits
<1>3. CASE CancelRun(c)
  <2>1. PICK r \in Runs : r = cancel[c].run
    BY <1>3, <1>a DEF CancelRun, CancelsFit
  <2>2. /\ UNCHANGED <<ledger, receipt, rows>> /\ cancel[c].pc = "running"
        /\ \/ cancel' = [cancel EXCEPT ![c] = NotCancelling] /\ UNCHANGED <<run, tail>>
           \/ /\ run[r] \in {"PENDING", "RUNNING"}
              /\ run' = [run EXCEPT ![r] = "FAILED"] /\ tail' = [tail EXCEPT ![r] = "none"]
              /\ cancel' = [cancel EXCEPT ![c] =
                               [pc |-> "transition", job |-> cancel[c].job, run |-> r]]
    BY <1>3, <2>1 DEF CancelRun, EndCancel, SetCancel, SetRun, Live
  <2>3. cancel[c].job \in Jobs /\ r \in rows[cancel[c].job].run_ids
    BY <1>a, <2>1, <2>2 DEF CancelsFit, LineagesSeen
  <2>4. OwedFit /\ SeenFit
    BY <1>a, <1>c, <2>2, <2>3 DEF OwnerTypeOK, NotCancelling
  <2>5. LaunchFit /\ ReceiptFit
    BY <1>a, <2>2 DEF LaunchFit, ReceiptFit, ReceiptsFit, OwnerTypeOK
  <2> QED BY <1>b, <2>2, <2>4, <2>5, QuietLedger DEF Fits
<1>4. CASE CancelJob(c)
  <2> DEFINE j == cancel[c].job
  <2>1. PICK r \in Runs : r = cancel[c].run
    BY <1>4, <1>a DEF CancelJob, CancelsFit
  <2>2. /\ UNCHANGED <<run, ledger, receipt, tail>> /\ cancel[c].pc = "transition"
        /\ CancelTransaction(j)
        /\ \/ /\ cancel' = [cancel EXCEPT ![c] = [pc |-> "release", job |-> j, run |-> r]]
              /\ rows[j].state \in {"QUEUED", "RUNNING"}
           \/ cancel' = [cancel EXCEPT ![c] = NotCancelling]
    BY <1>4, <2>1 DEF CancelJob, EndCancel, SetCancel
  <2>3. j \in Jobs /\ r \in rows[j].run_ids
    BY <1>a, <2>1, <2>2 DEF CancelsFit, LineagesSeen
  <2>4. rows[j].state \in {"QUEUED", "RUNNING"} => ~GenerationAfter(j, r)
    <3>1. rows[j] \in JobRow
      BY <1>a, <2>3 DEF OwnerTypeOK
    <3>2. rows[j].state \in {"QUEUED", "RUNNING"} => rows'[j] = CancelTransition(rows[j])
      BY <1>a, <2>2, <2>3 DEF CancelTransaction, SetRow, OwnerTypeOK
    <3> HIDE DEF j
    <3> QED BY <3>1, <3>2 DEF CancelTransition, JobRow, GenerationAfter
  <2>5. rows[j].state \in {"QUEUED", "RUNNING"} => GoneAfter(r)
    BY <1>a, <2>3, <2>4, LeftAfter
  <2> HIDE DEF j
  <2>6. OwedFit /\ SeenFit
    BY <1>a, <1>c, <2>2, <2>5 DEF OwnerTypeOK, NotCancelling
  <2> QED BY <1>a, <1>b, <2>2, <2>6, QuietLedger, QuietRun DEF Fits
<1>5. CASE CancelRelease(c)
  <2>1. /\ UNCHANGED <<run, receipt, tail>> /\ cancel[c].pc = "release" /\ Release(cancel[c].run)
        /\ cancel' = [cancel EXCEPT ![c] = NotCancelling]
    BY <1>5 DEF CancelRelease, EndCancel
  <2>2. LedgerFit
    BY <1>a, <2>1 DEF LedgerFit, Release, OwedRunsAreGone, OwnerTypeOK
  <2>3. OwedFit /\ SeenFit
    BY <1>a, <1>c, <2>1 DEF OwnerTypeOK, NotCancelling
  <2> QED BY <1>a, <1>b, <2>1, <2>2, <2>3, QuietRun DEF Fits
<1> QED BY <1>1, <1>2, <1>3, <1>4, <1>5 DEF CancelStep

LEMMA StepCharge ==
    ASSUME "busy" \notin Faults
    PROVE  IInv /\ IInv' /\ ChargeInv /\ [Next]_vars => ChargeInv'
<1> SUFFICES ASSUME IInv, IInv', ChargeInv, [Next]_vars PROVE ChargeInv'
  OBVIOUS
<1>1. RowStep
  BY StepImplements
<1>2. ASSUME NEW s \in Schedulers, TickStep(s) \/ Crash(s) \/ Abandon(s)
      PROVE  ChargeInv'
  BY <1>1, <1>2, TickFits, ChargePreserved DEF SchedulerStep
<1>3. CASE OthersStep /\ UNCHANGED localVars
  <2>1. ASSUME NEW r \in Runs,
               \/ RunStep(r) \/ Orphan(r) \/ TailCrash(r)
               \/ \E j \in Jobs : PreemptBegin(j, r) \/ PreemptLimit(j, r)
        PROVE  Fits
    <3>1. UNCHANGED cancel
      BY <2>1 DEF RunStep, Orphan, TailCrash, PreemptBegin, PreemptLimit, Start, Finish, PreemptRun,
                  PreemptRelease, PreemptPark, PreemptFailJob, Recover
    <3> QED BY <1>1, <1>3, <2>1, <3>1, RunFits
  <2>2. ASSUME NEW c \in Cancellers, CancelStep(c)
        PROVE  Fits
    BY <1>1, <1>3, <2>2, CancelFits
  <2>3. CASE Expire
    <3>1. UNCHANGED <<rows, run, ledger, receipt, tail, cancel>>
      BY <2>3 DEF Expire
    <3>2. OwedFit /\ SeenFit /\ ReserveFit /\ LaunchFit /\ ReceiptFit /\ LedgerFit
      BY <1>3, <3>1, OthersOwed, OthersSeen, OthersReserve, QuietRun, QuietLedger
         DEF ChargeInv, IInv
    <3> QED BY <1>1, <3>2, ChargePreserved DEF Fits
  <2> QED BY <1>1, <1>3, <2>1, <2>2, <2>3, ChargePreserved DEF OthersStep
<1>4. CASE UNCHANGED vars
  <2>1. UNCHANGED <<rows, run, ledger, receipt, tail, cancel, pc, view, changes, job, gen>>
    BY <1>4 DEF vars, ownerVars, localVars
  <2> QED BY <2>1 DEF ChargeInv, OwedRunsAreGone, LineagesSeen, ReceiptsFit, ReservedBeforeLaunch,
                      LiveGenerationCharged, Gone, Generation, Running
<1> QED BY <1>2, <1>3, <1>4 DEF Next

\* Capacity is not given away under a job at work: as long as the transitions
\* of jobs do not fail with a busy database, a job that is RUNNING on a run that
\* exists has its reservation, whatever else fails, expires or crashes.
THEOREM LiveRunsStayCharged ==
    ASSUME "busy" \notin Faults
    PROVE  Spec => []LiveGenerationCharged
<1>1. Init => ChargeInv
  BY InitCharge
<1>2. IInv /\ IInv' /\ ChargeInv /\ [Next]_vars => ChargeInv'
  BY StepCharge
<1>3. ChargeInv => LiveGenerationCharged
  BY DEF ChargeInv
<1> QED BY <1>1, <1>2, <1>3, Invariance, PTL DEF Spec

-----------------------------------------------------------------------------
(* Preemptions are counted once.                                           *)

\* A run is PREEMPTED by a durable decision, taken below the limit.
DecisionsFit ==
    \A r \in Runs :
        /\ run[r] = "PREEMPTED" => receipt[r].kind = "DECISION"
        /\ receipt[r].kind = "DECISION" => receipt[r].before < MaxPreemptions

\* The preempted runs the job has left.  A job that ends while it still is at a
\* preempted run keeps that run, and it is not counted.
Counted(j) == PreemptedRuns(j) \ {rows[j].run}

CountInv ==
    \A j \in Jobs :
        /\ IsFiniteSet(Counted(j))
        /\ rows[j].preemptions = Cardinality(Counted(j))
        /\ rows[j].preemptions <= MaxPreemptions

\* What a step does to the status of a run.
RunsWrite ==
    \A r \in Runs :
        \/ run'[r] = run[r]
        \/ Live(r) /\ run'[r] # "ABSENT"
        \/ /\ run[r] = "ABSENT" /\ run'[r] = "PENDING"
           /\ \E s \in Schedulers : pc[s] = "launch" /\ gen[s] = r

LEMMA RunWritten ==
    ASSUME IInv, DecisionsFit, NEW r \in Runs, NEW status \in RunStatus,
           run' = [run EXCEPT ![r] = status], Live(r), UNCHANGED receipt,
           status = "PREEMPTED" => receipt[r].kind = "DECISION"
    PROVE  RunsWrite /\ DecisionsFit'
<1>1. run \in [Runs -> Status]
  BY DEF IInv, TypeInv, TypeOK, OwnerTypeOK
<1>2. RunsWrite
  BY <1>1 DEF RunsWrite, RunStatus
<1>3. DecisionsFit'
  BY <1>1 DEF DecisionsFit
<1> QED BY <1>2, <1>3

LEMMA RunsQuiet ==
    ASSUME DecisionsFit, UNCHANGED <<run, receipt>>
    PROVE  RunsWrite /\ DecisionsFit'
BY DEF DecisionsFit, RunsWrite

LEMMA RunWrites ==
    ASSUME IInv, DecisionsFit, [Next]_vars
    PROVE  RunsWrite /\ DecisionsFit'
<1>a. run \in [Runs -> Status] /\ receipt \in [Runs -> Receipts] /\ rows \in [Jobs -> JobRow] /\ TailsFit
  BY DEF IInv, TypeInv, TypeOK, OwnerTypeOK, OwnerRuns
<1>1. ASSUME NEW s \in Schedulers, TickStep(s) \/ Crash(s) \/ Abandon(s)
      PROVE  RunsWrite /\ DecisionsFit'
  <2>1. CASE Launch(s)
    <3>1. /\ pc[s] = "launch" /\ gen[s] \in Runs /\ run[gen[s]] = "ABSENT"
      BY <2>1 DEF Launch, IInv, TypeInv, LocalsFit, LocalRuns, MarkedRunsWait, Marked, Dispatching
    <3>2. UNCHANGED receipt /\ (UNCHANGED run \/ run' = [run EXCEPT ![gen[s]] = "PENDING"])
      BY <2>1 DEF Launch, SetRun
    <3>3. RunsWrite
      BY <1>a, <3>1, <3>2 DEF RunsWrite
    <3>4. DecisionsFit'
      BY <1>a, <3>1, <3>2 DEF DecisionsFit
    <3> QED BY <3>3, <3>4
  <2>2. CASE ~Launch(s)
    <3>1. UNCHANGED <<run, receipt>>
      BY <1>1, <2>2 DEF TickStep, Crash, Abandon, Acquire, Renew, ReleaseLease, Wait, TickBegin,
         Snapshot, ReconcileList, ReconcileSkip, ReconcileJob, ReconcilePreempted, ReconcileOwed,
         Guard, LookupEnd, ReconcileEnd, ChargeEnd, ExecEnd, DebtScan, DebtEnd, ReadQueued, Plan,
         Mark, CheckB, ReserveRun, CheckD, Undo, RequeueDispatch, Lookup, ReconcileNext, ExecWait,
         ExecDispatch, Charge, Debt, ownerVars
    <3> QED BY <3>1, RunsQuiet
  <2> QED BY <2>1, <2>2
<1>2. ASSUME NEW r \in Runs, Start(r) \/ Finish(r) \/ Orphan(r)
      PROVE  RunsWrite /\ DecisionsFit'
  <2>1. /\ UNCHANGED receipt /\ Live(r)
        /\ \E status \in {"RUNNING", "FAILED", "COMPLETED", "ORPHANED"} :
              run' = [run EXCEPT ![r] = status]
    BY <1>2 DEF Start, Finish, Orphan, SetRun, Live
  <2> QED BY <2>1, RunWritten DEF RunStatus
<1>3. ASSUME NEW r \in Runs, PreemptRun(r)
      PROVE  RunsWrite /\ DecisionsFit'
  <2>1. run[r] = "RUNNING" /\ receipt[r].kind = "DECISION"
    BY <1>3, <1>a DEF PreemptRun, TailsFit
  <2>2. UNCHANGED receipt /\ \E status \in {"PREEMPTED", "FAILED"} : run' = [run EXCEPT ![r] = status]
    BY <1>3 DEF PreemptRun, SetRun
  <2> QED BY <2>1, <2>2, RunWritten DEF RunStatus, Live
<1>4. ASSUME NEW r \in Runs, NEW j \in Jobs, PreemptBegin(j, r)
      PROVE  RunsWrite /\ DecisionsFit'
  <2>1. /\ UNCHANGED run /\ rows[j].preemptions < MaxPreemptions
        /\ receipt' = [receipt EXCEPT ![r] = [kind |-> "DECISION", before |-> rows[j].preemptions]]
    BY <1>4 DEF PreemptBegin
  <2>2. RunsWrite
    BY <2>1 DEF RunsWrite
  <2>3. DecisionsFit'
    BY <1>a, <2>1 DEF DecisionsFit
  <2> QED BY <2>2, <2>3
<1>5. ASSUME NEW r \in Runs, NEW j \in Jobs, PreemptLimit(j, r)
      PROVE  RunsWrite /\ DecisionsFit'
  <2>1. /\ run[r] = "RUNNING" /\ run' = [run EXCEPT ![r] = "FAILED"]
        /\ \/ receipt' = [receipt EXCEPT ![r] = [kind |-> "LIMIT", before |-> rows[j].preemptions]]
           \/ UNCHANGED receipt
    BY <1>5 DEF PreemptLimit, SetRun
  <2>2. RunsWrite
    BY <1>a, <2>1 DEF RunsWrite, Live
  <2>3. DecisionsFit'
    BY <1>a, <2>1 DEF DecisionsFit
  <2> QED BY <2>2, <2>3
<1>6. ASSUME NEW r \in Runs,
             \/ PreemptRelease(r) \/ TailCrash(r)
             \/ \E j \in Jobs : PreemptPark(j, r) \/ PreemptFailJob(j, r) \/ Recover(j, r)
      PROVE  RunsWrite /\ DecisionsFit'
  BY <1>6, RunsQuiet DEF PreemptRelease, TailCrash, PreemptPark, PreemptFailJob, Recover
<1>7. ASSUME NEW c \in Cancellers, CancelRun(c)
      PROVE  RunsWrite /\ DecisionsFit'
  <2>1. PICK r \in Runs : r = cancel[c].run
    BY <1>7 DEF CancelRun, IInv, TypeInv, CancelsFit
  <2>2. UNCHANGED receipt /\ (UNCHANGED run \/ (Live(r) /\ run' = [run EXCEPT ![r] = "FAILED"]))
    BY <1>7, <2>1 DEF CancelRun, SetRun
  <2> QED BY <2>2, RunsQuiet, RunWritten DEF RunStatus
<1>8. ASSUME NEW c \in Cancellers,
             CancelQueued(c) \/ CancelJob(c) \/ CancelRelease(c) \/ \E j \in Jobs : CancelRead(c, j)
      PROVE  RunsWrite /\ DecisionsFit'
  BY <1>8, RunsQuiet DEF CancelQueued, CancelJob, CancelRelease, CancelRead
<1>9. CASE Expire \/ UNCHANGED vars
  BY <1>9, RunsQuiet DEF Expire, vars, ownerVars
<1>10. CASE OthersStep
  BY <1>2, <1>3, <1>4, <1>5, <1>6, <1>7, <1>8, <1>9, <1>10 DEF OthersStep, RunStep, CancelStep
<1> QED BY <1>1, <1>9, <1>10 DEF Next

-----------------------------------------------------------------------------
\* What a step does to the run, the list and the count of a job.
SameRun(j) ==
    /\ rows'[j].run = rows[j].run
    /\ rows'[j].run_ids = rows[j].run_ids
    /\ rows'[j].preemptions = rows[j].preemptions
GivenBack(j) ==
    /\ rows[j].run \in Runs /\ run[rows[j].run] = "ABSENT"
    /\ rows'[j].run = NoRun
    /\ rows'[j].run_ids = rows[j].run_ids
    /\ rows'[j].preemptions = rows[j].preemptions
Drawn(j) ==
    \E r \in Runs :
        /\ \A i \in Jobs : r \notin rows[i].run_ids
        /\ rows[j].run = NoRun /\ rows'[j].run = r
        /\ rows'[j].run_ids = rows[j].run_ids \union {r}
        /\ rows'[j].preemptions = rows[j].preemptions
Parked(j) ==
    /\ rows[j].run \in Runs /\ run[rows[j].run] = "PREEMPTED"
    /\ rows'[j].run = NoRun
    /\ rows'[j].run_ids = rows[j].run_ids
    /\ rows'[j].preemptions = rows[j].preemptions + 1
    /\ rows[j].preemptions < MaxPreemptions
RowsWrite == \A j \in Jobs : SameRun(j) \/ GivenBack(j) \/ Drawn(j) \/ Parked(j)

LEMMA RowsQuiet == UNCHANGED rows => RowsWrite
BY DEF RowsWrite, SameRun

LEMMA RowSet ==
    ASSUME TypeOK, NEW j \in Jobs, NEW row, SetRow(j, row),
           rows'[j] = row => SameRun(j) \/ GivenBack(j) \/ Drawn(j) \/ Parked(j)
    PROVE  RowsWrite
<1>1. rows'[j] = row /\ \A i \in Jobs : i # j => rows'[i] = rows[i]
  BY DEF SetRow, TypeOK, OwnerTypeOK
<1> QED BY <1>1 DEF RowsWrite, SameRun

LEMMA CancelCounts ==
    ASSUME TypeOK, NEW j \in Jobs, CancelTransaction(j)
    PROVE  RowsWrite
<1>1. rows[j] \in JobRow
  BY DEF TypeOK, OwnerTypeOK
<1>2. rows'[j] = CancelTransition(rows[j]) => SameRun(j)
  BY <1>1 DEF CancelTransition, JobRow, SameRun
<1> QED BY <1>2, RowSet, RowsQuiet DEF CancelTransaction

LEMMA ReconcileCounts ==
    ASSUME TypeOK, NEW j \in Jobs, NEW to, NEW reason, Reconcile(j, to, reason)
    PROVE  RowsWrite
<1>1. rows[j] \in JobRow
  BY DEF TypeOK, OwnerTypeOK
<1>2. rows'[j] = ReconcileTransition(rows[j], to, reason) => SameRun(j)
  BY <1>1 DEF ReconcileTransition, JobRow, SameRun
<1> QED BY <1>2, RowSet, RowsQuiet DEF Reconcile

LEMMA WaitCounts ==
    ASSUME TypeOK, NEW j \in Jobs, SetRow(j, SetWaiting(rows[j], "CONCURRENCY"))
    PROVE  RowsWrite
<1>1. rows[j] \in JobRow
  BY DEF TypeOK, OwnerTypeOK
<1>2. rows'[j] = SetWaiting(rows[j], "CONCURRENCY") => SameRun(j)
  BY <1>1 DEF SetWaiting, JobRow, SameRun
<1> QED BY <1>2, RowSet

LEMMA RequeueCounts ==
    ASSUME TypeOK, NEW j \in Jobs, rows[j].run \in Runs, run[rows[j].run] = "ABSENT",
           SetRow(j, Requeue(rows[j], "NO_CAPACITY", NoRun))
    PROVE  RowsWrite
<1>1. rows[j] \in JobRow
  BY DEF TypeOK, OwnerTypeOK
<1>2. rows'[j] = Requeue(rows[j], "NO_CAPACITY", NoRun) => GivenBack(j)
  BY <1>1 DEF Requeue, JobRow, GivenBack
<1> QED BY <1>2, RowSet

\* requeue_exact parks a job only at the count its decision was taken at.
LEMMA ParkCounts ==
    ASSUME TypeOK, DecisionsFit, NEW j \in Jobs, NEW r \in Runs, run[r] = "PREEMPTED", Park(j, r)
    PROVE  RowsWrite
<1>1. rows[j] \in JobRow
  BY DEF TypeOK, OwnerTypeOK
<1>2. CASE UNCHANGED rows
  BY <1>2, RowsQuiet
<1>3. CASE ~UNCHANGED rows
  <2>1. /\ rows[j].run = r /\ rows[j].preemptions = receipt[r].before
        /\ SetRow(j, Requeue(rows[j], "PREEMPTED", r))
    BY <1>3 DEF Park, ExactGeneration
  <2>2. rows[j].preemptions < MaxPreemptions
    BY <2>1 DEF DecisionsFit
  <2>3. rows'[j] = Requeue(rows[j], "PREEMPTED", r) => Parked(j)
    BY <1>1, <2>1, <2>2 DEF Requeue, JobRow, Parked
  <2> QED BY <2>1, <2>3, RowSet
<1> QED BY <1>2, <1>3

LEMMA MarkCounts ==
    ASSUME TypeOK, RowsFit, NEW j \in Jobs, NEW r \in Runs, rows[j].state = "QUEUED",
           \A i \in Jobs : r \notin rows[i].run_ids, SetRow(j, MarkDispatched(rows[j], r))
    PROVE  RowsWrite
<1>1. rows[j] \in JobRow /\ rows[j].run = NoRun
  BY DEF TypeOK, OwnerTypeOK, RowsFit, Materialises
<1>2. ASSUME rows'[j] = MarkDispatched(rows[j], r)
      PROVE  Drawn(j)
  <2>1. /\ rows'[j].run = r /\ rows'[j].run_ids = rows[j].run_ids \union {r}
        /\ rows'[j].preemptions = rows[j].preemptions
    BY <1>1, <1>2 DEF MarkDispatched, JobRow
  <2> QED BY <1>1, <2>1 DEF Drawn
<1> QED BY <1>2, RowSet

LEMMA RowWrites ==
    ASSUME IInv, DecisionsFit, [Next]_vars
    PROVE  RowsWrite
<1>a. TypeOK /\ RowsFit /\ LocalsFit /\ CancelsFit /\ TailsFit /\ CachesFit /\ MarkedRunsWait /\ DrawnRunsAreNew
  BY DEF IInv, TypeInv, OwnerRuns, LocalRuns
<1>1. ASSUME NEW s \in Schedulers, TickStep(s) \/ Crash(s) \/ Abandon(s)
      PROVE  RowsWrite
  <2>1. CASE ReconcileJob(s)
    <3>1. job[s] \in Jobs /\ \E o \in Outcomes : Reconcile(job[s], o[2], o[3])
      BY <2>1, <1>a DEF ReconcileJob, LocalsFit
    <3> QED BY <1>a, <3>1, ReconcileCounts
  <2>2. CASE ReconcilePreempted(s)
    <3>1. /\ job[s] \in Jobs /\ gen[s] \in Runs /\ run[gen[s]] = "PREEMPTED"
          /\ Park(job[s], gen[s]) \/ UNCHANGED rows
      BY <2>2, <1>a DEF ReconcilePreempted, LocalsFit, CachesFit
    <3> QED BY <1>a, <3>1, ParkCounts, RowsQuiet
  <2>3. ASSUME NEW j \in Jobs, ExecWait(s, j)
        PROVE  RowsWrite
    BY <1>a, <2>3, WaitCounts, RowsQuiet DEF ExecWait
  <2>4. CASE Mark(s)
    <3>1. job[s] \in Jobs /\ gen[s] \in Runs /\ \A i \in Jobs : gen[s] \notin rows[i].run_ids
      BY <2>4, <1>a DEF Mark, LocalsFit, Dispatching, DrawnRunsAreNew
    <3>2. \/ rows[job[s]].state = "QUEUED" /\ SetRow(job[s], MarkDispatched(rows[job[s]], gen[s]))
          \/ UNCHANGED rows
      BY <2>4 DEF Mark
    <3> QED BY <1>a, <3>1, <3>2, MarkCounts, RowsQuiet
  <2>5. CASE RequeueDispatch(s)
    <3>1. job[s] \in Jobs /\ gen[s] \in Runs /\ rows[job[s]].run = gen[s] /\ run[gen[s]] = "ABSENT"
      BY <2>5, <1>a DEF RequeueDispatch, LocalsFit, Dispatching, Marked, MarkedRunsWait
    <3>2. SetRow(job[s], Requeue(rows[job[s]], "NO_CAPACITY", NoRun)) \/ UNCHANGED rows
      BY <2>5 DEF RequeueDispatch
    <3> QED BY <1>a, <3>1, <3>2, RequeueCounts, RowsQuiet
  <2>6. CASE UNCHANGED rows
    BY <2>6, RowsQuiet
  <2>7. \/ ReconcileJob(s) \/ ReconcilePreempted(s) \/ Mark(s) \/ RequeueDispatch(s)
        \/ (\E j \in Jobs : ExecWait(s, j)) \/ UNCHANGED rows
    BY <1>1 DEF TickStep, Crash, Abandon, Acquire, Renew, ReleaseLease, Wait, TickBegin,
         Snapshot, ReconcileList, ReconcileSkip, ReconcileOwed,
         Guard, LookupEnd, ReconcileEnd, ChargeEnd, ExecEnd, DebtScan, DebtEnd, ReadQueued, Plan,
         CheckB, ReserveRun, CheckD, Launch, Undo, Lookup, ReconcileNext,
         ExecDispatch, Charge, Debt, ownerVars
  <2> QED BY <2>1, <2>2, <2>3, <2>4, <2>5, <2>6, <2>7
<1>2. ASSUME NEW r \in Runs, NEW j \in Jobs, PreemptPark(j, r)
      PROVE  RowsWrite
  <2>1. run[r] = "PREEMPTED" /\ (Park(j, r) \/ UNCHANGED rows)
    BY <1>2, <1>a DEF PreemptPark, TailsFit
  <2> QED BY <1>a, <2>1, ParkCounts, RowsQuiet
<1>3. ASSUME NEW r \in Runs, NEW j \in Jobs, PreemptFailJob(j, r)
      PROVE  RowsWrite
  BY <1>3, <1>a, ReconcileCounts, RowsQuiet DEF PreemptFailJob
<1>4. ASSUME NEW c \in Cancellers, CancelQueued(c) \/ CancelJob(c)
      PROVE  RowsWrite
  <2>1. cancel[c].job \in Jobs /\ CancelTransaction(cancel[c].job)
    BY <1>4, <1>a DEF CancelQueued, CancelJob, CancelsFit
  <2> QED BY <1>a, <2>1, CancelCounts
<1>5. ASSUME NEW r \in Runs,
             \/ Start(r) \/ Finish(r) \/ Orphan(r) \/ TailCrash(r) \/ PreemptRun(r)
             \/ PreemptRelease(r)
             \/ \E j \in Jobs : Recover(j, r) \/ PreemptBegin(j, r) \/ PreemptLimit(j, r)
      PROVE  RowsWrite
  BY <1>5, RowsQuiet
     DEF Start, Finish, Orphan, TailCrash, PreemptRun, PreemptRelease, Recover, PreemptBegin,
         PreemptLimit
<1>6. ASSUME NEW c \in Cancellers, CancelRun(c) \/ CancelRelease(c) \/ \E j \in Jobs : CancelRead(c, j)
      PROVE  RowsWrite
  BY <1>6, RowsQuiet DEF CancelRun, CancelRelease, CancelRead
<1>7. CASE Expire \/ UNCHANGED vars
  BY <1>7, RowsQuiet DEF Expire, vars, ownerVars
<1>8. CASE OthersStep
  BY <1>2, <1>3, <1>4, <1>5, <1>6, <1>7, <1>8 DEF OthersStep, RunStep, CancelStep
<1> QED BY <1>1, <1>7, <1>8 DEF Next

-----------------------------------------------------------------------------
\* Each job counts the same runs after the step, or one more.
LEMMA CountedAfter ==
    ASSUME IInv, IInv', RunsWrite, RowsWrite, NEW j \in Jobs
    PROVE  \/ /\ Counted(j)' = Counted(j) /\ rows'[j].preemptions = rows[j].preemptions
           \/ /\ rows'[j].preemptions = rows[j].preemptions + 1
              /\ rows[j].preemptions < MaxPreemptions
              /\ \E r \in Runs \ Counted(j) : Counted(j)' = Counted(j) \union {r}
<1> DEFINE Goal == \/ /\ Counted(j)' = Counted(j) /\ rows'[j].preemptions = rows[j].preemptions
                   \/ /\ rows'[j].preemptions = rows[j].preemptions + 1
                      /\ rows[j].preemptions < MaxPreemptions
                      /\ \E r \in Runs \ Counted(j) : Counted(j)' = Counted(j) \union {r}
<1> SUFFICES Goal
  OBVIOUS
<1>a. /\ rows[j].run_ids \subseteq Runs /\ rows'[j].run_ids \subseteq Runs
      /\ rows[j].run \in RunOrNone
      /\ rows[j].run # NoRun => rows[j].run \in rows[j].run_ids
  BY DEF IInv, TypeInv, TypeOK, OwnerTypeOK, JobRow, RowsFit
<1>b. \A r \in rows[j].run_ids : Live(r) => rows[j].run = r
  BY DEF IInv, OwnerRuns, OnlyCurrentRunLives
<1>c. \A r \in Runs : (\A i \in Jobs : r \notin rows[i].run_ids) => run[r] = "ABSENT"
  BY DEF IInv, OwnerRuns, RunsDispatched
\* PREEMPTED is final, and a run that becomes PREEMPTED was at work.
<1>d. \A r \in Runs : /\ run[r] = "PREEMPTED" => run'[r] = "PREEMPTED"
                      /\ run'[r] = "PREEMPTED" => run[r] = "PREEMPTED" \/ Live(r)
  BY DEF RunsWrite, Live
<1>e. /\ Counted(j) = {r \in rows[j].run_ids : run[r] = "PREEMPTED" /\ r # rows[j].run}
      /\ Counted(j)' = {r \in rows'[j].run_ids : run'[r] = "PREEMPTED" /\ r # rows'[j].run}
  BY DEF Counted, PreemptedRuns
<1>1. CASE SameRun(j)
  <2>1. Counted(j)' = Counted(j)
    BY <1>1, <1>a, <1>b, <1>d, <1>e DEF SameRun
  <2> QED BY <1>1, <2>1 DEF SameRun
<1>2. CASE GivenBack(j)
  <2>1. \A r \in rows[j].run_ids : ~Live(r)
    BY <1>2, <1>b DEF GivenBack, Live
  <2>2. run[rows[j].run] # "PREEMPTED" /\ NoRun \notin rows[j].run_ids
    BY <1>2, <1>a, NoRunAssumption DEF GivenBack
  <2>3. Counted(j)' = Counted(j)
    BY <1>2, <1>a, <1>d, <1>e, <2>1, <2>2 DEF GivenBack
  <2> QED BY <1>2, <2>3 DEF GivenBack
<1>3. CASE Drawn(j)
  <2>1. PICK q \in Runs :
           /\ \A i \in Jobs : q \notin rows[i].run_ids
           /\ rows[j].run = NoRun /\ rows'[j].run = q
           /\ rows'[j].run_ids = rows[j].run_ids \union {q}
           /\ rows'[j].preemptions = rows[j].preemptions
    BY <1>3 DEF Drawn
  <2>2. \A r \in rows[j].run_ids : ~Live(r) /\ r # NoRun /\ r # q
    BY <1>a, <1>b, <2>1, NoRunAssumption
  <2>3. Counted(j)' = Counted(j)
    BY <1>a, <1>d, <1>e, <2>1, <2>2
  <2> QED BY <2>1, <2>3
<1>4. CASE Parked(j)
  <2>1. PICK q \in Runs : q = rows[j].run
    BY <1>4 DEF Parked
  <2>2. run[q] = "PREEMPTED" /\ q \in rows[j].run_ids
    BY <1>4, <1>a, <2>1, NoRunAssumption DEF Parked
  <2>3. \A r \in rows[j].run_ids : ~Live(r) /\ r # NoRun
    BY <1>a, <1>b, <2>1, <2>2, NoRunAssumption DEF Live
  <2>4. q \notin Counted(j)
    BY <1>e, <2>1
  <2>5. Counted(j)' = Counted(j) \union {q}
    BY <1>4, <1>a, <1>d, <1>e, <2>1, <2>2, <2>3 DEF Parked
  <2> QED BY <1>4, <2>4, <2>5 DEF Parked
<1> QED BY <1>1, <1>2, <1>3, <1>4 DEF RowsWrite

LEMMA CountsPreserved ==
    IInv /\ IInv' /\ DecisionsFit /\ CountInv /\ [Next]_vars => DecisionsFit' /\ CountInv'
<1> SUFFICES ASSUME IInv, IInv', DecisionsFit, CountInv, [Next]_vars
             PROVE  DecisionsFit' /\ CountInv'
  OBVIOUS
<1>1. RunsWrite /\ DecisionsFit' /\ RowsWrite
  BY RunWrites, RowWrites
<1>2. ASSUME NEW j \in Jobs
      PROVE  /\ IsFiniteSet(Counted(j)')
             /\ rows'[j].preemptions = Cardinality(Counted(j)')
             /\ rows'[j].preemptions <= MaxPreemptions
  <2>1. /\ IsFiniteSet(Counted(j)) /\ rows[j].preemptions = Cardinality(Counted(j))
        /\ rows[j].preemptions <= MaxPreemptions
    BY DEF CountInv
  <2>2. rows[j].preemptions \in Nat /\ MaxPreemptions \in Nat
    BY OwnerAssumption DEF IInv, TypeInv, TypeOK, OwnerTypeOK, JobRow
  <2>3. \A r : r \notin Counted(j) =>
           /\ IsFiniteSet(Counted(j) \union {r})
           /\ Cardinality(Counted(j) \union {r}) = Cardinality(Counted(j)) + 1
    BY <2>1, FS_AddElement
  <2>4. CASE Counted(j)' = Counted(j) /\ rows'[j].preemptions = rows[j].preemptions
    BY <2>1, <2>4
  <2>5. CASE /\ rows'[j].preemptions = rows[j].preemptions + 1
             /\ rows[j].preemptions < MaxPreemptions
             /\ \E r \in Runs \ Counted(j) : Counted(j)' = Counted(j) \union {r}
    BY <2>1, <2>2, <2>3, <2>5
  <2> QED BY <1>1, <2>4, <2>5, CountedAfter
<1> QED BY <1>1, <1>2 DEF CountInv

LEMMA InitCounts == Init => DecisionsFit /\ CountInv
<1> SUFFICES ASSUME Init PROVE DecisionsFit /\ CountInv
  OBVIOUS
<1> USE DEF Init, OwnerInit
<1>1. DecisionsFit
  BY DEF DecisionsFit, NoReceipt
<1>2. \A j \in Jobs : Counted(j) = {} /\ rows[j].preemptions = 0
  BY DEF Counted, PreemptedRuns, QueuedJob, NoRow
<1>3. IsFiniteSet({}) /\ Cardinality({}) = 0 /\ 0 <= MaxPreemptions
  BY FS_EmptySet, OwnerAssumption
<1> HIDE DEF Init, OwnerInit
<1>4. CountInv
  BY <1>2, <1>3 DEF CountInv
<1> QED BY <1>1, <1>4

LEMMA CountedTruly == IInv /\ CountInv => PreemptionsCounted
<1> SUFFICES ASSUME IInv, CountInv, NEW j \in Jobs
             PROVE  /\ rows[j].preemptions <= MaxPreemptions
                    /\ rows[j].preemptions <= Cardinality(PreemptedRuns(j))
                    /\ rows[j].state = "QUEUED" => rows[j].preemptions = Cardinality(PreemptedRuns(j))
  BY DEF PreemptionsCounted
<1>1. /\ IsFiniteSet(Counted(j)) /\ rows[j].preemptions = Cardinality(Counted(j))
      /\ rows[j].preemptions <= MaxPreemptions
  BY DEF CountInv
<1>2. IsFiniteSet(Counted(j) \union {rows[j].run})
  BY <1>1, FS_AddElement
<1>3. PreemptedRuns(j) \in SUBSET (Counted(j) \union {rows[j].run})
  BY DEF Counted
<1>4. IsFiniteSet(PreemptedRuns(j))
  BY <1>2, <1>3, FS_Subset
<1>5. Counted(j) \in SUBSET PreemptedRuns(j)
  BY DEF Counted
<1>6. rows[j].preemptions <= Cardinality(PreemptedRuns(j))
  BY <1>1, <1>4, <1>5, FS_Subset
<1>7. ASSUME rows[j].state = "QUEUED"
      PROVE  Counted(j) = PreemptedRuns(j)
  <2>1. rows[j].run = NoRun /\ NoRun \notin rows[j].run_ids
    BY <1>7, NoRunAssumption DEF IInv, TypeInv, TypeOK, OwnerTypeOK, JobRow, RowsFit, Materialises
  <2> QED BY <2>1 DEF Counted, PreemptedRuns
<1> QED BY <1>1, <1>6, <1>7

\* A preemption is counted once, whoever completes it and whatever fails,
\* expires or crashes in between, and no job is preempted beyond the bound.
THEOREM PreemptionsAreCounted == Spec => []PreemptionsCounted
<1>1. IInv /\ CountInv => PreemptionsCounted
  BY CountedTruly
<1> QED BY <1>1, InitCounts, CountsPreserved, Invariance, PTL DEF Spec

-----------------------------------------------------------------------------
(* The ceiling.                                                            *)

\* A slot is taken by a job that is launched, by one whose launch has passed
\* its last check of the lease, and by one the lease holder has decided to
\* dispatch.  A scheduler that lost the lease may still mark such a job, but it
\* fails its next check.
Launched == {j \in Running : run[rows[j].run] # "ABSENT"}
Launching == {j \in Running : \E s \in Schedulers : pc[s] = "launch" /\ job[s] = j}

Before == {"mark", "checkB", "reserve", "checkD", "launch"}
Commits(s) ==
    {j \in Jobs : \/ pc[s] \in Dispatching \union {"exec"} /\ j \in todo[s]
                  \/ pc[s] \in Before /\ j = job[s]}
Committed == {j \in Jobs : \E s \in Schedulers : lease.holder = s /\ j \in Commits(s)}

Slots == Launched \union Launching \union Committed
SlotInv == Cardinality(Slots) <= Limit

LEMMA SlotsFinite == IsFiniteSet(Slots) /\ IsFiniteSet(Running) /\ Slots \subseteq Jobs
<1>1. Slots \in SUBSET Jobs /\ Running \in SUBSET Jobs
  BY DEF Slots, Launched, Launching, Committed, Running
<1> QED BY <1>1, JobsAssumption, FS_Subset

\* The job of a dispatch that is RUNNING after the step was so before it.
LEMMA StillRunning ==
    ASSUME IInv, IInv', RowStep, NEW s \in Schedulers, pc[s] \in Marked, NEW j \in Jobs,
           GenerationAfter(j, gen[s])
    PROVE  Generation(j, gen[s]) /\ job[s] = j
<1>1. job[s] \in Jobs /\ gen[s] \in Runs /\ rows[job[s]].run = gen[s]
  BY DEF IInv, TypeInv, LocalsFit, LocalRuns, MarkedRunsWait, Dispatching
<1>2. gen[s] \in rows[job[s]].run_ids
  BY <1>1, NoRunAssumption DEF IInv, TypeInv, RowsFit
<1>3. Generation(j, gen[s])
  BY <1>1, <1>2, OldGenerations
<1>4. gen[s] \in rows[j].run_ids
  BY <1>1, <1>3, NoRunAssumption DEF IInv, TypeInv, RowsFit, Generation
<1>5. job[s] = j
  BY <1>1, <1>2, <1>4 DEF IInv, OwnerRuns, LineagesDisjoint
<1> QED BY <1>3, <1>5

LEMMA LaunchedAfter ==
    ASSUME IInv, IInv', RowStep, RunsWrite
    PROVE  Launched' \subseteq Launched \union Launching
<1> SUFFICES ASSUME NEW j \in Jobs, rows'[j].state = "RUNNING", run'[rows'[j].run] # "ABSENT"
             PROVE  j \in Launched \union Launching
  BY DEF Launched, Running
<1>1. PICK r \in Runs : r = rows'[j].run /\ r \in rows'[j].run_ids
  BY NoRunAssumption DEF IInv, TypeInv, RowsFit, Materialises, TypeOK, OwnerTypeOK, JobRow, RunOrNone
<1>2. CASE run[r] # "ABSENT"
  <2>1. Generation(j, r)
    BY <1>1, <1>2, OldGenerations DEF IInv, OwnerRuns, RunsDispatched, GenerationAfter
  <2> QED BY <1>2, <2>1 DEF Launched, Running, Generation
<1>3. CASE run[r] = "ABSENT"
  <2>1. PICK s \in Schedulers : pc[s] = "launch" /\ gen[s] = r
    BY <1>1, <1>3 DEF RunsWrite, Live
  <2>2. Generation(j, r) /\ job[s] = j
    BY <1>1, <2>1, StillRunning DEF Marked, GenerationAfter
  <2> QED BY <2>1, <2>2 DEF Launching, Running, Generation
<1> QED BY <1>2, <1>3

\* The last check of the lease.
LaunchChecked ==
    \A s \in Schedulers : pc'[s] = "launch" =>
        /\ job'[s] = job[s] /\ gen'[s] = gen[s]
        /\ pc[s] = "launch" \/ (pc[s] = "checkD" /\ lease.holder = s)

LEMMA LaunchingAfter ==
    ASSUME IInv, IInv', RowStep, LaunchChecked
    PROVE  Launching' \subseteq Launching \union Committed
<1> SUFFICES ASSUME NEW j \in Jobs, rows'[j].state = "RUNNING",
                    NEW s \in Schedulers, pc'[s] = "launch", job'[s] = j
             PROVE  j \in Launching \union Committed
  BY DEF Launching, Running
<1>1. /\ job[s] = j /\ gen'[s] = gen[s]
      /\ pc[s] = "launch" \/ (pc[s] = "checkD" /\ lease.holder = s)
  BY DEF LaunchChecked
<1>2. GenerationAfter(j, gen[s])
  BY <1>1 DEF IInv, LocalRuns, MarkedRunsWait, Marked, GenerationAfter
<1>3. Generation(j, gen[s])
  BY <1>1, <1>2, StillRunning DEF Marked
<1> QED BY <1>1, <1>3 DEF Launching, Running, Generation, Committed, Commits, Before

\* Nobody but the lease holder that plans commits to more jobs, and it leaves
\* room for those that are RUNNING.
Planned ==
    /\ UNCHANGED rows
    /\ \E chosen \in SUBSET Jobs : /\ Cardinality(chosen) + Cardinality(Running) <= Limit
                                   /\ Committed' \subseteq chosen
CommitFit == Committed' \subseteq Committed \/ Planned

LEMMA SlotsAfter ==
    ASSUME IInv, IInv', SlotInv, RowStep, RunsWrite, LaunchChecked, CommitFit
    PROVE  SlotInv'
<1>a. /\ Launched' \subseteq Launched \union Launching
      /\ Launching' \subseteq Launching \union Committed
  BY LaunchedAfter, LaunchingAfter
<1>b. IsFiniteSet(Slots) /\ IsFiniteSet(Running)
  BY SlotsFinite
<1>c. Limit \in Nat
  BY LimitAssumption
<1>1. CASE Committed' \subseteq Committed
  <2>1. Slots' \in SUBSET Slots
    BY <1>a, <1>1 DEF Slots
  <2>2. /\ Cardinality(Slots') <= Cardinality(Slots)
        /\ Cardinality(Slots) \in Nat /\ Cardinality(Slots') \in Nat
    BY <1>b, <2>1, FS_Subset, FS_CardinalityType
  <2>3. Cardinality(Slots') <= Limit
    BY <1>c, <2>2 DEF SlotInv
  <2> QED BY <2>3 DEF SlotInv
<1>2. CASE Planned
  <2>1. PICK chosen \in SUBSET Jobs : /\ Cardinality(chosen) + Cardinality(Running) <= Limit
                                      /\ Committed' \subseteq chosen
    BY <1>2 DEF Planned
  <2>2. Launched' \subseteq Running /\ Launching' \subseteq Running
    BY <1>a, <1>2 DEF Planned, Launched, Launching, Running
  <2>3. Slots' \in SUBSET (chosen \union Running)
    BY <2>1, <2>2 DEF Slots
  <2>4. IsFiniteSet(chosen)
    BY JobsAssumption, FS_Subset
  <2>5. chosen \intersect Running \in SUBSET chosen
    OBVIOUS
  <2>6. /\ Cardinality(chosen) \in Nat /\ Cardinality(Running) \in Nat
        /\ Cardinality(chosen \intersect Running) \in Nat
    BY <1>b, <2>4, <2>5, FS_Subset, FS_CardinalityType
  <2>7. /\ IsFiniteSet(chosen \union Running)
        /\ Cardinality(chosen \union Running)
             = Cardinality(chosen) + Cardinality(Running) - Cardinality(chosen \intersect Running)
    BY <1>b, <2>4, FS_Union
  <2>8. /\ Cardinality(Slots') <= Cardinality(chosen \union Running)
        /\ Cardinality(Slots') \in Nat
    BY <2>3, <2>7, FS_Subset, FS_CardinalityType
  <2>9. Cardinality(Slots') <= Limit
    BY <1>c, <2>1, <2>6, <2>7, <2>8
  <2> QED BY <2>9 DEF SlotInv
<1> QED BY <1>1, <1>2 DEF CommitFit

-----------------------------------------------------------------------------
(* The steps of a scheduler that bear on the ceiling.                      *)

\* s alone moves.
Alone(s) ==
    \A t \in Schedulers : t # s =>
        /\ pc'[t] = pc[t] /\ job'[t] = job[t] /\ gen'[t] = gen[t] /\ todo'[t] = todo[t]

\* The lease does not change hands.
LeaseStays == lease'.holder \in {lease.holder, NoHolder}

\* A step outside the dispatch loop, or one that only takes jobs off it.
Outside(s) == pc'[s] \notin Dispatching \union {"exec"}
Inside(s) ==
    /\ pc[s] \in Dispatching \union {"exec"}
    /\ todo'[s] \subseteq todo[s]
    /\ pc'[s] \in Before => \/ pc[s] \in Before /\ job'[s] = job[s]
                            \/ job'[s] \in todo[s] /\ pc'[s] = "mark"

\* The holder's dispatches are its own, the others' are no slots.
LEMMA CommitsStay ==
    ASSUME TypeOK, NEW s \in Schedulers, Alone(s), LeaseStays, Outside(s) \/ Inside(s)
    PROVE  Committed' \subseteq Committed
<1> SUFFICES ASSUME NEW j \in Jobs, NEW t \in Schedulers, lease'.holder = t, j \in Commits(t)'
             PROVE  j \in Committed
  BY DEF Committed
<1>1. lease.holder = t
  BY OwnerAssumption DEF LeaseStays
<1>2. j \in Commits(t)
  <2>1. CASE t # s
    BY <2>1 DEF Alone, Commits
  <2>2. CASE t = s
    BY <2>2 DEF Outside, Inside, Commits, Before, Dispatching, Marked
  <2> QED BY <2>1, <2>2
<1> QED BY <1>1, <1>2 DEF Committed

LEMMA AcquireCommits ==
    ASSUME TypeOK, NEW s \in Schedulers, Acquire(s)
    PROVE  Alone(s) /\ LaunchChecked /\ CommitFit
<1>1. /\ pc' = [pc EXCEPT ![s] = "renew"] /\ UNCHANGED <<job, gen, todo>>
      /\ lease'.holder = s
  BY DEF Acquire, Goto
<1>2. Alone(s) /\ pc'[s] = "renew"
  BY <1>1 DEF Alone, TypeOK, LocalTypeOK
<1>3. LaunchChecked
  BY <1>2 DEF Alone, LaunchChecked
<1>4. Committed' = {}
  BY <1>1, <1>2 DEF Committed, Commits, Dispatching, Marked, Before
<1> QED BY <1>2, <1>3, <1>4 DEF CommitFit

LEMMA PlanCommits ==
    ASSUME TypeOK, NEW s \in Schedulers, Plan(s)
    PROVE  LaunchChecked /\ CommitFit
<1>1. PICK chosen \in SUBSET todo[s] :
         /\ Cardinality(chosen) + Cardinality(Running) <= Limit \/ chosen = {}
         /\ todo' = Set(todo, s, chosen)
  BY DEF Plan
<1>2. UNCHANGED <<rows, lease, job, gen>> /\ pc' = [pc EXCEPT ![s] = "exec"]
  BY DEF Plan, Goto, ownerVars
<1>3. Alone(s) /\ pc'[s] = "exec" /\ todo'[s] = chosen
  BY <1>1, <1>2 DEF Alone, Set, TypeOK, LocalTypeOK
<1>4. LaunchChecked
  BY <1>2, <1>3 DEF Alone, LaunchChecked
<1>5. ASSUME lease.holder = s
      PROVE  CommitFit
  <2>1. Committed' \subseteq chosen
    BY <1>2, <1>3, <1>5 DEF Committed, Commits, Before
  <2>2. chosen \in SUBSET Jobs
    BY <1>1 DEF TypeOK, LocalTypeOK
  <2>3. CASE chosen = {}
    BY <2>1, <2>3 DEF CommitFit
  <2>4. CASE Cardinality(chosen) + Cardinality(Running) <= Limit
    BY <1>2, <2>1, <2>2, <2>4 DEF CommitFit, Planned
  <2> QED BY <1>1, <2>3, <2>4
<1>6. ASSUME lease.holder # s
      PROVE  CommitFit
  <2>1. Committed' \subseteq Committed
    BY <1>2, <1>3, <1>6 DEF Committed, Commits, Alone
  <2> QED BY <2>1 DEF CommitFit
<1> QED BY <1>4, <1>5, <1>6

\* Everything a scheduler does outside of the loop over the decisions.
LEMMA OutsideCommits ==
    ASSUME TypeOK, NEW s \in Schedulers,
           \/ Renew(s) \/ ReleaseLease(s) \/ Wait(s) \/ TickBegin(s)
           \/ Snapshot(s) \/ Guard(s) \/ LookupEnd(s)
           \/ ReconcileList(s) \/ ReconcileSkip(s) \/ ReconcileJob(s) \/ ReconcilePreempted(s)
           \/ ReconcileOwed(s) \/ ReconcileEnd(s) \/ ChargeEnd(s)
           \/ DebtScan(s) \/ DebtEnd(s) \/ ReadQueued(s) \/ ExecEnd(s) \/ Crash(s) \/ Abandon(s)
           \/ (\E j \in Jobs : Lookup(s, j) \/ ReconcileNext(s, j))
           \/ (\E change \in changes[s] : Charge(s, change))
           \/ \E r \in Runs : Debt(s, r)
    PROVE  Alone(s) /\ LeaseStays /\ Outside(s)
<1>1. \E label \in {"idle", "renew", "check", "snapshot", "guard", "lookup", "list", "reconcile",
                    "apply", "owed", "charge", "debts", "settle", "queued", "plan", "wait", "stop"} :
          Goto(s, label) \/ (UNCHANGED pc /\ pc[s] = label)
  BY DEF Renew, ReleaseLease, Wait, TickBegin, Snapshot, Guard, LookupEnd, ReconcileList,
         ReconcileSkip, ReconcileJob, ReconcilePreempted, ReconcileOwed, ReconcileEnd, ChargeEnd,
         DebtScan, DebtEnd, ReadQueued, ExecEnd, Crash, Abandon, Lookup, ReconcileNext, Charge, Debt,
         Return, Reconciled
<1>2. /\ \E i : job' = job \/ job' = [job EXCEPT ![s] = i]
      /\ \E r : gen' = gen \/ gen' = [gen EXCEPT ![s] = r]
      /\ \E jobs : todo' = todo \/ todo' = [todo EXCEPT ![s] = jobs]
  BY DEF Renew, ReleaseLease, Wait, TickBegin, Snapshot, Guard, LookupEnd, ReconcileList,
         ReconcileSkip, ReconcileJob, ReconcilePreempted, ReconcileOwed, ReconcileEnd, ChargeEnd,
         DebtScan, DebtEnd, ReadQueued, ExecEnd, Crash, Abandon, Lookup, ReconcileNext, Charge, Debt,
         Return, Reconciled, Set
<1>3. UNCHANGED lease \/ lease' = [lease EXCEPT !.live = TRUE] \/ lease' = NoLease
                      \/ lease' = [lease EXCEPT !.holder = NoHolder]
  BY DEF Renew, ReleaseLease, Wait, TickBegin, Snapshot, Guard, LookupEnd, ReconcileList,
         ReconcileSkip, ReconcileJob, ReconcilePreempted, ReconcileOwed, ReconcileEnd, ChargeEnd,
         DebtScan, DebtEnd, ReadQueued, ExecEnd, Crash, Abandon, Lookup, ReconcileNext, Charge, Debt,
         ownerVars
<1>4. Alone(s)
  BY <1>1, <1>2 DEF Alone, Goto, TypeOK, LocalTypeOK
<1>5. LeaseStays
  BY <1>3 DEF LeaseStays, NoLease, TypeOK, OwnerTypeOK
<1>6. Outside(s)
  BY <1>1 DEF Outside, Goto, Dispatching, Marked, TypeOK, LocalTypeOK
<1> QED BY <1>4, <1>5, <1>6

\* The loop over the decisions.
LEMMA InsideCommits ==
    ASSUME TypeOK, NEW s \in Schedulers,
           \/ Mark(s) \/ CheckB(s) \/ ReserveRun(s) \/ CheckD(s) \/ Launch(s) \/ Undo(s)
           \/ RequeueDispatch(s)
           \/ \E j \in Jobs : ExecWait(s, j) \/ \E r \in Runs : ExecDispatch(s, j, r)
    PROVE  Alone(s) /\ LeaseStays /\ Inside(s) /\ LaunchChecked
<1>a. /\ pc \in [Schedulers -> Pcs] /\ todo \in [Schedulers -> SUBSET Jobs]
      /\ job \in [Schedulers -> Jobs \union {NoJob}] /\ gen \in [Schedulers -> RunOrNone]
  BY DEF TypeOK, LocalTypeOK
<1>1. UNCHANGED lease
  BY DEF Mark, CheckB, ReserveRun, CheckD, Launch, Undo, RequeueDispatch, ExecWait, ExecDispatch,
         ownerVars
<1>2. LeaseStays
  BY <1>1 DEF LeaseStays
<1>3. ASSUME NEW j \in Jobs, ExecWait(s, j)
      PROVE  Alone(s) /\ Inside(s) /\ LaunchChecked
  <2>1. UNCHANGED <<pc, todo, job, gen>> /\ pc[s] = "exec"
    BY <1>3 DEF ExecWait
  <2> QED BY <2>1 DEF Alone, Inside, LaunchChecked, Before
<1>4. ASSUME NEW j \in Jobs, NEW r \in Runs, ExecDispatch(s, j, r)
      PROVE  Alone(s) /\ Inside(s) /\ LaunchChecked
  <2>1. pc[s] = "exec" /\ j \in todo[s]
    BY <1>4 DEF ExecDispatch
  <2>2. CASE CheckLease(s)
    <3>1. /\ job' = [job EXCEPT ![s] = j] /\ gen' = [gen EXCEPT ![s] = r]
          /\ todo' = [todo EXCEPT ![s] = @ \ {j}] /\ pc' = [pc EXCEPT ![s] = "mark"]
      BY <1>4, <2>2 DEF ExecDispatch, Set, Goto
    <3>2. Alone(s) /\ pc'[s] = "mark" /\ job'[s] = j /\ todo'[s] = todo[s] \ {j}
      BY <1>a, <3>1 DEF Alone
    <3> QED BY <2>1, <3>2 DEF Alone, Inside, LaunchChecked
  <2>3. CASE ~CheckLease(s)
    <3>1. UNCHANGED <<pc, job, gen>> /\ todo' = [todo EXCEPT ![s] = {}]
      BY <1>4, <2>3 DEF ExecDispatch, Break, Set
    <3>2. Alone(s) /\ todo'[s] = {}
      BY <1>a, <3>1 DEF Alone
    <3> QED BY <2>1, <3>1, <3>2 DEF Inside, LaunchChecked, Before
  <2> QED BY <2>2, <2>3
\* On to the next step of the dispatch, with the same run.
<1>5. ASSUME pc[s] \in Dispatching, UNCHANGED <<job, gen>>,
             UNCHANGED todo \/ todo' = [todo EXCEPT ![s] = {}],
             NEW label \in Dispatching, pc' = [pc EXCEPT ![s] = label],
             label \in Before => pc[s] \in Before,
             label = "launch" => pc[s] = "checkD" /\ lease.holder = s
      PROVE  Alone(s) /\ Inside(s) /\ LaunchChecked
  <2>1. Alone(s) /\ pc'[s] = label /\ todo'[s] \subseteq todo[s]
    BY <1>a, <1>5 DEF Alone
  <2> QED BY <1>5, <2>1 DEF Alone, Inside, LaunchChecked
\* Back to the loop.
<1>6. ASSUME pc[s] \in Dispatching, Continue(s), UNCHANGED todo
      PROVE  Alone(s) /\ Inside(s) /\ LaunchChecked
  <2>1. Alone(s) /\ pc'[s] = "exec"
    BY <1>a, <1>6 DEF Alone, Continue, Goto, Set
  <2> QED BY <1>6, <2>1 DEF Alone, Inside, LaunchChecked, Before
<1> SUFFICES Alone(s) /\ Inside(s) /\ LaunchChecked
  BY <1>2
<1> USE DEF Dispatching, Marked, Before, Goto
<1>7. CASE Mark(s)
  BY <1>5, <1>6, <1>7 DEF Mark
<1>8. CASE CheckB(s)
  BY <1>5, <1>8 DEF CheckB, Break, Set
<1>9. CASE ReserveRun(s)
  BY <1>5, <1>9 DEF ReserveRun
<1>10. CASE CheckD(s)
  BY <1>5, <1>10 DEF CheckD, Break, Set, CheckLease
<1>11. CASE Launch(s)
  BY <1>5, <1>6, <1>11 DEF Launch
<1>12. CASE Undo(s)
  BY <1>5, <1>12 DEF Undo
<1>13. CASE RequeueDispatch(s)
  BY <1>6, <1>13 DEF RequeueDispatch
<1> QED BY <1>3, <1>4, <1>7, <1>8, <1>9, <1>10, <1>11, <1>12, <1>13

LEMMA TickSlots ==
    ASSUME TypeOK, NEW s \in Schedulers, SchedulerStep(s)
    PROVE  LaunchChecked /\ CommitFit
<1>1. ASSUME Alone(s), LeaseStays, Outside(s)
      PROVE  LaunchChecked /\ CommitFit
  <2>1. LaunchChecked
    BY <1>1 DEF Alone, Outside, LaunchChecked, Dispatching, Marked
  <2> QED BY <1>1, <2>1, CommitsStay DEF CommitFit
<1>2. CASE Acquire(s) \/ Plan(s)
  BY <1>2, AcquireCommits, PlanCommits
<1>3. CASE \/ Mark(s) \/ CheckB(s) \/ ReserveRun(s) \/ CheckD(s) \/ Launch(s) \/ Undo(s)
           \/ RequeueDispatch(s)
           \/ \E j \in Jobs : ExecWait(s, j) \/ \E r \in Runs : ExecDispatch(s, j, r)
  BY <1>3, InsideCommits, CommitsStay DEF CommitFit
<1> QED BY <1>1, <1>2, <1>3, OutsideCommits DEF SchedulerStep, TickStep

LEMMA OthersSlots ==
    ASSUME TypeOK, OthersStep, UNCHANGED localVars
    PROVE  LaunchChecked /\ CommitFit
<1>1. UNCHANGED lease \/ lease' = [lease EXCEPT !.live = FALSE]
  BY DEF OthersStep, Expire, RunStep, CancelStep, Start, Finish, Orphan, TailCrash, PreemptRun,
         PreemptRelease, Recover, PreemptBegin, PreemptLimit, PreemptPark, PreemptFailJob,
         CancelQueued, CancelRun, CancelJob, CancelRelease, CancelRead
<1>2. lease'.holder = lease.holder
  BY <1>1 DEF TypeOK, OwnerTypeOK
<1>3. UNCHANGED <<pc, job, gen, todo>>
  BY DEF localVars
<1>4. LaunchChecked
  <2>1. ASSUME NEW s \in Schedulers, pc'[s] = "launch"
        PROVE  job'[s] = job[s] /\ gen'[s] = gen[s] /\ pc[s] = "launch"
    BY <1>3, <2>1
  <2> QED BY <2>1 DEF LaunchChecked
<1>5. Committed' = Committed
  BY <1>2, <1>3 DEF Committed, Commits
<1> QED BY <1>4, <1>5 DEF CommitFit

LEMMA SlotsPreserved == IInv /\ IInv' /\ DecisionsFit /\ SlotInv /\ [Next]_vars => SlotInv'
<1> SUFFICES ASSUME IInv, IInv', DecisionsFit, SlotInv, [Next]_vars PROVE SlotInv'
  OBVIOUS
<1>1. RowStep /\ RunsWrite
  BY StepImplements, RunWrites
<1>2. TypeOK
  BY DEF IInv, TypeInv
<1>3. CASE UNCHANGED vars
  <2>1. Slots' = Slots
    BY <1>3 DEF vars, ownerVars, localVars, Slots, Launched, Launching, Committed, Commits, Running
  <2> QED BY <2>1 DEF SlotInv
<1>4. ASSUME NEW s \in Schedulers, SchedulerStep(s)
      PROVE  SlotInv'
  BY <1>1, <1>2, <1>4, TickSlots, SlotsAfter
<1>5. CASE OthersStep /\ UNCHANGED localVars
  BY <1>1, <1>2, <1>5, OthersSlots, SlotsAfter
<1> QED BY <1>3, <1>4, <1>5 DEF Next, SchedulerStep

\* Never more launched jobs than slots, although the lease is only read before
\* the writes it protects: for any number of schedulers, whatever fails,
\* expires or crashes.
THEOREM CeilingHolds == Spec => []LaunchCeiling
<1>1. Init => SlotInv
  <2> SUFFICES ASSUME Init PROVE SlotInv
    OBVIOUS
  <2>1. /\ \A j \in Jobs : rows[j].state = "QUEUED"
        /\ \A s \in Schedulers : pc[s] = "idle"
    BY DEF Init, OwnerInit, QueuedJob, NoRow
  <2>2. Slots = {}
    BY <2>1 DEF Slots, Launched, Launching, Committed, Commits, Running, Dispatching, Marked, Before
  <2> QED BY <2>2, FS_EmptySet, LimitAssumption DEF SlotInv
<1>2. SlotInv => LaunchCeiling
  <2> SUFFICES ASSUME SlotInv PROVE LaunchCeiling
    OBVIOUS
  <2>1. Launched \in SUBSET Slots
    BY DEF Slots
  <2>2. Cardinality(Launched) <= Cardinality(Slots)
    BY <2>1, SlotsFinite, FS_Subset
  <2>3. Cardinality(Launched) \in Nat /\ Cardinality(Slots) \in Nat
    BY <2>1, SlotsFinite, FS_Subset, FS_CardinalityType
  <2> QED BY <2>2, <2>3, LimitAssumption DEF SlotInv, LaunchCeiling, Launched
<1> QED BY <1>1, <1>2, InitCounts, RunWrites, SlotsPreserved, Invariance, PTL DEF Spec
=================================================================================
