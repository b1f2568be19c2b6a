---------------------------- MODULE JobStore_proofs ----------------------------
(***************************************************************************)
(* What holds of the job store for every number of jobs, callers, runs,    *)
(* keys and events.                                                        *)
(***************************************************************************)
EXTENDS JobStore, JobRows_proofs, FiniteSetTheorems

\* What a caller carries between its read and its write.
CallsKnowTheirJob ==
    \A c \in Clients :
        /\ call[c].op \in DOMAIN Allowed =>
              call[c].job \in Jobs /\ call[c].seen.state \in Allowed[call[c].op]
        /\ call[c].op = "insert" => call[c].digest \in Digests
        /\ call[c].op = "relookup" => call[c].digest \in Digests

\* A job without a row has an empty one.
AbsentRowsAreEmpty == \A j \in Jobs : ~Present(j) => rows[j] = NoRow

RowsInv == EveryRowMaterialises /\ EventsReplayState /\ AbsentRowsAreEmpty

IInv == TypeOK /\ CallsKnowTheirJob /\ RowsInv

-----------------------------------------------------------------------------
(* One write.                                                              *)

\* A write that starts where the row is, appends an event and stores a
\* well-formed row keeps every row well formed and every trail replayable.
LEMMA WriteKeepsRows ==
    ASSUME TypeOK, RowsInv,
           NEW j \in Jobs, NEW from, from = rows[j].state,
           NEW row \in JobRow, row.state # "ABSENT", Materialises(row),
           NEW kind \in {"submitted", "dispatched", "waiting", "requeued",
                         "cancelled", "reconciled"},
           NEW run \in RunOrNone,
           Write(j, from, row, kind, run)
    PROVE  /\ rows' \in [Jobs -> JobRow]
           /\ events' \in [Jobs -> Seq(Event)]
           /\ RowsInv'
<1> USE DEF RowsInv
<1> DEFINE e == [kind |-> kind, from |-> from, to |-> row.state, run |-> run]
<1>1. /\ rows' = [rows EXCEPT ![j] = row]
      /\ events' = [events EXCEPT ![j] = Append(@, e)]
  BY DEF Write
<1>2. e \in Event
  BY DEF Event, JobRow, TypeOK
<1>3. rows' \in [Jobs -> JobRow] /\ events' \in [Jobs -> Seq(Event)]
  BY <1>1, <1>2 DEF TypeOK
<1>4. EveryRowMaterialises'
  BY <1>1 DEF TypeOK, EveryRowMaterialises, Present
<1>5. ASSUME NEW i \in Jobs
      PROVE  (/\ \A k \in 1..Len(events[i]) : events[i][k].from = Reached(i, k - 1)
              /\ rows[i].state = Reached(i, Len(events[i])))'
  <2>0. PICK n \in Nat : n = Len(events[j])
    BY DEF TypeOK
  <2>1. CASE i # j
    <3>1. events'[i] = events[i] /\ rows'[i] = rows[i]
      BY <1>1, <2>1 DEF TypeOK
    <3> QED BY <3>1 DEF EventsReplayState, Reached
  <2>2. CASE i = j
    <3>1. /\ events'[j] = Append(events[j], e)
          /\ Len(events'[j]) = n + 1
          /\ \A k \in 1..n : events'[j][k] = events[j][k]
          /\ events'[j][n + 1] = e
          /\ rows'[j] = row
      BY <1>1, <1>2, <2>0 DEF TypeOK
    <3>0. /\ e.to = row.state
          /\ e.from = rows[j].state
          /\ rows[j].state = Reached(j, n)
      BY <2>0 DEF EventsReplayState
    <3> HIDE DEF e
    <3>2. \A k \in 0..n : Reached(j, k)' = Reached(j, k)
      BY <3>1 DEF Reached
    <3>3. Reached(j, n + 1)' = row.state
      BY <3>0, <3>1 DEF Reached
    <3>4. \A k \in 1..n : events'[j][k].from = Reached(j, k - 1)'
      BY <2>0, <3>1, <3>2 DEF EventsReplayState
    <3>5. events'[j][n + 1].from = Reached(j, n)'
      BY <3>0, <3>1, <3>2
    <3>6. \A k \in 1..(n + 1) : k \in 1..n \/ k = n + 1
      BY <3>1
    <3> QED BY <2>0, <2>2, <3>1, <3>3, <3>4, <3>5, <3>6
  <2> QED BY <2>1, <2>2
<1>6. EventsReplayState'
  BY <1>5 DEF EventsReplayState
<1>7. AbsentRowsAreEmpty'
  BY <1>1 DEF TypeOK, AbsentRowsAreEmpty, Present
<1> QED BY <1>3, <1>4, <1>6, <1>7

\* Nothing written.
LEMMA NoWrite ==
    ASSUME RowsInv, UNCHANGED <<rows, events>>
    PROVE  RowsInv'
BY DEF RowsInv, EveryRowMaterialises, EventsReplayState, AbsentRowsAreEmpty, Reached, Present

-----------------------------------------------------------------------------
(* The inductive invariant.                                                *)

LEMMA InitInvariant == Init => IInv
<1> SUFFICES ASSUME Init PROVE IInv
  OBVIOUS
<1>1. NoRow \in JobRow
  BY DEF NoRow, JobRow, RunOrNone
<1>2. TypeOK
  BY <1>1 DEF Init, TypeOK, NoRequest, Requests, Idle, Calls, NoSeen, RunOrNone, JobState
<1>3. CallsKnowTheirJob
  BY DEF Init, CallsKnowTheirJob, Idle, Allowed
<1>4. EveryRowMaterialises
  BY DEF Init, EveryRowMaterialises, Present, NoRow
<1>5. EventsReplayState
  BY DEF Init, EventsReplayState, Reached, NoRow
<1>6. AbsentRowsAreEmpty
  BY DEF Init, AbsentRowsAreEmpty
<1> QED BY <1>2, <1>3, <1>4, <1>5, <1>6 DEF IInv, RowsInv

LEMMA StepInvariant == IInv /\ [Next]_vars => IInv'
<1> SUFFICES ASSUME IInv, [Next]_vars PROVE IInv'
  OBVIOUS
<1> USE DEF IInv, RowsInv
<1>a. Idle \in Calls /\ Idle.op = "idle"
  BY DEF Idle, Calls, NoSeen, RunOrNone
<1>b. QueuedJob \in JobRow /\ Materialises(QueuedJob) /\ QueuedJob.state # "ABSENT"
  BY SubmittedRows
<1>c. /\ InfeasibleJob \in JobRow /\ Materialises(InfeasibleJob)
      /\ InfeasibleJob.state # "ABSENT"
  BY SubmittedRows
<1>d. ASSUME NEW c \in Clients, Done(c)
      PROVE  call' \in [Clients -> Calls] /\ CallsKnowTheirJob'
  BY <1>a, <1>d DEF Done, TypeOK, CallsKnowTheirJob, Allowed, Idle
<1>e. ASSUME NEW k \in Keys \union {NoKey}, NEW d \in Digests, Answer(k, d, Lookup(k))
      PROVE  answers' \in SUBSET ((Keys \union {NoKey}) \X Digests \X Jobs)
  BY <1>e DEF Answer, Lookup, TypeOK
<1>1. ASSUME NEW c \in Clients, NEW k \in Keys \union {NoKey}, NEW d \in Digests,
             BeginSubmit(c, k, d)
      PROVE  IInv'
  <2>1. RowsInv'
    BY <1>1, NoWrite DEF BeginSubmit
  <2>2. [Idle EXCEPT !.op = "insert", !.key = k, !.digest = d] \in Calls
    BY <1>a DEF Calls
  <2>3. TypeOK'
    BY <1>1, <1>e, <2>2 DEF BeginSubmit, TypeOK
  <2>4. CallsKnowTheirJob'
    <3> DEFINE new == [Idle EXCEPT !.op = "insert", !.key = k, !.digest = d]
    <3>1. new.op = "insert" /\ new.digest = d
      BY DEF Idle
    <3>2. \A b \in Clients : call'[b] = call[b] \/ call'[b] = new
      BY <1>1 DEF BeginSubmit, TypeOK
    <3> HIDE DEF new
    <3> QED BY <3>1, <3>2 DEF CallsKnowTheirJob, Allowed
  <2> QED BY <2>1, <2>3, <2>4
<1>2. ASSUME NEW c \in Clients, NEW j \in Jobs, NEW row \in {QueuedJob, InfeasibleJob},
             Insert(c, j, row)
      PROVE  IInv'
  <2>1. /\ rows[j].state = "ABSENT"
        /\ Write(j, "ABSENT", row, "submitted", NoRun)
    BY <1>2 DEF Insert, Present
  <2>2. /\ rows' \in [Jobs -> JobRow] /\ events' \in [Jobs -> Seq(Event)]
        /\ RowsInv'
    BY <1>b, <1>c, <2>1, WriteKeepsRows DEF RunOrNone
  <2>3. call[c].op = "insert" /\ call[c] \in Calls /\ call[c].digest \in Digests
    BY <1>2 DEF Insert, CallsKnowTheirJob, TypeOK
  <2>4. call[c].key \in Keys \union {NoKey}
    BY <2>3 DEF Calls
  <2>5. request' \in [Jobs -> Requests]
    BY <1>2, <2>3, <2>4 DEF Insert, TypeOK, Requests
  <2>6. answers' \in SUBSET ((Keys \union {NoKey}) \X Digests \X Jobs)
    BY <1>2, <2>3, <2>4 DEF Insert, TypeOK
  <2> QED BY <1>2, <1>d, <2>2, <2>5, <2>6 DEF Insert, TypeOK
<1>3. ASSUME NEW c \in Clients, InsertConflict(c)
      PROVE  IInv'
  <2>1. RowsInv'
    BY <1>3, NoWrite DEF InsertConflict
  <2>2. TypeOK'
    <3>1. call[c] \in Calls
      BY DEF TypeOK
    <3>2. [call[c] EXCEPT !.op = "relookup"] \in Calls
      BY <3>1 DEF Calls
    <3> HIDE DEF Calls
    <3> QED BY <1>3, <3>2 DEF InsertConflict, TypeOK
  <2>3. CallsKnowTheirJob'
    BY <1>3 DEF InsertConflict, CallsKnowTheirJob, TypeOK, Calls, Allowed
  <2> QED BY <2>1, <2>2, <2>3
<1>4. ASSUME NEW c \in Clients, Relookup(c)
      PROVE  IInv'
  <2>1. RowsInv'
    BY <1>4, NoWrite DEF Relookup
  <2>2. /\ call[c].digest \in Digests
        /\ call[c].key \in Keys \union {NoKey}
    BY <1>4 DEF Relookup, CallsKnowTheirJob, TypeOK, Calls
  <2>3. answers' \in SUBSET ((Keys \union {NoKey}) \X Digests \X Jobs)
    BY <1>4, <1>e, <2>2 DEF Relookup
  <2> QED BY <1>4, <1>d, <2>1, <2>3 DEF Relookup, TypeOK
<1>5. ASSUME NEW c \in Clients, NEW op \in DOMAIN Allowed, NEW j \in Jobs,
             BeginRead(c, op, j)
      PROVE  IInv'
  <2>1. RowsInv'
    BY <1>5, NoWrite DEF BeginRead
  <2> DEFINE seen == [state |-> rows[j].state, run |-> rows[j].run,
                      preemptions |-> rows[j].preemptions]
  <2>2. [Idle EXCEPT !.op = op, !.job = j, !.seen = seen] \in Calls
    BY <1>a DEF Calls, Allowed, TypeOK, JobRow
  <2>3. call' = [call EXCEPT ![c] = [Idle EXCEPT !.op = op, !.job = j, !.seen = seen]]
    BY <1>5 DEF BeginRead
  <2>4. TypeOK'
    BY <1>5, <2>2, <2>3 DEF BeginRead, TypeOK
  <2>5. CallsKnowTheirJob'
    <3>1. ASSUME NEW b \in Clients, b # c PROVE call'[b] = call[b]
      BY <2>3, <3>1 DEF TypeOK
    <3>2. /\ call'[c].op = op /\ call'[c].job = j
          /\ call'[c].seen.state = rows[j].state
      BY <2>3 DEF TypeOK, Idle
    <3>3. rows[j].state \in Allowed[op] /\ op \notin {"insert", "relookup"}
      BY <1>5 DEF BeginRead, Allowed
    <3> QED BY <3>1, <3>2, <3>3 DEF CallsKnowTheirJob
  <2> QED BY <2>1, <2>4, <2>5
\* One compare-and-set, given that the row it stores can be read back.
<1>f. ASSUME NEW c \in Clients, NEW op \in DOMAIN Allowed, NEW expected, NEW row,
             NEW kind \in {"waiting", "cancelled", "reconciled"},
             Cas(c, op, expected, row, kind),
             rows[call[c].job].state = expected =>
                row \in JobRow /\ row.state # "ABSENT" /\ Materialises(row)
      PROVE  IInv'
  <2>1. call[c].job \in Jobs
    BY <1>f DEF Cas, CallsKnowTheirJob
  <2>2. CASE rows[call[c].job].state = expected
    <3>1. Write(call[c].job, expected, row, kind, NoRun)
      BY <1>f, <2>2 DEF Cas
    <3>2. /\ rows' \in [Jobs -> JobRow] /\ events' \in [Jobs -> Seq(Event)]
          /\ RowsInv'
      BY <1>f, <2>1, <2>2, <3>1, WriteKeepsRows DEF RunOrNone
    <3> QED BY <1>f, <1>d, <2>2, <3>2 DEF Cas, TypeOK
  <2>3. CASE rows[call[c].job].state # expected
    <3>1. RowsInv'
      BY <1>f, <2>3, NoWrite DEF Cas, Conflict
    <3> QED BY <1>f, <1>d, <2>3, <3>1 DEF Cas, Conflict, TypeOK
  <2> QED BY <2>2, <2>3
<1>g. ASSUME NEW c \in Clients, call[c].op \in DOMAIN Allowed
      PROVE  /\ call[c].job \in Jobs
             /\ call[c].seen.state \in Allowed[call[c].op]
             /\ rows[call[c].job] \in JobRow
             /\ rows[call[c].job].state # "ABSENT" => Materialises(rows[call[c].job])
  BY <1>g DEF CallsKnowTheirJob, TypeOK, EveryRowMaterialises, Present
<1>6. ASSUME NEW c \in Clients, NEW reason \in WaitingReason, CasWaiting(c, reason)
      PROVE  IInv'
  <2> DEFINE row == rows[call[c].job]
  <2>1. Cas(c, "set_waiting", "QUEUED", SetWaiting(row, reason), "waiting")
    BY <1>6 DEF CasWaiting
  <2>2. "set_waiting" \in DOMAIN Allowed
    BY DEF Allowed
  <2>3. row \in JobRow /\ (row.state # "ABSENT" => Materialises(row))
    BY <1>g, <2>1, <2>2 DEF Cas
  <2> HIDE DEF row
  <2>4. row.state = "QUEUED" => /\ SetWaiting(row, reason) \in JobRow
                               /\ SetWaiting(row, reason).state # "ABSENT"
                               /\ Materialises(SetWaiting(row, reason))
    BY <2>3, WaitingRow
  <2> QED BY <1>f, <2>1, <2>2, <2>4 DEF row
<1>7. ASSUME NEW c \in Clients, CasCancel(c)
      PROVE  IInv'
  <2> DEFINE row == rows[call[c].job]
             expected == call[c].seen.state
  <2>1. Cas(c, "cancel", expected, CancelTransition(row), "cancelled")
    BY <1>7 DEF CasCancel
  <2>2. "cancel" \in DOMAIN Allowed /\ Allowed["cancel"] = {"QUEUED", "RUNNING"}
    BY DEF Allowed
  <2>3. /\ row \in JobRow /\ (row.state # "ABSENT" => Materialises(row))
        /\ expected \in {"QUEUED", "RUNNING"}
    BY <1>g, <2>1, <2>2 DEF Cas
  <2> HIDE DEF row, expected
  <2>4. row.state = expected => /\ CancelTransition(row) \in JobRow
                               /\ CancelTransition(row).state # "ABSENT"
                               /\ Materialises(CancelTransition(row))
    <3>1. CancelTransition(row).state = "CANCELLED"
      BY <2>3 DEF CancelTransition, JobRow
    <3> QED BY <2>3, <3>1, CancelledRow
  <2> QED BY <1>f, <2>1, <2>2, <2>4 DEF row
<1>8. ASSUME NEW c \in Clients, NEW to \in {"SUCCEEDED", "FAILED"},
             NEW reason \in FAILURE_REASONS \union {"NONE"}, to = "FAILED" <=> reason # "NONE",
             CasReconcile(c, to, reason)
      PROVE  IInv'
  <2> DEFINE row == rows[call[c].job]
  <2>1. Cas(c, "reconcile", "RUNNING", ReconcileTransition(row, to, reason), "reconciled")
    BY <1>8 DEF CasReconcile
  <2>2. "reconcile" \in DOMAIN Allowed
    BY DEF Allowed
  <2>3. row \in JobRow /\ (row.state # "ABSENT" => Materialises(row))
    BY <1>g, <2>1, <2>2 DEF Cas
  <2> HIDE DEF row
  <2>4. row.state = "RUNNING" => /\ ReconcileTransition(row, to, reason) \in JobRow
                                /\ ReconcileTransition(row, to, reason).state # "ABSENT"
                                /\ Materialises(ReconcileTransition(row, to, reason))
    <3>1. ReconcileTransition(row, to, reason).state = to
      BY <2>3 DEF ReconcileTransition, JobRow
    <3> QED BY <1>8, <2>3, <3>1, ReconciledRow
  <2> QED BY <1>f, <2>1, <2>2, <2>4 DEF row
<1>9. ASSUME NEW c \in Clients, ParkExact(c)
      PROVE  IInv'
  <2> DEFINE j == call[c].job
             row == rows[j]
             seen == call[c].seen
  <2>1. /\ call[c].op = "park" /\ "park" \in DOMAIN Allowed
        /\ j \in Jobs /\ row \in JobRow
        /\ row.state # "ABSENT" => Materialises(row)
    BY <1>9, <1>g DEF ParkExact, Allowed
  <2>2. seen.run \in RunOrNone
    BY DEF TypeOK, Calls
  <2>3. CASE row.state = "RUNNING" /\ ExactGeneration(row, seen.run, seen.preemptions)
    <3>1. Write(j, "RUNNING", Requeue(row, "PREEMPTED", seen.run), "requeued", seen.run)
      BY <1>9, <2>3 DEF ParkExact
    <3>2. /\ Requeue(row, "PREEMPTED", seen.run) \in JobRow
          /\ Materialises(Requeue(row, "PREEMPTED", seen.run))
      BY <2>1, <2>2, <2>3, RequeuedRow DEF WaitingReason
    <3>3. Requeue(row, "PREEMPTED", seen.run).state = "QUEUED"
      BY <2>1 DEF Requeue, JobRow
    <3> HIDE DEF j, row, seen
    <3>4. /\ rows' \in [Jobs -> JobRow] /\ events' \in [Jobs -> Seq(Event)]
          /\ RowsInv'
      BY <2>1, <2>2, <2>3, <3>1, <3>2, <3>3, WriteKeepsRows DEF row
    <3> USE DEF j, row, seen
    <3> QED BY <1>9, <1>d, <2>3, <3>4 DEF ParkExact, TypeOK
  <2>4. CASE ~(row.state = "RUNNING" /\ ExactGeneration(row, seen.run, seen.preemptions))
    <3>1. Conflict(c)
      BY <1>9, <2>4 DEF ParkExact
    <3> QED BY <1>d, <3>1, NoWrite DEF Conflict, TypeOK
  <2> QED BY <2>3, <2>4
<1>10. ASSUME NEW j \in Jobs, NEW r \in Runs, Dispatch(j, r)
       PROVE  IInv'
  <2>1. /\ rows[j] \in JobRow /\ rows[j].state = "QUEUED" /\ Materialises(rows[j])
        /\ Write(j, "QUEUED", MarkDispatched(rows[j], r), "dispatched", r)
    BY <1>10 DEF Dispatch, TypeOK, EveryRowMaterialises, Present
  <2>2. /\ MarkDispatched(rows[j], r) \in JobRow /\ Materialises(MarkDispatched(rows[j], r))
        /\ MarkDispatched(rows[j], r).state = "RUNNING"
    BY <2>1, DispatchedRow DEF MarkDispatched, JobRow
  <2>3. /\ rows' \in [Jobs -> JobRow] /\ events' \in [Jobs -> Seq(Event)]
        /\ RowsInv'
    BY <2>1, <2>2, WriteKeepsRows DEF RunOrNone
  <2> QED BY <1>10, <2>3 DEF Dispatch, TypeOK, CallsKnowTheirJob
<1>11. ASSUME NEW j \in Jobs, RequeueRunning(j)
       PROVE  IInv'
  <2>1. /\ rows[j] \in JobRow /\ rows[j].state = "RUNNING" /\ Materialises(rows[j])
        /\ Write(j, "RUNNING", Requeue(rows[j], "NO_CAPACITY", NoRun), "requeued", NoRun)
    BY <1>11 DEF RequeueRunning, TypeOK, EveryRowMaterialises, Present
  <2>2. /\ Requeue(rows[j], "NO_CAPACITY", NoRun) \in JobRow
        /\ Materialises(Requeue(rows[j], "NO_CAPACITY", NoRun))
        /\ Requeue(rows[j], "NO_CAPACITY", NoRun).state = "QUEUED"
    <3>1. "NO_CAPACITY" \in WaitingReason /\ NoRun \in RunOrNone
      BY DEF WaitingReason, RunOrNone
    <3>2. Requeue(rows[j], "NO_CAPACITY", NoRun).state = "QUEUED"
      BY <2>1 DEF Requeue, JobRow
    <3> QED BY <2>1, <3>1, <3>2, RequeuedRow
  <2>3. /\ rows' \in [Jobs -> JobRow] /\ events' \in [Jobs -> Seq(Event)]
        /\ RowsInv'
    BY <2>1, <2>2, WriteKeepsRows DEF RunOrNone
  <2> QED BY <1>11, <2>3 DEF RequeueRunning, TypeOK, CallsKnowTheirJob
<1>12. CASE UNCHANGED vars
  BY <1>12, NoWrite DEF vars, TypeOK, CallsKnowTheirJob
<1>13. "NONE" \notin FAILURE_REASONS
  BY DEF FAILURE_REASONS
<1> QED
  BY <1>1, <1>2, <1>3, <1>4, <1>5, <1>6, <1>7, <1>8, <1>9, <1>10, <1>11, <1>12, <1>13 DEF Next

-----------------------------------------------------------------------------
(* The theorems.                                                           *)

LEMMA Invariance == Spec => []IInv
BY InitInvariant, StepInvariant, PTL DEF Spec

\* The store's variables keep their types, so a parked job's count never
\* becomes negative and no row refers to anything but a run.
THEOREM StoreTypes == Spec => []TypeOK
<1>1. IInv => TypeOK
  BY DEF IInv, RowsInv
<1> QED BY <1>1, Invariance, PTL

\* However many callers race their reads and compare-and-sets, every stored
\* row can be read back as a Job.
THEOREM RowsMaterialise == Spec => []EveryRowMaterialises
<1>1. IInv => EveryRowMaterialises
  BY DEF IInv, RowsInv
<1> QED BY <1>1, Invariance, PTL

\* The events of every job replay to the state of its row.
THEOREM TrailReplays == Spec => []EventsReplayState
<1>1. IInv => EventsReplayState
  BY DEF IInv, RowsInv
<1> QED BY <1>1, Invariance, PTL

-----------------------------------------------------------------------------
(* The store implements the lifecycle.                                     *)

\* The refinement mapping, by name.
LEMMA Mapping ==
    ASSUME TypeOK, NEW j \in Jobs, NEW row \in JobRow, rows' = [rows EXCEPT ![j] = row]
    PROVE  /\ [i \in Jobs |-> rows[i].state]' =
                 [[i \in Jobs |-> rows[i].state] EXCEPT ![j] = row.state]
           /\ [i \in Jobs |-> rows[i].run]' =
                 [[i \in Jobs |-> rows[i].run] EXCEPT ![j] = row.run]
           /\ [i \in Jobs |-> rows[i].run_ids]' =
                 [[i \in Jobs |-> rows[i].run_ids] EXCEPT ![j] = row.run_ids]
BY DEF TypeOK

LEMMA StepImplements == IInv /\ [Next]_vars => [Lifecycle!Next]_(Lifecycle!vars)
<1> SUFFICES ASSUME IInv, [Next]_vars PROVE [Lifecycle!Next]_(Lifecycle!vars)
  OBVIOUS
<1> DEFINE phase == [i \in Jobs |-> rows[i].state]
           runner == [i \in Jobs |-> rows[i].run]
           lineage == [i \in Jobs |-> rows[i].run_ids]
<1>a. TypeOK /\ CallsKnowTheirJob /\ AbsentRowsAreEmpty
  BY DEF IInv, RowsInv
<1>b. ASSUME UNCHANGED rows
      PROVE  UNCHANGED (Lifecycle!vars)
  BY <1>b DEF Lifecycle!vars
\* A write that keeps the run list is one of the abstract steps.
<1>c. ASSUME NEW j \in Jobs, NEW row \in JobRow, rows' = [rows EXCEPT ![j] = row],
             row.run_ids = rows[j].run_ids,
             \/ /\ rows[j].state = "ABSENT" /\ row.state \in {"QUEUED", "FAILED"}
                /\ row.run = rows[j].run
             \/ rows[j].state = "RUNNING" /\ row.state = "QUEUED" /\ row.run = NoRun
             \/ /\ rows[j].state = "RUNNING" /\ row.state \in {"SUCCEEDED", "FAILED"}
                /\ row.run = rows[j].run
             \/ /\ rows[j].state \in {"QUEUED", "RUNNING"} /\ row.state = "CANCELLED"
                /\ row.run = rows[j].run
             \/ row.state = rows[j].state /\ row.run = rows[j].run
      PROVE  [Lifecycle!Next]_(Lifecycle!vars)
  <2>1. /\ phase' = [phase EXCEPT ![j] = row.state]
        /\ runner' = [runner EXCEPT ![j] = row.run]
        /\ lineage' = [lineage EXCEPT ![j] = row.run_ids]
    BY <1>a, <1>c, Mapping
  <2>2. /\ phase[j] = rows[j].state /\ runner[j] = rows[j].run
        /\ lineage[j] = rows[j].run_ids
    OBVIOUS
  <2>3. UNCHANGED lineage
    BY <1>c, <2>1, <2>2
  <2>4. row.run = rows[j].run => UNCHANGED runner
    BY <2>1, <2>2
  <2>5. row.state = rows[j].state => UNCHANGED phase
    BY <2>1, <2>2
  <2> HIDE DEF phase, runner, lineage
  <2>6. CASE rows[j].state = "ABSENT" /\ row.state \in {"QUEUED", "FAILED"} /\ row.run = rows[j].run
    <3>1. Lifecycle!Submit(j)
      BY <2>1, <2>2, <2>3, <2>4, <2>6 DEF Lifecycle!Submit, phase, runner, lineage
    <3> QED BY <3>1 DEF Lifecycle!Next
  <2>7. CASE rows[j].state = "RUNNING" /\ row.state = "QUEUED" /\ row.run = NoRun
    <3>1. Lifecycle!Park(j)
      BY <2>1, <2>2, <2>3, <2>7 DEF Lifecycle!Park, phase, runner, lineage
    <3> QED BY <3>1 DEF Lifecycle!Next
  <2>8. CASE rows[j].state = "RUNNING" /\ row.state \in {"SUCCEEDED", "FAILED"} /\ row.run = rows[j].run
    <3>1. Lifecycle!Finish(j)
      BY <2>1, <2>2, <2>3, <2>4, <2>8 DEF Lifecycle!Finish, phase, runner, lineage
    <3> QED BY <3>1 DEF Lifecycle!Next
  <2>9. CASE rows[j].state \in {"QUEUED", "RUNNING"} /\ row.state = "CANCELLED" /\ row.run = rows[j].run
    <3>1. Lifecycle!Cancel(j)
      BY <2>1, <2>2, <2>3, <2>4, <2>9 DEF Lifecycle!Cancel, phase, runner, lineage
    <3> QED BY <3>1 DEF Lifecycle!Next
  <2>10. CASE row.state = rows[j].state /\ row.run = rows[j].run
    BY <2>3, <2>4, <2>5, <2>10 DEF Lifecycle!vars, phase, runner, lineage
  <2> QED BY <1>c, <2>6, <2>7, <2>8, <2>9, <2>10
\* A compare-and-set.
<1>d. ASSUME NEW c \in Clients, NEW op \in DOMAIN Allowed, NEW expected, NEW row, NEW kind,
             Cas(c, op, expected, row, kind)
      PROVE  /\ call[c].op = op /\ call[c].job \in Jobs /\ rows[call[c].job] \in JobRow
             /\ call[c].seen.state \in Allowed[op]
             /\ \/ /\ rows[call[c].job].state = expected
                   /\ rows' = [rows EXCEPT ![call[c].job] = row]
                \/ UNCHANGED rows
  BY <1>a, <1>d DEF Cas, CallsKnowTheirJob, TypeOK, Write, Conflict
<1>1. ASSUME NEW c \in Clients, NEW j \in Jobs, NEW row \in {QueuedJob, InfeasibleJob},
             Insert(c, j, row)
      PROVE  [Lifecycle!Next]_(Lifecycle!vars)
  <2>1. rows[j].state = "ABSENT" /\ rows' = [rows EXCEPT ![j] = row]
    BY <1>1 DEF Insert, Present, Write
  <2>2. row \in JobRow /\ row.state \in {"QUEUED", "FAILED"} /\ row.run = NoRun /\ row.run_ids = {}
    BY SubmittedRows DEF QueuedJob, InfeasibleJob, NoRow
  <2>3. rows[j].run = NoRun /\ rows[j].run_ids = {}
    BY <1>a, <2>1 DEF AbsentRowsAreEmpty, Present, NoRow
  <2> HIDE DEF phase, runner, lineage
  <2> QED BY <1>c, <2>1, <2>2, <2>3
<1>2. ASSUME NEW c \in Clients, NEW reason \in WaitingReason, CasWaiting(c, reason)
      PROVE  [Lifecycle!Next]_(Lifecycle!vars)
  <2> DEFINE j == call[c].job
             row == SetWaiting(rows[j], reason)
  <2>1. Cas(c, "set_waiting", "QUEUED", row, "waiting") /\ "set_waiting" \in DOMAIN Allowed
    BY <1>2 DEF CasWaiting, Allowed
  <2>2. /\ j \in Jobs /\ rows[j] \in JobRow
        /\ rows' = [rows EXCEPT ![j] = row] \/ UNCHANGED rows
    BY <1>d, <2>1
  <2>3. /\ row \in JobRow /\ row.state = rows[j].state /\ row.run = rows[j].run
        /\ row.run_ids = rows[j].run_ids
    BY <2>2 DEF SetWaiting, JobRow
  <2> HIDE DEF phase, runner, lineage, j, row
  <2> QED BY <1>b, <1>c, <2>2, <2>3
<1>3. ASSUME NEW c \in Clients, CasCancel(c)
      PROVE  [Lifecycle!Next]_(Lifecycle!vars)
  <2> DEFINE j == call[c].job
             row == CancelTransition(rows[j])
             expected == call[c].seen.state
  <2>1. Cas(c, "cancel", expected, row, "cancelled") /\ "cancel" \in DOMAIN Allowed
    BY <1>3 DEF CasCancel, Allowed
  <2>2. /\ j \in Jobs /\ rows[j] \in JobRow /\ expected \in Allowed["cancel"]
        /\ \/ rows[j].state = expected /\ rows' = [rows EXCEPT ![j] = row]
           \/ UNCHANGED rows
    BY <1>d, <2>1
  <2>3. /\ row \in JobRow /\ row.state = "CANCELLED" /\ row.run = rows[j].run
        /\ row.run_ids = rows[j].run_ids
    BY <2>2 DEF CancelTransition, JobRow, JobState
  <2>4. Allowed["cancel"] = {"QUEUED", "RUNNING"}
    BY DEF Allowed
  <2> HIDE DEF phase, runner, lineage, j, row, expected
  <2> QED BY <1>b, <1>c, <2>2, <2>3, <2>4
<1>4. ASSUME NEW c \in Clients, NEW to \in {"SUCCEEDED", "FAILED"},
             NEW reason \in FAILURE_REASONS \union {"NONE"}, CasReconcile(c, to, reason)
      PROVE  [Lifecycle!Next]_(Lifecycle!vars)
  <2> DEFINE j == call[c].job
             row == ReconcileTransition(rows[j], to, reason)
  <2>1. /\ Cas(c, "reconcile", "RUNNING", row, "reconciled")
        /\ "reconcile" \in DOMAIN Allowed
    BY <1>4 DEF CasReconcile, Allowed
  <2>2. /\ j \in Jobs /\ rows[j] \in JobRow
        /\ \/ rows[j].state = "RUNNING" /\ rows' = [rows EXCEPT ![j] = row]
           \/ UNCHANGED rows
    BY <1>d, <2>1
  <2>3. /\ row \in JobRow /\ row.state = to /\ row.run = rows[j].run
        /\ row.run_ids = rows[j].run_ids
    BY <2>2 DEF ReconcileTransition, JobRow, JobState
  <2> HIDE DEF phase, runner, lineage, j, row
  <2> QED BY <1>b, <1>c, <2>2, <2>3
\* Both kinds of requeue.
<1>e. ASSUME NEW j \in Jobs, NEW reason \in WaitingReason, NEW resume \in RunOrNone,
             rows[j].state = "RUNNING", rows' = [rows EXCEPT ![j] = Requeue(rows[j], reason, resume)]
      PROVE  [Lifecycle!Next]_(Lifecycle!vars)
  <2> DEFINE row == Requeue(rows[j], reason, resume)
  <2>1. rows[j] \in JobRow /\ Materialises(rows[j])
    BY <1>a, <1>e DEF IInv, RowsInv, EveryRowMaterialises, Present, TypeOK
  <2>2. row \in JobRow
    BY <1>e, <2>1, RequeuedRow
  <2>3. row.state = "QUEUED" /\ row.run = NoRun /\ row.run_ids = rows[j].run_ids
    BY <2>1 DEF Requeue, JobRow
  <2> HIDE DEF phase, runner, lineage, row
  <2> QED BY <1>c, <1>e, <2>2, <2>3 DEF row
<1>5. ASSUME NEW c \in Clients, ParkExact(c)
      PROVE  [Lifecycle!Next]_(Lifecycle!vars)
  <2> DEFINE j == call[c].job
             resume == call[c].seen.run
  <2>1. j \in Jobs /\ resume \in RunOrNone
    BY <1>a, <1>5 DEF ParkExact, CallsKnowTheirJob, TypeOK, Calls, Allowed
  <2>2. \/ /\ rows[j].state = "RUNNING"
           /\ rows' = [rows EXCEPT ![j] = Requeue(rows[j], "PREEMPTED", resume)]
        \/ UNCHANGED rows
    BY <1>5 DEF ParkExact, Write, Conflict
  <2>3. "PREEMPTED" \in WaitingReason
    BY DEF WaitingReason
  <2> HIDE DEF phase, runner, lineage, j, resume
  <2> QED BY <1>b, <1>e, <2>1, <2>2, <2>3
<1>6. ASSUME NEW j \in Jobs, RequeueRunning(j)
      PROVE  [Lifecycle!Next]_(Lifecycle!vars)
  <2>1. /\ rows[j].state = "RUNNING"
        /\ rows' = [rows EXCEPT ![j] = Requeue(rows[j], "NO_CAPACITY", NoRun)]
    BY <1>6 DEF RequeueRunning, Write
  <2>2. "NO_CAPACITY" \in WaitingReason /\ NoRun \in RunOrNone
    BY DEF WaitingReason, RunOrNone
  <2> HIDE DEF phase, runner, lineage
  <2> QED BY <1>e, <2>1, <2>2
<1>7. ASSUME NEW j \in Jobs, NEW r \in Runs, Dispatch(j, r)
      PROVE  [Lifecycle!Next]_(Lifecycle!vars)
  <2> DEFINE row == MarkDispatched(rows[j], r)
  <2>1. rows[j].state = "QUEUED" /\ FreshRun(r) /\ rows' = [rows EXCEPT ![j] = row]
    BY <1>7 DEF Dispatch, Write
  <2>2. /\ row \in JobRow /\ row.state = "RUNNING" /\ row.run = r
        /\ row.run_ids = rows[j].run_ids \union {r}
    BY <1>a DEF TypeOK, MarkDispatched, JobRow, JobState, RunOrNone
  <2>3. /\ phase' = [phase EXCEPT ![j] = "RUNNING"]
        /\ runner' = [runner EXCEPT ![j] = r]
        /\ lineage' = [lineage EXCEPT ![j] = rows[j].run_ids \union {r}]
    <3> HIDE DEF row
    <3>1. /\ phase' = [phase EXCEPT ![j] = row.state]
          /\ runner' = [runner EXCEPT ![j] = row.run]
          /\ lineage' = [lineage EXCEPT ![j] = row.run_ids]
      BY <1>a, <2>1, <2>2, Mapping
    <3> HIDE DEF phase, runner, lineage
    <3> QED BY <2>2, <3>1
  <2>4. /\ phase[j] = "QUEUED" /\ lineage[j] = rows[j].run_ids
        /\ \A i \in Jobs : r \notin lineage[i]
    BY <2>1 DEF FreshRun
  <2>5. Lifecycle!Dispatch(j, r)
    BY <2>3, <2>4 DEF Lifecycle!Dispatch
  <2> QED BY <2>5 DEF Lifecycle!Next
\* The other steps write no row.
<1>8. ASSUME NEW c \in Clients,
             \/ \E k \in Keys \union {NoKey}, d \in Digests : BeginSubmit(c, k, d)
             \/ InsertConflict(c)
             \/ Relookup(c)
             \/ \E op \in DOMAIN Allowed, j \in Jobs : BeginRead(c, op, j)
      PROVE  [Lifecycle!Next]_(Lifecycle!vars)
  <2>1. UNCHANGED rows
    BY <1>8 DEF BeginSubmit, InsertConflict, Relookup, BeginRead
  <2> QED BY <1>b, <2>1
<1>9. CASE UNCHANGED vars
  BY <1>b, <1>9 DEF vars
<1> HIDE DEF phase, runner, lineage
<1> QED
  BY <1>1, <1>2, <1>3, <1>4, <1>5, <1>6, <1>7, <1>8, <1>9 DEF Next

\* Whatever callers race, each job moves only along the promised lifecycle:
\* a fresh run per dispatch, parked only while RUNNING, final states final.
THEOREM StoreImplementsLifecycle == Spec => ImplementsLifecycle
<1>1. Init => Lifecycle!Init
  <2> SUFFICES ASSUME Init PROVE Lifecycle!Init
    OBVIOUS
  <2> QED BY DEF Init, Lifecycle!Init, NoRow
<1>2. IInv /\ [Next]_vars => [Lifecycle!Next]_(Lifecycle!vars)
  BY StepImplements
<1> QED BY <1>1, <1>2, Invariance, PTL DEF Spec, ImplementsLifecycle, Lifecycle!Spec

-----------------------------------------------------------------------------
(* What one step writes.                                                   *)

\* The row and the event of a write to job j: a dispatch, the parking of a
\* preempted run, a requeue that parks nothing, or a step that leaves the job
\* neither running nor preempted once more.
Written(j, row, kind, run) ==
    /\ row.state \notin {"ABSENT"}
    /\ \/ /\ kind = "dispatched" /\ run \in Runs
          /\ row.state = "RUNNING" /\ row.run = run
          /\ row.preemptions = rows[j].preemptions
       \/ /\ kind = "requeued" /\ run \in Runs
          /\ rows[j].state = "RUNNING" /\ run = rows[j].run /\ row.state = "QUEUED"
          /\ row.preemptions = rows[j].preemptions + 1
       \/ /\ kind \notin {"dispatched"} /\ run = NoRun
          /\ row.state # "RUNNING"
          /\ row.preemptions = rows[j].preemptions

LEMMA WhatIsWritten ==
    ASSUME IInv, [Next]_vars
    PROVE  \/ UNCHANGED <<rows, events>>
           \/ \E j \in Jobs :
                 \E from, row, kind, run :
                    Write(j, from, row, kind, run) /\ Written(j, row, kind, run)
<1> DEFINE Goal == \/ UNCHANGED <<rows, events>>
                   \/ \E j \in Jobs :
                         \E from, row, kind, run :
                            Write(j, from, row, kind, run) /\ Written(j, row, kind, run)
<1> SUFFICES Goal
  OBVIOUS
<1>0. TypeOK /\ CallsKnowTheirJob /\ RowsInv
  BY DEF IInv
<1>a. ASSUME NEW j \in Jobs, NEW from, NEW row, NEW kind, NEW run,
             Write(j, from, row, kind, run), Written(j, row, kind, run)
      PROVE  Goal
  BY <1>a
<1>b. ASSUME UNCHANGED <<rows, events>> PROVE Goal
  BY <1>b
<1> HIDE DEF Goal
<1>1. ASSUME NEW c \in Clients, NEW j \in Jobs, NEW row \in {QueuedJob, InfeasibleJob},
             Insert(c, j, row)
      PROVE  Goal
  <2>1. ~Present(j) /\ Write(j, "ABSENT", row, "submitted", NoRun)
    BY <1>1 DEF Insert
  <2>2. rows[j].preemptions = 0
    BY <1>0, <2>1 DEF RowsInv, AbsentRowsAreEmpty, NoRow
  <2>3. row.state \in {"QUEUED", "FAILED"} /\ row.preemptions = 0
    BY DEF QueuedJob, InfeasibleJob, NoRow
  <2>4. Written(j, row, "submitted", NoRun)
    BY <2>2, <2>3 DEF Written
  <2> QED BY <1>a, <2>1, <2>4
<1>2. ASSUME NEW c \in Clients,
             \/ \E k \in Keys \union {NoKey}, d \in Digests : BeginSubmit(c, k, d)
             \/ InsertConflict(c)
             \/ Relookup(c)
             \/ \E op \in DOMAIN Allowed, j \in Jobs : BeginRead(c, op, j)
      PROVE  Goal
  BY <1>b, <1>2 DEF BeginSubmit, InsertConflict, Relookup, BeginRead
\* A compare-and-set whose row keeps the count and is not RUNNING.
<1>3. ASSUME NEW c \in Clients, NEW op \in DOMAIN Allowed, NEW expected, NEW row, NEW kind,
             kind # "dispatched", Cas(c, op, expected, row, kind),
             row.state \in JobState \ {"RUNNING"},
             row.preemptions = rows[call[c].job].preemptions
      PROVE  Goal
  <2>1. call[c].job \in Jobs
    BY <1>0, <1>3 DEF Cas, CallsKnowTheirJob
  <2>2. Written(call[c].job, row, kind, NoRun)
    BY <1>3 DEF Written, JobState
  <2>3. \/ Write(call[c].job, expected, row, kind, NoRun)
        \/ UNCHANGED <<rows, events>>
    BY <1>3 DEF Cas, Conflict
  <2> QED BY <1>a, <1>b, <2>1, <2>2, <2>3
<1>c. ASSUME NEW c \in Clients, NEW op \in DOMAIN Allowed, call[c].op = op
      PROVE  call[c].job \in Jobs /\ rows[call[c].job] \in JobRow
  BY <1>0, <1>c DEF CallsKnowTheirJob, TypeOK
<1>4. ASSUME NEW c \in Clients, NEW reason \in WaitingReason, CasWaiting(c, reason)
      PROVE  Goal
  <2> DEFINE row == SetWaiting(rows[call[c].job], reason)
  <2>1. Cas(c, "set_waiting", "QUEUED", row, "waiting") /\ "set_waiting" \in DOMAIN Allowed
    BY <1>4 DEF CasWaiting, Allowed
  <2>2. call[c].job \in Jobs /\ rows[call[c].job] \in JobRow
    BY <1>c, <2>1 DEF Cas
  <2>3. row.preemptions = rows[call[c].job].preemptions /\ row.state = rows[call[c].job].state
    BY <2>2 DEF SetWaiting, JobRow
  <2> HIDE DEF row
  <2>4. CASE rows[call[c].job].state = "QUEUED"
    BY <1>3, <2>1, <2>3, <2>4 DEF JobState
  <2>5. CASE rows[call[c].job].state # "QUEUED"
    BY <1>b, <2>1, <2>5 DEF Cas, Conflict
  <2> QED BY <2>4, <2>5
<1>5. ASSUME NEW c \in Clients, CasCancel(c)
      PROVE  Goal
  <2> DEFINE row == CancelTransition(rows[call[c].job])
  <2>1. /\ Cas(c, "cancel", call[c].seen.state, row, "cancelled")
        /\ "cancel" \in DOMAIN Allowed
    BY <1>5 DEF CasCancel, Allowed
  <2>2. call[c].job \in Jobs /\ rows[call[c].job] \in JobRow
    BY <1>c, <2>1 DEF Cas
  <2>3. row.preemptions = rows[call[c].job].preemptions /\ row.state = "CANCELLED"
    BY <2>2 DEF CancelTransition, JobRow
  <2> HIDE DEF row
  <2> QED BY <1>3, <2>1, <2>3 DEF JobState
<1>6. ASSUME NEW c \in Clients, NEW to \in {"SUCCEEDED", "FAILED"}, NEW reason,
             CasReconcile(c, to, reason)
      PROVE  Goal
  <2> DEFINE row == ReconcileTransition(rows[call[c].job], to, reason)
  <2>1. Cas(c, "reconcile", "RUNNING", row, "reconciled") /\ "reconcile" \in DOMAIN Allowed
    BY <1>6 DEF CasReconcile, Allowed
  <2>2. call[c].job \in Jobs /\ rows[call[c].job] \in JobRow
    BY <1>c, <2>1 DEF Cas
  <2>3. row.preemptions = rows[call[c].job].preemptions /\ row.state = to
    BY <2>2 DEF ReconcileTransition, JobRow
  <2> HIDE DEF row
  <2> QED BY <1>3, <2>1, <2>3 DEF JobState
\* The exact generation the caller read is the run that is parked.
<1>7. ASSUME NEW c \in Clients, ParkExact(c)
      PROVE  Goal
  <2> DEFINE j == call[c].job
             run == call[c].seen.run
             row == Requeue(rows[j], "PREEMPTED", run)
  <2>1. j \in Jobs /\ rows[j] \in JobRow
    BY <1>7, <1>c DEF ParkExact, Allowed
  <2>2. \/ UNCHANGED <<rows, events>>
        \/ /\ rows[j].state = "RUNNING" /\ rows[j].run = run
           /\ Write(j, "RUNNING", row, "requeued", run)
    BY <1>7 DEF ParkExact, Conflict, ExactGeneration
  <2>3. row.state = "QUEUED" /\ row.preemptions = rows[j].preemptions + 1
    BY <2>1 DEF Requeue, JobRow
  <2>4. rows[j].state = "RUNNING" => rows[j].run \in Runs
    BY <1>0, <2>1 DEF RowsInv, EveryRowMaterialises, Materialises, Present, JobRow, RunOrNone
  <2> HIDE DEF j, run, row
  <2>5. CASE /\ rows[j].state = "RUNNING" /\ rows[j].run = run
             /\ Write(j, "RUNNING", row, "requeued", run)
    <3>1. Written(j, row, "requeued", run)
      BY <2>3, <2>4, <2>5 DEF Written
    <3> QED BY <1>a, <2>1, <2>5, <3>1
  <2> QED BY <1>b, <2>2, <2>5
<1>8. ASSUME NEW j \in Jobs, RequeueRunning(j)
      PROVE  Goal
  <2> DEFINE row == Requeue(rows[j], "NO_CAPACITY", NoRun)
  <2>1. Write(j, "RUNNING", row, "requeued", NoRun) /\ rows[j] \in JobRow
    BY <1>0, <1>8 DEF RequeueRunning, TypeOK
  <2>2. row.state = "QUEUED" /\ row.preemptions = rows[j].preemptions
    BY <2>1 DEF Requeue, JobRow
  <2> HIDE DEF row
  <2>3. Written(j, row, "requeued", NoRun)
    BY <2>2 DEF Written
  <2> QED BY <1>a, <2>1, <2>3
<1>9. ASSUME NEW j \in Jobs, NEW r \in Runs, Dispatch(j, r)
      PROVE  Goal
  <2> DEFINE row == MarkDispatched(rows[j], r)
  <2>1. Write(j, "QUEUED", row, "dispatched", r) /\ rows[j] \in JobRow
    BY <1>0, <1>9 DEF Dispatch, TypeOK
  <2>2. row.state = "RUNNING" /\ row.run = r /\ row.preemptions = rows[j].preemptions
    BY <2>1 DEF MarkDispatched, JobRow
  <2> HIDE DEF row
  <2>3. Written(j, row, "dispatched", r)
    BY <2>2 DEF Written
  <2> QED BY <1>a, <2>1, <2>3
<1>10. CASE UNCHANGED vars
  BY <1>b, <1>10 DEF vars
<1>11. ASSUME NEW c \in Clients,
              \/ CasReconcile(c, "SUCCEEDED", "NONE")
              \/ \E reason \in FAILURE_REASONS \ {"NO_ROUTE_FOR_REQUIREMENTS"} :
                    CasReconcile(c, "FAILED", reason)
       PROVE  Goal
  BY <1>6, <1>11
<1>12. CASE Next
  BY <1>1, <1>2, <1>4, <1>5, <1>7, <1>8, <1>9, <1>11, <1>12 DEF Next
<1> QED BY <1>10, <1>12

-----------------------------------------------------------------------------
(* Idempotency.                                                            *)

\* No write takes a job's row away.
LEMMA JobsStay == ASSUME IInv, [Next]_vars, NEW j \in Jobs, Present(j) PROVE Present(j)'
<1>1. CASE UNCHANGED <<rows, events>>
  BY <1>1 DEF Present
<1>2. ASSUME NEW i \in Jobs, NEW from, NEW row, NEW kind, NEW run,
             Write(i, from, row, kind, run), Written(i, row, kind, run)
      PROVE  Present(j)'
  <2>1. rows' = [rows EXCEPT ![i] = row] /\ row.state # "ABSENT"
    BY <1>2 DEF Write, Written
  <2> QED BY <2>1 DEF Present, IInv, TypeOK
<1> QED BY <1>1, <1>2, WhatIsWritten

\* What an answer says is in the table for good, and a key is in it once.
AnswersStand ==
    \A a \in answers : Present(a[3]) /\ request[a[3]] = [key |-> a[1], digest |-> a[2]]
KeysAreUnique ==
    \A i, j \in Jobs :
        Present(i) /\ Present(j) /\ request[i].key = request[j].key /\ request[i].key # NoKey
            => i = j

KeysInv == AnswersStand /\ KeysAreUnique

LEMMA AnswerStands ==
    ASSUME TypeOK, KeysInv, NEW k, NEW d, Answer(k, d, Lookup(k)), UNCHANGED <<rows, request>>
    PROVE  KeysInv'
<1>1. ASSUME NEW a \in answers'
      PROVE  Present(a[3]) /\ request[a[3]] = [key |-> a[1], digest |-> a[2]]
  <2>1. CASE a \in answers
    BY <2>1 DEF KeysInv, AnswersStand
  <2>2. CASE a \notin answers
    <3>1. PICK j \in Lookup(k) : request[j].digest = d /\ a = <<k, d, j>>
      BY <2>2 DEF Answer
    <3>2. j \in Jobs /\ Present(j) /\ request[j].key = k /\ request[j] \in Requests
      BY DEF Lookup, TypeOK
    <3>3. request[j] = [key |-> k, digest |-> d]
      BY <3>1, <3>2 DEF Requests
    <3> QED BY <3>1, <3>2, <3>3
  <2> QED BY <2>1, <2>2
<1>2. KeysAreUnique'
  BY DEF KeysInv, KeysAreUnique, Present
<1> QED BY <1>1, <1>2 DEF KeysInv, AnswersStand, Present

LEMMA KeysKept == IInv /\ KeysInv /\ [Next]_vars => KeysInv'
<1> SUFFICES ASSUME IInv, KeysInv, [Next]_vars PROVE KeysInv'
  OBVIOUS
<1>0. TypeOK /\ \A j \in Jobs : Present(j) => Present(j)'
  BY JobsStay DEF IInv
\* Most steps leave the keys and the answers alone, and make no job.
<1>1. ASSUME UNCHANGED <<request, answers>>, \A j \in Jobs : Present(j)' => Present(j)
      PROVE  KeysInv'
  <2>1. \A a \in answers : a[3] \in Jobs
    BY <1>0 DEF TypeOK
  <2> QED BY <1>0, <1>1, <2>1 DEF KeysInv, AnswersStand, KeysAreUnique
<1>2. ASSUME NEW j \in Jobs, NEW from, NEW row, NEW kind, NEW run, Write(j, from, row, kind, run),
             Present(j), UNCHANGED <<request, answers>>
      PROVE  KeysInv'
  <2>1. \A i \in Jobs : Present(i)' => Present(i)
    BY <1>0, <1>2 DEF Write, Present, TypeOK
  <2> QED BY <1>1, <1>2, <2>1
<1>3. ASSUME UNCHANGED <<rows, request, answers>>
      PROVE  KeysInv'
  BY <1>1, <1>3 DEF Present
<1>4. ASSUME NEW c \in Clients, NEW k \in Keys \union {NoKey}, NEW d \in Digests,
             BeginSubmit(c, k, d)
      PROVE  KeysInv'
  BY <1>0, <1>3, <1>4, AnswerStands DEF BeginSubmit
<1>5. ASSUME NEW c \in Clients, NEW j \in Jobs, NEW row \in {QueuedJob, InfeasibleJob},
             Insert(c, j, row)
      PROVE  KeysInv'
  <2> DEFINE key == call[c].key
             digest == call[c].digest
  <2>1. /\ Lookup(key) = {} /\ ~Present(j)
        /\ rows' = [rows EXCEPT ![j] = row]
        /\ request' = [request EXCEPT ![j] = [key |-> key, digest |-> digest]]
        /\ answers' = answers \union {<<key, digest, j>>}
    BY <1>5 DEF Insert, Write
  <2> HIDE DEF key, digest
  <2>2. row.state # "ABSENT"
    BY SubmittedRows
  <2>3. /\ Present(j)' /\ request'[j] = [key |-> key, digest |-> digest]
        /\ \A i \in Jobs \ {j} : (Present(i)' <=> Present(i)) /\ request'[i] = request[i]
    BY <1>0, <2>1, <2>2 DEF Present, TypeOK
  <2>4. \A i \in Jobs : Present(i) /\ key # NoKey => request[i].key # key
    BY <2>1 DEF Lookup
  <2>5. KeysAreUnique'
    <3> SUFFICES ASSUME NEW h \in Jobs, NEW i \in Jobs, Present(h)', Present(i)',
                        request'[h].key = request'[i].key, request'[h].key # NoKey
                 PROVE  h = i
      BY DEF KeysAreUnique
    <3>1. CASE h # j /\ i # j
      BY <2>3, <3>1 DEF KeysInv, KeysAreUnique
    <3>2. request'[j].key = key
      BY <2>3
    <3>3. CASE h = j \/ i = j
      BY <2>3, <2>4, <3>2, <3>3
    <3> QED BY <3>1, <3>3
  <2>6. AnswersStand'
    <3> SUFFICES ASSUME NEW a \in answers'
                 PROVE  Present(a[3])' /\ request'[a[3]] = [key |-> a[1], digest |-> a[2]]
      BY DEF AnswersStand
    <3>1. CASE a \in answers
      <4>1. a[3] \in Jobs /\ Present(a[3]) /\ request[a[3]] = [key |-> a[1], digest |-> a[2]]
        BY <1>0, <3>1 DEF KeysInv, AnswersStand, TypeOK
      <4> QED BY <2>1, <2>3, <4>1
    <3>2. CASE a = <<key, digest, j>>
      BY <2>3, <3>2
    <3> QED BY <2>1, <3>1, <3>2
  <2> QED BY <2>5, <2>6 DEF KeysInv
<1>6. ASSUME NEW c \in Clients, Relookup(c)
      PROVE  KeysInv'
  BY <1>0, <1>6, AnswerStands DEF Relookup
<1>7. ASSUME NEW c \in Clients,
             \/ InsertConflict(c)
             \/ \E op \in DOMAIN Allowed, j \in Jobs : BeginRead(c, op, j)
      PROVE  KeysInv'
  BY <1>3, <1>7 DEF InsertConflict, BeginRead
<1>8. ASSUME NEW c \in Clients, NEW op \in DOMAIN Allowed, NEW expected, expected # "ABSENT",
             NEW row, NEW kind, Cas(c, op, expected, row, kind)
      PROVE  KeysInv'
  <2>1. call[c].job \in Jobs
    BY <1>8 DEF Cas, IInv, CallsKnowTheirJob
  <2> QED BY <1>2, <1>3, <1>8, <2>1 DEF Cas, Conflict, Present
<1>9. ASSUME NEW c \in Clients, NEW reason, CasWaiting(c, reason)
      PROVE  KeysInv'
  BY <1>8, <1>9 DEF CasWaiting, Allowed
<1>10. ASSUME NEW c \in Clients, CasCancel(c)
       PROVE  KeysInv'
  <2>1. call[c].op = "cancel" /\ "cancel" \in DOMAIN Allowed /\ "ABSENT" \notin Allowed["cancel"]
    BY <1>10 DEF CasCancel, Cas, Allowed
  <2>2. call[c].seen.state # "ABSENT"
    BY <2>1 DEF IInv, CallsKnowTheirJob
  <2> QED BY <1>8, <1>10, <2>1, <2>2 DEF CasCancel
<1>11. ASSUME NEW c \in Clients, NEW to, NEW reason, CasReconcile(c, to, reason)
       PROVE  KeysInv'
  BY <1>8, <1>11 DEF CasReconcile, Allowed
<1>12. ASSUME NEW c \in Clients, ParkExact(c)
       PROVE  KeysInv'
  <2>1. call[c].job \in Jobs
    BY <1>12 DEF ParkExact, IInv, CallsKnowTheirJob, Allowed
  <2> QED BY <1>2, <1>3, <1>12, <2>1 DEF ParkExact, Conflict, Present
<1>13. ASSUME NEW j \in Jobs, NEW r \in Runs, Dispatch(j, r)
       PROVE  KeysInv'
  BY <1>2, <1>13 DEF Dispatch, Present
<1>14. ASSUME NEW j \in Jobs, RequeueRunning(j)
       PROVE  KeysInv'
  BY <1>2, <1>14 DEF RequeueRunning, Present
<1>15. CASE UNCHANGED vars
  BY <1>3, <1>15 DEF vars
<1> QED
  BY <1>4, <1>5, <1>6, <1>7, <1>9, <1>10, <1>11, <1>12, <1>13, <1>14, <1>15 DEF Next

\* However submissions race, and for any number of them: all answers under a key
\* name one digest and one job, the one that was created from it.
THEOREM KeysNameOneJob == Spec => []IdempotentAnswers
<1>1. Init => KeysInv
  BY DEF Init, KeysInv, AnswersStand, KeysAreUnique, Present, NoRow
<1>2. IInv /\ KeysInv => IdempotentAnswers
  <2> SUFFICES ASSUME IInv, KeysInv, NEW a \in answers, NEW b \in answers
               PROVE  /\ request[a[3]] = [key |-> a[1], digest |-> a[2]]
                      /\ (a[1] = b[1] /\ a[1] # NoKey) => a = b
    BY DEF IdempotentAnswers
  <2>1. /\ request[a[3]] = [key |-> a[1], digest |-> a[2]] /\ Present(a[3])
        /\ request[b[3]] = [key |-> b[1], digest |-> b[2]] /\ Present(b[3])
    BY DEF KeysInv, AnswersStand
  <2>2. /\ a = <<a[1], a[2], a[3]>> /\ b = <<b[1], b[2], b[3]>>
        /\ a[3] \in Jobs /\ b[3] \in Jobs
    BY DEF IInv, TypeOK
  <2>3. ASSUME a[1] = b[1], a[1] # NoKey PROVE a = b
    <3>1. request[a[3]].key = a[1] /\ request[b[3]].key = b[1]
      BY <2>1
    <3>2. a[3] = b[3]
      BY <2>1, <2>2, <2>3, <3>1 DEF KeysInv, KeysAreUnique
    <3>3. request[a[3]].digest = a[2] /\ request[b[3]].digest = b[2]
      BY <2>1
    <3>4. a[2] = b[2]
      BY <3>2, <3>3
    <3> QED BY <2>2, <2>3, <3>2, <3>4
  <2> QED BY <2>1, <2>3
<1> QED BY <1>1, <1>2, KeysKept, Invariance, PTL DEF Spec
-----------------------------------------------------------------------------
(* Preemptions.                                                            *)

\* Before event n of j, the latest dispatch or requeue is a dispatch of run r.
DispatchedLast(j, n, r) ==
    \E k \in Dispatches(j) :
        /\ k < n
        /\ events[j][k].run = r
        /\ \A m \in (k + 1)..(n - 1) : m \notin Dispatches(j) /\ events[j][m].kind # "requeued"

\* The count is kept, and so is what the next parking of a running job will rest on.
ParksFit(j) ==
    /\ IsFiniteSet(Parks(j))
    /\ rows[j].preemptions = Cardinality(Parks(j))
    /\ \A i \in Parks(j) : DispatchedLast(j, i, events[j][i].run)
    /\ rows[j].state = "RUNNING" => DispatchedLast(j, Len(events[j]) + 1, rows[j].run)

ParksInv == \A j \in Jobs : ParksFit(j)

\* What is before an appended event stays as it was.
LEMMA TrailGrows ==
    ASSUME TypeOK, IInv', NEW j \in Jobs, NEW from, NEW row, NEW kind, NEW run,
           Write(j, from, row, kind, run)
    PROVE  /\ rows'[j] = row
           /\ Len(events[j]) \in Nat
           /\ DOMAIN events[j] = 1..Len(events[j])
           /\ Len(events'[j]) = Len(events[j]) + 1
           /\ DOMAIN events'[j] = 1..(Len(events[j]) + 1)
           /\ \A k \in 1..Len(events[j]) : events'[j][k] = events[j][k]
           /\ events'[j][Len(events[j]) + 1].kind = kind
           /\ events'[j][Len(events[j]) + 1].run = run
<1> DEFINE e == [kind |-> kind, from |-> from, to |-> row.state, run |-> run]
<1>1. /\ rows' = [rows EXCEPT ![j] = row]
      /\ events' = [events EXCEPT ![j] = Append(@, e)]
  BY DEF Write
<1>2. e.kind = kind /\ e.run = run
  OBVIOUS
<1> HIDE DEF e
<1>3. events[j] \in Seq(Event) /\ rows'[j] = row /\ events'[j] = Append(events[j], e)
  BY <1>1 DEF TypeOK
<1>4. events'[j] \in Seq(Event)
  BY DEF IInv, TypeOK
<1>5. PICK n \in Nat : n = Len(events[j])
  BY <1>3
<1>6. DOMAIN events[j] = 1..n
  BY <1>3, <1>5
<1>7. /\ Len(events'[j]) = n + 1
      /\ \A k \in 1..n : events'[j][k] = events[j][k]
      /\ events'[j][n + 1] = e
  BY <1>3, <1>5
<1>8. DOMAIN events'[j] = 1..(n + 1)
  BY <1>4, <1>7
<1> QED BY <1>2, <1>3, <1>5, <1>6, <1>7, <1>8

\* Appending changes nothing about the events before it.
LEMMA LastStays ==
    ASSUME TypeOK, IInv', NEW j \in Jobs, NEW from, NEW row, NEW kind, NEW run,
           Write(j, from, row, kind, run),
           NEW n \in Nat, n = Len(events[j]), NEW i \in 1..(n + 1), NEW r,
           DispatchedLast(j, i, r)
    PROVE  DispatchedLast(j, i, r)'
<1>1. /\ DOMAIN events[j] = 1..n /\ DOMAIN events'[j] = 1..(n + 1)
      /\ \A k \in 1..n : events'[j][k] = events[j][k]
  BY TrailGrows
<1>2. PICK k \in Dispatches(j) :
            /\ k < i
            /\ events[j][k].run = r
            /\ \A m \in (k + 1)..(i - 1) : m \notin Dispatches(j) /\ events[j][m].kind # "requeued"
  BY DEF DispatchedLast
<1>3. k \in 1..n /\ events[j][k].kind = "dispatched"
  BY <1>1, <1>2 DEF Dispatches
<1>4. k \in Dispatches(j)' /\ events'[j][k].run = r
  BY <1>1, <1>2, <1>3 DEF Dispatches
<1>5. ASSUME NEW m \in (k + 1)..(i - 1)
      PROVE  m \notin Dispatches(j)' /\ events'[j][m].kind # "requeued"
  <2>1. m \in 1..n
    BY <1>3, <1>5
  <2>2. events'[j][m] = events[j][m] /\ m \in DOMAIN events[j]
    BY <1>1, <2>1
  <2>3. events[j][m].kind # "dispatched" /\ events[j][m].kind # "requeued"
    BY <1>2, <2>2 DEF Dispatches
  <2> QED BY <2>2, <2>3 DEF Dispatches
<1> QED BY <1>2, <1>4, <1>5 DEF DispatchedLast

\* Every kind of write keeps the count, and parks only behind a dispatch.
LEMMA WriteKeepsParks ==
    ASSUME TypeOK, IInv', NEW j \in Jobs, ParksFit(j),
           NEW from, NEW row, NEW kind, NEW run,
           Write(j, from, row, kind, run), Written(j, row, kind, run)
    PROVE  ParksFit(j)'
<1>1. PICK n \in Nat : n = Len(events[j])
  BY DEF TypeOK
<1>2. /\ DOMAIN events[j] = 1..n
      /\ Len(events'[j]) = n + 1
      /\ DOMAIN events'[j] = 1..(n + 1)
      /\ \A k \in 1..n : events'[j][k] = events[j][k]
      /\ events'[j][n + 1].kind = kind /\ events'[j][n + 1].run = run
      /\ rows'[j] = row
  BY <1>1, TrailGrows
<1>3. Parks(j) \subseteq 1..n
  BY <1>2 DEF Parks
<1>4. \A k \in 1..n : k \in Parks(j)' <=> k \in Parks(j)
  BY <1>2 DEF Parks
<1>5. n + 1 \in Parks(j)' <=> kind = "requeued" /\ run # NoRun
  BY <1>2 DEF Parks
<1>6. Parks(j)' \subseteq 1..(n + 1)
  BY <1>2 DEF Parks
<1>7. \A k \in 1..(n + 1) : k \in 1..n \/ k = n + 1
  OBVIOUS
<1>8. ASSUME NEW i \in Parks(j)', i \in 1..n
      PROVE  DispatchedLast(j, i, events[j][i].run)'
  <2>1. i \in Parks(j) /\ events'[j][i].run = events[j][i].run
    BY <1>2, <1>4, <1>8
  <2>2. PICK r : r = events[j][i].run
    OBVIOUS
  <2>3. DispatchedLast(j, i, r)
    BY <2>1, <2>2 DEF ParksFit
  <2>4. i \in 1..(n + 1)
    BY <1>8
  <2>5. DispatchedLast(j, i, r)'
    BY <1>1, <2>3, <2>4, LastStays
  <2> QED BY <2>1, <2>2, <2>5
\* A dispatch.
<1>a. CASE kind = "dispatched" /\ row.run = run /\ row.preemptions = rows[j].preemptions
  <2>1. Parks(j)' = Parks(j)
    BY <1>a, <1>3, <1>4, <1>5, <1>6, <1>7
  <2>2. DispatchedLast(j, n + 2, run)'
    <3>1. n + 1 \in Dispatches(j)'
      BY <1>a, <1>2 DEF Dispatches
    <3>2. \A m \in (n + 1 + 1)..(n + 2 - 1) : FALSE
      OBVIOUS
    <3> QED BY <1>2, <3>1, <3>2 DEF DispatchedLast
  <2>3. \A i \in Parks(j)' : i \in 1..n
    BY <1>3, <2>1
  <2>4. Len(events'[j]) + 1 = n + 2 /\ rows'[j].run = run
    BY <1>a, <1>2
  <2>5. rows'[j].preemptions = Cardinality(Parks(j)') /\ IsFiniteSet(Parks(j)')
    BY <1>a, <1>2, <2>1 DEF ParksFit
  <2> QED BY <1>8, <2>2, <2>3, <2>4, <2>5 DEF ParksFit
\* A preempted run is parked.
<1>b. CASE /\ kind = "requeued" /\ run \in Runs /\ rows[j].state = "RUNNING"
           /\ run = rows[j].run /\ row.state = "QUEUED"
           /\ row.preemptions = rows[j].preemptions + 1
  <2>1. Parks(j)' = Parks(j) \union {n + 1}
    BY <1>b, <1>3, <1>4, <1>5, <1>6, <1>7, NoRunAssumption
  <2>2. n + 1 \notin Parks(j)
    BY <1>3
  <2>3. IsFiniteSet(Parks(j)') /\ Cardinality(Parks(j)') = Cardinality(Parks(j)) + 1
    BY <2>1, <2>2, FS_AddElement DEF ParksFit
  <2>4. DispatchedLast(j, n + 1, run)
    BY <1>b, <1>1 DEF ParksFit
  <2>5. DispatchedLast(j, n + 1, run)'
    BY <1>1, <2>4, LastStays
  <2>6. DispatchedLast(j, n + 1, events[j][n + 1].run)'
    BY <1>2, <2>5
  <2>7. rows'[j].preemptions = Cardinality(Parks(j)') /\ rows'[j].state # "RUNNING"
    BY <1>b, <1>2, <2>3 DEF ParksFit
  <2>8. \A i \in Parks(j)' : i \in 1..n \/ i = n + 1
    BY <1>6, <1>7
  <2> QED BY <1>8, <2>3, <2>6, <2>7, <2>8 DEF ParksFit
\* Anything else.
<1>c. CASE run = NoRun /\ row.state # "RUNNING" /\ row.preemptions = rows[j].preemptions
  <2>1. Parks(j)' = Parks(j)
    BY <1>c, <1>3, <1>4, <1>5, <1>6, <1>7
  <2>2. \A i \in Parks(j)' : i \in 1..n
    BY <1>3, <2>1
  <2>3. /\ rows'[j].preemptions = Cardinality(Parks(j)') /\ IsFiniteSet(Parks(j)')
        /\ rows'[j].state # "RUNNING"
    BY <1>c, <1>2, <2>1 DEF ParksFit
  <2> QED BY <1>8, <2>2, <2>3 DEF ParksFit
<1> QED BY <1>a, <1>b, <1>c DEF Written

LEMMA ParksKept == IInv /\ ParksInv /\ [Next]_vars /\ IInv' => ParksInv'
<1> SUFFICES ASSUME IInv, ParksInv, [Next]_vars, IInv', NEW j \in Jobs
             PROVE  ParksFit(j)'
  BY DEF ParksInv
<1>0. TypeOK /\ ParksFit(j)
  BY DEF IInv, ParksInv
<1>1. ASSUME rows'[j] = rows[j], events'[j] = events[j]
      PROVE  ParksFit(j)'
  BY <1>0, <1>1 DEF ParksFit, Parks, DispatchedLast, Dispatches
<1>2. CASE UNCHANGED <<rows, events>>
  BY <1>1, <1>2
<1>3. ASSUME NEW i \in Jobs, NEW from, NEW row, NEW kind, NEW run,
             Write(i, from, row, kind, run), Written(i, row, kind, run)
      PROVE  ParksFit(j)'
  <2>1. CASE i = j
    BY <1>0, <1>3, <2>1, WriteKeepsParks
  <2>2. CASE i # j
    <3>1. rows'[j] = rows[j] /\ events'[j] = events[j]
      BY <1>0, <1>3, <2>2 DEF Write, TypeOK
    <3> QED BY <1>1, <3>1
  <2> QED BY <2>1, <2>2
<1> QED BY <1>2, <1>3, WhatIsWritten

\* For every number of preemptions, callers and replays: the preemption count is the
\* number of parkings in the audit trail, and each names the run dispatched last.
THEOREM PreemptionsAreExact == Spec => []ParksFollowTheirDispatch
<1>1. Init => ParksInv
  <2> SUFFICES ASSUME Init, NEW j \in Jobs PROVE ParksFit(j)
    BY DEF ParksInv
  <2>1. Parks(j) = {}
    BY DEF Init, Parks
  <2>2. rows[j].preemptions = 0 /\ rows[j].state # "RUNNING"
    BY DEF Init, NoRow
  <2> QED BY <2>1, <2>2, FS_EmptySet DEF ParksFit
<1>2. ParksInv => ParksFollowTheirDispatch
  <2> SUFFICES ASSUME ParksInv, NEW j \in Jobs
               PROVE  /\ rows[j].preemptions = Cardinality(Parks(j))
                      /\ \A i \in Parks(j) : DispatchedLast(j, i, events[j][i].run)
    BY DEF ParksFollowTheirDispatch, DispatchedLast
  <2> QED BY DEF ParksInv, ParksFit
<1>3. IInv /\ ParksInv /\ [Next]_vars /\ IInv' => ParksInv'
  BY ParksKept
<1> QED BY <1>1, <1>2, <1>3, Invariance, PTL DEF Spec
=============================================================================
