------------------------------- MODULE JobStore -------------------------------
(***************************************************************************)
(* jobs/store.py and submit_job under concurrent callers.  Each function is *)
(* one BEGIN IMMEDIATE transaction, except those that read the row first    *)
(* and compare-and-set later: the read and the write are separate steps and *)
(* any other caller may come between them.                                  *)
(***************************************************************************)
EXTENDS JobRows, Sequences, FiniteSets

CONSTANTS Jobs,       \* job identifiers, one drawn per insert
          Clients,    \* concurrent callers: schedulers, the CLI, MCP servers
          Keys,       \* (caller_id, idempotency_key) pairs
          NoKey,      \* a submission without an idempotency key
          Digests,    \* request digests
          NoJob,
          MaxEvents   \* bound: events per job

ASSUME StoreAssumption ==
    /\ NoJob \notin Jobs
    /\ NoKey \notin Keys
    /\ MaxEvents \in Nat

VARIABLES rows,      \* table jobs
          request,   \* the key and digest columns of table jobs
          events,    \* table job_events, by seq
          call,      \* call[c]: what caller c has read and is about to write
          answers    \* history: SubmitResults returned, <<key, digest, job>>

vars == <<rows, request, events, call, answers>>

Present(j) == rows[j].state # "ABSENT"

NoSeen == [state |-> "ABSENT", run |-> NoRun, preemptions |-> 0]
Idle == [op |-> "idle", job |-> NoJob, seen |-> NoSeen, key |-> NoKey, digest |-> NoKey]
Requests == [key : Keys \union {NoKey}, digest : Digests \union {NoKey}]
NoRequest == [key |-> NoKey, digest |-> NoKey]

Event == [ kind : {"submitted", "dispatched", "waiting", "requeued", "cancelled", "reconciled"},
           from : JobState \union {"ABSENT"},
           to   : JobState,
           run  : RunOrNone ]

Calls == [ op     : {"idle", "insert", "relookup", "set_waiting", "cancel",
                     "reconcile", "park"},
           job    : Jobs \union {NoJob},
           seen   : [state : JobState \union {"ABSENT"}, run : RunOrNone, preemptions : Nat],
           key    : Keys \union {NoKey},
           digest : Digests \union {NoKey} ]

\* Types of the two tables of jobs/store.py and of what its callers remember between a
\* read and a write.
TypeOK ==
    /\ rows \in [Jobs -> JobRow]
    /\ request \in [Jobs -> Requests]
    /\ events \in [Jobs -> Seq(Event)]
    /\ call \in [Clients -> Calls]
    /\ answers \in SUBSET ((Keys \union {NoKey}) \X Digests \X Jobs)

Init ==
    /\ rows = [j \in Jobs |-> NoRow]
    /\ request = [j \in Jobs |-> NoRequest]
    /\ events = [j \in Jobs |-> <<>>]
    /\ call = [c \in Clients |-> Idle]
    /\ answers = {}

-----------------------------------------------------------------------------
(* A write and its event commit together (_append_event).  The event's     *)
(* from_state is the state the caller expected, not one it re-read.        *)

Write(j, from, row, kind, run) ==
    /\ Len(events[j]) < MaxEvents
    /\ rows' = [rows EXCEPT ![j] = row]
    /\ events' = [events EXCEPT ![j] =
                    Append(@, [kind |-> kind, from |-> from, to |-> row.state, run |-> run])]

Done(c) == call' = [call EXCEPT ![c] = Idle]

\* A lost compare-and-set: JobConflictError or JobTransitionError, no write.
Conflict(c) == Done(c) /\ UNCHANGED <<rows, request, events, answers>>

-----------------------------------------------------------------------------
(* submit_job: look the key up, insert, and look it up again on conflict.  *)

Lookup(k) == {j \in Jobs : Present(j) /\ k # NoKey /\ request[j].key = k}

\* An existing job answers the call when its digest agrees; otherwise the
\* caller gets IdempotencyConflictError and no answer.
Answer(k, d, found) ==
    answers' = answers \union {<<k, d, j>> : j \in {i \in found : request[i].digest = d}}

BeginSubmit(c, k, d) ==
    /\ call[c].op = "idle"
    /\ IF Lookup(k) # {}
       THEN Answer(k, d, Lookup(k)) /\ UNCHANGED call
       ELSE /\ call' = [call EXCEPT ![c] = [Idle EXCEPT !.op = "insert", !.key = k,
                                                        !.digest = d]]
            /\ UNCHANGED answers
    /\ UNCHANGED <<rows, request, events>>

\* Mutant: no UNIQUE (caller_id, idempotency_key) on table jobs.
InsertNotUnique(c, j, row) ==
    /\ call[c].op = "insert"
    /\ ~Present(j)
    /\ Write(j, "ABSENT", row, "submitted", NoRun)
    /\ request' = [request EXCEPT ![j] = [key |-> call[c].key, digest |-> call[c].digest]]
    /\ answers' = answers \union {<<call[c].key, call[c].digest, j>>}
    /\ Done(c)

\* insert_job; UNIQUE (caller_id, idempotency_key) turns a duplicate into a
\* JobConflictError.
Insert(c, j, row) ==
    /\ call[c].op = "insert"
    /\ Lookup(call[c].key) = {}
    /\ ~Present(j)
    /\ Write(j, "ABSENT", row, "submitted", NoRun)
    /\ request' = [request EXCEPT ![j] = [key |-> call[c].key, digest |-> call[c].digest]]
    /\ answers' = answers \union {<<call[c].key, call[c].digest, j>>}
    /\ Done(c)

InsertConflict(c) ==
    /\ call[c].op = "insert"
    /\ Lookup(call[c].key) # {}
    /\ call' = [call EXCEPT ![c].op = "relookup"]
    /\ UNCHANGED <<rows, request, events, answers>>

Relookup(c) ==
    /\ call[c].op = "relookup"
    /\ Answer(call[c].key, call[c].digest, Lookup(call[c].key))
    /\ Done(c)
    /\ UNCHANGED <<rows, request, events>>

-----------------------------------------------------------------------------
(* Single-transaction transitions.                                         *)

FreshRun(r) == \A j \in Jobs : r \notin rows[j].run_ids

\* Mutant: mark_dispatched refuses finished jobs only, so it dispatches twice.
DispatchUnlessTerminal(j, r) ==
    /\ Present(j) /\ rows[j].state \notin TERMINAL_JOB_STATES
    /\ FreshRun(r)
    /\ Write(j, "QUEUED", MarkDispatched(rows[j], r), "dispatched", r)
    /\ UNCHANGED <<request, call, answers>>

\* mark_dispatched, with the uuid run id its caller draws.
Dispatch(j, r) ==
    /\ rows[j].state = "QUEUED"
    /\ FreshRun(r)
    /\ Write(j, "QUEUED", MarkDispatched(rows[j], r), "dispatched", r)
    /\ UNCHANGED <<request, call, answers>>

\* requeue, as the scheduler's compensation calls it: fenced on state alone.
RequeueRunning(j) ==
    /\ rows[j].state = "RUNNING"
    /\ Write(j, "RUNNING", Requeue(rows[j], "NO_CAPACITY", NoRun), "requeued", NoRun)
    /\ UNCHANGED <<request, call, answers>>

-----------------------------------------------------------------------------
(* Read first, compare-and-set later.                                      *)

Allowed == [ set_waiting |-> {"QUEUED"}, cancel |-> {"QUEUED", "RUNNING"},
             reconcile |-> {"RUNNING"}, park |-> {"RUNNING"} ]

\* get_job and _require_state; for "park" the read of complete_preemption.
BeginRead(c, op, j) ==
    /\ call[c].op = "idle"
    /\ rows[j].state \in Allowed[op]
    /\ call' = [call EXCEPT ![c] =
                 [Idle EXCEPT !.op = op, !.job = j,
                              !.seen = [state |-> rows[j].state, run |-> rows[j].run,
                                        preemptions |-> rows[j].preemptions]]]
    /\ UNCHANGED <<rows, request, events, answers>>

\* Mutant: _cas without "AND state = ?".
CasUnfenced(c, op, expected, row, kind) ==
    /\ call[c].op = op
    /\ Write(call[c].job, expected, row, kind, NoRun)
    /\ Done(c)
    /\ UNCHANGED <<request, answers>>

\* _cas: UPDATE ... WHERE job_id = ? AND state = expected.
Cas(c, op, expected, row, kind) ==
    /\ call[c].op = op
    /\ IF rows[call[c].job].state = expected
       THEN /\ Write(call[c].job, expected, row, kind, NoRun)
            /\ Done(c)
            /\ UNCHANGED <<request, answers>>
       ELSE Conflict(c)

CasWaiting(c, reason) ==
    Cas(c, "set_waiting", "QUEUED", SetWaiting(rows[call[c].job], reason), "waiting")

CasCancel(c) ==
    Cas(c, "cancel", call[c].seen.state, CancelTransition(rows[call[c].job]), "cancelled")

CasReconcile(c, to, reason) ==
    Cas(c, "reconcile", "RUNNING", ReconcileTransition(rows[call[c].job], to, reason),
        "reconciled")

\* requeue_exact, called with the run and count the caller read.
ParkExact(c) ==
    LET j == call[c].job
        seen == call[c].seen
    IN /\ call[c].op = "park"
       /\ IF rows[j].state = "RUNNING" /\ ExactGeneration(rows[j], seen.run, seen.preemptions)
          THEN /\ Write(j, "RUNNING", Requeue(rows[j], "PREEMPTED", seen.run), "requeued",
                      seen.run)
               /\ Done(c)
               /\ UNCHANGED <<request, answers>>
          ELSE Conflict(c)

Next ==
    \/ \E c \in Clients : \/ \E k \in Keys \union {NoKey}, d \in Digests : BeginSubmit(c, k, d)
                          \/ \E j \in Jobs : \E row \in {QueuedJob, InfeasibleJob} :
                                Insert(c, j, row)
                          \/ InsertConflict(c)
                          \/ Relookup(c)
                          \/ \E op \in DOMAIN Allowed, j \in Jobs : BeginRead(c, op, j)
                          \/ \E reason \in WaitingReason : CasWaiting(c, reason)
                          \/ CasCancel(c)
                          \/ CasReconcile(c, "SUCCEEDED", "NONE")
                          \/ \E reason \in FAILURE_REASONS \ {"NO_ROUTE_FOR_REQUIREMENTS"} :
                                CasReconcile(c, "FAILED", reason)
                          \/ ParkExact(c)
    \/ \E j \in Jobs : \/ \E r \in Runs : Dispatch(j, r)
                       \/ RequeueRunning(j)

Spec == Init /\ [][Next]_vars

-----------------------------------------------------------------------------
(* Properties.                                                             *)

\* list_jobs_raw builds a Job from every row it reads, so one row that
\* Job.__post_init__ rejects aborts every listing and every scheduler tick.
\* No interleaving of readers and compare-and-sets writes such a row.
EveryRowMaterialises == \A j \in Jobs : Present(j) => Materialises(rows[j])

\* The state the first i events of j lead to.
Reached(j, i) == IF i = 0 THEN "ABSENT" ELSE events[j][i].to

\* The audit trail replays to the row: each event starts in the state the one
\* before it ended in, the first in no state, and the last ends where the row
\* is, although _cas records the state its caller expected.
EventsReplayState ==
    \A j \in Jobs :
        /\ \A i \in 1..Len(events[j]) : events[j][i].from = Reached(j, i - 1)
        /\ rows[j].state = Reached(j, Len(events[j]))

\* One key names one job: however submissions race, all successful answers
\* under a key carry the same digest and the same job, and that job is the one
\* the digest created.
IdempotentAnswers ==
    \A a, b \in answers :
        /\ request[a[3]] = [key |-> a[1], digest |-> a[2]]
        /\ (a[1] = b[1] /\ a[1] # NoKey) => a = b

\* The events of j that park a preempted run, and the dispatches.
Parks(j) == {i \in DOMAIN events[j] : events[j][i].kind = "requeued" /\ events[j][i].run # NoRun}
Dispatches(j) == {i \in DOMAIN events[j] : events[j][i].kind = "dispatched"}

\* A preemption is counted once per run and against the run it stopped, even
\* when recovery replays a parking it read long ago: every parking names the
\* run of the latest dispatch before it, and preemptions counts them.
ParksFollowTheirDispatch ==
    \A j \in Jobs :
        /\ rows[j].preemptions = Cardinality(Parks(j))
        /\ \A i \in Parks(j) :
              \E k \in Dispatches(j) :
                 /\ k < i
                 /\ events[j][k].run = events[j][i].run
                 /\ \A m \in (k + 1)..(i - 1) :
                       m \notin Dispatches(j) /\ events[j][m].kind # "requeued"

\* The job's whole life implements the lifecycle promised to callers.
Lifecycle == INSTANCE JobLifecycle WITH
    phase   <- [j \in Jobs |-> rows[j].state],
    runner  <- [j \in Jobs |-> rows[j].run],
    lineage <- [j \in Jobs |-> rows[j].run_ids]

ImplementsLifecycle == Lifecycle!Spec
=============================================================================
