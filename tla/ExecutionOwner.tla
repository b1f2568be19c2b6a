---------------------------- MODULE ExecutionOwner ----------------------------
(***************************************************************************)
(* Who executes one run.  Supervisor processes (RunSupervisor,             *)
(* supervisor.py) launch, reconcile, recover and cancel it; the detached   *)
(* children they spawn (cli.py, orchestrator.py) execute it and start its  *)
(* worker process.  They meet in three rows of the project database        *)
(* (db.py): runs, execution_owners and supervision.                        *)
(*                                                                         *)
(* Every generation of execution_owners gets an owner id of its own, so    *)
(* the generation stands for the whole fencing token.  A process is its    *)
(* identity (pid and start ticks): probe_liveness answers DEAD exactly     *)
(* when it is not alive; where it may answer UNKNOWN the caller gives up.  *)
(***************************************************************************)
EXTENDS Integers, FiniteSets

CONSTANTS Processes,   \* supervisor processes: servers, schedulers, shells
          Threads,     \* their threads, each doing one operation at a time
          ProcessOf,   \* the process of a thread
          Children,    \* processes that may be spawned to execute the run
          Nobody,      \* no process
          Eligible,    \* what assess_recovery_eligibility may find in the worktree
          Operations,  \* what supervisors do: "launch", "reconcile", "recover", "cancel"
          Faults,      \* "crash", "popen": processes die, a child cannot be started
          MaxGen       \* bound on ownership generations

ASSUME OwnerAssumption ==
    /\ ProcessOf \in [Threads -> Processes]
    /\ Processes \intersect Children = {}
    /\ Nobody \notin Processes \union Children
    /\ Eligible \subseteq BOOLEAN
    /\ MaxGen \in Nat \ {0}

VARIABLES status,    \* runs.status
          owner,     \* the execution_owners row
          sup,       \* the supervision row: worker pid, worker identity, attempt
          act,       \* state of the newest worker activation
          alive,     \* live supervisor and child processes
          worker,    \* worker[c]: the worker process child c starts
          pc,        \* pc[t]: what thread t does next
          loc,       \* loc[t]: its locals, see Locals
          cpc,       \* cpc[c]: what child c does next
          mode,      \* mode[c]: "run" or "recover"
          token      \* token[c]: the generation reserved for, then held by c; 0: none

dbVars == <<status, owner, sup, act>>
threadVars == <<pc, loc>>
childVars == <<cpc, mode, token>>
vars == <<dbVars, alive, worker, threadVars, childVars>>

TERMINAL == {"COMPLETED", "FAILED", "ORPHANED"}
RunStatus == {"PENDING", "RUNNING"} \union TERMINAL
ACTIVE_STATES == {"CLAIMED", "CANCELLING"}
Identity == Processes \union Children \union {Nobody}

NoOwner == [gen |-> 0, state |-> "NONE", ident |-> Nobody, agent |-> Nobody]
OwnerRow == [gen : 0..MaxGen, state : ACTIVE_STATES \union {"NONE", "RELEASED"},
             ident : Identity, agent : Identity]
NoSup == [pid |-> FALSE, ident |-> Nobody, att |-> Nobody]
SupRow == [pid : BOOLEAN, ident : Children \union {Nobody},
           att : Children \union {Nobody}]

\* The owner row a thread inspected and whether it was live; the generation it
\* claimed; the child it spawned; the supervision row it read to write it back.
Locals == [seen : OwnerRow, live : BOOLEAN, gen : 0..MaxGen,
           kid : Children \union {Nobody}, prev : SupRow]
NoLocals == [seen |-> NoOwner, live |-> FALSE, gen |-> 0, kid |-> Nobody, prev |-> NoSup]

ThreadPcs == {"idle", "claim", "popen", "adopt", "watch", "watched", "unclaim", "failrun",
              "claimR", "popenR", "unclaimR", "probe", "orphan",
              "begin", "stopWorker", "stopOwner", "finish", "abort"}
ChildPcs == {"unborn", "boot", "begin", "adopt", "exec", "dispatch", "spawn", "ident",
             "wait", "release", "done"}

\* Types of the three rows and of everybody's locals; generations and states are those the
\* UPDATEs of db.py can write.
TypeOK ==
    /\ status \in RunStatus
    /\ owner \in OwnerRow
    /\ sup \in SupRow
    /\ act \in {"none", "starting", "running", "settled"}
    /\ alive \subseteq Processes \union Children
    /\ worker \in [Children -> {"none", "live", "gone"}]
    /\ pc \in [Threads -> ThreadPcs]
    /\ loc \in [Threads -> Locals]
    /\ cpc \in [Children -> ChildPcs]
    /\ mode \in [Children -> {"run", "recover"}]
    /\ token \in [Children -> 0..MaxGen]

\* create_run has committed the run; nobody has claimed it.
Init ==
    /\ status = "PENDING" /\ owner = NoOwner /\ sup = NoSup /\ act = "none"
    /\ alive = Processes
    /\ worker = [c \in Children |-> "none"]
    /\ pc = [t \in Threads |-> "idle"]
    /\ loc = [t \in Threads |-> NoLocals]
    /\ cpc = [c \in Children |-> "unborn"]
    /\ mode = [c \in Children |-> "run"]
    /\ token = [c \in Children |-> 0]

-----------------------------------------------------------------------------
(* Operators on the rows.                                                  *)

Active(row) == row.state \in ACTIVE_STATES
Live(ident) == ident \in alive

\* Mutant: the run id alone, as releases by run id once were.
HoldsAnyGeneration(gen, state) == owner.state = state

Holds(gen, state) == owner.gen = gen /\ owner.state = state

\* Mutant: an abandoned cancellation is superseded without probing the owner.
ClaimRefusedUnprobed(p, tok) ==
    \/ status \in TERMINAL
    \/ owner.state = "CANCELLING" /\ Live(owner.agent)
    \/ owner # NoOwner /\ tok # 0 /\ tok # owner.gen
    \/ owner.state = "CLAIMED" /\ tok # owner.gen /\ owner.ident # p /\ Live(owner.ident)

\* claim_execution_owner by process p with the fencing token tok (0: none).
ClaimRefused(p, tok) ==
    \/ status \in TERMINAL
    \/ owner.state = "CANCELLING" /\ Live(owner.agent)
    \/ owner # NoOwner /\ tok # 0 /\ tok # owner.gen
    \/ Active(owner) /\ tok # owner.gen /\ owner.ident # p /\ Live(owner.ident)

Claimed(p, tok) ==
    LET kept == owner.gen # 0 /\ (owner.ident = p \/ tok = owner.gen)
    IN  [gen |-> IF kept THEN owner.gen ELSE owner.gen + 1,
         state |-> "CLAIMED", ident |-> p, agent |-> Nobody]

\* release_execution_owner.
Released(gen) ==
    IF Holds(gen, "CLAIMED") THEN [owner EXCEPT !.state = "RELEASED", !.agent = Nobody] ELSE owner

\* owner_evidence: may the run's owner be taken for dead?  Without a row only
\* a PENDING run gives evidence at all.
Known == owner # NoOwner \/ status = "PENDING"
OwnerLive == Active(owner) /\ Live(owner.ident)

\* The worker evidence of reconcile and ensure_recovery_running.
WorkerLive(c) == worker[c] = "live"
WorkerDead ==
    IF sup.ident # Nobody THEN ~WorkerLive(sup.ident)
                          ELSE ~sup.pid /\ act \in {"none", "settled"}

Executing(c) == Live(c) /\ cpc[c] \in {"exec", "dispatch", "spawn", "ident", "wait"}

-----------------------------------------------------------------------------
(* Supervisors.  The per-run lock makes launching one thread's business in *)
(* each process; recovery holds it until its claim only.                   *)

Locked(p) == \E t \in Threads : /\ ProcessOf[t] = p
                                /\ pc[t] \in {"claim", "popen", "adopt", "watch", "watched",
                                              "unclaim", "failrun", "claimR"}
Idle(t, op) == pc[t] = "idle" /\ Live(ProcessOf[t]) /\ op \in Operations
At(t, label) == pc[t] = label /\ Live(ProcessOf[t])
Goto(t, label) == pc' = [pc EXCEPT ![t] = label] /\ UNCHANGED loc
See(t, label) ==
    /\ pc' = [pc EXCEPT ![t] = label]
    /\ loc' = [loc EXCEPT ![t].seen = owner, ![t].live = OwnerLive]

\* The operation is over: its locals are gone.
Return(t) ==
    /\ pc' = [pc EXCEPT ![t] = "idle"]
    /\ loc' = [loc EXCEPT ![t] = NoLocals]

Forget(c) ==
    /\ cpc' = [cpc EXCEPT ![c] = "done"]
    /\ mode' = [mode EXCEPT ![c] = "run"]
    /\ token' = [token EXCEPT ![c] = 0]

\* A process ends where it stands, killed or crashed, and its locals with it;
\* the worker it started lives on.
Die(p, pcs) ==
    /\ alive' = alive \ {p}
    /\ pc' = [t \in Threads |-> IF ProcessOf[t] = p THEN "idle" ELSE pcs[t]]
    /\ loc' = [t \in Threads |-> IF ProcessOf[t] = p THEN NoLocals ELSE loc[t]]
    /\ IF p \in Children THEN Forget(p) ELSE UNCHANGED childVars

\* ensure_running, up to the claim.
EnsureRunning(t) ==
    /\ Idle(t, "launch") /\ ~Locked(ProcessOf[t])
    /\ ~OwnerLive
    /\ IF sup.ident # Nobody THEN ~WorkerLive(sup.ident) ELSE ~sup.pid
    /\ status \notin TERMINAL
    /\ Goto(t, "claim")
    /\ UNCHANGED <<dbVars, alive, worker, childVars>>

\* ensure_recovery_running, up to the claim.  A predecessor must be dead even
\* when it has released its claim.
EnsureRecovery(t) ==
    /\ Idle(t, "recover") /\ ~Locked(ProcessOf[t])
    /\ status = "RUNNING" /\ act \in {"starting", "running"} /\ TRUE \in Eligible
    /\ owner # NoOwner /\ ~Live(owner.ident)
    /\ WorkerDead
    /\ Goto(t, "claimR")
    /\ UNCHANGED <<dbVars, alive, worker, childVars>>

ClaimFor(t, from, to) ==
    /\ At(t, from)
    /\ IF ClaimRefused(ProcessOf[t], 0)
       THEN Return(t) /\ UNCHANGED owner
       ELSE /\ Claimed(ProcessOf[t], 0).gen =< MaxGen
            /\ owner' = Claimed(ProcessOf[t], 0)
            /\ pc' = [pc EXCEPT ![t] = to]
            /\ loc' = [loc EXCEPT ![t].gen = owner'.gen]
    /\ UNCHANGED <<status, sup, act, alive, worker, childVars>>

LaunchClaim(t) == ClaimFor(t, "claim", "popen")
RecoveryClaim(t) == ClaimFor(t, "claimR", "popenR")

\* Popen with the reservation in the environment.
Spawn(t, from, kind) ==
    /\ At(t, from)
    /\ \E c \in Children :
          /\ cpc[c] = "unborn"
          /\ alive' = alive \union {c}
          /\ cpc' = [cpc EXCEPT ![c] = "boot"]
          /\ mode' = [mode EXCEPT ![c] = kind]
          /\ token' = [token EXCEPT ![c] = loc[t].gen]
          /\ loc' = [loc EXCEPT ![t].kid = c]
    /\ pc' = [pc EXCEPT ![t] = "adopt"]
    /\ UNCHANGED <<dbVars, worker>>

SpawnOwner(t) == Spawn(t, "popen", "run")
SpawnRecoveryOwner(t) == Spawn(t, "popenR", "recover")

SpawnFails(t) ==
    /\ "popen" \in Faults \/ \A c \in Children : cpc[c] # "unborn"
    /\ \/ At(t, "popen") /\ Goto(t, "unclaim")
       \/ At(t, "popenR") /\ Goto(t, "unclaimR")
    /\ UNCHANGED <<dbVars, alive, worker, childVars>>

Unclaim(t) ==
    /\ \/ At(t, "unclaim") /\ Goto(t, "failrun")
       \/ At(t, "unclaimR") /\ Return(t)
    /\ owner' = Released(loc[t].gen)
    /\ UNCHANGED <<status, sup, act, alive, worker, childVars>>

\* fail_run_if_nonterminal, of whoever owns the run by now.
FailRun(t) ==
    /\ At(t, "failrun")
    /\ status' = IF status \in TERMINAL THEN status ELSE "FAILED"
    /\ Return(t)
    /\ UNCHANGED <<owner, sup, act, alive, worker, childVars>>

\* adopt_execution_owner_identity.
AdoptIdentity(t) ==
    /\ At(t, "adopt")
    /\ owner' = IF Holds(loc[t].gen, "CLAIMED") THEN [owner EXCEPT !.ident = loc[t].kid]
                                               ELSE owner
    /\ Goto(t, "watch")
    /\ UNCHANGED <<status, sup, act, alive, worker, childVars>>

\* _persist_supervision reads the row and writes all of it back.
PersistRead(t) ==
    /\ At(t, "watch")
    /\ pc' = [pc EXCEPT ![t] = "watched"]
    /\ loc' = [loc EXCEPT ![t].prev = sup]
    /\ UNCHANGED <<dbVars, alive, worker, childVars>>

PersistWrite(t) ==
    /\ At(t, "watched")
    /\ sup' = [loc[t].prev EXCEPT !.pid = TRUE]
    /\ Return(t)
    /\ UNCHANGED <<status, owner, act, alive, worker, childVars>>

-----------------------------------------------------------------------------
(* reconcile.  The status it reads only ends it early: the transaction at  *)
(* the end looks again.                                                    *)

ReconcileRead(t) ==
    /\ Idle(t, "reconcile")
    /\ status \notin TERMINAL
    /\ Known /\ ~OwnerLive
    /\ owner.state # "CANCELLING"
    /\ See(t, "probe")
    /\ UNCHANGED <<dbVars, alive, worker, childVars>>

\* A run that can be recovered is left as it is, for ensure_recovery_running.
ReconcileProbe(t) ==
    /\ At(t, "probe")
    /\ \E eligible \in Eligible :
          LET recover == eligible /\ status = "RUNNING" /\ act \in {"starting", "running"}
          IN  IF WorkerDead /\ ~recover THEN Goto(t, "orphan") ELSE Return(t)
    /\ UNCHANGED <<dbVars, alive, worker, childVars>>

\* terminalize_run_fenced for the generation that was inspected.
FencedRunning(t, state) ==   \* Mutant: the guard of terminalize_preemption_fenced
    status = "RUNNING" /\ Holds(loc[t].seen.gen, state)

Fenced(t, state) ==
    /\ status \notin TERMINAL
    /\ IF loc[t].seen = NoOwner THEN ~Active(owner) ELSE Holds(loc[t].seen.gen, state)

TerminalizeCancelled(t, final) ==   \* Mutant: the state of a job, which a run does not have
    /\ status' = IF final = "FAILED" THEN "CANCELLED" ELSE final
    /\ owner' = [owner EXCEPT !.state = "RELEASED"]

Terminalize(t, final) ==
    /\ status' = final
    /\ owner' = IF loc[t].seen = NoOwner THEN owner
                ELSE [owner EXCEPT !.state = "RELEASED", !.agent = Nobody]

ReconcileOrphan(t) ==
    /\ At(t, "orphan")
    /\ IF Fenced(t, "CLAIMED") THEN Terminalize(t, "ORPHANED") ELSE UNCHANGED <<status, owner>>
    /\ Return(t)
    /\ UNCHANGED <<sup, act, alive, worker, childVars>>

-----------------------------------------------------------------------------
(* cancel.                                                                 *)

CancelRead(t) ==
    /\ Idle(t, "cancel")
    /\ status \notin TERMINAL
    /\ Known
    /\ See(t, IF owner = NoOwner THEN "finish" ELSE "begin")
    /\ UNCHANGED <<dbVars, alive, worker, childVars>>

\* Of a terminal run it releases the claim a dead owner has left.
CancelTerminal(t) ==
    /\ Idle(t, "cancel")
    /\ status \in TERMINAL
    /\ ~OwnerLive
    /\ owner' = Released(owner.gen)
    /\ UNCHANGED <<status, sup, act, alive, worker, threadVars, childVars>>

\* begin_execution_cancellation compares the generation, not the identity.
CancelBegin(t) ==
    /\ At(t, "begin")
    /\ IF /\ status \notin TERMINAL
          /\ owner.gen = loc[t].seen.gen
          /\ \/ owner.state = "CLAIMED"
             \/ owner.state = "CANCELLING" /\ (~Live(owner.agent) \/ owner.agent = ProcessOf[t])
       THEN /\ owner' = [owner EXCEPT !.state = "CANCELLING", !.agent = ProcessOf[t]]
            /\ Goto(t, IF loc[t].live THEN "stopWorker" ELSE "finish")
       ELSE Return(t) /\ UNCHANGED owner
    /\ UNCHANGED <<status, sup, act, alive, worker, childVars>>

\* terminate_worker_group_fenced: confirmed, or the cancellation is undone.
CancelStopWorker(t) ==
    /\ At(t, "stopWorker")
    /\ \/ /\ sup.ident # Nobody
          /\ worker' = [worker EXCEPT ![sup.ident] = "gone"]
          /\ Goto(t, "stopOwner")
       \/ /\ sup.ident = Nobody /\ ~sup.pid
          /\ Goto(t, "stopOwner")
          /\ UNCHANGED worker
       \/ /\ sup.ident # Nobody \/ sup.pid
          /\ Goto(t, "abort")
          /\ UNCHANGED worker
    /\ UNCHANGED <<dbVars, alive, childVars>>

\* terminate_owner signals the process that was inspected.
CancelStopOwner(t) ==
    /\ At(t, "stopOwner")
    /\ LET target == loc[t].seen.ident
       IN  IF Live(target) THEN Die(target, [pc EXCEPT ![t] = "finish"])
                           ELSE Goto(t, "finish") /\ UNCHANGED <<alive, childVars>>
    /\ UNCHANGED <<dbVars, worker>>

CancelFinish(t) ==
    /\ At(t, "finish")
    /\ IF Fenced(t, "CANCELLING")
       THEN /\ Terminalize(t, "FAILED")
            /\ sup' = [sup EXCEPT !.pid = loc[t].seen # NoOwner]
            /\ Return(t)
       ELSE /\ UNCHANGED <<status, owner, sup>>
            /\ IF loc[t].seen = NoOwner THEN Return(t) ELSE Goto(t, "abort")
    /\ UNCHANGED <<act, alive, worker, childVars>>

\* abort_execution_cancellation is fenced to the generation, not to the agent.
CancelAbort(t) ==
    /\ At(t, "abort")
    /\ owner' = IF Holds(loc[t].seen.gen, "CANCELLING")
                THEN [owner EXCEPT !.state = "CLAIMED", !.agent = Nobody] ELSE owner
    /\ Return(t)
    /\ UNCHANGED <<status, sup, act, alive, worker, childVars>>

-----------------------------------------------------------------------------
(* Children: `orch run --run-id` and `orch recover`.                       *)

Doing(c, label) == cpc[c] = label /\ Live(c)
Then(c, label) == cpc' = [cpc EXCEPT ![c] = label]
Exit(c) == Forget(c) /\ alive' = alive \ {c}

\* A shell may run the command by hand, without a reservation.
RunByHand(c) ==
    /\ "launch" \in Operations
    /\ cpc[c] = "unborn"
    /\ alive' = alive \union {c}
    /\ Then(c, "boot")
    /\ UNCHANGED <<dbVars, worker, threadVars, mode, token>>

Claim(c) ==
    /\ Doing(c, "boot")
    /\ IF ClaimRefused(c, token[c])
       THEN Exit(c) /\ UNCHANGED owner
       ELSE /\ Claimed(c, token[c]).gen =< MaxGen
            /\ owner' = Claimed(c, token[c])
            /\ token' = [token EXCEPT ![c] = owner'.gen]
            /\ Then(c, "begin")
            /\ UNCHANGED <<alive, mode>>
    /\ UNCHANGED <<status, sup, act, worker, threadVars>>

\* execute (pending_only) reads the status; recover_run compares the owner row
\* with this process and its token, and closes the crashed attempt.
Begin(c) ==
    /\ Doing(c, "begin")
    /\ \/ mode[c] = "run" /\ UNCHANGED act
          /\ Then(c, IF status = "PENDING" THEN "adopt" ELSE "release")
       \/ /\ mode[c] = "recover"
          /\ IF status = "RUNNING" /\ Active(owner) /\ owner.gen = token[c] /\ owner.ident = c
             THEN Then(c, "exec") /\ act' = "settled"
             ELSE Then(c, "release") /\ UNCHANGED act
    /\ UNCHANGED <<status, owner, sup, alive, worker, threadVars, mode, token>>

\* adopt_run_if_pending; whether it changed anything is not looked at.
AdoptRun(c) ==
    /\ Doing(c, "adopt")
    /\ status' = IF status = "PENDING" THEN "RUNNING" ELSE status
    /\ Then(c, "exec")
    /\ UNCHANGED <<owner, sup, act, alive, worker, threadVars, mode, token>>

\* The attempt and its activation, before the worker.
Activate(c) ==
    /\ Doing(c, "exec") /\ worker[c] = "none"
    /\ act' = "starting"
    /\ Then(c, "dispatch")
    /\ UNCHANGED <<status, owner, sup, alive, worker, threadVars, mode, token>>

\* _ensure_supervision clears the evidence of the last attempt.
EnsureSupervision(c) ==
    /\ Doing(c, "dispatch")
    /\ sup' = [pid |-> FALSE, ident |-> Nobody, att |-> c]
    /\ Then(c, "spawn")
    /\ UNCHANGED <<status, owner, act, alive, worker, threadVars, mode, token>>

StartWorker(c) ==
    /\ Doing(c, "spawn")
    /\ worker' = [worker EXCEPT ![c] = "live"]
    /\ Then(c, "ident")
    /\ UNCHANGED <<dbVars, alive, threadVars, mode, token>>

\* set_worker_identity_fenced, then the activation.
OnWorkerStart(c) ==
    /\ Doing(c, "ident")
    /\ sup' = IF sup.att = c THEN [sup EXCEPT !.pid = TRUE, !.ident = c] ELSE sup
    /\ act' = "running"
    /\ Then(c, "wait")
    /\ UNCHANGED <<status, owner, alive, worker, threadVars, mode, token>>

WorkerExits(c) ==
    /\ WorkerLive(c)
    /\ worker' = [worker EXCEPT ![c] = "gone"]
    /\ UNCHANGED <<dbVars, alive, threadVars, childVars>>

Collect(c) ==
    /\ Doing(c, "wait") /\ ~WorkerLive(c)
    /\ act' = "settled"
    /\ Then(c, "exec")
    /\ UNCHANGED <<status, owner, sup, alive, worker, threadVars, mode, token>>

\* update_run writes whatever the status is; "Recovery blocked" writes nothing.
Finish(c) ==
    /\ Doing(c, "exec")
    /\ \/ status' \in {"COMPLETED", "FAILED"}
       \/ mode[c] = "recover" /\ UNCHANGED status
    /\ Then(c, "release")
    /\ UNCHANGED <<owner, sup, act, alive, worker, threadVars, mode, token>>

ReleaseAndExit(c) ==
    /\ Doing(c, "release")
    /\ owner' = IF mode[c] = "recover" /\ owner.ident # c THEN owner ELSE Released(token[c])
    /\ Exit(c)
    /\ UNCHANGED <<status, sup, act, worker, threadVars>>

\* A crash.
Crash(p) ==
    /\ "crash" \in Faults
    /\ Live(p)
    /\ Die(p, pc)
    /\ UNCHANGED <<dbVars, worker>>

-----------------------------------------------------------------------------
LaunchStep(t) ==
    \/ EnsureRunning(t) \/ LaunchClaim(t) \/ SpawnOwner(t) \/ SpawnFails(t) \/ Unclaim(t)
    \/ FailRun(t) \/ AdoptIdentity(t) \/ PersistRead(t) \/ PersistWrite(t)
RecoverStep(t) == EnsureRecovery(t) \/ RecoveryClaim(t) \/ SpawnRecoveryOwner(t)
ReconcileStep(t) == ReconcileRead(t) \/ ReconcileProbe(t) \/ ReconcileOrphan(t)
CancelStep(t) ==
    \/ CancelRead(t) \/ CancelTerminal(t) \/ CancelBegin(t) \/ CancelStopWorker(t)
    \/ CancelStopOwner(t) \/ CancelFinish(t) \/ CancelAbort(t)
ThreadStep(t) == LaunchStep(t) \/ RecoverStep(t) \/ ReconcileStep(t) \/ CancelStep(t)
ChildStep(c) ==
    \/ Claim(c) \/ Begin(c) \/ AdoptRun(c) \/ Activate(c) \/ EnsureSupervision(c)
    \/ StartWorker(c) \/ OnWorkerStart(c) \/ Collect(c) \/ Finish(c) \/ ReleaseAndExit(c)

Next ==
    \/ \E t \in Threads : ThreadStep(t)
    \/ \E c \in Children : ChildStep(c) \/ RunByHand(c) \/ WorkerExits(c)
    \/ \E p \in Processes \union Children : Crash(p)

Spec == Init /\ [][Next]_vars

\* The scheduler and the followers of a run reconcile it again and again; what
\* a live process has begun it goes on with; workers end.
Continue(t) == pc[t] # "idle" /\ ThreadStep(t)
Fairness ==
    /\ \A t \in Threads : WF_vars(ReconcileStep(t)) /\ WF_vars(Continue(t))
    /\ \A c \in Children : WF_vars(ChildStep(c)) /\ WF_vars(WorkerExits(c))
FairSpec == Spec /\ Fairness

-----------------------------------------------------------------------------
(* Properties.                                                             *)

\* Whatever is launched, recovered, cancelled or killed, and whenever: at most
\* one live process executes the run (claim_execution_owner, begin_execution_
\* cancellation and the checks of the executor together).
OneExecutor == \A c, d \in Children : Executing(c) /\ Executing(d) => c = d

\* While the run has not ended, the process executing it is the one its owner
\* row names, with its own generation and an active state: nothing but
\* the end of the run can be decided behind its back.
ExecutorHoldsTheClaim ==
    \A c \in Children : Executing(c) =>
        \/ status \in TERMINAL
        \/ owner.gen = token[c] /\ owner.ident = c /\ Active(owner)

\* reconcile never orphans a generation it has not inspected, however late its
\* transaction commits.
NewerGenerationKept ==
    [][status # "ORPHANED" /\ status' = "ORPHANED" =>
         \A c \in Children : Executing(c) =>
             \E t \in Threads : pc[t] = "orphan" /\ loc[t].seen.gen = token[c]]_vars

\* A run whose owner is dead, with conclusive evidence about its worker, is not
\* left like that: a supervisor that reconciles ends it or a new owner claims it.
Supervised == \E t \in Threads : Live(ProcessOf[t])
Stranded == /\ status \notin TERMINAL
            /\ owner.state = "CLAIMED" /\ ~Live(owner.ident)
            /\ WorkerDead
StrandedRunsAreSettled == Stranded ~> ~Stranded \/ ~Supervised

\* Documented and not so: reconcile keeps a live detached owner.  The launcher
\* may die between the start of a child and the child's claim; the child then
\* claims the generation that is about to be orphaned.
LiveOwnerKept ==
    [][status # "ORPHANED" /\ status' = "ORPHANED" => \A c \in Children : ~Executing(c)]_vars

\* Documented and not so: a provably dead owner orphans the run.  The launcher
\* stores the child's pid as the worker's, and a child that dies before its first
\* worker leaves a pid without an identity, which is no evidence for ever.
Abandoned == /\ status \notin TERMINAL
             /\ owner # NoOwner
             /\ act \in {"none", "settled"}      \* no attempt is in flight
             /\ \A c \in Children : ~Live(c) /\ ~WorkerLive(c)
AbandonedRunsEnd == Abandoned ~> ~Abandoned \/ ~Supervised

\* Documented and not so: a cancelled run is not ended while it is worked on.
\* The child may adopt the generation after cancel has read the launcher's
\* identity, and then the launcher is killed in its place.
CancelledRunsAreQuiet ==
    [][status \notin TERMINAL /\ status' = "FAILED" =>
         \A c \in Children : Executing(c) => cpc'[c] = "release"]_vars

\* Documented and not so: an old worker blocks recovery.  The claim is not
\* fenced to the predecessor whose worker was found dead.
OneWorker == \A c, d \in Children : WorkerLive(c) /\ WorkerLive(d) => c = d
=============================================================================
