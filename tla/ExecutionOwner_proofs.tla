------------------------- MODULE ExecutionOwner_proofs -------------------------
(***************************************************************************)
(* A run has one executor: for every number of supervisor processes, of    *)
(* their threads, and of children, whatever they do and whenever they die. *)
(***************************************************************************)
EXTENDS ExecutionOwner, TLAPS

Open == status \notin TERMINAL

\* Threads between their claim and the end of its use, and those that launch at all.
Claiming(t) == pc[t] \in {"popen", "popenR", "unclaim", "unclaimR"}
Launching(t) ==
    Claiming(t) \/ pc[t] \in {"claim", "claimR", "adopt", "watch", "watched", "failrun"}

\* Children that may have begun to execute, and those that hold a claim.
Working(c) == cpc[c] \in {"adopt", "exec", "dispatch", "spawn", "ident", "wait"}
Holding(c) == Working(c) \/ cpc[c] \in {"begin", "release"}

-----------------------------------------------------------------------------
(* What holds of a run in any state.                                       *)

ThreadsLive == \A t \in Threads : pc[t] # "idle" => Live(ProcessOf[t])
ChildrenLive == \A c \in Children : Live(c) <=> cpc[c] \notin {"unborn", "done"}

\* Nobody has a generation that does not exist yet.
TokensFit ==
    \A c \in Children :
        /\ token[c] =< owner.gen
        /\ cpc[c] \in {"unborn", "done"} => token[c] = 0
        /\ Holding(c) => token[c] # 0
GensFit == \A t \in Threads : Claiming(t) \/ pc[t] = "adopt" => loc[t].gen \in 1..owner.gen

\* A child that has not claimed has the reservation it was spawned with.
KidsFit ==
    \A t \in Threads : pc[t] = "adopt" =>
        /\ loc[t].kid \in Children /\ cpc[loc[t].kid] # "unborn"
        /\ cpc[loc[t].kid] = "boot" => token[loc[t].kid] = loc[t].gen
NamesFit ==
    \A c \in Children : owner.ident = c =>
        cpc[c] # "unborn" /\ (cpc[c] = "boot" => token[c] = owner.gen)

OneWorks == \A c, d \in Children : Working(c) /\ Working(d) => c = d

BasicInv == ThreadsLive /\ ChildrenLive /\ TokensFit /\ GensFit /\ KidsFit /\ NamesFit

-----------------------------------------------------------------------------
(* What holds until the run has ended.                                     *)

\* The owner row names whoever holds or uses a claim.
HoldersOwn ==
    \A c \in Children : Holding(c) =>
        owner.gen = token[c] /\ owner.ident = c /\ Active(owner)
ClaimantsOwn ==
    \A t \in Threads : Claiming(t) =>
        owner.gen = loc[t].gen /\ owner.ident = ProcessOf[t] /\ Active(owner)

\* A process about to claim has no claim.
NewClaimsAreDue ==
    \A t \in Threads : pc[t] \in {"claim", "claimR"} =>
        ~(owner.ident = ProcessOf[t] /\ Active(owner))

\* A generation that a supervisor gave back was never handed to a child: it may be
\* taken again.
ReleasedIsFree ==
    owner.ident \in Processes /\ ~Active(owner) =>
        /\ \A c \in Children : token[c] # 0 => token[c] # owner.gen
        /\ \A t \in Threads : pc[t] = "adopt" => loc[t].gen # owner.gen

\* One thread of a process launches at a time: the lock, and behind it the claim.
OneLaunch ==
    \A t, u \in Threads :
        Launching(t) /\ Launching(u) /\ ProcessOf[t] = ProcessOf[u] => t = u

\* A generation is handed to one child.
FreshGens ==
    \A t \in Threads : Claiming(t) =>
        /\ \A c \in Children : token[c] # loc[t].gen
        /\ \A u \in Threads : pc[u] = "adopt" => loc[u].gen # loc[t].gen
OneTokenHolder == \A c, d \in Children : token[c] = token[d] /\ token[c] # 0 => c = d
OneKid ==
    \A t \in Threads, c \in Children :
        pc[t] = "adopt" /\ token[c] = loc[t].gen => c = loc[t].kid

OpenInv ==
    /\ HoldersOwn /\ ClaimantsOwn /\ NewClaimsAreDue /\ ReleasedIsFree
    /\ OneLaunch /\ FreshGens /\ OneTokenHolder /\ OneKid

IInv == TypeOK /\ BasicInv /\ OneWorks /\ (Open => OpenInv)

-----------------------------------------------------------------------------
(* Types.                                                                  *)

\* What TypeOK says of the rows and locals that actions rewrite as records.
LEMMA Fields ==
    ASSUME TypeOK
    PROVE  /\ owner.gen \in 0..MaxGen /\ owner.ident \in Identity /\ owner.agent \in Identity
           /\ \A t \in Threads : loc[t] \in Locals /\ ProcessOf[t] \in Processes
           /\ Processes \intersect Children = {} /\ Nobody \notin Processes \union Children
BY OwnerAssumption DEF TypeOK, OwnerRow, Identity

LEMMA NothingKnown == NoLocals \in Locals /\ NoOwner \in OwnerRow /\ NoSup \in SupRow
BY OwnerAssumption DEF NoLocals, Locals, NoOwner, OwnerRow, NoSup, SupRow, ACTIVE_STATES, Identity

LEMMA ReleasedType == ASSUME TypeOK, NEW gen PROVE Released(gen) \in OwnerRow
BY OwnerAssumption DEF TypeOK, Released, OwnerRow, Identity

LEMMA ClaimedType ==
    ASSUME TypeOK, NEW p \in Processes \union Children, NEW tok, Claimed(p, tok).gen =< MaxGen
    PROVE  Claimed(p, tok) \in OwnerRow /\ Claimed(p, tok).gen \in 1..MaxGen
<1>1. owner.gen \in 0..MaxGen /\ MaxGen \in Nat
  BY Fields, OwnerAssumption
<1>2. Claimed(p, tok).gen \in {owner.gen, owner.gen + 1} \ {0}
  BY <1>1 DEF Claimed
<1>3. Claimed(p, tok).gen \in 1..MaxGen
  BY <1>1, <1>2
<1> QED BY <1>3 DEF Claimed, OwnerRow, Identity, ACTIVE_STATES

LEMMA TerminalizeTypes ==
    ASSUME TypeOK, NEW t \in Threads, NEW final \in TERMINAL, Terminalize(t, final)
    PROVE  status' \in RunStatus /\ owner' \in OwnerRow
<1>1. status' \in RunStatus
  BY DEF Terminalize, RunStatus
<1>2. owner' \in OwnerRow
  BY OwnerAssumption DEF Terminalize, TypeOK, OwnerRow, Identity
<1> QED BY <1>1, <1>2

LEMMA DieTypes ==
    ASSUME TypeOK, NEW p \in Processes \union Children,
           NEW pcs \in [Threads -> ThreadPcs], Die(p, pcs)
    PROVE  /\ alive' \subseteq Processes \union Children
           /\ pc' \in [Threads -> ThreadPcs] /\ loc' \in [Threads -> Locals]
           /\ cpc' \in [Children -> ChildPcs] /\ mode' \in [Children -> {"run", "recover"}]
           /\ token' \in [Children -> 0..MaxGen]
<1>1. alive' \subseteq Processes \union Children
  BY DEF Die, TypeOK
<1>2. pc' \in [Threads -> ThreadPcs]
  BY DEF Die, ThreadPcs
<1>3. loc' \in [Threads -> Locals]
  BY NothingKnown DEF Die, TypeOK
<1>4. /\ cpc' \in [Children -> ChildPcs] /\ mode' \in [Children -> {"run", "recover"}]
      /\ token' \in [Children -> 0..MaxGen]
  BY OwnerAssumption DEF Die, Forget, childVars, TypeOK, ChildPcs
<1> QED BY <1>1, <1>2, <1>3, <1>4

LEMMA ThreadTypes ==
    ASSUME TypeOK, NEW t \in Threads,
           \/ LaunchStep(t) \/ RecoverStep(t) \/ ReconcileStep(t) \/ CancelStep(t)
    PROVE  TypeOK'
<1> USE DEF dbVars, threadVars, childVars
<1>0. /\ pc \in [Threads -> ThreadPcs] /\ loc \in [Threads -> Locals] /\ owner \in OwnerRow
      /\ ProcessOf[t] \in Processes /\ sup \in SupRow
  BY Fields DEF TypeOK
<1>1. \A to \in ThreadPcs : Goto(t, to) =>
          pc' \in [Threads -> ThreadPcs] /\ loc' \in [Threads -> Locals]
  BY <1>0 DEF Goto
<1>2. Return(t) => pc' \in [Threads -> ThreadPcs] /\ loc' \in [Threads -> Locals]
  BY <1>0, NothingKnown DEF Return, ThreadPcs
<1>3. \A to \in ThreadPcs : See(t, to) =>
          pc' \in [Threads -> ThreadPcs] /\ loc' \in [Threads -> Locals]
  <2> SUFFICES ASSUME NEW to \in ThreadPcs, See(t, to)
               PROVE  pc' \in [Threads -> ThreadPcs] /\ loc' \in [Threads -> Locals]
    OBVIOUS
  <2>1. OwnerLive \in BOOLEAN
    BY DEF OwnerLive, Active, Live
  <2>2. [loc[t] EXCEPT !.seen = owner, !.live = OwnerLive] \in Locals
    BY <1>0, <2>1 DEF Locals
  <2>3. loc' = [loc EXCEPT ![t] = [loc[t] EXCEPT !.seen = owner, !.live = OwnerLive]]
    BY <1>0 DEF See
  <2> QED BY <1>0, <2>2, <2>3 DEF See
<1>4. ASSUME EnsureRunning(t) \/ EnsureRecovery(t) \/ SpawnFails(t) \/ ReconcileProbe(t)
             \/ ReconcileRead(t) \/ CancelRead(t)
      PROVE  TypeOK'
  <2>1. pc' \in [Threads -> ThreadPcs] /\ loc' \in [Threads -> Locals]
    BY <1>1, <1>2, <1>3, <1>4 DEF EnsureRunning, EnsureRecovery, SpawnFails, ReconcileProbe,
                                  ReconcileRead, CancelRead, ThreadPcs
  <2>2. UNCHANGED <<dbVars, alive, worker, childVars>>
    BY <1>4 DEF EnsureRunning, EnsureRecovery, SpawnFails, ReconcileProbe, ReconcileRead, CancelRead
  <2> QED BY <2>1, <2>2 DEF TypeOK
<1>5. ASSUME NEW from, NEW to \in ThreadPcs, ClaimFor(t, from, to) PROVE TypeOK'
  <2>1. CASE ClaimRefused(ProcessOf[t], 0)
    BY <1>2, <1>5, <2>1 DEF ClaimFor, TypeOK
  <2>2. CASE ~ClaimRefused(ProcessOf[t], 0)
    <3>1. owner' \in OwnerRow /\ owner'.gen \in 0..MaxGen
      BY <1>0, <1>5, <2>2, ClaimedType, OwnerAssumption DEF ClaimFor
    <3>2. loc' \in [Threads -> Locals]
      BY <1>0, <1>5, <2>2, <3>1 DEF ClaimFor, Locals
    <3>3. pc' \in [Threads -> ThreadPcs]
      BY <1>0, <1>5, <2>2 DEF ClaimFor
    <3> QED BY <1>5, <3>1, <3>2, <3>3 DEF ClaimFor, TypeOK
  <2> QED BY <2>1, <2>2
<1>6. ASSUME NEW from, NEW kind \in {"run", "recover"}, Spawn(t, from, kind) PROVE TypeOK'
  <2>1. PICK c \in Children :
            /\ alive' = alive \union {c} /\ cpc' = [cpc EXCEPT ![c] = "boot"]
            /\ mode' = [mode EXCEPT ![c] = kind] /\ token' = [token EXCEPT ![c] = loc[t].gen]
            /\ loc' = [loc EXCEPT ![t].kid = c]
    BY <1>6 DEF Spawn
  <2>2. loc' \in [Threads -> Locals] /\ loc[t].gen \in 0..MaxGen
    BY <1>0, <2>1 DEF Locals
  <2>3. pc' \in [Threads -> ThreadPcs]
    BY <1>0, <1>6 DEF Spawn, ThreadPcs
  <2>4. /\ cpc' \in [Children -> ChildPcs] /\ mode' \in [Children -> {"run", "recover"}]
        /\ token' \in [Children -> 0..MaxGen] /\ alive' \subseteq Processes \union Children
    BY <2>1, <2>2 DEF TypeOK, ChildPcs
  <2> QED BY <1>6, <2>2, <2>3, <2>4 DEF Spawn, TypeOK
<1>7. CASE Unclaim(t)
  BY <1>7, <1>1, <1>2, ReleasedType DEF Unclaim, TypeOK, ThreadPcs
<1>8. CASE FailRun(t)
  BY <1>8, <1>2 DEF FailRun, TypeOK, RunStatus, TERMINAL
<1>9. CASE AdoptIdentity(t)
  <2>1. owner' \in OwnerRow
    BY <1>0, <1>9 DEF AdoptIdentity, OwnerRow, Locals, Identity
  <2> QED BY <1>9, <1>1, <2>1 DEF AdoptIdentity, TypeOK, ThreadPcs
<1>10. CASE PersistRead(t)
  <2>1. loc' \in [Threads -> Locals] /\ pc' \in [Threads -> ThreadPcs]
    BY <1>0, <1>10 DEF PersistRead, Locals, ThreadPcs
  <2> QED BY <1>10, <2>1 DEF PersistRead, TypeOK
<1>11. CASE PersistWrite(t)
  <2>1. sup' \in SupRow
    BY <1>0, <1>11 DEF PersistWrite, SupRow, Locals
  <2> QED BY <1>11, <1>2, <2>1 DEF PersistWrite, TypeOK
<1>12. CASE ReconcileOrphan(t)
  BY <1>12, <1>2, TerminalizeTypes DEF ReconcileOrphan, TypeOK, TERMINAL
<1>13. CASE CancelTerminal(t)
  BY <1>13, ReleasedType DEF CancelTerminal, TypeOK
<1>14. CASE CancelBegin(t)
  <2>1. owner' \in OwnerRow
    BY <1>0, <1>14 DEF CancelBegin, OwnerRow, ACTIVE_STATES, Identity
  <2> QED BY <1>14, <1>1, <1>2, <2>1 DEF CancelBegin, TypeOK, ThreadPcs
<1>15. CASE CancelStopWorker(t)
  BY <1>15, <1>1 DEF CancelStopWorker, TypeOK, ThreadPcs
<1>16. CASE CancelStopOwner(t)
  <2>1. CASE Live(loc[t].seen.ident)
    <3>1. loc[t].seen.ident \in Processes \union Children
      BY <2>1 DEF Live, TypeOK
    <3>2. [pc EXCEPT ![t] = "finish"] \in [Threads -> ThreadPcs]
      BY <1>0 DEF ThreadPcs
    <3> QED BY <1>16, <2>1, <3>1, <3>2, DieTypes DEF CancelStopOwner, TypeOK
  <2>2. CASE ~Live(loc[t].seen.ident)
    BY <1>16, <2>2, <1>1 DEF CancelStopOwner, TypeOK, ThreadPcs
  <2> QED BY <2>1, <2>2
<1>17. CASE CancelFinish(t)
  <2>1. status' \in RunStatus /\ owner' \in OwnerRow
    BY <1>17, TerminalizeTypes DEF CancelFinish, TypeOK, TERMINAL
  <2>2. sup' \in SupRow
    BY <1>0, <1>17 DEF CancelFinish, SupRow
  <2> QED BY <1>17, <1>1, <1>2, <2>1, <2>2 DEF CancelFinish, TypeOK, ThreadPcs
<1>18. CASE CancelAbort(t)
  <2>1. owner' \in OwnerRow
    BY <1>0, <1>18 DEF CancelAbort, OwnerRow, ACTIVE_STATES, Identity
  <2> QED BY <1>18, <1>2, <2>1 DEF CancelAbort, TypeOK
<1> QED
  BY <1>4, <1>5, <1>6, <1>7, <1>8, <1>9, <1>10, <1>11, <1>12, <1>13, <1>14, <1>15, <1>16, <1>17,
     <1>18
  DEF LaunchStep, RecoverStep, ReconcileStep, CancelStep, LaunchClaim, RecoveryClaim, SpawnOwner,
      SpawnRecoveryOwner, ThreadPcs

LEMMA ChildTypes ==
    ASSUME TypeOK, NEW c \in Children, ChildStep(c) \/ RunByHand(c) \/ WorkerExits(c)
    PROVE  TypeOK'
<1> USE DEF dbVars, threadVars, childVars
<1>1. \A to \in ChildPcs : Then(c, to) => cpc' \in [Children -> ChildPcs]
  BY DEF Then, TypeOK
<1>2. Exit(c) =>
          /\ cpc' \in [Children -> ChildPcs] /\ mode' \in [Children -> {"run", "recover"}]
          /\ token' \in [Children -> 0..MaxGen] /\ alive' \subseteq Processes \union Children
  BY OwnerAssumption DEF Exit, Forget, TypeOK, ChildPcs
<1>3. CASE RunByHand(c)
  BY <1>3, <1>1 DEF RunByHand, TypeOK, ChildPcs
<1>4. CASE Claim(c)
  <2>1. CASE ClaimRefused(c, token[c])
    BY <1>2, <1>4, <2>1 DEF Claim, TypeOK
  <2>2. CASE ~ClaimRefused(c, token[c])
    <3>1. owner' \in OwnerRow /\ owner'.gen \in 0..MaxGen
      BY <1>4, <2>2, ClaimedType, OwnerAssumption DEF Claim
    <3>2. token' \in [Children -> 0..MaxGen]
      BY <1>4, <2>2, <3>1 DEF Claim, TypeOK
    <3> QED BY <1>1, <1>4, <2>2, <3>1, <3>2 DEF Claim, TypeOK, ChildPcs
  <2> QED BY <2>1, <2>2
<1>5. CASE Begin(c)
  BY <1>5, <1>1 DEF Begin, TypeOK, ChildPcs
<1>6. CASE AdoptRun(c)
  BY <1>6, <1>1 DEF AdoptRun, TypeOK, ChildPcs, RunStatus
<1>7. CASE Activate(c)
  BY <1>7, <1>1 DEF Activate, TypeOK, ChildPcs
<1>8. CASE EnsureSupervision(c)
  <2>1. sup' \in SupRow
    BY <1>8 DEF EnsureSupervision, SupRow
  <2> QED BY <1>8, <1>1, <2>1 DEF EnsureSupervision, TypeOK, ChildPcs
<1>9. CASE StartWorker(c)
  BY <1>9, <1>1 DEF StartWorker, TypeOK, ChildPcs
<1>10. CASE OnWorkerStart(c)
  <2>1. sup' \in SupRow
    BY <1>10 DEF OnWorkerStart, SupRow, TypeOK
  <2> QED BY <1>10, <1>1, <2>1 DEF OnWorkerStart, TypeOK, ChildPcs
<1>11. CASE WorkerExits(c)
  BY <1>11 DEF WorkerExits, TypeOK
<1>12. CASE Collect(c)
  BY <1>12, <1>1 DEF Collect, TypeOK, ChildPcs
<1>13. CASE Finish(c)
  BY <1>13, <1>1 DEF Finish, TypeOK, ChildPcs, RunStatus, TERMINAL
<1>14. CASE ReleaseAndExit(c)
  BY <1>14, <1>2, ReleasedType DEF ReleaseAndExit, TypeOK
<1> QED
  BY <1>3, <1>4, <1>5, <1>6, <1>7, <1>8, <1>9, <1>10, <1>11, <1>12, <1>13, <1>14 DEF ChildStep

LEMMA CrashTypes ==
    ASSUME TypeOK, NEW p \in Processes \union Children, Crash(p) PROVE TypeOK'
<1>1. pc \in [Threads -> ThreadPcs]
  BY DEF TypeOK
<1> QED BY <1>1, DieTypes DEF Crash, dbVars, TypeOK

LEMMA TypesKeep == ASSUME TypeOK, [Next]_vars PROVE TypeOK'
<1>1. CASE UNCHANGED vars
  BY <1>1 DEF vars, dbVars, threadVars, childVars, TypeOK
<1>2. CASE Next
  BY <1>2, ThreadTypes, ChildTypes, CrashTypes DEF Next, ThreadStep
<1> QED BY <1>1, <1>2

-----------------------------------------------------------------------------
(* Steps that hand nothing on: they may end operations and processes, and  *)
(* the run, but give nobody a claim.                                       *)

ThreadKeeps(u) ==
    /\ pc'[u] # "idle" => Live(ProcessOf[u])'
    /\ Launching(u)' => Launching(u)
    /\ pc'[u] \in {"claim", "claimR"} => pc[u] \in {"claim", "claimR"}
    /\ Claiming(u)' => Claiming(u) /\ loc'[u].gen = loc[u].gen
    /\ pc'[u] = "adopt" =>
          pc[u] = "adopt" /\ loc'[u].gen = loc[u].gen /\ loc'[u].kid = loc[u].kid

ChildKeeps(d) ==
    \/ cpc[d] # "unborn" /\ cpc'[d] = "done" /\ token'[d] = 0 /\ ~Live(d)'
    \/ /\ token'[d] = token[d] /\ (Live(d)' <=> Live(d))
       /\ Holding(d)' => Holding(d)
       /\ \A p \in {"unborn", "boot", "done"} : cpc'[d] = p <=> cpc[d] = p

RowKeeps ==
    /\ owner'.gen = owner.gen /\ owner'.ident = owner.ident
    /\ Open' => Open /\ (Active(owner)' <=> Active(owner))

Keeps == RowKeeps /\ (\A u \in Threads : ThreadKeeps(u)) /\ (\A d \in Children : ChildKeeps(d))

LEMMA KeepsBasic == ASSUME TypeOK, BasicInv, Keeps PROVE BasicInv'
<1> USE DEF BasicInv, Keeps, RowKeeps
<1>0. owner.gen \in Nat
  BY Fields, OwnerAssumption
<1>1. ThreadsLive'
  BY DEF ThreadsLive, ThreadKeeps
<1>2. ChildrenLive'
  BY DEF ChildrenLive, ChildKeeps
<1>3. TokensFit'
  <2> SUFFICES ASSUME NEW d \in Children
               PROVE  /\ token'[d] =< owner.gen
                      /\ cpc'[d] \in {"unborn", "done"} => token'[d] = 0
                      /\ Holding(d)' => token'[d] # 0
    BY DEF TokensFit
  <2>1. CASE cpc'[d] = "done" /\ token'[d] = 0
    BY <1>0, <2>1 DEF Holding, Working
  <2>2. CASE ~(cpc'[d] = "done" /\ token'[d] = 0)
    BY <2>2 DEF ChildKeeps, TokensFit
  <2> QED BY <2>1, <2>2
<1>4. GensFit'
  BY DEF GensFit, ThreadKeeps
<1>5. KidsFit'
  BY DEF KidsFit, ThreadKeeps, ChildKeeps
<1>6. NamesFit'
  BY DEF NamesFit, ChildKeeps
<1> QED BY <1>1, <1>2, <1>3, <1>4, <1>5, <1>6

LEMMA KeepsOpen == ASSUME TypeOK, BasicInv, OpenInv, Keeps, Open' PROVE OpenInv'
<1> USE DEF OpenInv, Keeps, RowKeeps
<1>1. HoldersOwn'
  <2> SUFFICES ASSUME NEW d \in Children, Holding(d)'
               PROVE  owner.gen = token'[d] /\ owner.ident = d /\ Active(owner)
    BY DEF HoldersOwn
  <2>1. Holding(d) /\ token'[d] = token[d]
    BY DEF ChildKeeps, Holding, Working
  <2> QED BY <2>1 DEF HoldersOwn
<1>2. ClaimantsOwn'
  BY DEF ClaimantsOwn, ThreadKeeps
<1>3. NewClaimsAreDue'
  BY DEF NewClaimsAreDue, ThreadKeeps
<1>4. \A d \in Children : token'[d] # 0 => token'[d] = token[d]
  BY DEF ChildKeeps
<1>5. ReleasedIsFree'
  BY <1>4 DEF ReleasedIsFree, ThreadKeeps
<1>6. OneLaunch'
  BY DEF OneLaunch, ThreadKeeps
<1>7. FreshGens'
  <2> SUFFICES ASSUME NEW t \in Threads, Claiming(t)'
               PROVE  /\ \A c \in Children : token'[c] # loc'[t].gen
                      /\ \A u \in Threads : pc'[u] = "adopt" => loc'[u].gen # loc'[t].gen
    BY DEF FreshGens
  <2>1. Claiming(t) /\ loc'[t].gen = loc[t].gen /\ loc[t].gen # 0
    BY DEF ThreadKeeps, BasicInv, GensFit
  <2> QED BY <1>4, <2>1 DEF FreshGens, ThreadKeeps
<1>8. OneTokenHolder'
  BY <1>4 DEF OneTokenHolder
<1>9. OneKid'
  <2> SUFFICES ASSUME NEW t \in Threads, NEW c \in Children, pc'[t] = "adopt",
                      token'[c] = loc'[t].gen
               PROVE  c = loc'[t].kid
    BY DEF OneKid
  <2>1. pc[t] = "adopt" /\ loc'[t].gen = loc[t].gen /\ loc'[t].kid = loc[t].kid
        /\ loc[t].gen # 0
    BY DEF ThreadKeeps, BasicInv, GensFit
  <2> QED BY <1>4, <2>1 DEF OneKid
<1> QED BY <1>1, <1>2, <1>3, <1>5, <1>6, <1>7, <1>8, <1>9

LEMMA KeepsInv ==
    ASSUME IInv, TypeOK', Keeps, \A c \in Children : Working(c)' => Working(c)
    PROVE  IInv'
BY KeepsBasic, KeepsOpen DEF IInv, Keeps, RowKeeps, OneWorks

\* A thread's move that is such a step.
Quiet == {"idle", "probe", "orphan", "begin", "stopWorker", "stopOwner", "finish", "abort"}

LEMMA ThreadStops ==
    ASSUME IInv, TypeOK', NEW t \in Threads, Live(ProcessOf[t]),
           pc'[t] \in Quiet, \A u \in Threads \ {t} : pc'[u] = pc[u] /\ loc'[u] = loc[u],
           UNCHANGED <<alive, cpc, token>>, RowKeeps
    PROVE  IInv'
<1>1. \A u \in Threads : ThreadKeeps(u)
  BY DEF ThreadKeeps, IInv, BasicInv, ThreadsLive, Live, Launching, Claiming, Quiet
<1>2. \A d \in Children : ChildKeeps(d) /\ (Working(d)' => Working(d))
  BY DEF ChildKeeps, Live, Holding, Working
<1> QED BY <1>1, <1>2, KeepsInv DEF Keeps

LEMMA Moves ==
    ASSUME TypeOK, NEW t \in Threads
    PROVE  /\ \A to : Goto(t, to) =>
                pc'[t] = to /\ \A u \in Threads \ {t} : pc'[u] = pc[u] /\ loc'[u] = loc[u]
           /\ \A to : See(t, to) =>
                pc'[t] = to /\ \A u \in Threads \ {t} : pc'[u] = pc[u] /\ loc'[u] = loc[u]
           /\ Return(t) =>
                pc'[t] = "idle" /\ \A u \in Threads \ {t} : pc'[u] = pc[u] /\ loc'[u] = loc[u]
BY DEF Goto, See, Return, TypeOK

\* The row's fields that matter are kept by whatever changes its state alone.
LEMMA SameOwner ==
    ASSUME UNCHANGED owner, Open' => Open PROVE RowKeeps
BY DEF RowKeeps, Active

LEMMA EndedRow ==
    ASSUME TypeOK, NEW t \in Threads, NEW final \in TERMINAL, Terminalize(t, final)
    PROVE  RowKeeps
BY DEF Terminalize, RowKeeps, Open, TypeOK, OwnerRow

-----------------------------------------------------------------------------
(* Supervisors that reconcile, cancel, or give up.                         *)

LEMMA ReconcileKeeps ==
    ASSUME IInv, TypeOK', NEW t \in Threads, ReconcileStep(t) PROVE IInv'
<1> USE DEF dbVars, childVars, At, Idle
<1>0. TypeOK
  BY DEF IInv
<1>1. CASE ReconcileRead(t) \/ ReconcileProbe(t)
  <2>1. /\ Live(ProcessOf[t]) /\ UNCHANGED <<status, owner, alive, cpc, token>>
        /\ pc'[t] \in Quiet /\ \A u \in Threads \ {t} : pc'[u] = pc[u] /\ loc'[u] = loc[u]
    BY <1>0, <1>1, Moves DEF ReconcileRead, ReconcileProbe, Quiet
  <2> QED BY <2>1, SameOwner, ThreadStops DEF Open
<1>2. CASE ReconcileOrphan(t)
  <2>1. /\ Live(ProcessOf[t]) /\ UNCHANGED <<alive, cpc, token>>
        /\ pc'[t] \in Quiet /\ \A u \in Threads \ {t} : pc'[u] = pc[u] /\ loc'[u] = loc[u]
    BY <1>0, <1>2, Moves DEF ReconcileOrphan, Quiet
  <2>2. RowKeeps
    BY <1>0, <1>2, SameOwner, EndedRow DEF ReconcileOrphan, Open, TERMINAL
  <2> QED BY <2>1, <2>2, ThreadStops
<1> QED BY <1>1, <1>2 DEF ReconcileStep

\* Processes that end, and what they were doing with them.
LEMMA DieKeeps ==
    ASSUME IInv, TypeOK', NEW p \in Processes \union Children, NEW pcs,
           Live(p), Die(p, pcs), RowKeeps,
           \A u \in Threads : pcs[u] = pc[u] \/ (pcs[u] \in Quiet /\ Live(ProcessOf[u]))
    PROVE  IInv'
<1>0. TypeOK /\ ThreadsLive /\ ChildrenLive
  BY DEF IInv, BasicInv
<1>1. \A u \in Threads : ThreadKeeps(u)
  <2> SUFFICES ASSUME NEW u \in Threads PROVE ThreadKeeps(u)
    OBVIOUS
  <2>1. CASE ProcessOf[u] = p
    BY <1>0, <2>1 DEF Die, ThreadKeeps, Launching, Claiming
  <2>2. CASE ProcessOf[u] # p
    <3>1. pc'[u] = pcs[u] /\ loc'[u] = loc[u] /\ (Live(ProcessOf[u])' <=> Live(ProcessOf[u]))
      BY <2>2 DEF Die, Live
    <3> QED BY <1>0, <3>1 DEF ThreadKeeps, ThreadsLive, Launching, Claiming, Quiet
  <2> QED BY <2>1, <2>2
<1>2. \A d \in Children : ChildKeeps(d) /\ (Working(d)' => Working(d))
  <2> SUFFICES ASSUME NEW d \in Children PROVE ChildKeeps(d) /\ (Working(d)' => Working(d))
    OBVIOUS
  <2>1. CASE d = p
    BY <1>0, <2>1 DEF Die, Forget, ChildKeeps, ChildrenLive, Live, Working, TypeOK
  <2>2. CASE d # p
    <3>1. cpc'[d] = cpc[d] /\ token'[d] = token[d] /\ (Live(d)' <=> Live(d))
      BY <1>0, <2>2 DEF Die, Forget, childVars, Live, TypeOK
    <3> QED BY <3>1 DEF ChildKeeps, Holding, Working
  <2> QED BY <2>1, <2>2
<1> QED BY <1>1, <1>2, KeepsInv DEF Keeps

LEMMA CancelKeeps ==
    ASSUME IInv, TypeOK', NEW t \in Threads, CancelStep(t) PROVE IInv'
<1> USE DEF dbVars, childVars, threadVars, At, Idle
<1>0. TypeOK
  BY DEF IInv
<1>1. CASE CancelRead(t) \/ CancelStopWorker(t)
  <2>1. /\ Live(ProcessOf[t]) /\ UNCHANGED <<status, owner, alive, cpc, token>>
        /\ pc'[t] \in Quiet /\ \A u \in Threads \ {t} : pc'[u] = pc[u] /\ loc'[u] = loc[u]
    BY <1>0, <1>1, Moves DEF CancelRead, CancelStopWorker, Quiet
  <2> QED BY <2>1, SameOwner, ThreadStops DEF Open
<1>2. CASE CancelTerminal(t)
  <2>1. RowKeeps
    BY <1>0, <1>2 DEF CancelTerminal, RowKeeps, Open, Released, TypeOK, OwnerRow
  <2>2. /\ Live(ProcessOf[t]) /\ UNCHANGED <<alive, cpc, token, pc, loc>> /\ pc[t] = "idle"
    BY <1>2 DEF CancelTerminal
  <2> QED BY <2>1, <2>2, ThreadStops DEF Quiet
<1>3. CASE CancelBegin(t) \/ CancelAbort(t)
  <2>1. /\ Live(ProcessOf[t]) /\ UNCHANGED <<alive, cpc, token>>
        /\ pc'[t] \in Quiet /\ \A u \in Threads \ {t} : pc'[u] = pc[u] /\ loc'[u] = loc[u]
    BY <1>0, <1>3, Moves DEF CancelBegin, CancelAbort, Quiet
  <2>2. RowKeeps
    <3>1. CASE CancelBegin(t)
      <4>1. status' = status
        BY <3>1 DEF CancelBegin
      <4>2. \/ UNCHANGED owner
            \/ /\ owner.state \in {"CLAIMED", "CANCELLING"}
               /\ owner' = [owner EXCEPT !.state = "CANCELLING", !.agent = ProcessOf[t]]
        BY <3>1 DEF CancelBegin
      <4>3. owner \in OwnerRow
        BY <1>0 DEF TypeOK
      <4> QED BY <4>1, <4>2, <4>3 DEF RowKeeps, Open, Active, ACTIVE_STATES, OwnerRow
    <3>2. CASE CancelAbort(t)
      BY <1>0, <3>2 DEF CancelAbort, RowKeeps, Open, Holds, Active, ACTIVE_STATES, TypeOK, OwnerRow
    <3> QED BY <1>3, <3>1, <3>2
  <2> QED BY <2>1, <2>2, ThreadStops
<1>4. CASE CancelFinish(t)
  <2>1. /\ Live(ProcessOf[t]) /\ UNCHANGED <<alive, cpc, token>>
        /\ pc'[t] \in Quiet /\ \A u \in Threads \ {t} : pc'[u] = pc[u] /\ loc'[u] = loc[u]
    BY <1>0, <1>4, Moves DEF CancelFinish, Quiet
  <2>2. RowKeeps
    BY <1>0, <1>4, SameOwner, EndedRow DEF CancelFinish, Open, TERMINAL
  <2> QED BY <2>1, <2>2, ThreadStops
<1>5. CASE CancelStopOwner(t)
  <2>0. Live(ProcessOf[t]) /\ RowKeeps
    BY <1>5, SameOwner DEF CancelStopOwner, Open
  <2>1. CASE Live(loc[t].seen.ident)
    <3>1. loc[t].seen.ident \in Processes \union Children
      BY <1>0, <2>1 DEF Live, TypeOK
    <3>2. Die(loc[t].seen.ident, [pc EXCEPT ![t] = "finish"])
      BY <1>5, <2>1 DEF CancelStopOwner
    <3>3. \A u \in Threads : \/ [pc EXCEPT ![t] = "finish"][u] = pc[u]
                             \/ [pc EXCEPT ![t] = "finish"][u] \in Quiet /\ Live(ProcessOf[u])
      BY <1>0, <2>0 DEF TypeOK, Quiet
    <3> QED BY <2>0, <2>1, <3>1, <3>2, <3>3, DieKeeps
  <2>2. CASE ~Live(loc[t].seen.ident)
    <3>1. /\ UNCHANGED <<alive, cpc, token>>
          /\ pc'[t] \in Quiet /\ \A u \in Threads \ {t} : pc'[u] = pc[u] /\ loc'[u] = loc[u]
      BY <1>0, <1>5, <2>2, Moves DEF CancelStopOwner, Quiet
    <3> QED BY <2>0, <3>1, ThreadStops
  <2> QED BY <2>1, <2>2
<1> QED BY <1>1, <1>2, <1>3, <1>4, <1>5 DEF CancelStep

LEMMA CrashKeeps ==
    ASSUME IInv, TypeOK', NEW p \in Processes \union Children, Crash(p) PROVE IInv'
<1>1. RowKeeps /\ Die(p, pc) /\ Live(p)
  BY SameOwner DEF Crash, dbVars, Open
<1> QED BY <1>1, DieKeeps

-----------------------------------------------------------------------------
(* Supervisors that launch.                                                *)

\* An operation that begins takes the lock, or finds the claim behind it.
LEMMA LaunchBegins ==
    ASSUME IInv, TypeOK', NEW t \in Threads, EnsureRunning(t) \/ EnsureRecovery(t)
    PROVE  IInv'
<1> USE DEF dbVars, childVars, Idle, Goto
<1>0. TypeOK /\ BasicInv /\ Open /\ OpenInv
  BY DEF IInv, EnsureRunning, EnsureRecovery, Open, TERMINAL
<1>1. /\ UNCHANGED <<status, owner, alive, cpc, token, loc>>
      /\ Live(ProcessOf[t]) /\ pc[t] = "idle" /\ pc'[t] \in {"claim", "claimR"}
      /\ \A u \in Threads \ {t} : pc'[u] = pc[u]
      /\ ~Locked(ProcessOf[t]) /\ ~(owner.ident = ProcessOf[t] /\ Active(owner))
  BY <1>0 DEF EnsureRunning, EnsureRecovery, OwnerLive, TypeOK
<1>2. \A u \in Threads : ProcessOf[u] = ProcessOf[t] => ~Launching(u)
  <2> SUFFICES ASSUME NEW u \in Threads, ProcessOf[u] = ProcessOf[t], Launching(u) PROVE FALSE
    OBVIOUS
  <2>1. CASE Claiming(u)
    BY <1>0, <1>1, <2>1 DEF OpenInv, ClaimantsOwn
  <2>2. CASE ~Claiming(u)
    BY <1>1, <2>2 DEF Launching, Locked
  <2> QED BY <2>1, <2>2
<1>3. BasicInv'
  BY <1>0, <1>1 DEF BasicInv, ThreadsLive, ChildrenLive, TokensFit, GensFit, KidsFit, NamesFit,
                    Live, Claiming, Holding, Working
<1>4. HoldersOwn' /\ ClaimantsOwn' /\ NewClaimsAreDue'
  BY <1>0, <1>1 DEF OpenInv, HoldersOwn, ClaimantsOwn, NewClaimsAreDue, Claiming, Holding, Working,
                    Active
<1>5. ReleasedIsFree' /\ FreshGens' /\ OneTokenHolder' /\ OneKid'
  BY <1>0, <1>1 DEF OpenInv, ReleasedIsFree, FreshGens, OneTokenHolder, OneKid, Claiming, Active
<1>6. OneLaunch'
  BY <1>0, <1>1, <1>2 DEF OpenInv, OneLaunch, Launching, Claiming
<1>7. OneWorks'
  BY <1>1 DEF IInv, OneWorks, Working
<1> QED BY <1>3, <1>4, <1>5, <1>6, <1>7 DEF IInv, OpenInv

\* A supervisor claims: a new generation, or one that it gave back.
LEMMA ClaimKeeps ==
    ASSUME IInv, TypeOK', NEW t \in Threads, LaunchClaim(t) \/ RecoveryClaim(t)
    PROVE  IInv'
<1> USE DEF LaunchClaim, RecoveryClaim, ClaimFor, childVars, At
<1> DEFINE p == ProcessOf[t]
<1>0. /\ TypeOK /\ BasicInv /\ Live(p) /\ p \in Processes /\ p \notin Children
      /\ pc[t] \in {"claim", "claimR"}
      /\ UNCHANGED <<status, alive, cpc, token>>
  BY Fields DEF IInv
<1>1. CASE ClaimRefused(p, 0)
  <2>1. /\ UNCHANGED owner
        /\ pc'[t] \in Quiet /\ \A u \in Threads \ {t} : pc'[u] = pc[u] /\ loc'[u] = loc[u]
    BY <1>0, <1>1, Moves DEF Quiet
  <2> QED BY <1>0, <2>1, SameOwner, ThreadStops DEF Open
<1>2. CASE ~ClaimRefused(p, 0)
  <2>1. Open /\ OpenInv
    BY <1>2 DEF ClaimRefused, Open, IInv
  <2>2. /\ owner' = Claimed(p, 0) /\ loc'[t].gen = owner'.gen
        /\ pc'[t] \in {"popen", "popenR"}
        /\ \A u \in Threads \ {t} : pc'[u] = pc[u] /\ loc'[u] = loc[u]
    <3>1. loc[t] \in Locals /\ loc \in [Threads -> Locals] /\ pc \in [Threads -> ThreadPcs]
      BY <1>0 DEF TypeOK
    <3> QED BY <1>0, <1>2, <3>1 DEF Locals
  <2> HIDE DEF LaunchClaim, RecoveryClaim, ClaimFor
  <2>3. ~(Active(owner) /\ owner.gen # 0 /\ owner.ident # p /\ Live(owner.ident))
    BY <1>2 DEF ClaimRefused
  <2>4. ~(owner.ident = p /\ Active(owner))
    BY <1>0, <2>1 DEF OpenInv, NewClaimsAreDue
  <2>5. owner.gen \in Nat /\ \A c \in Children : token[c] \in Nat /\ token[c] =< owner.gen
    BY <1>0, Fields, OwnerAssumption DEF TypeOK, BasicInv, TokensFit
  <2>6. /\ owner'.gen \in Nat /\ owner'.gen >= owner.gen /\ owner'.gen # 0
        /\ owner'.ident = p /\ Active(owner)'
        /\ owner'.gen = owner.gen => owner.ident = p
        /\ owner'.gen \in {owner.gen, owner.gen + 1}
    BY <2>2, <2>5 DEF Claimed, Active, ACTIVE_STATES
  <2>7. \A c \in Children : ~Holding(c)
    <3> SUFFICES ASSUME NEW c \in Children, Holding(c) PROVE FALSE
      OBVIOUS
    <3>1. owner.gen = token[c] /\ token[c] # 0 /\ owner.ident = c /\ Active(owner) /\ Live(c)
      BY <1>0, <2>1 DEF OpenInv, HoldersOwn, BasicInv, TokensFit, ChildrenLive, Holding, Working
    <3> QED BY <1>0, <2>3, <3>1
  <2>8. \A u \in Threads : ~Claiming(u)
    <3> SUFFICES ASSUME NEW u \in Threads, Claiming(u) PROVE FALSE
      OBVIOUS
    <3>1. owner.gen = loc[u].gen /\ owner.gen # 0 /\ owner.ident = ProcessOf[u] /\ Active(owner)
          /\ Live(ProcessOf[u])
      BY <1>0, <2>1, <2>5 DEF OpenInv, ClaimantsOwn, BasicInv, GensFit, ThreadsLive, Claiming
    <3> QED BY <2>3, <2>4, <3>1
  <2>9. /\ \A c \in Children : token[c] # owner'.gen
        /\ \A u \in Threads : pc[u] = "adopt" => loc[u].gen # owner'.gen
    <3>1. CASE owner'.gen = owner.gen
      BY <1>0, <2>1, <2>4, <2>6, <3>1 DEF OpenInv, ReleasedIsFree
    <3>2. CASE owner'.gen = owner.gen + 1
      BY <1>0, <2>5, <3>2 DEF BasicInv, GensFit
    <3> QED BY <2>6, <3>1, <3>2
  <2>10. BasicInv'
    <3>1. ThreadsLive' /\ ChildrenLive'
      BY <1>0, <2>2 DEF BasicInv, ThreadsLive, ChildrenLive, Live
    <3>2. TokensFit'
      BY <1>0, <2>5, <2>6 DEF BasicInv, TokensFit, Holding, Working
    <3>3. GensFit'
      BY <1>0, <2>2, <2>5, <2>6 DEF BasicInv, GensFit, Claiming
    <3>4. KidsFit'
      BY <1>0, <2>2 DEF BasicInv, KidsFit
    <3>5. NamesFit'
      BY <1>0, <2>6 DEF NamesFit
    <3> QED BY <3>1, <3>2, <3>3, <3>4, <3>5 DEF BasicInv
  <2>11. HoldersOwn'
    BY <1>0, <2>7 DEF HoldersOwn, Holding, Working
  <2>12. ClaimantsOwn'
    BY <2>2, <2>6, <2>8 DEF ClaimantsOwn, Claiming
  <2>13. OneLaunch'
    BY <1>0, <2>1, <2>2 DEF OpenInv, OneLaunch, Launching, Claiming
  <2>14. NewClaimsAreDue'
    BY <1>0, <2>1, <2>2, <2>6 DEF OpenInv, OneLaunch, Launching, NewClaimsAreDue
  <2>15. ReleasedIsFree'
    BY <2>6 DEF ReleasedIsFree
  <2>16. FreshGens'
    BY <1>0, <2>2, <2>8, <2>9 DEF FreshGens, Claiming
  <2>17. OneTokenHolder' /\ OneKid'
    BY <1>0, <2>1, <2>2 DEF OpenInv, OneTokenHolder, OneKid
  <2>18. OneWorks'
    BY <1>0 DEF IInv, OneWorks, Working
  <2> QED BY <2>10, <2>11, <2>12, <2>13, <2>14, <2>15, <2>16, <2>17, <2>18 DEF IInv, OpenInv
<1> QED BY <1>1, <1>2

\* A child is born with the generation that was claimed for it.
LEMMA SpawnKeeps ==
    ASSUME IInv, TypeOK', NEW t \in Threads, SpawnOwner(t) \/ SpawnRecoveryOwner(t)
    PROVE  IInv'
<1> USE DEF At
<1>0. TypeOK /\ BasicInv /\ Live(ProcessOf[t]) /\ Claiming(t) /\ UNCHANGED <<status, owner>>
  BY DEF IInv, SpawnOwner, SpawnRecoveryOwner, Spawn, Claiming, dbVars
<1>1. PICK c \in Children :
          /\ cpc[c] = "unborn" /\ alive' = alive \union {c}
          /\ cpc' = [cpc EXCEPT ![c] = "boot"]
          /\ token' = [token EXCEPT ![c] = loc[t].gen]
          /\ loc' = [loc EXCEPT ![t].kid = c]
  BY DEF SpawnOwner, SpawnRecoveryOwner, Spawn
<1>2. /\ pc'[t] = "adopt" /\ loc'[t].gen = loc[t].gen /\ loc'[t].kid = c
      /\ \A u \in Threads \ {t} : pc'[u] = pc[u] /\ loc'[u] = loc[u]
  <2>1. loc[t] \in Locals /\ loc \in [Threads -> Locals] /\ pc \in [Threads -> ThreadPcs]
    BY <1>0 DEF TypeOK
  <2> QED BY <1>1, <2>1 DEF Locals, SpawnOwner, SpawnRecoveryOwner, Spawn
<1>3. /\ cpc'[c] = "boot" /\ token'[c] = loc[t].gen /\ Live(c)'
      /\ \A d \in Children \ {c} :
            cpc'[d] = cpc[d] /\ token'[d] = token[d] /\ (Live(d)' <=> Live(d))
      /\ \A u \in Threads : Live(ProcessOf[u]) => Live(ProcessOf[u])'
  BY <1>0, <1>1 DEF TypeOK, Live
<1>4. loc[t].gen \in 1..owner.gen /\ owner.gen \in Nat /\ token[c] = 0 /\ owner.ident # c
  BY <1>0, <1>1, Fields, OwnerAssumption DEF BasicInv, GensFit, TokensFit, NamesFit
<1>5. BasicInv'
  <2>1. ThreadsLive' /\ ChildrenLive'
    BY <1>0, <1>2, <1>3 DEF BasicInv, ThreadsLive, ChildrenLive
  <2>2. TokensFit'
    BY <1>0, <1>3, <1>4 DEF BasicInv, TokensFit, Holding, Working
  <2>3. GensFit'
    BY <1>0, <1>2, <1>4 DEF BasicInv, GensFit, Claiming
  <2>4. KidsFit'
    <3> SUFFICES ASSUME NEW u \in Threads, pc'[u] = "adopt"
                 PROVE  /\ loc'[u].kid \in Children /\ cpc'[loc'[u].kid] # "unborn"
                        /\ cpc'[loc'[u].kid] = "boot" => token'[loc'[u].kid] = loc'[u].gen
      BY DEF KidsFit
    <3>1. CASE u = t
      BY <1>2, <1>3, <3>1
    <3>2. CASE u # t
      BY <1>0, <1>1, <1>2, <1>3, <3>2 DEF BasicInv, KidsFit
    <3> QED BY <3>1, <3>2
  <2>5. NamesFit'
    BY <1>0, <1>3, <1>4 DEF BasicInv, NamesFit
  <2> QED BY <2>1, <2>2, <2>3, <2>4, <2>5 DEF BasicInv
<1>6. ASSUME Open' PROVE OpenInv'
  <2>0. OpenInv
    BY <1>0, <1>6 DEF IInv, Open
  <2>1. HoldersOwn'
    BY <1>0, <1>3, <2>0 DEF OpenInv, HoldersOwn, Holding, Working, Active
  <2>2. ClaimantsOwn' /\ NewClaimsAreDue'
    BY <1>0, <1>2, <2>0 DEF OpenInv, ClaimantsOwn, NewClaimsAreDue, Claiming, Active
  <2>3. ReleasedIsFree'
    BY <1>0, <2>0 DEF OpenInv, ClaimantsOwn, ReleasedIsFree, Active
  <2>4. OneLaunch'
    BY <1>0, <1>2, <2>0 DEF OpenInv, OneLaunch, Launching, Claiming
  <2>5. \A u \in Threads : Claiming(u)' => Claiming(u) /\ u # t /\ loc'[u].gen # loc[t].gen
    <3> SUFFICES ASSUME NEW u \in Threads, Claiming(u)', loc'[u].gen = loc[t].gen PROVE FALSE
      BY <1>2 DEF Claiming
    <3>1. Claiming(u) /\ u # t
      BY <1>2 DEF Claiming
    <3>2. ProcessOf[u] = ProcessOf[t]
      BY <1>0, <2>0, <3>1 DEF OpenInv, ClaimantsOwn
    <3> QED BY <1>0, <2>0, <3>1, <3>2 DEF OpenInv, OneLaunch, Launching
  <2>6. FreshGens'
    BY <1>2, <1>3, <2>0, <2>5 DEF OpenInv, FreshGens
  <2>7. OneTokenHolder' /\ OneKid'
    BY <1>0, <1>2, <1>3, <2>0 DEF OpenInv, FreshGens, OneTokenHolder, OneKid
  <2> QED BY <2>1, <2>2, <2>3, <2>4, <2>6, <2>7 DEF OpenInv
<1>7. OneWorks'
  BY <1>3 DEF IInv, OneWorks, Working
<1> QED BY <1>5, <1>6, <1>7 DEF IInv

\* The launcher names its child, if the generation still is the child's.
LEMMA AdoptKeeps ==
    ASSUME IInv, TypeOK', NEW t \in Threads, AdoptIdentity(t) PROVE IInv'
<1> USE DEF AdoptIdentity, At, childVars
<1>0. /\ TypeOK /\ BasicInv /\ Live(ProcessOf[t]) /\ pc[t] = "adopt"
      /\ UNCHANGED <<status, alive, cpc, token, loc>>
      /\ pc'[t] = "watch" /\ \A u \in Threads \ {t} : pc'[u] = pc[u]
  BY DEF IInv, Goto, TypeOK
<1>1. CASE ~Holds(loc[t].gen, "CLAIMED")
  <2>1. owner' = owner
    BY <1>1
  <2>2. \A u \in Threads : ThreadKeeps(u)
    BY <1>0 DEF ThreadKeeps, Live, Launching, Claiming, BasicInv, ThreadsLive
  <2>3. \A d \in Children : ChildKeeps(d) /\ (Working(d)' => Working(d))
    BY <1>0 DEF ChildKeeps, Live, Holding, Working
  <2> QED BY <1>0, <2>1, <2>2, <2>3, SameOwner, KeepsInv DEF Keeps, Open
<1>2. CASE Holds(loc[t].gen, "CLAIMED")
  <2> DEFINE k == loc[t].kid
  <2>1. /\ k \in Children /\ cpc[k] # "unborn" /\ k \notin Processes
        /\ cpc[k] = "boot" => token[k] = loc[t].gen
    BY <1>0, Fields DEF BasicInv, KidsFit
  <2>2. /\ owner'.gen = owner.gen /\ owner.gen = loc[t].gen /\ owner'.ident = k
        /\ Active(owner) /\ Active(owner)' /\ owner'.state = owner.state
    BY <1>0, <1>2 DEF Holds, Active, ACTIVE_STATES, TypeOK, OwnerRow
  <2> HIDE DEF k, AdoptIdentity
  <2>3. BasicInv'
    <3>1. ThreadsLive' /\ ChildrenLive' /\ TokensFit' /\ GensFit' /\ KidsFit'
      BY <1>0, <2>2 DEF BasicInv, ThreadsLive, ChildrenLive, TokensFit, GensFit, KidsFit, Live,
                        Holding, Working, Claiming
    <3>2. NamesFit'
      BY <1>0, <2>1, <2>2 DEF NamesFit
    <3> QED BY <3>1, <3>2 DEF BasicInv
  <2>4. ASSUME Open' PROVE OpenInv'
    <3>0. OpenInv
      BY <1>0, <2>4 DEF IInv, Open
    <3>1. HoldersOwn'
      <4> SUFFICES ASSUME NEW c \in Children, Holding(c)
                   PROVE  owner'.gen = token[c] /\ owner'.ident = c /\ Active(owner)'
        BY <1>0 DEF HoldersOwn, Holding, Working
      <4>1. owner.gen = token[c]
        BY <3>0 DEF OpenInv, HoldersOwn
      <4>2. c = k
        BY <1>0, <2>2, <3>0, <4>1 DEF OpenInv, OneKid, k
      <4> QED BY <2>2, <4>1, <4>2
    <3>2. \A u \in Threads : ~Claiming(u)
      BY <1>0, <2>2, <3>0 DEF OpenInv, ClaimantsOwn, FreshGens
    <3>3. ClaimantsOwn' /\ FreshGens'
      BY <1>0, <3>2 DEF ClaimantsOwn, FreshGens, Claiming
    <3>4. NewClaimsAreDue'
      BY <1>0, <2>1, <2>2, Fields DEF NewClaimsAreDue
    <3>5. ReleasedIsFree'
      BY <2>2 DEF ReleasedIsFree
    <3>6. OneLaunch' /\ OneTokenHolder' /\ OneKid'
      BY <1>0, <3>0 DEF OpenInv, OneLaunch, OneTokenHolder, OneKid, Launching, Claiming
    <3> QED BY <3>1, <3>3, <3>4, <3>5, <3>6 DEF OpenInv
  <2>5. OneWorks'
    BY <1>0 DEF IInv, OneWorks, Working
  <2> QED BY <2>3, <2>4, <2>5 DEF IInv
<1> QED BY <1>1, <1>2

\* A generation for which no child could be started is given back.
LEMMA UnclaimKeeps ==
    ASSUME IInv, TypeOK', NEW t \in Threads, Unclaim(t) PROVE IInv'
<1> USE DEF Unclaim, At, childVars
<1>0. /\ TypeOK /\ BasicInv /\ Live(ProcessOf[t]) /\ Claiming(t)
      /\ UNCHANGED <<status, alive, cpc, token>>
      /\ pc'[t] \in {"failrun", "idle"}
      /\ \A u \in Threads \ {t} : pc'[u] = pc[u] /\ loc'[u] = loc[u]
  BY Moves DEF IInv, Claiming
<1>1. /\ owner'.gen = owner.gen /\ owner'.ident = owner.ident
      /\ Active(owner)' => Active(owner)
  BY <1>0 DEF Released, Active, Holds, ACTIVE_STATES, TypeOK, OwnerRow
<1> HIDE DEF Unclaim
<1>2. BasicInv'
  BY <1>0, <1>1 DEF BasicInv, ThreadsLive, ChildrenLive, TokensFit, GensFit, KidsFit, NamesFit, Live,
                    Holding, Working, Claiming
<1>3. ASSUME Open' PROVE OpenInv'
  <2>0. OpenInv
    BY <1>0, <1>3 DEF IInv, Open
  <2>1. owner.gen = loc[t].gen /\ owner.ident = ProcessOf[t] /\ ProcessOf[t] \in Processes
        /\ ProcessOf[t] \notin Children
    BY <1>0, <2>0, Fields DEF OpenInv, ClaimantsOwn
  <2>2. \A c \in Children : ~Holding(c)
    BY <2>0, <2>1 DEF OpenInv, HoldersOwn
  <2>3. \A u \in Threads : ~Claiming(u)'
    <3> SUFFICES ASSUME NEW u \in Threads, Claiming(u)' PROVE FALSE
      OBVIOUS
    <3>1. u # t /\ Claiming(u)
      BY <1>0 DEF Claiming
    <3>2. ProcessOf[u] = ProcessOf[t]
      BY <2>0, <2>1, <3>1 DEF OpenInv, ClaimantsOwn
    <3> QED BY <1>0, <2>0, <3>1, <3>2 DEF OpenInv, OneLaunch, Launching
  <2>4. HoldersOwn' /\ ClaimantsOwn' /\ FreshGens'
    BY <1>0, <2>2, <2>3 DEF HoldersOwn, Holding, Working, ClaimantsOwn, FreshGens
  <2>5. NewClaimsAreDue'
    BY <1>0, <1>1, <2>0 DEF OpenInv, NewClaimsAreDue
  <2>6. ReleasedIsFree'
    BY <1>0, <1>1, <2>0, <2>1 DEF OpenInv, FreshGens, ReleasedIsFree
  <2>7. OneLaunch' /\ OneTokenHolder' /\ OneKid'
    BY <1>0, <2>0 DEF OpenInv, OneLaunch, OneTokenHolder, OneKid, Launching, Claiming
  <2> QED BY <2>4, <2>5, <2>6, <2>7 DEF OpenInv
<1>4. OneWorks'
  BY <1>0 DEF IInv, OneWorks, Working
<1> QED BY <1>2, <1>3, <1>4 DEF IInv

LEMMA LaunchKeeps ==
    ASSUME IInv, TypeOK', NEW t \in Threads, LaunchStep(t) \/ RecoverStep(t) PROVE IInv'
<1> USE DEF dbVars, childVars, At
<1>0. TypeOK /\ ThreadsLive
  BY DEF IInv, BasicInv
<1>1. CASE SpawnFails(t) \/ PersistRead(t)
  <2>1. /\ UNCHANGED <<status, owner, alive, cpc, token>> /\ Live(ProcessOf[t])
        /\ \A u \in Threads \ {t} : pc'[u] = pc[u] /\ loc'[u] = loc[u]
        /\ \/ Claiming(t) /\ pc'[t] \in {"unclaim", "unclaimR"} /\ loc'[t] = loc[t]
           \/ Launching(t) /\ pc'[t] = "watched"
    BY <1>0, <1>1 DEF SpawnFails, PersistRead, Goto, Claiming, Launching, TypeOK
  <2>2. \A u \in Threads : ThreadKeeps(u)
    BY <1>0, <2>1 DEF ThreadKeeps, ThreadsLive, Live, Launching, Claiming
  <2>3. \A d \in Children : ChildKeeps(d) /\ (Working(d)' => Working(d))
    BY <2>1 DEF ChildKeeps, Live, Holding, Working
  <2> QED BY <2>1, <2>2, <2>3, SameOwner, KeepsInv DEF Keeps, Open
<1>2. CASE FailRun(t) \/ PersistWrite(t)
  <2>1. /\ UNCHANGED <<owner, alive, cpc, token>> /\ Live(ProcessOf[t]) /\ (Open' => Open)
        /\ pc'[t] \in Quiet /\ \A u \in Threads \ {t} : pc'[u] = pc[u] /\ loc'[u] = loc[u]
    BY <1>0, <1>2, Moves DEF FailRun, PersistWrite, Quiet, Open, TERMINAL
  <2> QED BY <2>1, SameOwner, ThreadStops
<1> QED BY <1>1, <1>2, LaunchBegins, ClaimKeeps, SpawnKeeps, AdoptKeeps, UnclaimKeeps
    DEF LaunchStep, RecoverStep

-----------------------------------------------------------------------------
(* Children.                                                               *)

\* One child moves and nothing else does.
LEMMA ChildMoves ==
    ASSUME IInv, TypeOK', NEW c \in Children, Holding(c), NEW to, Then(c, to),
           UNCHANGED <<alive, threadVars, token>>, RowKeeps,
           to \in {"adopt", "exec", "dispatch", "spawn", "ident", "wait", "release"}
    PROVE  /\ Keeps /\ cpc'[c] = to
           /\ Working(c)' => to # "release"
           /\ \A d \in Children \ {c} : Working(d)' <=> Working(d)
<1>1. cpc'[c] = to /\ \A d \in Children \ {c} : cpc'[d] = cpc[d]
  BY DEF Then, IInv, TypeOK
<1>2. \A u \in Threads : ThreadKeeps(u)
  BY DEF threadVars, ThreadKeeps, IInv, BasicInv, ThreadsLive, Live, Launching, Claiming
<1>3. \A d \in Children : ChildKeeps(d)
  BY <1>1 DEF ChildKeeps, Live, Holding, Working
<1> QED BY <1>1, <1>2, <1>3 DEF Keeps, Working

LEMMA ExecutionKeeps ==
    ASSUME IInv, TypeOK', NEW c \in Children,
           \/ AdoptRun(c) \/ Activate(c) \/ EnsureSupervision(c) \/ StartWorker(c)
           \/ OnWorkerStart(c) \/ Collect(c) \/ Finish(c)
    PROVE  IInv'
<1> USE DEF dbVars, Doing
<1>1. PICK to : /\ Then(c, to)
                /\ to \in {"exec", "dispatch", "spawn", "ident", "wait", "release"}
  BY DEF AdoptRun, Activate, EnsureSupervision, StartWorker, OnWorkerStart, Collect, Finish
<1>2. /\ UNCHANGED <<owner, alive, threadVars, token>> /\ (Open' => Open)
      /\ Working(c) /\ Holding(c)
  BY DEF AdoptRun, Activate, EnsureSupervision, StartWorker, OnWorkerStart, Collect, Finish, Open,
         TERMINAL, Working, Holding
<1>3. Keeps /\ \A d \in Children \ {c} : Working(d)' <=> Working(d)
  BY <1>1, <1>2, SameOwner, ChildMoves
<1> QED BY <1>2, <1>3, KeepsInv

\* A child begins to work if the run has not ended; then it alone has the claim.
LEMMA BeginKeeps ==
    ASSUME IInv, TypeOK', NEW c \in Children, Begin(c) PROVE IInv'
<1> USE DEF Begin, Doing
<1>1. PICK to \in {"adopt", "exec", "release"} :
          Then(c, to) /\ (to # "release" => Open)
  BY DEF Open, TERMINAL
<1>2. UNCHANGED <<status, owner, alive, threadVars, token>> /\ Holding(c)
  BY DEF Holding
<1> HIDE DEF Begin, Doing
<1>3. /\ Keeps /\ (Working(c)' => to # "release")
      /\ \A d \in Children \ {c} : Working(d)' <=> Working(d)
  BY <1>1, <1>2, SameOwner, ChildMoves DEF Open
<1>4. CASE to = "release"
  BY <1>3, <1>4, KeepsInv
<1>5. CASE to # "release"
  <2>1. Open /\ OpenInv /\ TypeOK /\ BasicInv
    BY <1>1, <1>5 DEF IInv
  <2>2. BasicInv' /\ (Open' => OpenInv')
    BY <1>3, <2>1, KeepsBasic, KeepsOpen
  <2>3. \A d \in Children \ {c} : ~Working(d)
    BY <1>2, <2>1 DEF OpenInv, HoldersOwn, Holding
  <2>4. OneWorks'
    BY <1>3, <2>3 DEF OneWorks
  <2> QED BY <2>2, <2>4 DEF IInv
<1> QED BY <1>4, <1>5

LEMMA RunByHandKeeps ==
    ASSUME IInv, TypeOK', NEW c \in Children, RunByHand(c) PROVE IInv'
<1>0. /\ TypeOK /\ BasicInv /\ UNCHANGED <<status, owner, pc, loc, token>>
      /\ cpc[c] = "unborn" /\ cpc'[c] = "boot" /\ Live(c)' /\ token[c] = 0
      /\ \A d \in Children \ {c} : cpc'[d] = cpc[d] /\ (Live(d)' <=> Live(d))
      /\ \A u \in Threads : Live(ProcessOf[u]) => Live(ProcessOf[u])'
  BY DEF IInv, RunByHand, dbVars, threadVars, Then, Live, TypeOK, BasicInv, TokensFit
<1>1. BasicInv'
  <2>1. ThreadsLive' /\ ChildrenLive' /\ TokensFit' /\ GensFit'
    BY <1>0 DEF BasicInv, ThreadsLive, ChildrenLive, TokensFit, GensFit, Holding, Working, Claiming
  <2>2. KidsFit'
    BY <1>0 DEF BasicInv, KidsFit
  <2>3. NamesFit'
    BY <1>0 DEF BasicInv, NamesFit
  <2> QED BY <2>1, <2>2, <2>3 DEF BasicInv
<1>2. OneWorks'
  BY <1>0 DEF IInv, OneWorks, Working
<1>3. ASSUME Open' PROVE OpenInv'
  <2>0. OpenInv
    BY <1>0, <1>3 DEF IInv, Open
  <2>1. HoldersOwn'
    BY <1>0, <2>0 DEF OpenInv, HoldersOwn, Holding, Working, Active
  <2>2. /\ ClaimantsOwn' /\ NewClaimsAreDue' /\ ReleasedIsFree' /\ OneLaunch' /\ FreshGens'
        /\ OneTokenHolder' /\ OneKid'
    BY <1>0, <2>0 DEF OpenInv, ClaimantsOwn, NewClaimsAreDue, ReleasedIsFree, OneLaunch, FreshGens,
                      OneTokenHolder, OneKid, Claiming, Launching, Active
  <2> QED BY <2>1, <2>2 DEF OpenInv
<1> QED BY <1>1, <1>2, <1>3 DEF IInv

\* A process that is not born or has ended, as children do that end by themselves.
LEMMA ExitKeeps ==
    ASSUME TypeOK, NEW c \in Children, cpc[c] # "unborn", Exit(c), UNCHANGED threadVars,
           ThreadsLive
    PROVE  /\ \A u \in Threads : ThreadKeeps(u)
           /\ \A d \in Children : ChildKeeps(d) /\ (Working(d)' => Working(d))
           /\ cpc'[c] = "done"
           /\ \A d \in Children \ {c} : cpc'[d] = cpc[d] /\ token'[d] = token[d]
<1>1. /\ cpc'[c] = "done" /\ token'[c] = 0 /\ ~Live(c)'
      /\ \A d \in Children \ {c} :
            cpc'[d] = cpc[d] /\ token'[d] = token[d] /\ (Live(d)' <=> Live(d))
  BY DEF Exit, Forget, Live, TypeOK
<1>2. \A u \in Threads : Live(ProcessOf[u]) => Live(ProcessOf[u])'
  BY Fields DEF Exit, Live
<1>3. \A u \in Threads : ThreadKeeps(u)
  BY <1>2 DEF threadVars, ThreadKeeps, ThreadsLive, Launching, Claiming
<1>4. \A d \in Children : ChildKeeps(d) /\ (Working(d)' => Working(d))
  BY <1>1 DEF ChildKeeps, Holding, Working
<1> QED BY <1>1, <1>3, <1>4

\* A child claims the generation reserved for it, or without a reservation a new one.
LEMMA ChildClaimKeeps ==
    ASSUME IInv, TypeOK', NEW c \in Children, Claim(c) PROVE IInv'
<1> USE DEF Claim, Doing
<1>0. TypeOK /\ BasicInv /\ cpc[c] = "boot" /\ Live(c) /\ UNCHANGED <<status, threadVars>>
      /\ c \notin Processes
  BY Fields DEF IInv
<1>1. CASE ClaimRefused(c, token[c])
  <2>1. Exit(c) /\ UNCHANGED owner
    BY <1>1
  <2>2. Keeps /\ \A d \in Children : Working(d)' => Working(d)
    BY <1>0, <2>1, ExitKeeps, SameOwner DEF Keeps, Open, BasicInv
  <2> QED BY <2>2, KeepsInv
<1>2. CASE ~ClaimRefused(c, token[c])
  <2>1. Open /\ OpenInv
    BY <1>2 DEF ClaimRefused, Open, IInv
  <2>2. /\ owner' = Claimed(c, token[c]) /\ token'[c] = owner'.gen /\ cpc'[c] = "begin"
        /\ UNCHANGED alive
        /\ \A d \in Children \ {c} : cpc'[d] = cpc[d] /\ token'[d] = token[d]
    BY <1>0, <1>2 DEF Then, TypeOK
  <2>3. /\ ~(owner # NoOwner /\ token[c] # 0 /\ token[c] # owner.gen)
        /\ ~(Active(owner) /\ token[c] # owner.gen /\ owner.ident # c /\ Live(owner.ident))
    BY <1>2 DEF ClaimRefused
  <2> HIDE DEF Claim
  <2>4. owner.gen \in Nat /\ \A d \in Children : token[d] \in Nat /\ token[d] =< owner.gen
    BY <1>0, Fields, OwnerAssumption DEF TypeOK, BasicInv, TokensFit
  <2>5. token[c] # 0 => token[c] = owner.gen
    BY <2>3, <2>4 DEF NoOwner
  <2>6. owner.ident = c => token[c] = owner.gen
    BY <1>0 DEF BasicInv, NamesFit
  <2>7. /\ owner'.ident = c /\ Active(owner)' /\ owner'.gen \in Nat /\ owner'.gen # 0
        /\ owner'.gen = IF token[c] # 0 THEN owner.gen ELSE owner.gen + 1
    BY <2>2, <2>4, <2>5, <2>6 DEF Claimed, Active, ACTIVE_STATES
  <2>8. \A d \in Children : ~Holding(d)
    <3> SUFFICES ASSUME NEW d \in Children, Holding(d) PROVE FALSE
      OBVIOUS
    <3>1. owner.gen = token[d] /\ token[d] # 0 /\ owner.ident = d /\ Active(owner) /\ Live(d)
      BY <1>0, <2>1 DEF OpenInv, HoldersOwn, BasicInv, TokensFit, ChildrenLive, Holding, Working
    <3>2. d # c
      BY <1>0 DEF Holding, Working
    <3>3. token[c] = owner.gen
      BY <2>3, <3>1, <3>2
    <3> QED BY <2>1, <3>1, <3>2, <3>3 DEF OpenInv, OneTokenHolder
  <2>9. \A u \in Threads : ~Claiming(u)
    <3> SUFFICES ASSUME NEW u \in Threads, Claiming(u) PROVE FALSE
      OBVIOUS
    <3>1. owner.gen = loc[u].gen /\ owner.ident = ProcessOf[u] /\ Active(owner)
          /\ Live(ProcessOf[u]) /\ owner.ident # c
      BY <1>0, <2>1, Fields DEF OpenInv, ClaimantsOwn, BasicInv, ThreadsLive, Claiming
    <3>2. token[c] = owner.gen
      BY <2>3, <3>1
    <3> QED BY <2>1, <3>1, <3>2 DEF OpenInv, FreshGens
  <2>10. \A d \in Children \ {c} : token[d] # owner'.gen
    <3>1. CASE token[c] # 0
      BY <2>1, <2>5, <2>7, <3>1 DEF OpenInv, OneTokenHolder
    <3>2. CASE token[c] = 0
      BY <2>4, <2>7, <3>2
    <3> QED BY <3>1, <3>2
  <2>11. BasicInv'
    <3>1. ThreadsLive' /\ ChildrenLive'
      BY <1>0, <2>2 DEF threadVars, BasicInv, ThreadsLive, ChildrenLive, Live
    <3>2. TokensFit'
      BY <1>0, <2>2, <2>4, <2>7 DEF BasicInv, TokensFit, Holding, Working
    <3>3. GensFit'
      BY <1>0, <2>4, <2>7 DEF threadVars, BasicInv, GensFit, Claiming
    <3>4. KidsFit'
      BY <1>0, <2>2 DEF threadVars, BasicInv, KidsFit
    <3>5. NamesFit'
      BY <2>2, <2>7 DEF NamesFit
    <3> QED BY <3>1, <3>2, <3>3, <3>4, <3>5 DEF BasicInv
  <2>12. HoldersOwn'
    BY <2>2, <2>7, <2>8 DEF HoldersOwn, Holding, Working
  <2>13. ClaimantsOwn' /\ FreshGens'
    BY <1>0, <2>9 DEF threadVars, ClaimantsOwn, FreshGens, Claiming
  <2>14. NewClaimsAreDue'
    BY <1>0, <2>7, Fields DEF threadVars, NewClaimsAreDue
  <2>15. ReleasedIsFree'
    BY <2>7 DEF ReleasedIsFree
  <2>16. OneLaunch'
    BY <1>0, <2>1 DEF threadVars, OpenInv, OneLaunch, Launching, Claiming
  <2>17. OneTokenHolder'
    BY <2>1, <2>2, <2>10 DEF OpenInv, OneTokenHolder
  <2>18. OneKid'
    <3> SUFFICES ASSUME NEW u \in Threads, NEW d \in Children, pc[u] = "adopt",
                        token'[d] = loc[u].gen
                 PROVE  d = loc[u].kid
      BY <1>0 DEF threadVars, OneKid
    <3>1. CASE d # c \/ token[c] # 0
      BY <2>1, <2>2, <2>5, <2>7, <3>1 DEF OpenInv, OneKid
    <3>2. CASE d = c /\ token[c] = 0
      BY <1>0, <2>2, <2>4, <2>7, <3>2 DEF BasicInv, GensFit
    <3> QED BY <3>1, <3>2
  <2>19. OneWorks'
    BY <2>2, <2>8 DEF OneWorks, Holding, Working
  <2> QED BY <2>11, <2>12, <2>13, <2>14, <2>15, <2>16, <2>17, <2>18, <2>19 DEF IInv, OpenInv
<1> QED BY <1>1, <1>2

\* A child releases its own generation and nobody else's.
LEMMA ReleaseKeeps ==
    ASSUME IInv, TypeOK', NEW c \in Children, ReleaseAndExit(c) PROVE IInv'
<1> USE DEF ReleaseAndExit, Doing
<1>0. /\ TypeOK /\ BasicInv /\ Holding(c) /\ cpc[c] # "unborn" /\ c \notin Processes
      /\ Exit(c) /\ UNCHANGED <<status, threadVars>>
  BY Fields DEF IInv, Holding
<1>1. /\ owner'.gen = owner.gen /\ owner'.ident = owner.ident
      /\ Active(owner)' => Active(owner)
  BY <1>0 DEF Released, Active, Holds, ACTIVE_STATES, TypeOK, OwnerRow
<1> HIDE DEF ReleaseAndExit
<1>2. /\ \A u \in Threads : ThreadKeeps(u)
      /\ \A d \in Children : ChildKeeps(d) /\ (Working(d)' => Working(d))
      /\ cpc'[c] = "done"
      /\ \A d \in Children \ {c} : cpc'[d] = cpc[d] /\ token'[d] = token[d]
  BY <1>0, ExitKeeps DEF BasicInv
<1>3. CASE ~Open
  <2>1. Keeps
    BY <1>0, <1>1, <1>2, <1>3 DEF Keeps, RowKeeps, Open
  <2> QED BY <1>2, <2>1, KeepsInv
<1>4. CASE Open
  <2>0. OpenInv
    BY <1>4 DEF IInv
  <2>1. owner.gen = token[c] /\ owner.ident = c
    BY <1>0, <2>0 DEF OpenInv, HoldersOwn
  <2>2. \A d \in Children \ {c} : ~Holding(d)
    BY <2>0, <2>1 DEF OpenInv, HoldersOwn
  <2>3. \A u \in Threads : ~Claiming(u)
    BY <1>0, <2>0, <2>1, Fields DEF OpenInv, ClaimantsOwn
  <2>4. BasicInv'
    \* The row's state is no part of it, so the step is as one that keeps the row.
    <3>1. TokensFit' /\ NamesFit'
      BY <1>0, <1>1, <1>2, Fields, OwnerAssumption
         DEF BasicInv, TokensFit, NamesFit, ChildKeeps, Holding, Working
    <3>2. ThreadsLive' /\ ChildrenLive'
      BY <1>0, <1>2 DEF ThreadsLive, ThreadKeeps, BasicInv, ChildrenLive, ChildKeeps
    <3>3. GensFit' /\ KidsFit'
      BY <1>0, <1>1, <1>2 DEF BasicInv, GensFit, KidsFit, ThreadKeeps, ChildKeeps, threadVars, Claiming
    <3> QED BY <3>1, <3>2, <3>3 DEF BasicInv
  <2>5. HoldersOwn'
    BY <1>2, <2>2 DEF HoldersOwn, Holding, Working
  <2>6. ClaimantsOwn' /\ FreshGens'
    BY <1>0, <2>3 DEF threadVars, ClaimantsOwn, FreshGens, Claiming
  <2>7. NewClaimsAreDue'
    BY <1>0, <1>1, <2>0 DEF threadVars, OpenInv, NewClaimsAreDue
  <2>8. ReleasedIsFree'
    BY <1>0, <1>1, <2>1 DEF ReleasedIsFree
  <2>9. OneLaunch'
    BY <1>0, <2>0 DEF threadVars, OpenInv, OneLaunch, Launching, Claiming
  <2>10. OneTokenHolder' /\ OneKid'
    <3>1. \A d \in Children : token'[d] # 0 => token'[d] = token[d]
      BY <1>2 DEF ChildKeeps
    <3>2. \A u \in Threads : pc[u] = "adopt" => loc[u].gen # 0
      BY <1>0 DEF BasicInv, GensFit
    <3> QED BY <1>0, <2>0, <3>1, <3>2 DEF threadVars, OpenInv, OneTokenHolder, OneKid
  <2>11. OneWorks'
    BY <1>2 DEF IInv, OneWorks
  <2> QED BY <2>4, <2>5, <2>6, <2>7, <2>8, <2>9, <2>10, <2>11 DEF IInv, OpenInv
<1> QED BY <1>3, <1>4

-----------------------------------------------------------------------------
(* The invariant.                                                          *)

LEMMA InitFits == Init => IInv
<1> SUFFICES ASSUME Init PROVE IInv
  OBVIOUS
<1> USE DEF Init
<1>1. TypeOK
  <2>1. loc \in [Threads -> Locals] /\ owner \in OwnerRow /\ sup \in SupRow
    BY NothingKnown
  <2>2. /\ pc \in [Threads -> ThreadPcs] /\ cpc \in [Children -> ChildPcs]
        /\ mode \in [Children -> {"run", "recover"}] /\ token \in [Children -> 0..MaxGen]
        /\ worker \in [Children -> {"none", "live", "gone"}]
    BY OwnerAssumption DEF ThreadPcs, ChildPcs
  <2> QED BY <2>1, <2>2 DEF TypeOK, RunStatus
<1>2. owner.gen = 0 /\ owner.ident = Nobody /\ ~Active(owner)
  BY DEF NoOwner, Active, ACTIVE_STATES
<1>3. BasicInv
  BY <1>2, OwnerAssumption DEF BasicInv, ThreadsLive, ChildrenLive, TokensFit, GensFit, KidsFit, NamesFit,
                               Live, Holding, Working, Claiming
<1>4. OneWorks /\ OpenInv
  BY <1>2, OwnerAssumption
     DEF OneWorks, OpenInv, HoldersOwn, ClaimantsOwn, NewClaimsAreDue, ReleasedIsFree, OneLaunch,
         FreshGens, OneTokenHolder, OneKid, Launching, Holding, Working, Claiming
<1> QED BY <1>1, <1>3, <1>4 DEF IInv

LEMMA StepsKeep == IInv /\ [Next]_vars => IInv'
<1> SUFFICES ASSUME IInv, [Next]_vars PROVE IInv'
  OBVIOUS
<1>0. TypeOK'
  BY TypesKeep DEF IInv
<1>1. CASE UNCHANGED vars \/ \E c \in Children : WorkerExits(c)
  <2>1. UNCHANGED <<status, owner, alive, pc, loc, cpc, token>>
    BY <1>1 DEF WorkerExits, vars, dbVars, threadVars, childVars
  <2>2. RowKeeps
    BY <2>1, SameOwner DEF Open
  <2>3. \A u \in Threads : ThreadKeeps(u)
    BY <2>1 DEF ThreadKeeps, IInv, BasicInv, ThreadsLive, Live, Launching, Claiming
  <2>4. \A d \in Children : ChildKeeps(d) /\ (Working(d)' => Working(d))
    BY <2>1 DEF ChildKeeps, Live, Holding, Working
  <2> QED BY <1>0, <2>2, <2>3, <2>4, KeepsInv DEF Keeps
<1>2. ASSUME NEW t \in Threads, ThreadStep(t) PROVE IInv'
  BY <1>0, <1>2, LaunchKeeps, ReconcileKeeps, CancelKeeps DEF ThreadStep
<1>3. ASSUME NEW c \in Children, ChildStep(c) \/ RunByHand(c) PROVE IInv'
  BY <1>0, <1>3, ChildClaimKeeps, BeginKeeps, ExecutionKeeps, ReleaseKeeps, RunByHandKeeps
     DEF ChildStep
<1>4. ASSUME NEW p \in Processes \union Children, Crash(p) PROVE IInv'
  BY <1>0, <1>4, CrashKeeps
<1> QED BY <1>1, <1>2, <1>3, <1>4 DEF Next

LEMMA Invariant == Spec => []IInv
BY InitFits, StepsKeep, PTL DEF Spec

LEMMA ExecutorsWork == ASSUME NEW c \in Children, Executing(c) PROVE Working(c) /\ Holding(c)
BY DEF Executing, Working, Holding

-----------------------------------------------------------------------------
(* The theorems.                                                           *)

\* Every state has the types of the three rows (db.py).
THEOREM OwnerTypes == Spec => []TypeOK
<1>1. IInv => TypeOK
  BY DEF IInv
<1> QED BY <1>1, Invariant, PTL

\* A run is executed by one process at a time, whatever is launched, recovered, cancelled
\* or killed (claim_execution_owner, begin_execution_cancellation and the executor's checks).
THEOREM RunsHaveOneExecutor == Spec => []OneExecutor
<1>1. IInv => OneExecutor
  BY ExecutorsWork DEF IInv, OneWorks, OneExecutor
<1> QED BY <1>1, Invariant, PTL

\* Until the run has ended, its executor holds the claim that the owner row names.
THEOREM ExecutorsAreNamed == Spec => []ExecutorHoldsTheClaim
<1>1. IInv => ExecutorHoldsTheClaim
  BY ExecutorsWork DEF IInv, OpenInv, HoldersOwn, Open, ExecutorHoldsTheClaim
<1> QED BY <1>1, Invariant, PTL

\* reconcile orphans only a generation that it has inspected (terminalize_run_fenced).
THEOREM OrphansWereInspected == Spec => NewerGenerationKept
<1> DEFINE Kept ==
        status # "ORPHANED" /\ status' = "ORPHANED" =>
            \A c \in Children : Executing(c) =>
                \E t \in Threads : pc[t] = "orphan" /\ loc[t].seen.gen = token[c]
<1>1. ASSUME IInv, [Next]_vars PROVE Kept
  <2>1. ASSUME NEW t \in Threads, ReconcileOrphan(t) PROVE Kept
    <3> SUFFICES ASSUME status # "ORPHANED", status' = "ORPHANED", NEW c \in Children, Executing(c)
                 PROVE  pc[t] = "orphan" /\ loc[t].seen.gen = token[c]
      OBVIOUS
    <3>1. pc[t] = "orphan" /\ Fenced(t, "CLAIMED")
      BY <2>1 DEF ReconcileOrphan, At
    <3>2. owner.gen = token[c] /\ Active(owner)
      BY <1>1, <3>1, ExecutorsWork DEF Fenced, Open, IInv, OpenInv, HoldersOwn
    <3> QED BY <3>1, <3>2 DEF Fenced, Holds
  <2>2. ASSUME NEW t \in Threads, ThreadStep(t), ~ReconcileOrphan(t)
        PROVE  status' = status \/ status' = "FAILED"
    BY <2>2 DEF ThreadStep, LaunchStep, RecoverStep, ReconcileStep, CancelStep, EnsureRunning,
                LaunchClaim, RecoveryClaim, ClaimFor, SpawnOwner, SpawnRecoveryOwner, Spawn,
                SpawnFails, Unclaim, FailRun, AdoptIdentity, PersistRead, PersistWrite,
                EnsureRecovery, ReconcileRead, ReconcileProbe, CancelRead, CancelTerminal,
                CancelBegin, CancelStopWorker, CancelStopOwner, CancelFinish, CancelAbort,
                Terminalize, dbVars
  <2>3. ASSUME NEW c \in Children, ChildStep(c) \/ RunByHand(c) \/ WorkerExits(c)
        PROVE  status' = status \/ status' \in {"RUNNING", "COMPLETED", "FAILED"}
    BY <2>3 DEF ChildStep, RunByHand, WorkerExits, Claim, Begin, AdoptRun, Activate,
                EnsureSupervision, StartWorker, OnWorkerStart, Collect, Finish, ReleaseAndExit, dbVars
  <2>4. ASSUME NEW p \in Processes \union Children, Crash(p) PROVE status' = status
    BY <2>4 DEF Crash, dbVars
  <2>5. CASE UNCHANGED vars
    BY <2>5 DEF vars, dbVars
  <2> QED BY <1>1, <2>1, <2>2, <2>3, <2>4, <2>5 DEF Next
<1>2. IInv /\ [Next]_vars => [Kept]_vars
  BY <1>1
<1> QED BY <1>2, Invariant, PTL DEF Spec, NewerGenerationKept
=============================================================================
