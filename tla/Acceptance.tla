------------------------------ MODULE Acceptance ------------------------------
(***************************************************************************)
(* Integrating a run's candidate into the target repository                *)
(* (AcceptEngine, accept.py).  Acceptors are processes, of the same run or *)
(* of the same command given twice: each checks the target in separate     *)
(* reads, moves the branch by compare-and-swap, synchronises the worktree, *)
(* runs the gate, and records run_accepted or rolls back.  Meanwhile other *)
(* writers commit or push to the branch, somebody edits the worktree and   *)
(* the owner rejects the candidate (candidate_lifecycle.py).               *)
(*                                                                         *)
(* What acceptance checks and nobody changes any more is left out: the     *)
(* run's status and provenance, the candidate's ancestry, the review's     *)
(* verdict, the gate's configuration.                                      *)
(***************************************************************************)
EXTENDS Naturals, Sequences, FiniteSets, SequencesExt

CONSTANTS Acceptors,   \* processes that accept the run
          Rejecters,   \* processes that reject its candidate
          Base,        \* runs.base_commit
          Candidate,   \* the candidate's commit
          Externals,   \* commits of other writers
          GateEnabled, \* the run's validation policy
          Faults       \* "crash", "sync", "database", "edit": an acceptor dies, the worktree
                       \* cannot be synchronised, an event cannot be written, files are edited

ASSUME AcceptanceAssumption ==
    /\ Base # Candidate /\ {Base, Candidate} \intersect Externals = {}
    /\ GateEnabled \in BOOLEAN

VARIABLES branch,     \* the target branch, oldest commit first; the last is HEAD
          tree,       \* the commit that index and worktree correspond to
          dirty,      \* are there uncommitted edits?
          rejected,   \* is there a candidate_rejected event?
          accepted,   \* is there a run_accepted event?
          running,    \* acceptors whose process lives
          pc,         \* what an acceptor does next
          result,     \* what its caller is told
          rejecting   \* rejecters that have read the projection

target == <<branch, tree, dirty>>
events == <<rejected, accepted>>
acceptVars == <<target, events, running, pc, result, rejecting>>

Commits == {Base, Candidate} \union Externals
Pcs == {"idle", "rejection", "clean", "head", "cas", "sync", "verify", "gate", "posthead",
        "postclean", "rollback", "resync", "reverify", "record", "done"}
Results == {"none", "accepted", "refused", "race", "rolled back", "critical", "error"}

\* Types: what accept_run's callers are told is one of the named results.
TypeOK ==
    /\ branch \in Seq(Commits) /\ branch # <<>>
    /\ tree \in Commits
    /\ dirty \in BOOLEAN /\ rejected \in BOOLEAN /\ accepted \in BOOLEAN
    /\ running \subseteq Acceptors
    /\ pc \in [Acceptors -> Pcs]
    /\ result \in [Acceptors -> Results]
    /\ rejecting \subseteq Rejecters

Init ==
    /\ branch = <<Base>> /\ tree = Base /\ dirty = FALSE
    /\ rejected = FALSE /\ accepted = FALSE
    /\ running = {} /\ rejecting = {}
    /\ pc = [a \in Acceptors |-> "idle"]
    /\ result = [a \in Acceptors |-> "none"]

HEAD == Last(branch)
Clean == tree = HEAD /\ ~dirty

At(a, label) == a \in running /\ pc[a] = label
Goto(a, label) == pc' = [pc EXCEPT ![a] = label] /\ UNCHANGED <<result, running>>

\* accept_run returns or raises.
Return(a, what) ==
    /\ pc' = [pc EXCEPT ![a] = "done"]
    /\ result' = [result EXCEPT ![a] = what]
    /\ UNCHANGED running

-----------------------------------------------------------------------------
(* accept_run, up to the compare-and-swap.                                 *)

Begin(a) ==
    /\ pc[a] = "idle"
    /\ pc' = [pc EXCEPT ![a] = "rejection"]
    /\ running' = running \union {a}
    /\ UNCHANGED <<target, events, result, rejecting>>

Require(a, from, condition, to) ==
    /\ At(a, from)
    /\ IF condition THEN Goto(a, to) ELSE Return(a, "refused")
    /\ UNCHANGED <<target, events, rejecting>>

CheckRejection(a) == Require(a, "rejection", ~rejected, "clean")
CheckClean(a) == Require(a, "clean", Clean, "head")
CheckHead(a) == Require(a, "head", HEAD = Base, "cas")

\* compare_and_swap_ref
SwapRef(old, new) ==
    branch' = IF new = Base THEN Front(branch) ELSE Append(branch, new)

\* Mutant: a check and an ordinary merge in place of the swap.
CasUnchecked(a) ==
    /\ At(a, "cas")
    /\ branch' = <<Base, Candidate>> /\ Goto(a, "sync")
    /\ UNCHANGED <<tree, dirty, events, rejecting>>

Cas(a) ==
    /\ At(a, "cas")
    /\ IF HEAD = Base THEN SwapRef(Base, Candidate) /\ Goto(a, "sync")
                      ELSE Return(a, "refused") /\ UNCHANGED branch
    /\ UNCHANGED <<tree, dirty, events, rejecting>>

\* sync_index_worktree: tracked files become HEAD's.  A failure is not caught.
SyncTree == tree' = HEAD /\ dirty' = FALSE
SyncFails == "sync" \in Faults /\ UNCHANGED <<tree, dirty>>

Sync(a) ==
    /\ At(a, "sync")
    /\ \/ SyncTree /\ Goto(a, "verify")
       \/ SyncFails /\ Return(a, "error")
    /\ UNCHANGED <<branch, events, rejecting>>

Verify(a) ==
    /\ At(a, "verify")
    /\ IF HEAD # Candidate THEN Return(a, "race")
       ELSE Goto(a, IF GateEnabled THEN "gate" ELSE "record")
    /\ UNCHANGED <<target, events, rejecting>>

-----------------------------------------------------------------------------
(* The gate phase and its boundary.  Every outcome but a verified receipt, *)
(* errors of the runner and of its evidence included, leads to rollback.   *)

\* Mutant: a gate that cannot run leaves the candidate where it is.
GateNoRollback(a) ==
    /\ At(a, "gate")
    /\ Goto(a, "posthead") \/ Return(a, "critical")
    /\ UNCHANGED <<target, events, rejecting>>

Gate(a) ==
    /\ At(a, "gate")
    /\ Goto(a, "posthead") \/ Goto(a, "rollback")
    /\ UNCHANGED <<target, events, rejecting>>

\* The runner reads HEAD, then the status, after the gate has passed.
PostHead(a) ==
    /\ At(a, "posthead")
    /\ Goto(a, IF HEAD = Candidate THEN "postclean" ELSE "rollback")
    /\ UNCHANGED <<target, events, rejecting>>

PostClean(a) ==
    /\ At(a, "postclean")
    /\ Goto(a, IF Clean THEN "record" ELSE "rollback")
    /\ UNCHANGED <<target, events, rejecting>>

\* Mutant: the expected revision is whatever HEAD is now.
RollbackFresh(a) ==
    /\ At(a, "rollback")
    /\ branch' = <<Base>>
    /\ Goto(a, "resync")
    /\ UNCHANGED <<tree, dirty, events, rejecting>>

\* _rollback_to_base expects the candidate, not what HEAD is now.
Rollback(a) ==
    /\ At(a, "rollback")
    /\ IF HEAD = Candidate THEN SwapRef(Candidate, Base) /\ Goto(a, "resync")
                           ELSE Return(a, "critical") /\ UNCHANGED branch
    /\ UNCHANGED <<tree, dirty, events, rejecting>>

Resync(a) ==
    /\ At(a, "resync")
    /\ \/ SyncTree /\ Goto(a, "reverify")
       \/ SyncFails /\ Return(a, "critical")
    /\ UNCHANGED <<branch, events, rejecting>>

ReverifyHead(a) ==   \* Mutant: the caller is told a commit in place of a verdict.
    /\ At(a, "reverify")
    /\ Return(a, HEAD)
    /\ UNCHANGED <<target, events, rejecting>>

Reverify(a) ==
    /\ At(a, "reverify")
    /\ Return(a, IF HEAD = Base /\ Clean THEN "rolled back" ELSE "critical")
    /\ UNCHANGED <<target, events, rejecting>>

Record(a) ==
    /\ At(a, "record")
    /\ \/ accepted' = TRUE /\ Return(a, "accepted")
       \/ "database" \in Faults /\ Return(a, "error") /\ UNCHANGED accepted
    /\ UNCHANGED <<target, rejected, rejecting>>

Crash(a) ==
    /\ "crash" \in Faults
    /\ a \in running
    /\ running' = running \ {a}
    /\ UNCHANGED <<target, events, pc, result, rejecting>>

-----------------------------------------------------------------------------
(* Everybody else.                                                         *)

\* Another writer's commit: made in the worktree, or pushed to the branch.
Commit(e) ==
    /\ \A i \in DOMAIN branch : branch[i] # e
    /\ branch' = Append(branch, e)
    /\ \/ tree' = e /\ dirty' = FALSE
       \/ UNCHANGED <<tree, dirty>>
    /\ UNCHANGED <<events, running, pc, result, rejecting>>

Edit ==
    /\ "edit" \in Faults
    /\ dirty' = TRUE
    /\ UNCHANGED <<branch, tree, events, running, pc, result, rejecting>>

\* reject_current_candidate: the projection, then the event, once.
RejectRead(r) ==
    /\ r \notin rejecting /\ ~accepted
    /\ rejecting' = rejecting \union {r}
    /\ UNCHANGED <<target, events, running, pc, result>>

RejectWrite(r) ==
    /\ r \in rejecting
    /\ rejected' = TRUE
    /\ rejecting' = rejecting \ {r}
    /\ UNCHANGED <<target, accepted, running, pc, result>>

-----------------------------------------------------------------------------
AcceptStep(a) ==
    \/ CheckRejection(a) \/ CheckClean(a) \/ CheckHead(a) \/ Cas(a) \/ Sync(a) \/ Verify(a)
    \/ Gate(a) \/ PostHead(a) \/ PostClean(a) \/ Rollback(a) \/ Resync(a) \/ Reverify(a)
    \/ Record(a)

Environment ==
    \/ \E e \in Externals : Commit(e)
    \/ Edit
    \/ \E r \in Rejecters : RejectRead(r) \/ RejectWrite(r)

Next == Environment \/ \E a \in Acceptors : Begin(a) \/ AcceptStep(a) \/ Crash(a)

Spec == Init /\ [][Next]_acceptVars
FairSpec == Spec /\ \A a \in Acceptors : WF_acceptVars(AcceptStep(a))

-----------------------------------------------------------------------------
(* Properties.                                                             *)

OnBranch(commit) == \E i \in DOMAIN branch : branch[i] = commit
Installed == {"sync", "verify", "gate", "posthead", "postclean", "rollback", "record"}

\* No acceptance removes a revision that somebody else has put on the target,
\* whenever it arrives: before the swap, before the synchronisation, during the
\* gate or during the rollback.
ExternalsKept == [][\A e \in Externals : OnBranch(e) => OnBranch(e)']_acceptVars

\* Once run_accepted is recorded its candidate is part of the target for good; no
\* acceptance of the same run that is still under way rolls it back.
AcceptedIsIntegrated == accepted => OnBranch(Candidate)

\* Of all the acceptances of a run only one has its candidate on the target: a
\* failing gate can only roll back what the same process has installed.
OneInstaller == \A a, b \in Acceptors : pc[a] \in Installed /\ pc[b] \in Installed => a = b

\* A candidate is left as the target's HEAD without run_accepted only by an
\* acceptance that is under way, that died on the way, or that could not synchronise
\* the worktree or record its event; every other outcome restores the base.
UnacceptedIsAccountedFor ==
    HEAD = Candidate /\ ~accepted =>
        \E a \in Acceptors : pc[a] \in Installed \/ result[a] = "error"

\* A candidate does not stay on the target without a verdict, unless its acceptor
\* has died or could not synchronise the worktree or record the event.
Stuck == \E a \in Acceptors : (pc[a] \in Installed /\ a \notin running) \/ result[a] = "error"
TargetIsSettled == HEAD = Candidate ~> accepted \/ HEAD # Candidate \/ Stuck

\* Documented and not so: an installed candidate is either gated or rolled back.
\* An error of the synchronisation after the swap is outside of the boundary.
InstalledIsSettled ==
    HEAD = Candidate /\ ~accepted => \E a \in Acceptors : a \in running /\ pc[a] \in Installed

\* Documented and not so: a rejected candidate is not acceptable.  The rejection is
\* read first, and the candidate is installed and gated afterwards.
RejectedIsNotAccepted == [][~accepted /\ accepted' => ~rejected]_acceptVars

\* Not so: edits of the worktree survive an acceptance.  They may be made after the
\* check and before the synchronisation.
EditsSurvive == [][dirty /\ ~dirty' => \E e \in Externals : OnBranch(e)' /\ ~OnBranch(e)]_acceptVars
=============================================================================
