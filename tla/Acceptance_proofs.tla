--------------------------- MODULE Acceptance_proofs ---------------------------
(***************************************************************************)
(* What holds of acceptance for every number of acceptors, rejecters and   *)
(* commits of others, with or without a gate and whatever faults occur; and *)
(* of the owner's actions around it, for every number of requesters and    *)
(* children.  The first part is about Acceptance alone.                    *)
(***************************************************************************)
EXTENDS OwnerActions, SequenceTheorems, TLAPS

\* The branch starts with the base; the candidate can only come next, because the
\* swap expects the base.
Shape ==
    /\ branch[1] = Base
    /\ \A i \in 2..Len(branch) : branch[i] # Base
    /\ \A i \in 1..Len(branch) : branch[i] = Candidate => i = 2

\* A process knows its result when it has returned.
ResultsFit == \A a \in Acceptors : result[a] # "none" => pc[a] = "done"

\* While an acceptance is under way its candidate is on the branch, unaccepted.
InstalledIsPending ==
    \A a \in Acceptors : pc[a] \in Installed => OnBranch(Candidate) /\ ~accepted

\* Alone none of the properties is inductive: a swap finds the base only if nothing
\* is installed, and a rollback finds the candidate only if nobody else's is.
IInv ==
    /\ TypeOK /\ Shape /\ ResultsFit
    /\ OneInstaller /\ InstalledIsPending
    /\ AcceptedIsIntegrated /\ UnacceptedIsAccountedFor

-----------------------------------------------------------------------------
(* The three writes to the branch.                                         *)

LEMMA BranchLength == ASSUME TypeOK PROVE Len(branch) \in Nat \ {0} /\ DOMAIN branch = 1..Len(branch)
<1>1. branch \in Seq(Commits) /\ branch # <<>>
  BY DEF TypeOK
<1> QED BY <1>1

\* The swap finds the base only where nothing else is.
LEMMA SwapIn ==
    ASSUME TypeOK, Shape, HEAD = Base, SwapRef(Base, Candidate)
    PROVE  /\ branch' \in Seq(Commits) /\ branch' # <<>> /\ Shape'
           /\ ~OnBranch(Candidate) /\ OnBranch(Candidate)'
           /\ \A e \in Externals : ~OnBranch(e)
<1>1. Len(branch) = 1
  <2>1. Len(branch) \in Nat \ {0} /\ branch[Len(branch)] = Base
    BY BranchLength DEF HEAD, Last
  <2>2. \A i \in 2..Len(branch) : branch[i] # Base
    BY DEF Shape
  <2>3. ~(Len(branch) \in 2..Len(branch))
    BY <2>1, <2>2
  <2>4. \A n \in Nat \ {0} : n \notin 2..n => n = 1
    OBVIOUS
  <2> QED BY ONLY <2>1, <2>3, <2>4
<1>2. branch' = Append(branch, Candidate) /\ Base # Candidate
  BY AcceptanceAssumption DEF SwapRef
<1>3. branch' \in Seq(Commits) /\ Len(branch') = 2 /\ branch'[1] = Base /\ branch'[2] = Candidate
  <2>1. branch \in Seq(Commits) /\ Candidate \in Commits /\ branch[1] = Base
    BY DEF TypeOK, Shape, Commits
  <2>2. /\ branch' \in Seq(Commits) /\ Len(branch') = Len(branch) + 1
        /\ \A i \in 1..Len(branch) : branch'[i] = branch[i]
        /\ branch'[Len(branch) + 1] = Candidate
    BY <1>2, <2>1, AppendProperties
  <2> QED BY <1>1, <2>1, <2>2
<1>4. DOMAIN branch = 1..1 /\ DOMAIN branch' = 1..2
  BY <1>1, <1>3, BranchLength
<1>5. \A c : OnBranch(c) => c = Base
  BY <1>4 DEF OnBranch, Shape
<1> QED
  BY <1>2, <1>3, <1>4, <1>5, AcceptanceAssumption DEF Shape, OnBranch

\* The rollback takes off what the swap has put there and nothing else.
LEMMA SwapOut ==
    ASSUME TypeOK, Shape, HEAD = Candidate, SwapRef(Candidate, Base)
    PROVE  /\ branch' \in Seq(Commits) /\ branch' # <<>> /\ Shape'
           /\ HEAD' = Base
           /\ \A e \in Externals : ~OnBranch(e)
<1>1. Len(branch) = 2
  <2>1. Len(branch) \in Nat \ {0} /\ branch[Len(branch)] = Candidate
    BY BranchLength DEF HEAD, Last
  <2>2. Len(branch) \in 1..Len(branch)
    BY <2>1
  <2> QED BY <2>1, <2>2 DEF Shape
<1>2. branch' = SubSeq(branch, 1, 1)
  BY <1>1 DEF SwapRef, Front
<1>3. \A i \in 1..1 : branch[i] \in Commits
  BY DEF Shape, Commits
<1>4. branch' \in Seq(Commits) /\ Len(branch') = 1 /\ branch'[1] = Base
  <2>1. /\ branch' \in Seq(Commits) /\ Len(branch') = 1
        /\ \A i \in 1..(1 - 1 + 1) : branch'[i] = branch[1 + i - 1]
    BY <1>2, <1>3, SubSeqProperties
  <2> QED BY <2>1 DEF Shape
<1>5. DOMAIN branch = 1..2 /\ branch[2] = Candidate
  BY <1>1 DEF TypeOK, HEAD, Last
<1>6. \A e \in Externals : ~OnBranch(e)
  BY <1>5, AcceptanceAssumption DEF OnBranch, Shape
<1> QED
  BY <1>4, <1>6, AcceptanceAssumption DEF Shape, HEAD, Last

\* A commit of somebody else leaves everything below it.
LEMMA Pushed ==
    ASSUME TypeOK, Shape, NEW e \in Externals, branch' = Append(branch, e)
    PROVE  /\ branch' \in Seq(Commits) /\ branch' # <<>> /\ Shape'
           /\ HEAD' = e
           /\ \A c : OnBranch(c) => OnBranch(c)'
<1>1. /\ branch \in Seq(Commits) /\ Len(branch) \in Nat \ {0}
      /\ e \in Commits /\ e # Base /\ e # Candidate
  BY AcceptanceAssumption DEF TypeOK, Commits
<1>2. /\ branch' \in Seq(Commits) /\ Len(branch') = Len(branch) + 1
      /\ \A i \in 1..Len(branch) : branch'[i] = branch[i]
      /\ branch'[Len(branch) + 1] = e
  BY <1>1
<1>3. Shape'
  BY <1>1, <1>2 DEF Shape
<1>4. \A c : OnBranch(c) => OnBranch(c)'
  BY <1>1, <1>2 DEF OnBranch
<1> QED
  BY <1>1, <1>2, <1>3, <1>4 DEF HEAD, Last

\* Where the branch stays, so does what is on it.
LEMMA BranchStays ==
    ASSUME branch' = branch
    PROVE  /\ Shape' = Shape /\ HEAD' = HEAD
           /\ \A c : OnBranch(c)' = OnBranch(c)
BY DEF Shape, HEAD, OnBranch

-----------------------------------------------------------------------------
LEMMA InitInv == Init => IInv
<1> SUFFICES ASSUME Init PROVE IInv
  OBVIOUS
<1>1. branch \in Seq(Commits) /\ branch # <<>> /\ Len(branch) = 1 /\ branch[1] = Base
  BY DEF Init, Commits
<1>2. TypeOK
  BY <1>1 DEF Init, TypeOK, Commits, Pcs, Results
<1>3. Shape /\ HEAD = Base /\ Base # Candidate
  BY <1>1, AcceptanceAssumption DEF Shape, HEAD, Last
<1> QED
  BY <1>2, <1>3 DEF Init, IInv, ResultsFit, OneInstaller, InstalledIsPending, Installed,
     AcceptedIsIntegrated, UnacceptedIsAccountedFor

\* A step of an acceptor that leaves branch and events alone: to a place that is not more
\* installed than the one it leaves, and not less unless HEAD is not the candidate or the
\* acceptance ends with an error.
LEMMA MoveKeepsInv ==
    ASSUME IInv, NEW a \in Acceptors, UNCHANGED <<branch, events, rejecting, running>>,
           tree' \in Commits, dirty' \in BOOLEAN,
           pc[a] # "done", NEW to \in Pcs, pc' = [pc EXCEPT ![a] = to],
           NEW what \in Results, result' = [result EXCEPT ![a] = what],
           what # "none" => to = "done",
           to \in Installed => pc[a] \in Installed,
           pc[a] \in Installed => to \in Installed \/ what = "error" \/ HEAD # Candidate
    PROVE  IInv'
<1>1. TypeOK'
  BY DEF IInv, TypeOK, events
<1>2. /\ Shape' = Shape /\ HEAD' = HEAD /\ OnBranch(Candidate)' = OnBranch(Candidate)
      /\ accepted' = accepted
  BY BranchStays DEF events
<1>3. ResultsFit'
  BY DEF IInv, TypeOK, ResultsFit
<1>4. \A b \in Acceptors : pc'[b] \in Installed => pc[b] \in Installed
  BY DEF IInv, TypeOK
<1>5. OneInstaller' /\ InstalledIsPending' /\ AcceptedIsIntegrated'
  BY <1>2, <1>4 DEF IInv, OneInstaller, InstalledIsPending, AcceptedIsIntegrated, Installed
<1>6. ASSUME HEAD' = Candidate, ~accepted'
      PROVE  \E b \in Acceptors : pc'[b] \in Installed \/ result'[b] = "error"
  <2>1. PICK b \in Acceptors : pc[b] \in Installed \/ result[b] = "error"
    BY <1>2, <1>6 DEF IInv, UnacceptedIsAccountedFor
  <2>2. CASE b # a
    BY <2>1, <2>2 DEF IInv, TypeOK
  <2>3. CASE b = a
    <3>1. pc[a] \in Installed
      BY <2>1, <2>3 DEF IInv, ResultsFit
    <3> QED BY <3>1, <1>2, <1>6 DEF IInv, TypeOK
  <2> QED BY <2>2, <2>3
<1> QED
  BY <1>1, <1>2, <1>3, <1>5, <1>6 DEF IInv, UnacceptedIsAccountedFor, Installed

LEMMA GotoKeepsInv ==
    ASSUME IInv, NEW a \in Acceptors, UNCHANGED <<branch, events, rejecting>>,
           tree' \in Commits, dirty' \in BOOLEAN,
           pc[a] # "done", NEW to \in Pcs \ {"done"}, Goto(a, to),
           to \in Installed <=> pc[a] \in Installed
    PROVE  IInv'
<1>1. /\ pc' = [pc EXCEPT ![a] = to] /\ result' = [result EXCEPT ![a] = "none"]
      /\ running' = running
  BY DEF Goto, IInv, TypeOK, ResultsFit
<1> QED BY <1>1, MoveKeepsInv DEF Results

LEMMA ReturnKeepsInv ==
    ASSUME IInv, NEW a \in Acceptors, UNCHANGED <<branch, events, rejecting>>,
           tree' \in Commits, dirty' \in BOOLEAN,
           pc[a] # "done", NEW what \in Results, Return(a, what),
           pc[a] \in Installed => what = "error" \/ HEAD # Candidate
    PROVE  IInv'
<1>1. "done" \in Pcs /\ "done" \notin Installed
  BY DEF Pcs, Installed
<1> QED BY <1>1, MoveKeepsInv DEF Return

-----------------------------------------------------------------------------
(* The steps of an acceptor.                                               *)

LEMMA RequireKeepsInv ==
    ASSUME IInv, NEW a \in Acceptors, NEW from \in {"rejection", "clean", "head"},
           NEW to \in {"clean", "head", "cas"}, NEW condition, Require(a, from, condition, to)
    PROVE  IInv'
<1>1. /\ UNCHANGED <<branch, events, rejecting>> /\ tree' \in Commits /\ dirty' \in BOOLEAN
      /\ pc[a] = from
  BY DEF Require, At, target, IInv, TypeOK
<1>2. CASE Goto(a, to)
  BY <1>1, <1>2, GotoKeepsInv DEF Pcs, Installed
<1>3. CASE Return(a, "refused")
  BY <1>1, <1>3, ReturnKeepsInv DEF Results, Installed
<1> QED BY <1>2, <1>3 DEF Require

LEMMA CasKeepsInv == ASSUME IInv, NEW a \in Acceptors, Cas(a) PROVE IInv'
<1>1. CASE HEAD # Base
  <2>1. /\ UNCHANGED <<branch, events, rejecting>> /\ tree' \in Commits /\ dirty' \in BOOLEAN
        /\ pc[a] = "cas" /\ Return(a, "refused")
    BY <1>1 DEF Cas, At, IInv, TypeOK
  <2> QED BY <2>1, ReturnKeepsInv DEF Results, Installed
<1>2. CASE HEAD = Base
  <2>1. /\ SwapRef(Base, Candidate) /\ UNCHANGED <<tree, dirty, events, rejecting, result, running>>
        /\ pc' = [pc EXCEPT ![a] = "sync"] /\ pc[a] = "cas"
    BY <1>2 DEF Cas, At, Goto
  <2>2. /\ branch' \in Seq(Commits) /\ branch' # <<>> /\ Shape'
        /\ ~OnBranch(Candidate) /\ OnBranch(Candidate)'
    BY <2>1, <1>2, SwapIn DEF IInv
  <2>3. TypeOK'
    BY <2>1, <2>2 DEF IInv, TypeOK, Pcs, events
  <2>4. ResultsFit'
    BY <2>1 DEF IInv, TypeOK, ResultsFit
  <2>5. ~accepted' /\ \A b \in Acceptors : pc[b] \notin Installed
    BY <2>1, <2>2 DEF IInv, InstalledIsPending, AcceptedIsIntegrated, events
  <2>6. \A b \in Acceptors : pc'[b] \in Installed <=> b = a
    BY <2>1, <2>5 DEF IInv, TypeOK, Installed
  <2> QED
    BY <2>2, <2>3, <2>4, <2>5, <2>6 DEF IInv, OneInstaller, InstalledIsPending, Installed,
       AcceptedIsIntegrated, UnacceptedIsAccountedFor
<1> QED BY <1>1, <1>2

LEMMA SyncKeepsInv == ASSUME IInv, NEW a \in Acceptors, Sync(a) \/ Resync(a) PROVE IInv'
<1>1. HEAD \in Commits
  <2>1. branch \in Seq(Commits) /\ Len(branch) \in 1..Len(branch)
    BY BranchLength DEF IInv, TypeOK
  <2> QED BY <2>1 DEF HEAD, Last
<1>2. UNCHANGED <<branch, events, rejecting>> /\ tree' \in Commits /\ dirty' \in BOOLEAN
  BY <1>1 DEF Sync, Resync, SyncTree, SyncFails, IInv, TypeOK
<1>3. CASE Sync(a)
  <2>1. pc[a] = "sync" /\ (Goto(a, "verify") \/ Return(a, "error"))
    BY <1>3 DEF Sync, At
  <2> QED BY <1>2, <2>1, GotoKeepsInv, ReturnKeepsInv DEF Pcs, Results, Installed
<1>4. CASE Resync(a)
  <2>1. pc[a] = "resync" /\ (Goto(a, "reverify") \/ Return(a, "critical"))
    BY <1>4 DEF Resync, At
  <2> QED BY <1>2, <2>1, GotoKeepsInv, ReturnKeepsInv DEF Pcs, Results, Installed
<1> QED BY <1>3, <1>4

\* What happens while the candidate is installed or has been rolled back, and the branch stays.
LEMMA GateKeepsInv ==
    ASSUME IInv, NEW a \in Acceptors,
           Verify(a) \/ Gate(a) \/ PostHead(a) \/ PostClean(a) \/ Reverify(a)
    PROVE  IInv'
<1>1. UNCHANGED <<branch, events, rejecting>> /\ tree' \in Commits /\ dirty' \in BOOLEAN
  BY DEF Verify, Gate, PostHead, PostClean, Reverify, target, IInv, TypeOK
<1>2. CASE Verify(a)
  <2>1. /\ pc[a] = "verify"
        /\ \/ HEAD # Candidate /\ Return(a, "race")
           \/ Goto(a, "gate") \/ Goto(a, "record")
    BY <1>2 DEF Verify, At
  <2> QED BY <1>1, <2>1, GotoKeepsInv, ReturnKeepsInv DEF Pcs, Results, Installed
<1>3. CASE Gate(a) \/ PostHead(a) \/ PostClean(a)
  <2>1. \E from \in {"gate", "posthead", "postclean"},
           to \in {"posthead", "postclean", "rollback", "record"} : pc[a] = from /\ Goto(a, to)
    BY <1>3 DEF Gate, PostHead, PostClean, At
  <2> QED BY <1>1, <2>1, GotoKeepsInv DEF Pcs, Installed
<1>4. CASE Reverify(a)
  <2>1. pc[a] = "reverify" /\ (Return(a, "rolled back") \/ Return(a, "critical"))
    BY <1>4 DEF Reverify, At
  <2> QED BY <1>1, <2>1, ReturnKeepsInv DEF Results, Installed
<1> QED BY <1>2, <1>3, <1>4

LEMMA RollbackKeepsInv == ASSUME IInv, NEW a \in Acceptors, Rollback(a) PROVE IInv'
<1>1. CASE HEAD # Candidate
  <2>1. /\ UNCHANGED <<branch, events, rejecting>> /\ tree' \in Commits /\ dirty' \in BOOLEAN
        /\ pc[a] = "rollback" /\ Return(a, "critical")
    BY <1>1 DEF Rollback, At, IInv, TypeOK
  <2> QED BY <1>1, <2>1, ReturnKeepsInv DEF Results
<1>2. CASE HEAD = Candidate
  <2>1. /\ SwapRef(Candidate, Base) /\ UNCHANGED <<tree, dirty, events, rejecting, result, running>>
        /\ pc' = [pc EXCEPT ![a] = "resync"] /\ pc[a] = "rollback"
    BY <1>2 DEF Rollback, At, Goto
  <2>2. branch' \in Seq(Commits) /\ branch' # <<>> /\ Shape' /\ HEAD' = Base
    BY <2>1, <1>2, SwapOut DEF IInv
  <2>3. TypeOK'
    BY <2>1, <2>2 DEF IInv, TypeOK, Pcs, events
  <2>4. ResultsFit'
    BY <2>1 DEF IInv, TypeOK, ResultsFit
  <2>5. ~accepted' /\ \A b \in Acceptors : pc[b] \in Installed => b = a
    BY <2>1 DEF IInv, InstalledIsPending, OneInstaller, Installed, events
  <2>6. \A b \in Acceptors : pc'[b] \notin Installed
    BY <2>1, <2>5 DEF IInv, TypeOK, Installed
  <2> QED
    BY <2>2, <2>3, <2>4, <2>5, <2>6, AcceptanceAssumption
       DEF IInv, OneInstaller, InstalledIsPending, AcceptedIsIntegrated, UnacceptedIsAccountedFor
<1> QED BY <1>1, <1>2

LEMMA RecordKeepsInv == ASSUME IInv, NEW a \in Acceptors, Record(a) PROVE IInv'
<1>1. /\ pc[a] = "record" /\ UNCHANGED <<branch, tree, dirty, rejected, rejecting>>
      /\ tree' \in Commits /\ dirty' \in BOOLEAN
  BY DEF Record, At, target, IInv, TypeOK
<1>2. CASE Return(a, "error") /\ UNCHANGED accepted
  BY <1>1, <1>2, ReturnKeepsInv DEF Results, events
<1>3. CASE accepted' = TRUE /\ Return(a, "accepted")
  <2>1. /\ pc' = [pc EXCEPT ![a] = "done"] /\ result' = [result EXCEPT ![a] = "accepted"]
        /\ running' = running
    BY <1>3 DEF Return
  <2>2. TypeOK' /\ ResultsFit'
    BY <1>1, <1>3, <2>1 DEF IInv, TypeOK, ResultsFit, Pcs, Results
  <2>3. \A b \in Acceptors : pc[b] \in Installed => b = a
    BY <1>1 DEF IInv, OneInstaller, Installed
  <2>4. \A b \in Acceptors : pc'[b] \notin Installed
    BY <2>1, <2>3 DEF IInv, TypeOK, Installed
  <2>5. Shape' /\ OnBranch(Candidate)'
    BY <1>1, BranchStays DEF IInv, InstalledIsPending, Installed
  <2> QED
    BY <1>3, <2>2, <2>4, <2>5 DEF IInv, OneInstaller, InstalledIsPending, AcceptedIsIntegrated,
       UnacceptedIsAccountedFor
<1> QED BY <1>2, <1>3 DEF Record

LEMMA AcceptStepKeepsInv == ASSUME IInv, NEW a \in Acceptors, AcceptStep(a) PROVE IInv'
<1>1. CASE CheckRejection(a) \/ CheckClean(a) \/ CheckHead(a)
  BY <1>1, RequireKeepsInv DEF CheckRejection, CheckClean, CheckHead
<1> QED
  BY <1>1, CasKeepsInv, SyncKeepsInv, GateKeepsInv, RollbackKeepsInv, RecordKeepsInv
     DEF AcceptStep

\* Begin, Crash, Edit and the rejections: nobody becomes installed or stops being so.
LEMMA IdleKeepsInv ==
    ASSUME IInv, branch' = branch, accepted' = accepted, TypeOK',
           \A a \in Acceptors : /\ pc'[a] \in Installed <=> pc[a] \in Installed
                                /\ pc[a] = "done" => pc'[a] = "done"
                                /\ result'[a] = result[a]
    PROVE  IInv'
<1>1. Shape' = Shape /\ HEAD' = HEAD /\ OnBranch(Candidate)' = OnBranch(Candidate)
  BY BranchStays
<1> QED
  BY <1>1 DEF IInv, ResultsFit, OneInstaller, InstalledIsPending, AcceptedIsIntegrated,
     UnacceptedIsAccountedFor, Installed

LEMMA CommitKeepsInv == ASSUME IInv, NEW e \in Externals, Commit(e) PROVE IInv'
<1>1. branch' = Append(branch, e) /\ UNCHANGED <<events, running, pc, result, rejecting>>
  BY DEF Commit
<1>2. /\ branch' \in Seq(Commits) /\ branch' # <<>> /\ Shape' /\ HEAD' = e
      /\ OnBranch(Candidate) => OnBranch(Candidate)'
  BY <1>1, Pushed DEF IInv
<1>3. TypeOK'
  BY <1>1, <1>2 DEF IInv, TypeOK, Commit, Commits, events
<1>4. HEAD' # Candidate
  BY <1>2, AcceptanceAssumption
<1> QED
  BY <1>1, <1>2, <1>3, <1>4 DEF IInv, ResultsFit, OneInstaller, InstalledIsPending,
     AcceptedIsIntegrated, UnacceptedIsAccountedFor, events

LEMMA StepKeepsInv == IInv /\ [Next]_acceptVars => IInv'
<1> SUFFICES ASSUME IInv, [Next]_acceptVars PROVE IInv'
  OBVIOUS
<1>1. ASSUME NEW a \in Acceptors, AcceptStep(a) PROVE IInv'
  BY <1>1, AcceptStepKeepsInv
<1>2. ASSUME NEW e \in Externals, Commit(e) PROVE IInv'
  BY <1>2, CommitKeepsInv
<1>3. ASSUME NEW a \in Acceptors, Begin(a) \/ Crash(a) PROVE IInv'
  <2>1. TypeOK'
    BY <1>3 DEF IInv, TypeOK, Begin, Crash, Pcs, target, events
  <2> QED
    BY <1>3, <2>1, IdleKeepsInv DEF Begin, Crash, IInv, TypeOK, target, events, Installed
<1>4. ASSUME Edit PROVE IInv'
  BY <1>4, IdleKeepsInv DEF Edit, IInv, TypeOK, events
<1>5. ASSUME NEW r \in Rejecters, RejectRead(r) \/ RejectWrite(r) PROVE IInv'
  <2>1. TypeOK'
    BY <1>5 DEF RejectRead, RejectWrite, IInv, TypeOK, target, events
  <2> QED BY <1>5, <2>1, IdleKeepsInv DEF RejectRead, RejectWrite, target, events
<1>6. CASE UNCHANGED acceptVars
  BY <1>6, IdleKeepsInv DEF acceptVars, target, events, IInv, TypeOK
<1> QED
  BY <1>1, <1>2, <1>3, <1>4, <1>5, <1>6 DEF Next, Environment

THEOREM Invariance == Spec => []IInv
<1> QED BY InitInv, StepKeepsInv, PTL DEF Spec

-----------------------------------------------------------------------------
(* Theorems.                                                               *)

\* The variables keep their types, and callers of accept_run get one of the named answers.
THEOREM AcceptanceTypes == Spec => []TypeOK
<1> QED BY Invariance, PTL DEF IInv

\* Of any number of acceptances of a run only one has its candidate on the target at a time.
THEOREM OneInstalls == Spec => []OneInstaller
<1> QED BY Invariance, PTL DEF IInv

\* A candidate whose run_accepted is recorded is part of the target for good.
THEOREM AcceptedStays == Spec => []AcceptedIsIntegrated
<1> QED BY Invariance, PTL DEF IInv

\* An unaccepted candidate is at HEAD only under an acceptance that is under way, has died,
\* or ended with an error.
THEOREM UnacceptedIsExplained == Spec => []UnacceptedIsAccountedFor
<1> QED BY Invariance, PTL DEF IInv

\* A step removes at most the candidate from the branch.
LEMMA StepKeepsExternals ==
    ASSUME IInv, [Next]_acceptVars, NEW e \in Externals, OnBranch(e)
    PROVE  OnBranch(e)'
<1>1. CASE branch' = branch
  BY <1>1, BranchStays
<1>2. ASSUME NEW c \in Externals, Commit(c) PROVE OnBranch(e)'
  BY <1>2, Pushed DEF Commit, IInv
<1>3. ASSUME NEW a \in Acceptors, Cas(a), branch' # branch PROVE OnBranch(e)'
  BY <1>3, SwapIn DEF Cas, IInv
<1>4. ASSUME NEW a \in Acceptors, Rollback(a), branch' # branch PROVE OnBranch(e)'
  BY <1>4, SwapOut DEF Rollback, IInv
<1> QED
  BY <1>1, <1>2, <1>3, <1>4 DEF Next, Environment, AcceptStep, Begin, Crash, Edit, RejectRead,
     RejectWrite, CheckRejection, CheckClean, CheckHead, Require, Sync, Verify, Gate, PostHead,
     PostClean, Resync, Reverify, Record, target, acceptVars

\* No acceptance removes what somebody else has put on the target.
THEOREM ExternalsStay == Spec => ExternalsKept
<1>1. IInv /\ [Next]_acceptVars
        => [\A e \in Externals : OnBranch(e) => OnBranch(e)']_acceptVars
  BY StepKeepsExternals
<1> QED BY <1>1, Invariance, PTL DEF Spec, ExternalsKept

-----------------------------------------------------------------------------
(* Owner actions.                                                          *)

\* A requester that has a child to start, or to take the identity of.
Asks(q, x) == req[q] \in {<<"spawn", x>>, <<"attach", x>>}

\* A claim makes one row active, and gives up only rows whose process is gone.
OneActive == \A x, y \in Actions : Active(x) /\ Active(y) => x = y
AliveAreActive == \A x \in alive : Active(x)

\* A row has no identity before its child is started, and is started once.
SpawnsPend ==
    \A q \in Requesters, x \in Actions :
        req[q] = <<"spawn", x>> =>
            /\ action[x].state = "QUEUED" /\ ~action[x].ident
            /\ x \notin alive /\ pc[x] = "idle"
OneRequest == \A p, q \in Requesters, x \in Actions : Asks(p, x) /\ Asks(q, x) => p = q

\* Only rows that were never claimed are free.
FreeRowsAreUnused ==
    \A x \in Actions : action[x].state = "none" =>
        /\ pc[x] = "idle"
        /\ \A q \in Requesters : ~Asks(q, x)

\* A receipt agrees with the acceptance, and nothing can contradict it later: a failed
\* action's acceptance is over or was never begun.
ReceiptsAgree ==
    \A x \in Actions :
        /\ action[x].state = "SUCCEEDED" => result[x] = "accepted"
        /\ action[x].state = "FAILED" => pc[x] \in {"idle", "done"} /\ result[x] # "accepted"
AcceptedIsRecorded == \A a \in Acceptors : result[a] = "accepted" => accepted

OwnerInv ==
    /\ ActionTypeOK
    /\ OneActive /\ AliveAreActive /\ SpawnsPend /\ OneRequest /\ FreeRowsAreUnused
    /\ ReceiptsAgree /\ AcceptedIsRecorded

\* What actions do to the target is what acceptances do.
LEMMA ActionsAccept == ActionNext \/ UNCHANGED ownerVars => [Next]_acceptVars
<1> SUFFICES ASSUME ActionNext \/ UNCHANGED ownerVars PROVE [Next]_acceptVars
  OBVIOUS
<1>1. ASSUME NEW q \in Requesters, ClaimAction(q) \/ RequestStep(q) \/ Restart(q)
      PROVE  UNCHANGED acceptVars
  BY <1>1 DEF ClaimAction, RequestStep, SpawnChild, Attach, Restart
<1>2. ASSUME NEW x \in Actions, ChildStep(x)
      PROVE  [Next]_acceptVars
  BY <1>2, ActionAssumption DEF ChildStep, MarkRunning, MarkTerminal, Next
<1>3. ASSUME NEW x \in Actions, ChildDies(x), x \in running
      PROVE  Crash(x)
  BY <1>3 DEF ChildDies, Crash, target, events
<1>4. ASSUME NEW x \in Actions, ChildDies(x), x \notin running
      PROVE  UNCHANGED acceptVars
  <2>1. running' = running
    BY <1>4 DEF ChildDies
  <2> QED BY <1>4, <2>1 DEF ChildDies, acceptVars
<1>5. ASSUME NEW x \in Actions, ChildDies(x)
      PROVE  [Next]_acceptVars
  BY <1>3, <1>4, <1>5, ActionAssumption DEF Next
<1>6. ASSUME NEW a \in Acceptors, Accepting(a)
      PROVE  Next
  BY <1>6 DEF Accepting, Next
<1>7. ASSUME NEW a \in Direct, Begin(a) \/ Crash(a)
      PROVE  Next
  BY <1>7 DEF Direct, Next
<1>8. Environment => Next
  BY DEF Next
<1>9. UNCHANGED ownerVars => UNCHANGED acceptVars
  BY DEF ownerVars
<1> QED BY <1>1, <1>2, <1>5, <1>6, <1>7, <1>8, <1>9 DEF ActionNext

\* A child can do with the target only what an acceptor of its own may do, so every theorem
\* about acceptance holds with the owner's actions around it.
THEOREM ActionsAreAcceptances == ActionSpec => Spec
<1>1. ActionInit => Init
  BY DEF ActionInit
<1>2. [ActionNext]_ownerVars => [Next]_acceptVars
  BY ActionsAccept
<1> QED BY <1>1, <1>2, PTL DEF ActionSpec, Spec

LEMMA InitOwnerInv == ActionInit => OwnerInv
<1> SUFFICES ASSUME ActionInit PROVE OwnerInv
  OBVIOUS
<1>1. /\ action = [x \in Actions |-> NoRow] /\ alive = {} /\ Init
      /\ req = [q \in Requesters |-> Idle]
  BY DEF ActionInit
<1>2. NoRow \in Row /\ NoRow.state = "none"
  BY DEF NoRow, Row
<1>3. TypeOK
  BY <1>1, InitInv DEF IInv
<1>4. \A q \in Requesters, x \in Actions : ~Asks(q, x)
  BY <1>1 DEF Asks, Idle
<1>5. ActionTypeOK
  BY <1>1, <1>2, <1>3 DEF ActionTypeOK
<1>6. \A x \in Actions : pc[x] = "idle"
  BY <1>1, ActionAssumption DEF Init
<1>7. AcceptedIsRecorded
  BY <1>1 DEF Init, AcceptedIsRecorded
<1> QED
  BY <1>1, <1>2, <1>4, <1>5, <1>6, <1>7 DEF OwnerInv, OneActive, AliveAreActive, SpawnsPend,
     OneRequest, FreeRowsAreUnused, ReceiptsAgree, Active, ACTIVE, Asks

\* A claim finds every active row dead, so only the new one is active afterwards.
LEMMA ClaimKeepsOwnerInv ==
    ASSUME OwnerInv, TypeOK', NEW q \in Requesters, ClaimAction(q)
    PROVE  OwnerInv'
<1>1. PICK new \in Actions :
        /\ action[new] = NoRow
        /\ action' = [x \in Actions |->
                        IF x = new THEN [NoRow EXCEPT !.state = "QUEUED"]
                        ELSE IF Active(x) THEN [action[x] EXCEPT !.state = "UNCERTAIN"]
                        ELSE action[x]]
        /\ req' = [req EXCEPT ![q] = <<"spawn", new>>]
  BY DEF ClaimAction
<1>2. /\ UNCHANGED <<alive, pc, result, accepted>> /\ req[q] = Idle
      /\ \A x \in Actions : Active(x) => action[x].ident /\ x \notin alive
  BY DEF ClaimAction, acceptVars, events, Dead
<1>3. /\ action \in [Actions -> Row] /\ alive \subseteq Actions
      /\ req \in [Requesters -> {Idle} \union {"spawn", "attach"} \X Actions]
  BY DEF OwnerInv, ActionTypeOK
<1>4. /\ action'[new].state = "QUEUED" /\ ~action'[new].ident
      /\ action'[new] \in Row /\ Active(new)' /\ action[new].state = "none"
  <2>1. NoRow \in Row /\ NoRow.state = "none" /\ NoRow.ident = FALSE
    BY DEF NoRow, Row
  <2>2. action'[new] = [NoRow EXCEPT !.state = "QUEUED"]
    BY <1>1
  <2>3. action'[new] \in Row /\ action'[new].state = "QUEUED" /\ action'[new].ident = FALSE
    BY <2>1, <2>2 DEF Row, ACTIVE
  <2> QED BY <1>1, <2>1, <2>3 DEF ACTIVE, Active
<1>5. ASSUME NEW x \in Actions, x # new
      PROVE  /\ action'[x] \in Row /\ ~Active(x)'
             /\ action'[x].state \in {"none", "SUCCEEDED", "FAILED"} => action'[x] = action[x]
  <2>1. CASE Active(x)
    <3>1. action'[x] = [action[x] EXCEPT !.state = "UNCERTAIN"] /\ action[x] \in Row
      BY <1>1, <1>3, <1>5, <2>1
    <3>2. action'[x] \in Row /\ action'[x].state = "UNCERTAIN"
      BY <3>1 DEF Row, TERMINAL
    <3> QED BY <3>2 DEF Active, ACTIVE
  <2>2. CASE ~Active(x)
    BY <1>1, <1>3, <1>5, <2>2 DEF Active
  <2> QED BY <2>1, <2>2
<1>6. /\ req' \in [Requesters -> {Idle} \union {"spawn", "attach"} \X Actions]
      /\ req'[q] = <<"spawn", new>> /\ \A p \in Requesters \ {q} : req'[p] = req[p]
  BY <1>1, <1>3
<1>7. action' \in [Actions -> Row]
  BY <1>1, <1>4, <1>5
<1>8. pc[new] = "idle" /\ \A p \in Requesters : ~Asks(p, new)
  BY <1>4 DEF OwnerInv, FreeRowsAreUnused
<1>9. alive = {}
  BY <1>2, <1>3 DEF OwnerInv, AliveAreActive
<1>10. \A p \in Requesters \ {q}, x \in Actions : Asks(p, x)' <=> Asks(p, x)
  BY <1>6 DEF Asks
<1>11. \A x \in Actions : Asks(q, x)' <=> x = new
  BY <1>6 DEF Asks
<1>12. ActionTypeOK'
  BY <1>2, <1>3, <1>6, <1>7 DEF ActionTypeOK
<1>13. OneActive' /\ AliveAreActive'
  BY <1>2, <1>5, <1>9 DEF OneActive, AliveAreActive
<1>14. SpawnsPend'
  <2> SUFFICES ASSUME NEW p \in Requesters, NEW x \in Actions, req'[p] = <<"spawn", x>>
               PROVE  /\ action'[x].state = "QUEUED" /\ ~action'[x].ident
                      /\ x \notin alive' /\ pc'[x] = "idle"
    BY DEF SpawnsPend
  <2>1. CASE p = q
    <3>1. x = new
      BY <1>6, <2>1
    <3> QED BY <1>2, <1>4, <1>8, <1>9, <3>1
  <2>2. CASE p # q
    <3>1. req[p] = <<"spawn", x>>
      BY <1>6, <2>2
    <3>2. action[x].state = "QUEUED" /\ ~action[x].ident
      BY <3>1 DEF OwnerInv, SpawnsPend
    <3>3. Active(x) /\ ~action[x].ident
      BY <3>2 DEF Active, ACTIVE
    <3> QED BY <1>2, <3>3
  <2> QED BY <2>1, <2>2
<1>15. OneRequest'
  <2> SUFFICES ASSUME NEW p \in Requesters, NEW r \in Requesters, NEW x \in Actions,
                      Asks(p, x)', Asks(r, x)'
               PROVE  p = r
    BY DEF OneRequest
  <2>1. CASE x = new
    BY <1>8, <1>10, <2>1
  <2>2. CASE x # new
    BY <1>10, <1>11, <2>2 DEF OwnerInv, OneRequest
  <2> QED BY <2>1, <2>2
<1>16. FreeRowsAreUnused'
  <2> SUFFICES ASSUME NEW x \in Actions, action'[x].state = "none"
               PROVE  /\ pc'[x] = "idle"
                      /\ \A p \in Requesters : ~Asks(p, x)'
    BY DEF FreeRowsAreUnused
  <2>1. x # new
    BY <1>4
  <2>2. action'[x] = action[x]
    BY <1>5, <2>1
  <2> QED BY <1>2, <1>10, <1>11, <2>1, <2>2 DEF OwnerInv, FreeRowsAreUnused
<1>17. ReceiptsAgree'
  <2>1. \A x \in Actions : action'[x].state \in {"SUCCEEDED", "FAILED"} => action'[x] = action[x]
    BY <1>4, <1>5
  <2> QED BY <1>2, <2>1 DEF OwnerInv, ReceiptsAgree
<1>18. AcceptedIsRecorded'
  BY <1>2 DEF OwnerInv, AcceptedIsRecorded
<1> QED BY <1>12, <1>13, <1>14, <1>15, <1>16, <1>17, <1>18 DEF OwnerInv

\* A requester's next step towards action x, which then asks at most to attach it.
LEMMA RequestKeepsOwnerInv ==
    ASSUME OwnerInv, ResultsFit, TypeOK', NEW q \in Requesters, NEW x \in Actions, Asks(q, x),
           UNCHANGED <<pc, result, accepted>>,
           NEW next \in {Idle, <<"attach", x>>}, req' = [req EXCEPT ![q] = next],
           NEW row \in Row, action' = [action EXCEPT ![x] = row],
           \/ /\ req[q] = <<"spawn", x>>
              /\ \/ row = action[x] /\ alive' = alive \union {x}
                 \/ row.state = "FAILED" /\ alive' = alive
           \/ row.state = action[x].state /\ alive' = alive
    PROVE  OwnerInv'
<1>1. /\ action \in [Actions -> Row] /\ alive \subseteq Actions
      /\ req \in [Requesters -> {Idle} \union {"spawn", "attach"} \X Actions]
  BY DEF OwnerInv, ActionTypeOK
<1>2. next \in {Idle} \union {"spawn", "attach"} \X Actions
  OBVIOUS
<1>3. ActionTypeOK'
  BY <1>1, <1>2 DEF ActionTypeOK
<1>4. /\ \A p \in Requesters \ {q} : req'[p] = req[p]
      /\ req'[q] = next
  BY <1>1
<1>5. action'[x] = row /\ \A y \in Actions \ {x} : action'[y] = action[y]
  BY <1>1
<1>6. \A y \in Actions : next # <<"spawn", y>>
  BY DEF Idle
<1>7. \A y \in Actions : Asks(q, y)' => y = x
  BY <1>4 DEF Asks, Idle
<1>8. \A p \in Requesters, y \in Actions : Asks(p, y)' => Asks(p, y)
  BY <1>4, <1>7 DEF Asks
<1>9. action[x].state # "none"
  BY DEF OwnerInv, FreeRowsAreUnused
<1>10. req[q] = <<"spawn", x>> => Active(x) /\ x \notin alive /\ pc[x] = "idle"
  BY DEF OwnerInv, SpawnsPend, Active, ACTIVE
<1>11. \A y \in Actions : Active(y)' => Active(y)
  BY <1>5 DEF Active, ACTIVE
<1>12. OneActive' /\ OneRequest' /\ AcceptedIsRecorded'
  BY <1>8, <1>11 DEF OwnerInv, OneActive, OneRequest, AcceptedIsRecorded
<1>13. AliveAreActive'
  <2> SUFFICES ASSUME NEW y \in alive' PROVE Active(y)'
    BY DEF AliveAreActive
  <2>1. y \in alive => y \in Actions /\ Active(y)
    BY <1>1 DEF OwnerInv, AliveAreActive
  <2>2. CASE y # x
    BY <1>5, <2>1, <2>2 DEF Active
  <2>3. CASE y = x
    BY <1>5, <1>10, <2>1, <2>3 DEF Active
  <2> QED BY <2>2, <2>3
<1>14. SpawnsPend'
  <2> SUFFICES ASSUME NEW p \in Requesters, NEW y \in Actions, req'[p] = <<"spawn", y>>
               PROVE  /\ action'[y].state = "QUEUED" /\ ~action'[y].ident
                      /\ y \notin alive' /\ pc'[y] = "idle"
    BY DEF SpawnsPend
  <2>1. p # q
    BY <1>4, <1>6
  <2>2. req[p] = <<"spawn", y>>
    BY <1>4, <2>1
  <2>3. y # x
    BY <2>1, <2>2 DEF OwnerInv, OneRequest, Asks
  <2>4. /\ action[y].state = "QUEUED" /\ ~action[y].ident
        /\ y \notin alive /\ pc[y] = "idle"
    BY <2>2 DEF OwnerInv, SpawnsPend
  <2> QED BY <1>5, <2>3, <2>4
<1>15. FreeRowsAreUnused'
  <2> SUFFICES ASSUME NEW y \in Actions, action'[y].state = "none"
               PROVE  /\ pc'[y] = "idle"
                      /\ \A p \in Requesters : ~Asks(p, y)'
    BY DEF FreeRowsAreUnused
  <2>1. y # x
    BY <1>5, <1>9
  <2> QED BY <1>5, <1>8, <2>1 DEF OwnerInv, FreeRowsAreUnused
<1>16. ReceiptsAgree'
  <2> SUFFICES ASSUME NEW y \in Actions
               PROVE  /\ action'[y].state = "SUCCEEDED" => result[y] = "accepted"
                      /\ action'[y].state = "FAILED" =>
                            pc[y] \in {"idle", "done"} /\ result[y] # "accepted"
    BY DEF ReceiptsAgree
  <2>1. CASE action'[y].state = action[y].state
    BY <2>1 DEF OwnerInv, ReceiptsAgree
  <2>2. CASE action'[y].state # action[y].state
    <3>1. y = x /\ action'[y].state = "FAILED" /\ req[q] = <<"spawn", x>>
      BY <1>5, <2>2
    <3>2. pc[x] = "idle" /\ x \in Acceptors
      BY <1>10, <3>1, ActionAssumption
    <3>3. result[x] = "none"
      BY <3>2 DEF ResultsFit
    <3> QED BY <3>1, <3>2, <3>3
  <2> QED BY <2>1, <2>2
<1> QED BY <1>3, <1>12, <1>13, <1>14, <1>15, <1>16 DEF OwnerInv

\* One step of a child's process.  It goes on from where it was, or its row gets a receipt.
LEMMA ChildKeepsOwnerInv ==
    ASSUME OwnerInv, TypeOK', NEW x \in Actions, x \in alive,
           alive' \subseteq alive, req' = req, accepted' = accepted, result' = result,
           NEW to, pc' = [pc EXCEPT ![x] = to],
           NEW row \in Row, action' = [action EXCEPT ![x] = row], row.state # "none",
           \/ row.state \in ACTIVE
           \/ x \notin alive' /\ row.state = "SUCCEEDED" /\ result[x] = "accepted"
           \/ x \notin alive' /\ row.state = "FAILED" /\ result[x] # "accepted" /\ to = "done"
    PROVE  OwnerInv'
<1>1. /\ action \in [Actions -> Row] /\ alive \subseteq Actions
      /\ req \in [Requesters -> {Idle} \union {"spawn", "attach"} \X Actions]
      /\ pc \in [Acceptors -> Pcs] /\ x \in Acceptors
  BY ActionAssumption DEF OwnerInv, ActionTypeOK, TypeOK
<1>2. ActionTypeOK'
  BY <1>1 DEF ActionTypeOK
<1>3. /\ action'[x] = row /\ pc'[x] = to
      /\ \A y \in Actions \ {x} : action'[y] = action[y] /\ pc'[y] = pc[y]
  BY <1>1, ActionAssumption
<1>4. Active(x)
  BY DEF OwnerInv, AliveAreActive
<1>5. \A q \in Requesters : req[q] # <<"spawn", x>>
  BY DEF OwnerInv, SpawnsPend
<1>6. \A y \in Actions : Active(y)' => Active(y)
  BY <1>3, <1>4 DEF Active
<1>7. OneActive' /\ OneRequest' /\ AcceptedIsRecorded'
  BY <1>6 DEF OwnerInv, OneActive, OneRequest, AcceptedIsRecorded, Asks
<1>8. AliveAreActive'
  BY <1>1, <1>3 DEF OwnerInv, AliveAreActive, Active
<1>9. SpawnsPend'
  BY <1>3, <1>5 DEF OwnerInv, SpawnsPend
<1>10. FreeRowsAreUnused'
  BY <1>3 DEF OwnerInv, FreeRowsAreUnused, Asks
<1>11. ReceiptsAgree'
  BY <1>3 DEF OwnerInv, ReceiptsAgree, ACTIVE
<1> QED BY <1>2, <1>7, <1>8, <1>9, <1>10, <1>11 DEF OwnerInv

\* A step of an acceptor: it was begun and is not over, and is told that the run is accepted
\* when it is.
LEMMA StepOfOne ==
    ASSUME IInv, NEW a \in Acceptors, AcceptStep(a)
    PROVE  /\ pc[a] \notin {"idle", "done"} /\ (accepted => accepted')
           /\ \E to \in Pcs \ {"idle"}, what \in Results :
                 /\ pc' = [pc EXCEPT ![a] = to] /\ result' = [result EXCEPT ![a] = what]
                 /\ what = "accepted" => accepted'
<1> DEFINE Moves(to, what) ==
             /\ pc' = [pc EXCEPT ![a] = to] /\ result' = [result EXCEPT ![a] = what]
             /\ what = "accepted" => accepted'
           Goal == /\ pc[a] \notin {"idle", "done"} /\ (accepted => accepted')
                   /\ \E to \in Pcs \ {"idle"}, what \in Results : Moves(to, what)
<1> SUFFICES Goal
  OBVIOUS
<1>1. ASSUME pc[a] \notin {"idle", "done"}, accepted => accepted',
             NEW to \in Pcs \ {"idle"}, Goto(a, to)
      PROVE  Goal
  <2>1. result[a] = "none" /\ "none" \in Results
    BY <1>1 DEF IInv, TypeOK, ResultsFit, Results
  <2>2. result' = [result EXCEPT ![a] = "none"]
    BY <1>1, <2>1 DEF Goto, IInv, TypeOK
  <2>3. Moves(to, "none")
    BY <1>1, <2>2 DEF Goto
  <2> QED BY <1>1, <2>1, <2>3
<1>2. ASSUME pc[a] \notin {"idle", "done"}, accepted => accepted',
             NEW what \in Results, what = "accepted" => accepted', Return(a, what)
      PROVE  Goal
  <2>1. "done" \in Pcs \ {"idle"}
    BY DEF Pcs
  <2>2. Moves("done", what)
    BY <1>2 DEF Return
  <2> QED BY <1>2, <2>1, <2>2
<1> HIDE DEF Goal
<1>3. CASE CheckRejection(a) \/ CheckClean(a) \/ CheckHead(a)
  <2>1. PICK from \in {"rejection", "clean", "head"}, to \in {"clean", "head", "cas"} :
             \E condition \in BOOLEAN : Require(a, from, condition, to)
    BY <1>3 DEF CheckRejection, CheckClean, CheckHead, Require
  <2>2. pc[a] = from /\ accepted' = accepted /\ (Goto(a, to) \/ Return(a, "refused"))
    BY <2>1 DEF Require, At, events
  <2> QED BY <1>1, <1>2, <2>2 DEF Pcs, Results
<1>4. CASE Cas(a) \/ Sync(a) \/ Verify(a)
  <2>1. /\ pc[a] \in {"cas", "sync", "verify"} /\ accepted' = accepted
        /\ \/ \E to \in {"sync", "verify", "gate", "record"} : Goto(a, to)
           \/ \E what \in {"refused", "error", "race"} : Return(a, what)
    BY <1>4 DEF Cas, Sync, Verify, At, events
  <2> QED BY <1>1, <1>2, <2>1 DEF Pcs, Results
<1>5. CASE Gate(a) \/ PostHead(a) \/ PostClean(a)
  <2>1. /\ pc[a] \in {"gate", "posthead", "postclean"} /\ accepted' = accepted
        /\ \E to \in {"posthead", "postclean", "rollback", "record"} : Goto(a, to)
    BY <1>5 DEF Gate, PostHead, PostClean, At, events
  <2> QED BY <1>1, <2>1 DEF Pcs
<1>6. CASE Rollback(a) \/ Resync(a) \/ Reverify(a)
  <2>1. /\ pc[a] \in {"rollback", "resync", "reverify"} /\ accepted' = accepted
        /\ \/ \E to \in {"resync", "reverify"} : Goto(a, to)
           \/ \E what \in {"critical", "rolled back"} : Return(a, what)
    BY <1>6 DEF Rollback, Resync, Reverify, At, events
  <2> QED BY <1>1, <1>2, <2>1 DEF Pcs, Results
<1>7. CASE Record(a)
  <2>1. /\ pc[a] = "record" /\ (accepted => accepted')
        /\ \/ accepted' /\ Return(a, "accepted")
           \/ Return(a, "error")
    BY <1>7 DEF Record, At
  <2> QED BY <1>2, <2>1 DEF Results
<1> QED BY <1>3, <1>4, <1>5, <1>6, <1>7 DEF AcceptStep

\* An acceptor that begins, dies or goes on changes no row.
LEMMA AcceptorKeepsOwnerInv ==
    ASSUME OwnerInv, ResultsFit, TypeOK', NEW a \in Acceptors, UNCHANGED actionVars,
           accepted => accepted',
           a \in Actions => pc[a] \notin {"idle", "done"},
           NEW to, pc' = [pc EXCEPT ![a] = to],
           NEW what, result' = [result EXCEPT ![a] = what],
           what = "accepted" => accepted'
    PROVE  OwnerInv'
<1>1. UNCHANGED <<action, alive, req>>
  BY DEF actionVars
<1>2. /\ pc \in [Acceptors -> Pcs] /\ result \in [Acceptors -> Results]
      /\ \A b \in Acceptors \ {a} : pc'[b] = pc[b] /\ result'[b] = result[b]
      /\ pc'[a] = to /\ result'[a] = what
  BY DEF OwnerInv, ActionTypeOK, TypeOK
<1>3. ActionTypeOK'
  BY <1>1 DEF OwnerInv, ActionTypeOK
<1>4. OneActive' /\ AliveAreActive' /\ OneRequest'
  BY <1>1 DEF OwnerInv, OneActive, AliveAreActive, OneRequest, Active, Asks
<1>5. \A x \in Actions : pc[x] = "idle" => pc'[x] = "idle"
  BY <1>2, ActionAssumption
<1>6. SpawnsPend' /\ FreeRowsAreUnused'
  BY <1>1, <1>5 DEF OwnerInv, SpawnsPend, FreeRowsAreUnused, Asks
<1>7. AcceptedIsRecorded'
  BY <1>2 DEF OwnerInv, AcceptedIsRecorded
<1>8. ASSUME NEW x \in Actions, action[x].state = "FAILED"
      PROVE  pc'[x] \in {"idle", "done"} /\ result'[x] # "accepted"
  <2>1. pc[x] \in {"idle", "done"} /\ result[x] # "accepted"
    BY <1>8 DEF OwnerInv, ReceiptsAgree
  <2> QED BY <1>2, <2>1, ActionAssumption
<1>9. ASSUME NEW x \in Actions, action[x].state = "SUCCEEDED"
      PROVE  result'[x] = "accepted"
  <2>1. result[x] = "accepted" /\ x \in Acceptors
    BY <1>9, ActionAssumption DEF OwnerInv, ReceiptsAgree
  <2>2. pc[x] = "done"
    BY <2>1 DEF ResultsFit
  <2> QED BY <1>2, <2>1, <2>2
<1>10. ReceiptsAgree'
  BY <1>1, <1>8, <1>9 DEF ReceiptsAgree
<1> QED BY <1>3, <1>4, <1>6, <1>7, <1>10 DEF OwnerInv

\* What leaves the rows and the acceptances alone.
LEMMA OthersKeepOwnerInv ==
    ASSUME OwnerInv, TypeOK', UNCHANGED <<action, alive, req, pc, result, accepted>>
    PROVE  OwnerInv'
<1>1. ActionTypeOK' /\ OneActive' /\ AliveAreActive' /\ OneRequest'
  BY DEF OwnerInv, ActionTypeOK, OneActive, AliveAreActive, OneRequest, Active, Asks
<1>2. SpawnsPend' /\ FreeRowsAreUnused' /\ ReceiptsAgree' /\ AcceptedIsRecorded'
  BY DEF OwnerInv, SpawnsPend, FreeRowsAreUnused, ReceiptsAgree, AcceptedIsRecorded, Asks
<1> QED BY <1>1, <1>2 DEF OwnerInv

LEMMA RequesterStepKeeps ==
    ASSUME OwnerInv, ResultsFit, TypeOK', NEW q \in Requesters, RequestStep(q) \/ Restart(q)
    PROVE  OwnerInv'
<1>0. /\ action \in [Actions -> Row]
      /\ req \in [Requesters -> {Idle} \union {"spawn", "attach"} \X Actions]
  BY DEF OwnerInv, ActionTypeOK
<1>1. ASSUME NEW x \in Actions, SpawnChild(q, x)
      PROVE  OwnerInv'
  <2>1. /\ Asks(q, x) /\ req[q] = <<"spawn", x>> /\ UNCHANGED <<pc, result, accepted>>
    BY <1>1 DEF SpawnChild, Asks, acceptVars, events
  <2>2. CASE alive' = alive \union {x} /\ req' = [req EXCEPT ![q] = <<"attach", x>>]
             /\ UNCHANGED action
    <3>1. action' = [action EXCEPT ![x] = action[x]] /\ action[x] \in Row
      BY <1>0, <2>2
    <3> QED BY <2>1, <2>2, <3>1, RequestKeepsOwnerInv
  <2>3. CASE Settle(x, "FAILED") /\ req' = [req EXCEPT ![q] = Idle] /\ UNCHANGED alive
    <3> DEFINE row == [action[x] EXCEPT !.state = "FAILED"]
    <3>1. Active(x)
      BY <2>1 DEF OwnerInv, SpawnsPend, Active, ACTIVE
    <3>2. action' = [action EXCEPT ![x] = row]
      BY <2>3, <3>1 DEF Settle, SetState
    <3>3. row \in Row /\ row.state = "FAILED"
      BY <1>0 DEF Row, TERMINAL
    <3> HIDE DEF row
    <3> QED BY <2>1, <2>3, <3>2, <3>3, RequestKeepsOwnerInv
  <2> QED BY <1>1, <2>2, <2>3 DEF SpawnChild
<1>2. ASSUME NEW x \in Actions, Attach(q, x)
      PROVE  OwnerInv'
  <2> DEFINE row == IF action[x].state = "QUEUED" THEN [action[x] EXCEPT !.ident = TRUE]
                    ELSE action[x]
  <2>1. /\ Asks(q, x) /\ req' = [req EXCEPT ![q] = Idle] /\ UNCHANGED <<pc, result, accepted, alive>>
    BY <1>2 DEF Attach, Asks, acceptVars, events
  <2>2. action' = [action EXCEPT ![x] = row]
    BY <1>0, <1>2 DEF Attach
  <2>3. row \in Row /\ row.state = action[x].state
    BY <1>0 DEF Row
  <2> HIDE DEF row
  <2> QED BY <2>1, <2>2, <2>3, RequestKeepsOwnerInv
<1>3. CASE Restart(q)
  <2>1. /\ req[q] # Idle /\ req' = [req EXCEPT ![q] = Idle]
        /\ UNCHANGED <<pc, result, accepted, action, alive>>
    BY <1>3 DEF Restart, acceptVars, events
  <2>2. PICK x \in Actions : Asks(q, x)
    BY <1>0, <2>1 DEF Asks
  <2>3. action' = [action EXCEPT ![x] = action[x]] /\ action[x] \in Row
    BY <1>0, <2>1
  <2> QED BY <2>1, <2>2, <2>3, RequestKeepsOwnerInv
<1> QED BY <1>1, <1>2, <1>3 DEF RequestStep

LEMMA ChildStepKeeps ==
    ASSUME OwnerInv, TypeOK', NEW x \in Actions, ChildStep(x) \/ ChildDies(x)
    PROVE  OwnerInv'
<1>0. /\ action \in [Actions -> Row] /\ alive \subseteq Actions
      /\ pc \in [Acceptors -> Pcs] /\ x \in Acceptors
  BY ActionAssumption DEF OwnerInv, ActionTypeOK, TypeOK
<1>1. x \in alive /\ Active(x)
  BY DEF ChildStep, MarkRunning, MarkTerminal, ChildDies, OwnerInv, AliveAreActive
<1>2. action[x] \in Row /\ action' \in [Actions -> Row] => action'[x] \in Row
  BY <1>0
<1>3. CASE MarkRunning(x)
  <2> DEFINE row == IF action[x].state = "QUEUED" THEN [state |-> "RUNNING", ident |-> TRUE]
                    ELSE action[x]
  <2>1. /\ pc' = [pc EXCEPT ![x] = "rejection"]
        /\ UNCHANGED <<alive, req, accepted, result>>
    BY <1>3 DEF MarkRunning, Begin, events
  <2>2. action' = [action EXCEPT ![x] = row]
    BY <1>0, <1>3 DEF MarkRunning
  <2>3. row \in Row /\ row.state \in ACTIVE
    BY <1>0, <1>1 DEF Row, ACTIVE, Active
  <2> HIDE DEF row
  <2> QED BY <1>1, <2>1, <2>2, <2>3, ChildKeepsOwnerInv DEF ACTIVE
<1>4. CASE MarkTerminal(x)
  <2> DEFINE state == IF result[x] = "accepted" THEN "SUCCEEDED" ELSE "FAILED"
             row == [action[x] EXCEPT !.state = state]
  <2>1. /\ pc[x] = "done" /\ alive' = alive \ {x} /\ Settle(x, state)
        /\ UNCHANGED <<pc, req, accepted, result>>
    BY <1>4 DEF MarkTerminal, acceptVars, events
  <2>2. pc' = [pc EXCEPT ![x] = "done"]
    BY <1>0, <2>1
  <2>3. action' = [action EXCEPT ![x] = row]
    BY <1>1, <2>1 DEF Settle, SetState
  <2>4. row \in Row /\ row.state = state
    BY <1>0 DEF Row, TERMINAL
  <2>5. \/ row.state = "SUCCEEDED" /\ result[x] = "accepted"
        \/ row.state = "FAILED" /\ result[x] # "accepted"
    BY <2>4
  <2> HIDE DEF row, state
  <2> QED BY <1>1, <2>1, <2>2, <2>3, <2>4, <2>5, ChildKeepsOwnerInv
<1>5. CASE ChildDies(x)
  <2>1. alive' \subseteq alive /\ UNCHANGED <<pc, req, accepted, result, action>>
    BY <1>5 DEF ChildDies, events
  <2>2. pc' = [pc EXCEPT ![x] = pc[x]] /\ action' = [action EXCEPT ![x] = action[x]]
        /\ action[x] \in Row
    BY <1>0, <2>1
  <2>3. action[x].state \in ACTIVE /\ action[x].state # "none"
    BY <1>1 DEF Active, ACTIVE
  <2> QED BY <1>1, <2>1, <2>2, <2>3, ChildKeepsOwnerInv
<1> QED BY <1>3, <1>4, <1>5 DEF ChildStep

LEMMA OwnerStep == IInv /\ IInv' /\ OwnerInv /\ [ActionNext]_ownerVars => OwnerInv'
<1> SUFFICES ASSUME IInv, IInv', OwnerInv, [ActionNext]_ownerVars PROVE OwnerInv'
  OBVIOUS
<1>0. TypeOK /\ TypeOK' /\ ResultsFit
  BY DEF IInv
<1>1. ASSUME NEW q \in Requesters, ClaimAction(q) \/ RequestStep(q) \/ Restart(q)
      PROVE  OwnerInv'
  BY <1>0, <1>1, ClaimKeepsOwnerInv, RequesterStepKeeps
<1>2. ASSUME NEW x \in Actions, ChildStep(x) \/ ChildDies(x)
      PROVE  OwnerInv'
  BY <1>0, <1>2, ChildStepKeeps
<1>3. ASSUME NEW a \in Acceptors, Accepting(a)
      PROVE  OwnerInv'
  <2>1. AcceptStep(a) /\ UNCHANGED actionVars
    BY <1>3 DEF Accepting
  <2>2. /\ pc[a] \notin {"idle", "done"} /\ (accepted => accepted')
        /\ \E to, what : /\ pc' = [pc EXCEPT ![a] = to] /\ result' = [result EXCEPT ![a] = what]
                         /\ what = "accepted" => accepted'
    BY <2>1, StepOfOne
  <2> QED BY <1>0, <2>1, <2>2, AcceptorKeepsOwnerInv
<1>4. ASSUME NEW a \in Direct, Begin(a)
      PROVE  UNCHANGED actionVars => OwnerInv'
  <2>1. /\ pc' = [pc EXCEPT ![a] = "rejection"] /\ UNCHANGED <<result, accepted>>
        /\ pc[a] = "idle" /\ a \in Acceptors /\ a \notin Actions
    BY <1>4 DEF Begin, events, Direct
  <2>2. result[a] = "none"
    BY <1>0, <2>1 DEF ResultsFit
  <2>3. result \in [Acceptors -> Results]
    BY <1>0 DEF TypeOK
  <2>4. [result EXCEPT ![a] = "none"] = result
    BY <2>2, <2>3, SMT
  <2>5. result' = [result EXCEPT ![a] = "none"]
    BY <2>1, <2>4, Zenon
  <2>6. (accepted => accepted') /\ ("none" = "accepted" => accepted')
    BY <2>1
  <2>7. a \in Acceptors /\ a \notin Actions /\ pc' = [pc EXCEPT ![a] = "rejection"]
    BY <2>1
  <2> SUFFICES ASSUME UNCHANGED actionVars PROVE OwnerInv'
    OBVIOUS
  <2> QED BY <1>0, <2>5, <2>6, <2>7, AcceptorKeepsOwnerInv
<1>5. ASSUME UNCHANGED actionVars, UNCHANGED <<pc, result, accepted>>
      PROVE  OwnerInv'
  BY <1>0, <1>5, OthersKeepOwnerInv DEF actionVars
<1>6. \A a : Crash(a) => UNCHANGED <<pc, result, accepted>>
  BY DEF Crash, events
<1>7. Environment => UNCHANGED <<pc, result, accepted>>
  BY DEF Environment, Commit, Edit, RejectRead, RejectWrite, events
<1>8. CASE UNCHANGED ownerVars
  BY <1>5, <1>8 DEF ownerVars, acceptVars, events
<1>9. CASE ActionNext
  BY <1>1, <1>2, <1>3, <1>4, <1>5, <1>6, <1>7, <1>9 DEF ActionNext
<1> QED BY <1>8, <1>9

LEMMA OwnerInvariance == ActionSpec => [](IInv /\ OwnerInv)
<1>1. ActionSpec => []IInv
  BY ActionsAreAcceptances, Invariance, PTL
<1> QED BY <1>1, InitOwnerInv, OwnerStep, PTL DEF ActionSpec

\* The rows, the children and the requests keep their types.
THEOREM ActionTypes == ActionSpec => []ActionTypeOK
<1> QED BY OwnerInvariance, PTL DEF OwnerInv

\* However many requests, restarts and deaths there are: at most one child lives that
\* accepts the run, and its row is active.
THEOREM OneChildAccepts == ActionSpec => []OneAcceptChild
<1>1. OwnerInv => OneAcceptChild
  BY DEF OwnerInv, ActionTypeOK, OneActive, AliveAreActive, OneAcceptChild
<1> QED BY <1>1, OwnerInvariance, PTL

\* A row that says SUCCEEDED has its candidate integrated and its acceptance recorded, one
\* that says FAILED was not accepted by its child, whatever is accepted meanwhile.
THEOREM ReceiptsAreTrue == ActionSpec => []ActionsTellTheTruth
<1>1. IInv /\ OwnerInv => ActionsTellTheTruth
  BY ActionAssumption DEF IInv, OwnerInv, ReceiptsAgree, AcceptedIsRecorded, AcceptedIsIntegrated,
     ActionsTellTheTruth
<1> QED BY <1>1, OwnerInvariance, PTL
=============================================================================
