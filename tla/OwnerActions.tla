----------------------------- MODULE OwnerActions -----------------------------
(***************************************************************************)
(* The owner asks for an acceptance (owner_actions.py): a requester (the   *)
(* web server) claims an action row, starts a detached child for it and    *)
(* notes the child's identity; the child accepts the run (Acceptance) and  *)
(* records how it ended.  A shell may accept the same run directly at any  *)
(* time.  Every action has its own child, which has the action's name.     *)
(* Reviews use the same rows and another kind; they do not meet these.     *)
(***************************************************************************)
EXTENDS Acceptance

CONSTANTS Actions,      \* action rows, and the children started for them
          Requesters    \* threads that ask for acceptances

\* "restart" \in Faults: a requester is gone before it has finished.
ASSUME ActionAssumption == Actions \subseteq Acceptors

VARIABLES action,   \* action[x]: the row's state and whether it has the child's identity
          alive,    \* children that live
          req       \* req[q]: what a requester does next, and for which action

actionVars == <<action, alive, req>>
ownerVars == <<acceptVars, actionVars>>

ACTIVE == {"QUEUED", "RUNNING"}
TERMINAL == {"SUCCEEDED", "FAILED", "UNCERTAIN"}
NoRow == [state |-> "none", ident |-> FALSE]
Row == [state : {"none"} \union ACTIVE \union TERMINAL, ident : BOOLEAN]
Idle == <<"idle">>

\* Types, with those of the acceptances: a row has a state of OwnerActionState.
ActionTypeOK ==
    /\ TypeOK
    /\ action \in [Actions -> Row]
    /\ alive \subseteq Actions
    /\ req \in [Requesters -> {Idle} \union {"spawn", "attach"} \X Actions]

ActionInit ==
    /\ Init
    /\ action = [x \in Actions |-> NoRow]
    /\ alive = {}
    /\ req = [q \in Requesters |-> Idle]

Active(x) == action[x].state \in ACTIVE
SetState(x, state) == [action EXCEPT ![x].state = state]
Settle(x, state) == action' = IF Active(x) THEN SetState(x, state) ELSE action

-----------------------------------------------------------------------------
(* Requesters: request_accept.                                             *)

\* Mutant: no identity is taken for no process.
UnknownIsDead(x) == x \notin alive

\* probe_liveness; without an identity the answer is UNKNOWN.
Dead(x) == action[x].ident /\ x \notin alive

\* claim_owner_action, one transaction.
ClaimAction(q) ==
    /\ req[q] = Idle
    /\ \A x \in Actions : Active(x) => Dead(x)
    /\ \E new \in Actions :
          /\ action[new] = NoRow
          /\ action' = [x \in Actions |->
                          IF x = new THEN [NoRow EXCEPT !.state = "QUEUED"]
                          ELSE IF Active(x) THEN [action[x] EXCEPT !.state = "UNCERTAIN"]
                          ELSE action[x]]
          /\ req' = [req EXCEPT ![q] = <<"spawn", new>>]
    /\ UNCHANGED <<acceptVars, alive>>

\* The transcript, the QUEUED event, the child.  An error of the first and of the
\* last fails the action; one of the event is the caller's.
SpawnChild(q, x) ==
    /\ req[q] = <<"spawn", x>>
    /\ \/ /\ alive' = alive \union {x}
          /\ req' = [req EXCEPT ![q] = <<"attach", x>>]
          /\ UNCHANGED action
       \/ /\ Settle(x, "FAILED")
          /\ req' = [req EXCEPT ![q] = Idle]
          /\ UNCHANGED alive
    /\ UNCHANGED acceptVars

\* attach_owner_action_process, of a QUEUED row only.
Attach(q, x) ==
    /\ req[q] = <<"attach", x>>
    /\ action' = IF action[x].state = "QUEUED" THEN [action EXCEPT ![x].ident = TRUE] ELSE action
    /\ req' = [req EXCEPT ![q] = Idle]
    /\ UNCHANGED <<acceptVars, alive>>

Restart(q) ==
    /\ "restart" \in Faults
    /\ req[q] # Idle
    /\ req' = [req EXCEPT ![q] = Idle]
    /\ UNCHANGED <<acceptVars, action, alive>>

-----------------------------------------------------------------------------
(* Children: run_accept_action_child.                                      *)

\* mark_owner_action_running; whether the row was QUEUED is not looked at.
MarkRunning(x) ==
    /\ x \in alive
    /\ Begin(x)
    /\ action' = IF action[x].state = "QUEUED"
                 THEN [action EXCEPT ![x] = [state |-> "RUNNING", ident |-> TRUE]] ELSE action
    /\ UNCHANGED <<alive, req>>

\* Mutant: acceptances that raise are reported like the others.
MarkDone(x) ==
    /\ x \in alive /\ pc[x] = "done"
    /\ Settle(x, "SUCCEEDED")
    /\ alive' = alive \ {x}
    /\ UNCHANGED <<acceptVars, req>>

\* Mutant: the row gets the words of the exception.
MarkResult(x) ==
    /\ x \in alive /\ pc[x] = "done"
    /\ Settle(x, result[x])
    /\ alive' = alive \ {x}
    /\ UNCHANGED <<acceptVars, req>>

\* Mutant: a refused acceptance has no receipt.
StayRunning(x) ==
    /\ x \in alive /\ pc[x] = "done" /\ result[x] # "refused"
    /\ Settle(x, IF result[x] = "accepted" THEN "SUCCEEDED" ELSE "FAILED")
    /\ alive' = alive \ {x}
    /\ UNCHANGED <<acceptVars, req>>

\* mark_owner_action_terminal: the first receipt wins.
MarkTerminal(x) ==
    /\ x \in alive /\ pc[x] = "done"
    /\ Settle(x, IF result[x] = "accepted" THEN "SUCCEEDED" ELSE "FAILED")
    /\ alive' = alive \ {x}
    /\ UNCHANGED <<acceptVars, req>>

\* A child dies before, in or after its acceptance.
ChildDies(x) ==
    /\ "crash" \in Faults
    /\ x \in alive
    /\ alive' = alive \ {x}
    /\ running' = running \ {x}
    /\ UNCHANGED <<target, events, pc, result, rejecting, action, req>>

-----------------------------------------------------------------------------
Direct == Acceptors \ Actions

RequestStep(q) ==
    \/ \E x \in Actions : SpawnChild(q, x) \/ Attach(q, x)
ChildStep(x) == MarkRunning(x) \/ MarkTerminal(x)
Accepting(a) == AcceptStep(a) /\ UNCHANGED actionVars

ActionNext ==
    \/ \E q \in Requesters : ClaimAction(q) \/ RequestStep(q) \/ Restart(q)
    \/ \E x \in Actions : ChildStep(x) \/ ChildDies(x)
    \/ \E a \in Acceptors : Accepting(a)
    \/ \E a \in Direct : (Begin(a) \/ Crash(a)) /\ UNCHANGED actionVars
    \/ Environment /\ UNCHANGED actionVars

ActionSpec == ActionInit /\ [][ActionNext]_ownerVars

\* A process that lives goes on with what it does.
ActionFairness ==
    /\ \A q \in Requesters : WF_ownerVars(RequestStep(q))
    /\ \A x \in Actions : WF_ownerVars(ChildStep(x))
    /\ \A a \in Acceptors : WF_ownerVars(Accepting(a))
FairActionSpec == ActionSpec /\ ActionFairness

-----------------------------------------------------------------------------
(* Properties.                                                             *)

\* However requests, restarts of the server and deaths of children interleave, no
\* two children accept the run at once: a row is given up only when its process is
\* provably gone.
OneAcceptChild ==
    /\ \A x, y \in alive : x = y
    /\ \A x \in alive : Active(x)

\* What the row says is what happened: SUCCEEDED means that this child's acceptance
\* was recorded and the candidate integrated, FAILED that it was not.
ActionsTellTheTruth ==
    \A x \in Actions :
        /\ action[x].state = "SUCCEEDED" => result[x] = "accepted" /\ accepted /\ OnBranch(Candidate)
        /\ action[x].state = "FAILED" => result[x] # "accepted"

\* An action whose child lives comes to an end.
ActionsEnd == \A x \in Actions : Active(x) /\ x \in alive ~> ~Active(x) \/ x \notin alive

\* Documented and not so: a dead action does not stand in the way of the next.  The
\* server may restart between the claim and the child's start, or an error of the
\* event may end the request; the row then has no identity, and refuses for ever.
DeadActionsAreReplaced ==
    \A x \in Actions : Active(x) /\ x \notin alive =>
        Dead(x) \/ \E q \in Requesters : req[q] # Idle /\ req[q][2] = x
=============================================================================
