---------------------------- MODULE ManualControl ----------------------------
(***************************************************************************)
(* What the clients of a provider session are promised about manual        *)
(* control (SessionControls, session_control.py): automation is held       *)
(* before a person writes, goes on only when every message has had its     *)
(* answer, and no accepted message is dropped silently.                    *)
(***************************************************************************)
EXTENDS Naturals, FiniteSets

CONSTANTS Messages,    \* request identifiers
          MaxPending   \* messages waiting or being answered: 8 in the code

VARIABLES mode,   \* controls.mode
          msg     \* msg[m]: control_messages.state of request m

vars == <<mode, msg>>

ENDED == {"DONE", "FAILED", "EXPIRED"}
PENDING == {"QUEUED", "RUNNING"}
Modes == {"ACTIVE", "REQUESTED", "MANUAL", "RESUMING"} \union ENDED
Pending(state) == {m \in Messages : state[m] \in PENDING}
Full(state) == Cardinality(Pending(state)) >= MaxPending

Init == mode = "ACTIVE" /\ msg = [m \in Messages |-> "none"]

Request == mode = "ACTIVE" /\ mode' = "REQUESTED" /\ UNCHANGED msg
Grant == mode = "REQUESTED" /\ mode' = "MANUAL" /\ UNCHANGED msg

\* A message may itself request control.
Accept(m) ==
    /\ mode \in {"ACTIVE", "REQUESTED", "MANUAL"}
    /\ msg[m] = "none" /\ ~Full(msg)
    /\ msg' = [msg EXCEPT ![m] = "QUEUED"]
    /\ mode' = IF mode = "ACTIVE" THEN "REQUESTED" ELSE mode

\* One message at a time, and under manual control only.
Deliver(m) ==
    /\ mode = "MANUAL" /\ msg[m] = "QUEUED"
    /\ \A n \in Messages : msg[n] # "RUNNING"
    /\ msg' = [msg EXCEPT ![m] = "RUNNING"]
    /\ UNCHANGED mode

Answer(m) ==
    /\ mode = "MANUAL" /\ msg[m] = "RUNNING"
    /\ \E answer \in {"DONE", "FAILED"} : msg' = [msg EXCEPT ![m] = answer]
    /\ UNCHANGED mode

Cancelled(states) == [m \in Messages |-> IF msg[m] \in states THEN "FAILED" ELSE msg[m]]
Cancel == mode \in {"REQUESTED", "MANUAL"} /\ msg' = Cancelled({"QUEUED"}) /\ UNCHANGED mode

Resume == mode = "MANUAL" /\ Pending(msg) = {} /\ mode' = "RESUMING" /\ UNCHANGED msg
Reactivate == mode = "RESUMING" /\ mode' = "ACTIVE" /\ UNCHANGED msg

\* The end answers every message.  A request for control keeps the session from
\* being done; a session that is done may still turn out to have failed.
End ==
    /\ \/ mode = "ACTIVE" /\ mode' = "DONE"
       \/ mode \in {"MANUAL", "RESUMING"} /\ mode' = "EXPIRED"
       \/ mode' = "FAILED"
    /\ msg' = Cancelled(PENDING)

Next ==
    \/ Request \/ Grant \/ Cancel \/ Resume \/ Reactivate \/ End
    \/ \E m \in Messages : Accept(m) \/ Deliver(m) \/ Answer(m)

Spec == Init /\ [][Next]_vars
=============================================================================
