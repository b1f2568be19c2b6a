------------------------- MODULE SessionControl_proofs -------------------------
(***************************************************************************)
(* What holds of a provider session for every number of clients and        *)
(* recovering supervisors, any messages, any capacity of the queue and     *)
(* whatever fails.                                                         *)
(***************************************************************************)
EXTENDS SessionControl, TLAPS

MsgStates == PENDING \union {"none", "DONE", "FAILED"}

\* The owner answers a message.
AnswersFit == Answering => cur \in Messages

\* Only supervisors that have found the owner dead hold an outcome.
FoundFits == \A r \in Recoverers : found[r] # "none" => ~up

\* What the clients' and the owner's writes to the control row have to keep.
ControlInv == PendingOnlyUnderControl /\ OwnerFollowsMode /\ AnswersFit

IInv == TypeOK /\ ControlInv /\ FoundFits

\* A step as clients see it.
Promised == [Control!Next]_<<mode, msg>>

USE DEF PENDING, ENDED, LiveModes

-----------------------------------------------------------------------------
(* Facts about messages.                                                   *)

LEMMA MsgFunction == ASSUME TypeOK PROVE msg \in [Messages -> MsgStates] /\ mode \in Modes
BY DEF TypeOK, MsgStates

\* Without pending messages there is nothing to fail.
LEMMA NothingToFail ==
    ASSUME TypeOK, Pending = {}, NEW states \in SUBSET PENDING
    PROVE  Failing(states) = msg
BY DEF TypeOK, Pending, Failing

\* Both modules fail the same messages.
LEMMA SameMessages ==
    /\ Control!Pending(msg) = Pending
    /\ \A states : Control!Cancelled(states) = Failing(states)
    /\ Control!Full(msg) <=> Full
<1>1. Control!Pending(msg) = Pending
  BY Zenon DEF Control!Pending, Pending, Control!PENDING
<1>2. \A states : Control!Cancelled(states) = Failing(states)
  BY Zenon DEF Control!Cancelled, Failing
<1>3. Control!Cardinality(Pending) = Cardinality(Pending)
  BY Zenon DEF Control!Cardinality, Cardinality
<1>4. Control!Full(msg) <=> Full
  BY <1>1, <1>3, Zenon DEF Control!Full, Full
<1> QED BY <1>1, <1>2, <1>4

\* The end of a session leaves nothing pending.
LEMMA EndFailsAll ==
    ASSUME TypeOK, NEW to \in ENDED, Finish(to)
    PROVE  /\ mode' \in Modes /\ msg' \in [Messages -> MsgStates]
           /\ Pending' = {}
           /\ mode' = to /\ msg' = Control!Cancelled(PENDING)
BY DEF TypeOK, Finish, Failing, Pending, Modes, MsgStates, Control!Cancelled

-----------------------------------------------------------------------------
(* Types.                                                                  *)

LEMMA VerbTypes ==
    ASSUME TypeOK, NEW c \in Clients, ClientStep(c) PROVE TypeOK'
<1>0. msg \in [Messages -> MsgStates]
  BY DEF TypeOK, MsgStates
<1>1. CASE RequireLive(c)
  BY <1>1 DEF RequireLive, controlRow, queue, process, ownerVars, TypeOK
<1>2. ASSUME NEW v, Write(c, v),
             mode' \in Modes, chat' \in BOOLEAN, interrupt' \in BOOLEAN,
             msg' \in [Messages -> MsgStates], order' \in Seq(Messages)
      PROVE  TypeOK'
  BY <1>2 DEF Write, process, ownerVars, TypeOK, MsgStates
<1>3. CASE Takeover(c)
  BY <1>0, <1>3, <1>2 DEF Takeover, queue, TypeOK, Modes
<1>4. CASE Hold(c)
  BY <1>0, <1>4, <1>2 DEF Hold, queue, TypeOK, Modes
<1>5. ASSUME NEW m \in Messages, Insert(m)
      PROVE  msg' \in [Messages -> MsgStates] /\ order' \in Seq(Messages)
  BY <1>0, <1>5 DEF Insert, TypeOK, MsgStates
<1>6. CASE Submit(c)
  BY <1>0, <1>6, <1>5, <1>2 DEF Submit, queue, TypeOK
<1>7. CASE SubmitNative(c)
  BY <1>0, <1>7, <1>5, <1>2 DEF SubmitNative, queue, TypeOK, Modes
<1>8. CASE Interrupt(c)
  <2>1. Failing({"QUEUED"}) \in [Messages -> MsgStates]
    BY <1>0 DEF Failing, MsgStates
  <2> QED BY <1>8, <2>1, <1>2 DEF Interrupt, TypeOK
<1>9. CASE Resume(c)
  BY <1>0, <1>9, <1>2 DEF Resume, queue, TypeOK, Modes
<1>10. CASE LinkChat(c)
  BY <1>0, <1>10, <1>2 DEF LinkChat, queue, TypeOK
<1> QED BY <1>1, <1>3, <1>4, <1>6, <1>7, <1>8, <1>9, <1>10 DEF ClientStep

LEMMA TurnTypes ==
    ASSUME TypeOK,
           StartWorker \/ ProcessStarted \/ ReportNative \/ TurnEnds \/ Raise \/ Crash \/ WorkerExits
    PROVE  TypeOK'
<1> USE DEF TypeOK, controlRow, queue, process, ownerVars
<1>0. ASSUME up' \in BOOLEAN, worker' \in {"none", "live", "gone"},
             UNCHANGED <<mode, native, chat, interrupt, msg, order, known, outcome>>,
             UNCHANGED <<pc, result, cur, verb, found>>
      PROVE  TypeOK'
  BY <1>0
<1>1. CASE StartWorker
  BY <1>1 DEF StartWorker
<1>2. CASE ProcessStarted
  BY <1>2 DEF ProcessStarted
<1>3. CASE ReportNative
  BY <1>3 DEF ReportNative
<1>4. CASE TurnEnds
  BY <1>4 DEF TurnEnds, Goto, Pcs
<1>5. CASE Raise
  BY <1>5 DEF Raise, Goto, Pcs
<1>6. CASE Crash
  <2>1. worker \in {"none", "live", "gone"}
    OBVIOUS
  <2> HIDE DEF TypeOK
  <2> QED BY <1>0, <1>6, <2>1 DEF Crash
<1>7. CASE WorkerExits
  <2>1. up \in BOOLEAN
    OBVIOUS
  <2> HIDE DEF TypeOK
  <2> QED BY <1>0, <1>7, <2>1 DEF WorkerExits
<1> QED BY <1>1, <1>2, <1>3, <1>4, <1>5, <1>6, <1>7

LEMMA FinishTypes ==
    ASSUME TypeOK, NEW from, NEW to \in Modes, NEW label \in Pcs, FinishAs(from, to, label),
           result' \in {result, "none"}
    PROVE  TypeOK'
<1>1. msg' \in [Messages -> PENDING \union {"none", "DONE", "FAILED"}] /\ mode' \in Modes
  BY DEF FinishAs, Finish, Failing, TypeOK
<1> QED BY <1>1 DEF FinishAs, Goto, process, TypeOK

LEMMA LoopTypes ==
    ASSUME TypeOK, AnswersFit,
           \/ Complete \/ Check \/ Pause \/ Moved \/ Expire \/ Poll \/ Reactivate \/ Diverged
           \/ NextMessage \/ Reply \/ Fail \/ FailRaised \/ Close \/ CompleteJournal
    PROVE  TypeOK'
<1> USE DEF controlRow, queue, process, ownerVars, Goto
<1>1. CASE Complete \/ Check \/ Poll
  BY <1>1 DEF Complete, Check, Poll, TypeOK, Modes, Pcs
<1>2. CASE Pause \/ Moved \/ Expire \/ Reactivate \/ Diverged \/ Fail \/ FailRaised
  BY <1>2, FinishTypes DEF Pause, Moved, Expire, Reactivate, Diverged, Fail, FailRaised, Modes, Pcs
<1>3. CASE NextMessage
  <2>1. msg \in [Messages -> MsgStates]
    BY MsgFunction
  <2>2. /\ msg' \in [Messages -> MsgStates] /\ cur' \in Messages \union {Nobody}
        /\ interrupt' \in BOOLEAN /\ result' \in {result, "none"} /\ pc' \in Pcs
        /\ UNCHANGED <<mode, native, chat, order, process, outcome, verb, found>>
    <3>1. CASE UNCHANGED <<msg, interrupt, result, cur>> /\ pc' = "manual"
      BY <1>3, <2>1, <3>1 DEF NextMessage, TypeOK, Pcs
    <3>2. CASE \E m \in Messages :
                 /\ msg' = [msg EXCEPT ![m] = "RUNNING"]
                 /\ interrupt' = FALSE /\ cur' = m /\ result' = "none" /\ pc' = "turn"
      BY <1>3, <2>1, <3>2 DEF NextMessage, MsgStates, Pcs
    <3> QED BY <1>3, <3>1, <3>2 DEF NextMessage
  <2> QED BY <2>2 DEF TypeOK, MsgStates
<1>4. CASE Reply
  <2>1. msg' \in [Messages -> MsgStates]
    <3>1. msg \in [Messages -> MsgStates]
      BY MsgFunction
    <3> QED BY <1>4, <3>1 DEF Reply, MsgStates
  <2>2. pc' \in Pcs
    BY <1>4 DEF Reply, Pcs
  <2> QED BY <1>4, <2>1, <2>2 DEF Reply, TypeOK, MsgStates
<1>5. CASE Close
  <2>1. msg' \in [Messages -> PENDING \union {"none", "DONE", "FAILED"}] /\ mode' \in Modes
    BY <1>5 DEF Close, Finish, Failing, TypeOK, Modes
  <2> QED BY <1>5, <2>1 DEF Close, TypeOK, Pcs
<1>6. CASE CompleteJournal
  BY <1>6 DEF CompleteJournal, Record, TypeOK, Pcs
<1> QED BY <1>1, <1>2, <1>3, <1>4, <1>5, <1>6

LEMMA RecoveryTypes ==
    ASSUME TypeOK, NEW r \in Recoverers, RecoverRead(r) \/ RecoverWrite(r) PROVE TypeOK'
BY DEF RecoverRead, RecoverWrite, Record, TypeOK, controlRow, queue, process, ownerVars

-----------------------------------------------------------------------------
(* Control, and what of it clients see.                                    *)

\* Steps that touch neither the row's mode, nor a message, nor the owner's place.
LEMMA ElsewhereKeeps ==
    ASSUME ControlInv, UNCHANGED <<mode, msg, pc, cur>>
    PROVE  ControlInv' /\ Promised
BY DEF ControlInv, PendingOnlyUnderControl, Pending, OwnerFollowsMode, Answering, AnswersFit,
       Promised

\* A message is inserted under a mode that lets nothing but control follow.
LEMMA InsertKeeps ==
    ASSUME TypeOK, ControlInv, NEW m \in Messages, Insert(m), msg[m] = "none", ~Full,
           mode \in LiveModes, mode' = (IF mode = "ACTIVE" THEN "REQUESTED" ELSE mode),
           UNCHANGED <<pc, cur>>
    PROVE  ControlInv' /\ Promised
<1>1. msg' = [msg EXCEPT ![m] = "QUEUED"] /\ msg \in [Messages -> MsgStates]
  BY DEF Insert, TypeOK, MsgStates
<1>2. PendingOnlyUnderControl'
  BY <1>1 DEF PendingOnlyUnderControl
<1>3. OwnerFollowsMode' /\ AnswersFit'
  BY <1>1 DEF ControlInv, OwnerFollowsMode, Answering, AnswersFit
<1>4. Control!Accept(m)
  BY <1>1, SameMessages DEF Control!Accept
<1> QED BY <1>2, <1>3, <1>4 DEF ControlInv, Promised, Control!Next

LEMMA VerbsKeep ==
    ASSUME TypeOK, ControlInv, NEW c \in Clients, ClientStep(c)
    PROVE  ControlInv' /\ Promised
<1> USE DEF queue, ownerVars
<1>0. msg \in [Messages -> MsgStates] /\ mode \in Modes
  BY MsgFunction
<1>1. CASE RequireLive(c) \/ LinkChat(c)
  BY <1>1, ElsewhereKeeps DEF RequireLive, LinkChat, Write, controlRow
<1>2. CASE Takeover(c) \/ Hold(c)
  <2>0. UNCHANGED <<msg, pc, cur>>
    BY <1>2 DEF Takeover, Hold, Write
  <2>1. CASE mode = "ACTIVE"
    <3>1. mode' = "REQUESTED"
      BY <1>2, <2>1 DEF Takeover, Hold
    <3>2. ControlInv'
      BY <2>0, <2>1, <3>1 DEF ControlInv, PendingOnlyUnderControl, Pending, OwnerFollowsMode,
                              Answering, AnswersFit
    <3> QED BY <2>0, <2>1, <3>1, <3>2 DEF Promised, Control!Next, Control!Request
  <2>2. CASE mode # "ACTIVE"
    BY <1>2, <2>0, <2>2, ElsewhereKeeps DEF Takeover, Hold
  <2> QED BY <2>1, <2>2
<1>3. CASE Submit(c) \/ SubmitNative(c)
  <2>0. UNCHANGED <<pc, cur>>
    BY <1>3 DEF Submit, SubmitNative, Write
  <2>1. \/ UNCHANGED <<mode, msg>>
        \/ \E m \in Messages :
              /\ Insert(m) /\ msg[m] = "none" /\ ~Full /\ mode \in LiveModes
              /\ mode' = IF mode = "ACTIVE" THEN "REQUESTED" ELSE mode
    BY <1>3 DEF Submit, SubmitNative
  <2> QED BY <2>0, <2>1, ElsewhereKeeps, InsertKeeps
<1>4. CASE Interrupt(c)
  <2>0. UNCHANGED <<mode, pc, cur>> /\ msg' = Failing({"QUEUED"})
    BY <1>4 DEF Interrupt, Write
  <2>1. CASE mode \in {"REQUESTED", "MANUAL"}
    <3>1. \A m \in Messages : msg'[m] = "RUNNING" <=> msg[m] = "RUNNING"
      BY <1>0, <2>0 DEF Failing
    <3>2. ControlInv'
      BY <2>0, <2>1, <3>1 DEF ControlInv, PendingOnlyUnderControl, OwnerFollowsMode, Answering,
                              AnswersFit
    <3>3. Control!Cancel
      BY <2>0, <2>1, SameMessages DEF Control!Cancel
    <3> QED BY <3>2, <3>3 DEF Promised, Control!Next
  <2>2. CASE mode \notin {"REQUESTED", "MANUAL"}
    <3>1. msg' = msg
      BY <2>0, <2>2, NothingToFail DEF ControlInv, PendingOnlyUnderControl
    <3> QED BY <2>0, <3>1, ElsewhereKeeps
  <2> QED BY <2>1, <2>2
<1>5. CASE Resume(c)
  <2>0. UNCHANGED <<msg, pc, cur>>
    BY <1>5 DEF Resume, Write
  <2>1. CASE Pending = {} /\ mode = "MANUAL"
    <3>1. mode' = "RESUMING"
      BY <1>5, <2>1 DEF Resume
    <3>2. ~Answering
      BY <2>1 DEF ControlInv, OwnerFollowsMode, AnswersFit, Pending
    <3>3. ControlInv'
      BY <2>0, <2>1, <3>1, <3>2 DEF ControlInv, PendingOnlyUnderControl, Pending,
                                    OwnerFollowsMode, Answering, AnswersFit
    <3>4. Control!Resume
      BY <2>0, <2>1, <3>1, SameMessages DEF Control!Resume
    <3> QED BY <3>3, <3>4 DEF Promised, Control!Next
  <2>2. CASE ~(Pending = {} /\ mode = "MANUAL")
    BY <1>5, <2>0, <2>2, ElsewhereKeeps DEF Resume
  <2> QED BY <2>1, <2>2
<1> QED BY <1>1, <1>2, <1>3, <1>4, <1>5 DEF ClientStep

\* The owner's steps that write neither the mode nor a message.
LEMMA OwnerMovesKeep ==
    ASSUME TypeOK, ControlInv,
           \/ StartWorker \/ ProcessStarted \/ ReportNative \/ TurnEnds
           \/ Check \/ Poll \/ CompleteJournal \/ Raise \/ Crash \/ WorkerExits
    PROVE  ControlInv' /\ Promised
<1> USE DEF controlRow, queue, ownerVars, Owner, Goto
<1>1. UNCHANGED <<mode, msg, cur>>
  BY DEF StartWorker, ProcessStarted, ReportNative, TurnEnds, Check, Poll, CompleteJournal, Raise,
         Crash, WorkerExits
<1>2. PendingOnlyUnderControl' /\ Promised
  BY <1>1 DEF ControlInv, PendingOnlyUnderControl, Pending, Promised
<1>3. CASE StartWorker \/ ProcessStarted \/ ReportNative \/ Crash \/ WorkerExits
  BY <1>1, <1>3, ElsewhereKeeps DEF StartWorker, ProcessStarted, ReportNative, Crash, WorkerExits
<1>4. OwnerFollowsMode' /\ AnswersFit'
  <2> USE <1>1 DEF ControlInv, OwnerFollowsMode, AnswersFit, Answering, InTry, Pcs
  <2>1. CASE TurnEnds
    BY <2>1 DEF TurnEnds, InTurn
  <2>2. CASE Check
    BY <2>2 DEF Check
  <2>3. CASE Poll
    BY <2>3 DEF Poll
  <2>4. CASE CompleteJournal \/ Raise
    BY <2>4 DEF CompleteJournal, Raise
  <2>5. CASE UNCHANGED pc
    BY <2>5
  <2> QED
    BY <2>1, <2>2, <2>3, <2>4, <2>5 DEF StartWorker, ProcessStarted, ReportNative, Crash, WorkerExits
<1> QED BY <1>2, <1>4 DEF ControlInv

\* Whatever ends the session fails what is pending.
LEMMA EndKeeps ==
    ASSUME TypeOK, ControlInv, NEW to \in ENDED, Finish(to),
           to = "EXPIRED" => mode \in {"MANUAL", "RESUMING"}, to # "DONE",
           pc' \notin InTry
    PROVE  ControlInv' /\ Promised
<1>1. Pending' = {} /\ mode' = to /\ msg' = Control!Cancelled(PENDING)
  BY EndFailsAll
<1>2. PendingOnlyUnderControl'
  BY <1>1 DEF PendingOnlyUnderControl
<1>3. OwnerFollowsMode' /\ AnswersFit'
  BY DEF OwnerFollowsMode, AnswersFit, Answering, InTry, Pcs
<1>4. Control!End
  BY <1>1 DEF Control!End, Control!PENDING
<1> QED BY <1>2, <1>3, <1>4 DEF ControlInv, Promised, Control!Next

LEMMA OwnerEndsKeep ==
    ASSUME TypeOK, ControlInv,
           Complete \/ Moved \/ Expire \/ Diverged \/ Fail \/ FailRaised \/ Close
    PROVE  ControlInv' /\ Promised
<1> USE DEF Owner, Goto
<1>1. CASE Complete
  <2>0. UNCHANGED <<msg, cur>>
    BY <1>1 DEF Complete, queue
  <2>1. CASE mode = "ACTIVE"
    <3>1. Pending = {} /\ mode' = "DONE" /\ pc' = "stopped"
      BY <1>1, <2>1 DEF ControlInv, PendingOnlyUnderControl, Complete
    <3>2. msg' = Control!Cancelled(PENDING)
      BY <2>0, <3>1, NothingToFail, SameMessages
    <3>3. ControlInv'
      BY <2>0, <3>1 DEF ControlInv, PendingOnlyUnderControl, Pending, OwnerFollowsMode, AnswersFit,
                        Answering, InTry, Pcs
    <3>4. Control!End
      BY <2>1, <3>1, <3>2 DEF Control!End, Control!PENDING
    <3> QED BY <3>3, <3>4 DEF Promised, Control!Next
  <2>2. CASE mode # "ACTIVE"
    <3>1. mode = "REQUESTED" /\ mode' = mode /\ pc = "judge" /\ pc' = "check"
      BY <1>1, <2>2 DEF ControlInv, OwnerFollowsMode, Complete
    <3> QED
      BY <2>0, <3>1 DEF ControlInv, PendingOnlyUnderControl, Pending, OwnerFollowsMode, AnswersFit,
                        Answering, InTry, Pcs, Promised
  <2> QED BY <2>1, <2>2
<1>2. CASE Expire
  BY <1>2, EndKeeps DEF Expire, FinishAs, ControlInv, OwnerFollowsMode, InTry, Pcs
<1>3. CASE Moved \/ Diverged \/ Fail \/ FailRaised
  BY <1>3, EndKeeps DEF Moved, Diverged, Fail, FailRaised, FinishAs, InTry, Pcs
<1>4. CASE Close
  <2>1. pc' \notin InTry
    BY <1>4 DEF Close, InTry, Pcs
  <2>2. CASE Finish("FAILED")
    BY <2>1, <2>2, EndKeeps
  <2>3. CASE UNCHANGED <<mode, msg>>
    BY <2>1, <2>3 DEF ControlInv, PendingOnlyUnderControl, Pending, OwnerFollowsMode, AnswersFit,
                      Answering, InTry, Pcs, Promised
  <2> QED BY <1>4, <2>2, <2>3 DEF Close
<1> QED BY <1>1, <1>2, <1>3, <1>4

\* Manual control begins and ends.
LEMMA HandoversKeep ==
    ASSUME TypeOK, ControlInv, Pause \/ Reactivate
    PROVE  ControlInv' /\ Promised
<1> USE DEF FinishAs, Finish, Owner, Goto
<1>1. CASE Pause
  <2>1. mode = "REQUESTED" /\ mode' = "MANUAL" /\ UNCHANGED <<msg, cur>>
        /\ pc = "anchor" /\ pc' = "manual"
    BY <1>1 DEF Pause, ControlInv, OwnerFollowsMode
  <2>2. ControlInv'
    BY <2>1 DEF ControlInv, PendingOnlyUnderControl, OwnerFollowsMode, AnswersFit, Answering,
                InTry, Pcs
  <2> QED BY <2>1, <2>2 DEF Promised, Control!Next, Control!Grant
<1>2. CASE Reactivate
  <2>1. mode = "RESUMING" /\ mode' = "ACTIVE" /\ UNCHANGED <<msg, cur>>
        /\ pc = "resuming" /\ pc' = "auto"
    BY <1>2 DEF Reactivate, ControlInv, OwnerFollowsMode
  <2>2. Pending = {}
    BY <2>1 DEF ControlInv, PendingOnlyUnderControl
  <2>3. ControlInv'
    BY <2>1, <2>2 DEF ControlInv, PendingOnlyUnderControl, Pending, OwnerFollowsMode, AnswersFit,
                      Answering, InTry, Pcs
  <2> QED BY <2>1, <2>3 DEF Promised, Control!Next, Control!Reactivate
<1> QED BY <1>1, <1>2

\* A message is taken, and answered.
LEMMA MessagesKeep ==
    ASSUME TypeOK, ControlInv, NextMessage \/ Reply
    PROVE  ControlInv' /\ Promised
<1> USE DEF Owner, Goto
<1>0. msg \in [Messages -> MsgStates]
  BY MsgFunction
<1>1. CASE NextMessage
  <2>0. pc = "next" /\ mode' = mode /\ \A n \in Messages : msg[n] # "RUNNING"
    BY <1>1 DEF NextMessage, ControlInv, OwnerFollowsMode, Answering, InTry, Pcs
  <2>1. CASE UNCHANGED <<msg, cur>> /\ pc' = "manual"
    BY <2>0, <2>1 DEF ControlInv, PendingOnlyUnderControl, Pending, OwnerFollowsMode, AnswersFit,
                      Answering, InTry, Pcs, Promised
  <2>2. ASSUME NEW m \in Messages, First(m), msg' = [msg EXCEPT ![m] = "RUNNING"],
               cur' = m, pc' = "turn"
        PROVE  ControlInv' /\ Promised
    <3>1. msg[m] = "QUEUED"
      BY <2>2 DEF First
    <3>2. mode = "MANUAL"
      BY <2>0, <3>1 DEF ControlInv, PendingOnlyUnderControl, Pending, OwnerFollowsMode
    <3>3. ControlInv'
      BY <1>0, <2>0, <2>2, <3>2 DEF ControlInv, PendingOnlyUnderControl, OwnerFollowsMode,
                                    AnswersFit, Answering
    <3>4. Control!Deliver(m)
      BY <2>0, <2>2, <3>1, <3>2 DEF Control!Deliver
    <3> QED BY <3>3, <3>4 DEF Promised, Control!Next
  <2> QED BY <1>1, <2>1, <2>2 DEF NextMessage
<1>2. CASE Reply
  <2>1. mode = "MANUAL" /\ mode' = mode /\ cur \in Messages /\ msg[cur] = "RUNNING"
        /\ \A n \in Messages : msg[n] = "RUNNING" => n = cur
    BY <1>2 DEF Reply, controlRow, ControlInv, OwnerFollowsMode, AnswersFit, Answering, InTry, Pcs
  <2>2. PICK answer \in {"DONE", "FAILED"} : msg' = [msg EXCEPT ![cur] = answer]
    BY <1>2 DEF Reply
  <2>3. \A n \in Messages : msg'[n] # "RUNNING"
    BY <1>0, <2>1, <2>2
  <2>4. ControlInv'
    BY <1>2, <2>1, <2>3 DEF Reply, ControlInv, PendingOnlyUnderControl, OwnerFollowsMode,
                            AnswersFit, Answering
  <2>5. Control!Answer(cur)
    BY <2>1, <2>2 DEF Control!Answer
  <2> QED BY <2>1, <2>4, <2>5 DEF Promised, Control!Next
<1> QED BY <1>1, <1>2

LEMMA RecoveryKeeps ==
    ASSUME TypeOK, ControlInv, NEW r \in Recoverers, RecoverRead(r) \/ RecoverWrite(r)
    PROVE  ControlInv' /\ Promised
BY ElsewhereKeeps DEF RecoverRead, RecoverWrite, controlRow, queue, ownerVars

-----------------------------------------------------------------------------
(* The invariant.                                                          *)

LEMMA InitFits == Init => IInv
<1> SUFFICES ASSUME Init PROVE IInv
  OBVIOUS
<1>1. TypeOK
  <2>1. msg \in [Messages -> PENDING \union {"none", "DONE", "FAILED"}]
    BY DEF Init
  <2>2. verb \in [Clients -> Verbs \union {"none"}]
    BY DEF Init
  <2>3. found \in [Recoverers -> {"none", "INTERRUPTED", "UNCERTAIN"}]
    BY DEF Init
  <2>4. order \in Seq(Messages)
    BY DEF Init
  <2>5. /\ mode \in Modes /\ native \in BOOLEAN /\ chat \in BOOLEAN /\ interrupt \in BOOLEAN
        /\ up \in BOOLEAN /\ pc \in Pcs /\ cur \in Messages \union {Nobody}
    BY DEF Init, Modes, Pcs
  <2> QED BY <2>1, <2>2, <2>3, <2>4, <2>5 DEF Init, TypeOK
<1>2. ControlInv /\ FoundFits
  BY DEF Init, ControlInv, PendingOnlyUnderControl, Pending, OwnerFollowsMode, AnswersFit,
         Answering, FoundFits
<1> QED BY <1>1, <1>2 DEF IInv

\* An owner that has died does not come back.
LEMMA TheDeadStayDead == ASSUME TypeOK, FoundFits, [Next]_vars PROVE FoundFits'
<1>1. ASSUME NEW r \in Recoverers, RecoverRead(r) PROVE FoundFits'
  BY <1>1 DEF RecoverRead, FoundFits, process, TypeOK
<1>2. ASSUME NEW r \in Recoverers, RecoverWrite(r) PROVE FoundFits'
  BY <1>2 DEF RecoverWrite, FoundFits, process, TypeOK
<1>3. ASSUME UNCHANGED found, up' = up \/ ~up' PROVE FoundFits'
  BY <1>3 DEF FoundFits
<1>4. ASSUME NEW c \in Clients, ClientStep(c) PROVE UNCHANGED <<found, up>>
  BY <1>4 DEF ClientStep, RequireLive, Write, Takeover, Hold, Submit, SubmitNative, Interrupt,
              Resume, LinkChat, process
<1>5. CASE OwnerStep
  <2>1. UNCHANGED <<found, up>>
    BY <1>5 DEF OwnerStep, StartWorker, ProcessStarted, ReportNative, TurnEnds, Complete, Check,
                Pause, Moved, Expire, Poll, Reactivate, Diverged, NextMessage, Reply, Fail,
                FailRaised, Close, CompleteJournal, FinishAs, process
  <2> QED BY <2>1, <1>3
<1>6. CASE Raise \/ Crash \/ WorkerExits \/ UNCHANGED vars
  BY <1>6, <1>3 DEF Raise, Crash, WorkerExits, vars, process
<1> QED BY <1>1, <1>2, <1>3, <1>4, <1>5, <1>6 DEF Next

LEMMA StepsKeep == IInv /\ [Next]_vars => IInv' /\ Promised
<1> SUFFICES ASSUME IInv, [Next]_vars PROVE IInv' /\ Promised
  OBVIOUS
<1>0. TypeOK /\ ControlInv /\ FoundFits' /\ AnswersFit
  BY TheDeadStayDead DEF IInv, ControlInv
<1>1. CASE UNCHANGED vars
  <2>1. TypeOK'
    BY <1>0, <1>1 DEF vars, controlRow, queue, process, ownerVars, TypeOK
  <2> QED
    BY <1>0, <1>1, <2>1, ElsewhereKeeps DEF IInv, vars, controlRow, queue, ownerVars
<1>2. ASSUME NEW c \in Clients, ClientStep(c) PROVE TypeOK' /\ ControlInv' /\ Promised
  BY <1>0, <1>2, VerbTypes, VerbsKeep
<1>3. CASE OwnerStep \/ Raise \/ Crash \/ WorkerExits
  <2>1. TypeOK'
    BY <1>0, <1>3, TurnTypes, LoopTypes DEF OwnerStep
  <2>2. ControlInv' /\ Promised
    BY <1>0, <1>3, OwnerMovesKeep, OwnerEndsKeep, HandoversKeep, MessagesKeep DEF OwnerStep
  <2> QED BY <1>0, <2>1, <2>2 DEF IInv
<1>4. ASSUME NEW r \in Recoverers, RecoverRead(r) \/ RecoverWrite(r)
      PROVE  TypeOK' /\ ControlInv' /\ Promised
  BY <1>0, <1>4, RecoveryTypes, RecoveryKeeps
<1> QED BY <1>0, <1>1, <1>2, <1>3, <1>4 DEF Next, IInv

LEMMA Invariant == Spec => []IInv
<1>1. IInv /\ [Next]_vars => IInv'
  BY StepsKeep
<1> QED BY InitFits, <1>1, PTL DEF Spec

-----------------------------------------------------------------------------
(* The theorems.                                                           *)

\* Every state has the types of the control row, the queue and the journal.
THEOREM SessionTypes == Spec => []TypeOK
<1>1. IInv => TypeOK
  BY DEF IInv
<1> QED BY <1>1, Invariant, PTL

\* Automation never goes on, and a session never ends, over an accepted message.
THEOREM MessagesHoldAutomation == Spec => []PendingOnlyUnderControl
<1>1. IInv => PendingOnlyUnderControl
  BY DEF IInv, ControlInv
<1> QED BY <1>1, Invariant, PTL

\* The owner's place fits the mode that clients write (observe_invocation).
THEOREM OwnerIsHeld == Spec => []OwnerFollowsMode
<1>1. IInv => OwnerFollowsMode
  BY DEF IInv, ControlInv
<1> QED BY <1>1, Invariant, PTL

\* The journal's outcome is written once, and by a supervisor only when the owner is dead
\* (SessionJournal.complete, SessionJournal.recover).
THEOREM OneOutcome == Spec => OutcomeIsFinal
<1> DEFINE Final == outcome' # outcome => outcome = "none" /\ (outcome' # "owner" => ~up)
<1>1. ASSUME IInv, [Next]_vars PROVE Final
  <2>1. CASE UNCHANGED outcome
    BY <2>1
  <2>2. CASE CompleteJournal
    BY <2>2 DEF CompleteJournal, Record
  <2>3. ASSUME NEW r \in Recoverers, RecoverWrite(r) PROVE Final
    BY <1>1, <2>3 DEF RecoverWrite, Record, IInv, FoundFits
  <2>4. ASSUME NEW c \in Clients, ClientStep(c) PROVE UNCHANGED outcome
    BY <2>4 DEF ClientStep, RequireLive, Write, Takeover, Hold, Submit, SubmitNative, Interrupt,
                Resume, LinkChat
  <2>5. ASSUME OwnerStep, ~CompleteJournal PROVE UNCHANGED outcome
    BY <2>5 DEF OwnerStep, StartWorker, ProcessStarted, ReportNative, TurnEnds, Complete, Check,
                Pause, Moved, Expire, Poll, Reactivate, Diverged, NextMessage, Reply, Fail,
                FailRaised, Close, FinishAs
  <2>6. CASE Raise \/ Crash \/ WorkerExits \/ UNCHANGED vars
    BY <2>1, <2>6 DEF Raise, Crash, WorkerExits, vars
  <2>7. ASSUME NEW r \in Recoverers, RecoverRead(r) PROVE UNCHANGED outcome
    BY <2>7 DEF RecoverRead
  <2> QED BY <1>1, <2>1, <2>2, <2>3, <2>4, <2>5, <2>6, <2>7 DEF Next
<1>2. IInv /\ [Next]_vars => [Final]_vars
  BY <1>1
<1> QED BY <1>2, Invariant, PTL DEF Spec, OutcomeIsFinal

\* The session is an implementation of what its clients are promised (ManualControl).
THEOREM SessionImplementsControl == Spec => ImplementsControl
<1>1. Init => Control!Init
  BY DEF Init, Control!Init
<1>2. IInv /\ [Next]_vars => [Control!Next]_(Control!vars)
  BY StepsKeep DEF Promised, Control!vars
<1> QED BY <1>1, <1>2, Invariant, PTL DEF Spec, ImplementsControl, Control!Spec
=============================================================================
