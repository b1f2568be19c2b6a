---------------------------- MODULE SessionControl ----------------------------
(***************************************************************************)
(* One provider session under shared control.  Its owner process runs the  *)
(* loop of observe_invocation (agent_sessions.py); clients call the verbs  *)
(* of SessionControls (session_control.py) from processes of their own:    *)
(* the native proxy (session_runtime.py) and the library's callers.  A     *)
(* verb reads the row and the owner's liveness (_require_live) and writes  *)
(* in a later transaction.  When the owner has died, supervisors record    *)
(* the outcome (SessionJournal.recover, session_journal.py).               *)
(*                                                                         *)
(* A message stands for its request identifier and text: a repeated        *)
(* request changes nothing, whether it is taken as known or refused.       *)
(***************************************************************************)
EXTENDS Naturals, Sequences, FiniteSets

CONSTANTS Clients,      \* callers of the verbs
          Recoverers,   \* supervisors that recover the journal
          Messages,     \* request identifiers
          MaxPending,   \* messages waiting or being answered: 8 in the code
          Nobody,       \* no message
          Faults        \* "crash", "raise", "unsafe": the owner dies, a call raises,
                        \* the runtime's end cannot be confirmed

ASSUME SessionAssumption == MaxPending \in Nat \ {0} /\ Nobody \notin Messages

VARIABLES mode,        \* controls.mode
          native,      \* has the provider reported a resumable session?
          chat,        \* is the session linked to a chat?
          interrupt,   \* controls.interrupt_turn
          msg,         \* msg[m]: control_messages.state of m; "none": no row
          order,       \* messages by rowid
          up,          \* is the owner process alive?
          worker,      \* provider process of the latest turn
          known,       \* whose identity the journal has: that process's, an earlier one's
          outcome,     \* the row of outcomes: who wrote it, and what
          pc,          \* what the owner does next
          result,      \* result of its last turn
          cur,         \* the message it is answering
          verb,        \* verb[c]: the verb that has passed _require_live
          found        \* found[r]: the outcome recoverer r is about to record

controlRow == <<mode, native, chat, interrupt>>
queue == <<msg, order>>
process == <<up, worker, known>>
ownerVars == <<pc, result, cur>>
vars == <<controlRow, queue, process, outcome, ownerVars, verb, found>>

ENDED == {"DONE", "FAILED", "EXPIRED"}
PENDING == {"QUEUED", "RUNNING"}
LiveModes == {"ACTIVE", "REQUESTED", "MANUAL"}
Modes == LiveModes \union {"RESUMING"} \union ENDED
Verbs == {"takeover", "hold", "submit", "submit_native", "interrupt", "resume", "link_chat"}
Pcs == {"auto", "judge", "check", "anchor", "manual", "resuming", "next", "turn", "reply",
        "fail", "stopped", "complete", "raised", "interrupted", "done"}
InTry == Pcs \ {"stopped", "complete", "raised", "interrupted", "done"}

\* Types: the control row's mode is one of session_control.py's, whatever the verbs, the
\* owner and the end of its turns write at once.
TypeOK ==
    /\ mode \in Modes
    /\ native \in BOOLEAN /\ chat \in BOOLEAN /\ interrupt \in BOOLEAN
    /\ msg \in [Messages -> PENDING \union {"none", "DONE", "FAILED"}]
    /\ order \in Seq(Messages)
    /\ up \in BOOLEAN
    /\ worker \in {"none", "live", "gone"}
    /\ known \in {"none", "stale", "current"}
    /\ outcome \in {"none", "owner", "INTERRUPTED", "UNCERTAIN"}
    /\ pc \in Pcs
    /\ result \in {"none", "SUCCESS", "ABORTED", "FAILED"}
    /\ cur \in Messages \union {Nobody}
    /\ verb \in [Clients -> Verbs \union {"none"}]
    /\ found \in [Recoverers -> {"none", "INTERRUPTED", "UNCERTAIN"}]

\* The session has been registered and its first automatic turn begins.
Init ==
    /\ mode = "ACTIVE" /\ native \in BOOLEAN /\ chat = FALSE /\ interrupt = FALSE
    /\ msg = [m \in Messages |-> "none"] /\ order = <<>>
    /\ up = TRUE /\ worker = "none" /\ known = "none"
    /\ outcome = "none"
    /\ pc = "auto" /\ result = "none" /\ cur = Nobody
    /\ verb = [c \in Clients |-> "none"]
    /\ found = [r \in Recoverers |-> "none"]

Pending == {m \in Messages : msg[m] \in PENDING}
Full == Cardinality(Pending) >= MaxPending
ShouldInterrupt == mode = "REQUESTED" \/ interrupt

Failing(states) == [m \in Messages |-> IF msg[m] \in states THEN "FAILED" ELSE msg[m]]

\* Mutant: the end of a session leaves its messages alone.
FinishOnly(to) == mode' = to /\ UNCHANGED msg

Finish(to) ==
    /\ mode' = to
    /\ msg' = IF to \in ENDED THEN Failing(PENDING) ELSE msg

-----------------------------------------------------------------------------
(* The verbs.                                                              *)

Allowed(v) ==
    CASE v = "takeover" -> {"ACTIVE"}
      [] v \in {"hold", "submit_native"} -> LiveModes
      [] v \in {"submit", "interrupt", "resume"} -> {"MANUAL"}
      [] v = "link_chat" -> LiveModes \union {"RESUMING"}

RequireLive(c) ==
    /\ verb[c] = "none"
    /\ up
    /\ \E v \in Verbs :
          /\ mode \in Allowed(v)
          /\ v = "takeover" => native
          /\ verb' = [verb EXCEPT ![c] = v]
    /\ UNCHANGED <<controlRow, queue, process, outcome, ownerVars, found>>

\* The write of verb v; a verb that is refused changes nothing.
Write(c, v) ==
    /\ verb[c] = v
    /\ verb' = [verb EXCEPT ![c] = "none"]
    /\ UNCHANGED <<native, process, outcome, ownerVars, found>>

Takeover(c) ==
    /\ Write(c, "takeover")
    /\ IF mode = "ACTIVE" THEN mode' = "REQUESTED" /\ chat' = TRUE
                          ELSE UNCHANGED <<mode, chat>>
    /\ UNCHANGED <<interrupt, queue>>

\* Mutant: whatever the mode is, control is requested.
HoldAny(c) ==
    /\ Write(c, "hold")
    /\ mode' = IF mode \in LiveModes THEN "REQUESTED" ELSE mode
    /\ UNCHANGED <<chat, interrupt, queue>>

Hold(c) ==
    /\ Write(c, "hold")
    /\ mode' = IF mode = "ACTIVE" THEN "REQUESTED" ELSE mode
    /\ interrupt' = (interrupt \/ mode = "MANUAL")
    /\ UNCHANGED <<chat, queue>>

Insert(m) ==
    /\ msg' = [msg EXCEPT ![m] = "QUEUED"]
    /\ order' = Append(order, m)

Submit(c) ==
    /\ Write(c, "submit")
    /\ \E m \in Messages :
          IF msg[m] = "none" /\ ~Full /\ mode = "MANUAL" THEN Insert(m) ELSE UNCHANGED queue
    /\ UNCHANGED <<mode, chat, interrupt>>

SubmitNative(c) ==
    /\ Write(c, "submit_native")
    /\ \E m \in Messages :
          IF msg[m] = "none" /\ mode \in LiveModes /\ native /\ chat /\ ~Full
          THEN /\ Insert(m)
               /\ mode' = IF mode = "ACTIVE" THEN "REQUESTED" ELSE mode
          ELSE UNCHANGED <<mode, queue>>
    /\ UNCHANGED <<chat, interrupt>>

\* interrupt does not look at the mode again.
Interrupt(c) ==
    /\ Write(c, "interrupt")
    /\ interrupt' = TRUE
    /\ msg' = Failing({"QUEUED"})
    /\ UNCHANGED <<mode, chat, order>>

Resume(c) ==
    /\ Write(c, "resume")
    /\ IF Pending = {} /\ mode = "MANUAL" THEN mode' = "RESUMING" /\ interrupt' = FALSE
                                          ELSE UNCHANGED <<mode, interrupt>>
    /\ UNCHANGED <<chat, queue>>

LinkChat(c) ==
    /\ Write(c, "link_chat")
    /\ chat' = TRUE
    /\ UNCHANGED <<mode, interrupt, queue>>

-----------------------------------------------------------------------------
(* The owner.  A turn starts a process, records it and waits for its end.  *)

Owner(label) == up /\ pc = label
Goto(label) == pc' = label
InTurn == up /\ pc \in {"auto", "turn"}

StartWorker ==
    /\ InTurn /\ worker # "live" /\ result = "none"
    /\ worker' = "live"
    /\ known' = IF known = "current" THEN "stale" ELSE known
    /\ UNCHANGED <<controlRow, queue, up, outcome, ownerVars, verb, found>>

ProcessStarted ==
    /\ InTurn /\ worker = "live" /\ known # "current"
    /\ known' = "current"
    /\ UNCHANGED <<controlRow, queue, up, worker, outcome, ownerVars, verb, found>>

ReportNative ==
    /\ InTurn /\ worker = "live" /\ ~native
    /\ native' = TRUE
    /\ UNCHANGED <<mode, chat, interrupt, queue, process, outcome, ownerVars, verb, found>>

\* The end of a turn; ABORTED when the interrupt was seen and the process has
\* ended.
TurnEnds ==
    /\ InTurn
    /\ \E r \in {"SUCCESS", "ABORTED", "FAILED"} :
          /\ r = "SUCCESS" => worker = "live" /\ known = "current"
          /\ r = "ABORTED" => worker = "live" /\ known = "current" /\ ShouldInterrupt
          /\ result' = r
    /\ worker' = IF worker = "live" THEN "gone" ELSE worker
    /\ Goto(IF pc = "auto" THEN "judge" ELSE "reply")
    /\ UNCHANGED <<controlRow, queue, up, known, outcome, cur, verb, found>>

\* Mutant: the end of the turn does not look for a request.
CompleteAlways ==
    /\ Owner("judge")
    /\ mode' = "DONE" /\ Goto("stopped")
    /\ UNCHANGED <<native, chat, interrupt, queue, process, outcome, result, cur, verb, found>>

\* Mutant: the control row gets the state of the metadata file.
CompleteWithResult ==
    /\ Owner("judge")
    /\ IF mode = "ACTIVE" THEN mode' = result /\ Goto("stopped")
                          ELSE UNCHANGED mode /\ Goto("check")
    /\ UNCHANGED <<native, chat, interrupt, queue, process, outcome, result, cur, verb, found>>

\* complete_if_active
Complete ==
    /\ Owner("judge")
    /\ IF mode = "ACTIVE" THEN mode' = "DONE" /\ Goto("stopped")
                          ELSE UNCHANGED mode /\ Goto("check")
    /\ UNCHANGED <<native, chat, interrupt, queue, process, outcome, result, cur, verb, found>>

Check ==
    /\ Owner("check")
    /\ Goto(IF mode = "REQUESTED" /\ result \in {"SUCCESS", "ABORTED"} THEN "anchor" ELSE "fail")
    /\ UNCHANGED <<controlRow, queue, process, outcome, result, cur, verb, found>>

FinishAs(from, to, label) ==
    /\ Owner(from)
    /\ Finish(to)
    /\ Goto(label)
    /\ UNCHANGED <<native, chat, interrupt, order, process, outcome, cur, verb, found>>

\* Control is handed over if the worktree is where the session left it.
Pause == FinishAs("anchor", "MANUAL", "manual") /\ UNCHANGED result
Moved == FinishAs("anchor", "FAILED", "stopped") /\ UNCHANGED result

\* One round of the manual loop: the deadline, the mode, the next message.
Expire == FinishAs("manual", "EXPIRED", "stopped") /\ UNCHANGED result

Poll ==
    /\ Owner("manual")
    /\ Goto(IF mode = "RESUMING" THEN "resuming" ELSE "next")
    /\ UNCHANGED <<controlRow, queue, process, outcome, result, cur, verb, found>>

Reactivate == FinishAs("resuming", "ACTIVE", "auto") /\ result' = "none"
Diverged == FinishAs("resuming", "FAILED", "stopped") /\ UNCHANGED result

\* next_message, the oldest of the queue.
First(m) ==
    \E i \in DOMAIN order :
        order[i] = m /\ msg[m] = "QUEUED" /\ \A j \in 1..(i - 1) : msg[order[j]] # "QUEUED"

NextMessage ==
    /\ Owner("next")
    /\ \/ /\ \A m \in Messages : msg[m] # "QUEUED"
          /\ Goto("manual")
          /\ UNCHANGED <<msg, interrupt, result, cur>>
       \/ \E m \in Messages :
             /\ First(m)
             /\ msg' = [msg EXCEPT ![m] = "RUNNING"]
             /\ interrupt' = FALSE
             /\ cur' = m /\ result' = "none"
             /\ Goto("turn")
    /\ UNCHANGED <<mode, native, chat, order, process, outcome, verb, found>>

Reply ==
    /\ Owner("reply")
    /\ msg' = [msg EXCEPT ![cur] = IF result = "SUCCESS" THEN "DONE" ELSE "FAILED"]
    /\ cur' = Nobody
    /\ Goto(IF result = "FAILED" THEN "fail" ELSE "manual")
    /\ UNCHANGED <<controlRow, order, process, outcome, result, verb, found>>

Fail == FinishAs("fail", "FAILED", "stopped") /\ UNCHANGED result

\* A call raises: the provider's, the database's, or a signal's.
Raise ==
    /\ "raise" \in Faults
    /\ up /\ pc \in InTry
    /\ worker' = IF worker = "live" THEN "gone" ELSE worker
    /\ Goto("raised")
    /\ UNCHANGED <<controlRow, queue, up, known, outcome, result, cur, verb, found>>

FailRaised == FinishAs("raised", "FAILED", "interrupted") /\ UNCHANGED result

\* The finally clause: close the runtime, then write the outcome.
Close ==
    /\ Owner("stopped")
    /\ \/ UNCHANGED <<mode, msg>>
       \/ "unsafe" \in Faults /\ Finish("FAILED")
    /\ Goto("complete")
    /\ UNCHANGED <<native, chat, interrupt, order, process, outcome, result, cur, verb, found>>

\* Mutant: INSERT OR REPLACE.
RecordLast(what) == outcome' = what

\* SessionJournal.complete: INSERT OR IGNORE.
Record(what) == outcome' = IF outcome = "none" THEN what ELSE outcome

CompleteJournal ==
    /\ up /\ pc \in {"complete", "interrupted"}
    /\ Record("owner")
    /\ Goto("done")
    /\ UNCHANGED <<controlRow, queue, process, result, cur, verb, found>>

Crash ==
    /\ "crash" \in Faults
    /\ up /\ up' = FALSE
    /\ UNCHANGED <<controlRow, queue, worker, known, outcome, ownerVars, verb, found>>

\* A worker may outlive its owner.
WorkerExits ==
    /\ ~up /\ worker = "live"
    /\ worker' = "gone"
    /\ UNCHANGED <<controlRow, queue, up, known, outcome, ownerVars, verb, found>>

-----------------------------------------------------------------------------
(* SessionJournal.recover.                                                 *)

WorkerDead == known = "stale" \/ (known = "current" /\ worker # "live")

RecoverRead(r) ==
    /\ found[r] = "none"
    /\ outcome = "none" /\ ~up
    /\ found' = [found EXCEPT ![r] = IF WorkerDead THEN "INTERRUPTED" ELSE "UNCERTAIN"]
    /\ UNCHANGED <<controlRow, queue, process, outcome, ownerVars, verb>>

RecoverWrite(r) ==
    /\ found[r] # "none"
    /\ Record(found[r])
    /\ found' = [found EXCEPT ![r] = "none"]
    /\ UNCHANGED <<controlRow, queue, process, ownerVars, verb>>

-----------------------------------------------------------------------------
ClientStep(c) ==
    \/ RequireLive(c) \/ Takeover(c) \/ Hold(c) \/ Submit(c) \/ SubmitNative(c)
    \/ Interrupt(c) \/ Resume(c) \/ LinkChat(c)

OwnerStep ==
    \/ StartWorker \/ ProcessStarted \/ ReportNative \/ TurnEnds
    \/ Complete \/ Check \/ Pause \/ Moved
    \/ Expire \/ Poll \/ Reactivate \/ Diverged \/ NextMessage \/ Reply \/ Fail
    \/ FailRaised \/ Close \/ CompleteJournal

Next ==
    \/ \E c \in Clients : ClientStep(c)
    \/ OwnerStep \/ Raise \/ Crash \/ WorkerExits
    \/ \E r \in Recoverers : RecoverRead(r) \/ RecoverWrite(r)

Spec == Init /\ [][Next]_vars

\* The owner is one thread that runs on, its turns bounded by their timeout;
\* reconcile recovers the journal whenever it looks at the run.
Fairness ==
    /\ WF_vars(OwnerStep)
    /\ \A r \in Recoverers : WF_vars(RecoverRead(r) \/ RecoverWrite(r))
FairSpec == Spec /\ Fairness

-----------------------------------------------------------------------------
(* Properties.                                                             *)

\* Automation never goes on, and a session never ends, over the head of a message
\* that has been accepted: whatever submit, resume, interrupt and the end of the
\* session do at once, messages wait under REQUESTED or MANUAL control only.
PendingOnlyUnderControl == Pending # {} => mode \in {"REQUESTED", "MANUAL"}

\* Clients write the mode and the owner acts on what it last read, and yet the two
\* agree: automatic turns run under ACTIVE or REQUESTED, a manual turn under MANUAL
\* with the message it answers the only one RUNNING.
Answering == pc \in {"turn", "reply"}
OwnerFollowsMode ==
    /\ pc \in {"auto", "judge"} => mode \in {"ACTIVE", "REQUESTED"}
    /\ pc \in {"check", "anchor"} => mode = "REQUESTED"
    /\ pc \in {"manual", "next"} => mode \in {"MANUAL", "RESUMING"}
    /\ pc = "resuming" => mode = "RESUMING"
    /\ Answering => mode = "MANUAL" /\ msg[cur] = "RUNNING"
    /\ pc \in InTry => \A m \in Messages : msg[m] = "RUNNING" => Answering /\ m = cur

\* The outcome in the journal is written once, by the owner or, when the owner is
\* dead, by one of the supervisors that recover it at once.
OutcomeIsFinal ==
    [][outcome' # outcome => outcome = "none" /\ (outcome' # "owner" => ~up)]_vars

\* The session keeps what its clients are promised (ManualControl).
Control == INSTANCE ManualControl
ImplementsControl == Control!Spec

\* While the owner lives every accepted message is answered or failed, and every
\* request for control ends in manual control or in the end of the session.
Answered(m) == msg[m] \in {"DONE", "FAILED"}
MessagesAreAnswered == \A m \in Messages : msg[m] = "QUEUED" ~> Answered(m) \/ ~up
TakeoversAreGranted == mode = "REQUESTED" ~> mode \in {"MANUAL"} \union ENDED \/ ~up

\* Not so: an automatic turn is aborted only for a takeover.  interrupt checks the
\* mode in an earlier read; a resume in between leaves its flag to the automatic
\* turn, whose abort is then completed as DONE.
AutomationIsAbortedForTakeover ==
    [][pc = "auto" /\ result' = "ABORTED" => mode = "REQUESTED"]_vars

\* Documented and not so: surviving workers stay fenced.  A turn's process is
\* recorded after it has started; if the owner dies in between, the dead process of
\* an earlier turn is taken for it.
InterruptedMeansQuiet == outcome = "INTERRUPTED" => worker # "live"
=============================================================================
