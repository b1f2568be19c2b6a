--------------------------------- MODULE Wave ---------------------------------
(***************************************************************************)
(* One wave of parallel lanes (WaveExecutor, wave_executor.py): the        *)
(* orchestrator calls its methods in any order the transition tables of    *)
(* wave_models.py let through; workers commit to the lanes' branches,      *)
(* reviewers pin commits of them, the integrator works in the integration  *)
(* worktree, and the gate judges its head.                                 *)
(*                                                                         *)
(* A commit of a lane is its number on the lane's branch: 0 is no branch,  *)
(* 1 the wave's base.  A commit of the integration branch is what it holds *)
(* of each lane and how much the integrator added.                         *)
(***************************************************************************)
EXTENDS Naturals, Sequences

CONSTANTS Lanes,
          Order,      \* merge_order
          NoCommit,
          MaxTip,     \* bound on the commits of a lane
          MaxExtra,   \* bound on the integrator's own commits
          FixRounds,  \* budgets["fix_rounds"]
          G3Runs,     \* budgets["g3_runs"]
          Glue,       \* does the wave name glue?
          Faults      \* "git", "gate": allocating the worktree or running the gate raises

\* The commits of the integration branch
Commits == [lanes : [Lanes -> 0..MaxTip], extra : 0..MaxExtra]

\* A wave "must list at least one lane", and "merge_order must list every lane_id exactly
\* once" (Wave.problems).
ASSUME WaveAssumption ==
    /\ Lanes # {} /\ NoCommit \notin Commits
    /\ Order \in [1..Len(Order) -> Lanes]
    /\ \A l \in Lanes : \E i \in 1..Len(Order) : Order[i] = l
    /\ \A i, j \in 1..Len(Order) : Order[i] = Order[j] => i = j
    /\ MaxTip \in Nat \ {0} /\ MaxExtra \in Nat /\ FixRounds \in Nat /\ G3Runs \in Nat
    /\ Glue \in BOOLEAN

VARIABLES wave,      \* the wave's state
          lane,      \* per lane: its state, the reviewed head, the fix rounds spent
          parked,    \* lanes whose park record names an exclusion window that is not over
          tip,       \* the lanes' branches
          integ,     \* the head of the integration branch
          conflict,  \* the merge in progress in its worktree: a lane and a commit, or none
          merged,    \* _completed_merges
          attested,  \* is the named glue attested?
          g3,        \* _g3_runs
          call,      \* the call being executed
          gateHead,  \* the head the gate is running on
          waveHead,  \* _wave_head
          passed     \* history: heads the gate accepted

engine == <<wave, lane, parked, merged, attested, g3, waveHead>>
running == <<call, gateHead>>
world == <<tip, integ, conflict>>
vars == <<engine, running, world, passed>>

WaveState == {"PLANNED", "RUNNING", "INTEGRATING", "GATED", "AWAITING_ACCEPT", "ACCEPTED",
              "BLOCKED"}
LaneState == {"PLANNED", "RUNNING", "REVIEW", "FIX_UP_K", "REVIEWED_PROVISIONAL", "ACCEPTED",
              "BLOCKED", "PREEMPTED"}
Executing == {"RUNNING", "FIX_UP_K"}

\* WAVE_ALLOWED_TRANSITIONS, as far as a method asks for them
WaveMoves ==
    {<<"PLANNED", "RUNNING">>, <<"RUNNING", "INTEGRATING">>, <<"INTEGRATING", "INTEGRATING">>,
     <<"INTEGRATING", "GATED">>, <<"INTEGRATING", "BLOCKED">>, <<"GATED", "AWAITING_ACCEPT">>,
     <<"AWAITING_ACCEPT", "ACCEPTED">>, <<"BLOCKED", "RUNNING">>}

\* LANE_ALLOWED_TRANSITIONS
LaneMoves ==
    ({"PLANNED"} \X {"RUNNING", "BLOCKED"})
    \union ({"RUNNING"} \X {"REVIEW", "BLOCKED", "ACCEPTED", "PREEMPTED"})
    \union ({"REVIEW"} \X {"FIX_UP_K", "REVIEWED_PROVISIONAL", "BLOCKED"})
    \union ({"FIX_UP_K"} \X {"RUNNING", "REVIEW", "BLOCKED", "PREEMPTED"})
    \union ({"REVIEWED_PROVISIONAL"} \X {"ACCEPTED", "FIX_UP_K", "BLOCKED"})
    \union ({"BLOCKED"} \X {"RUNNING"})
    \union ({"PREEMPTED"} \X {"RUNNING", "BLOCKED"})

\* Types: states of wave_models.py, and budgets that are never overdrawn.
TypeOK ==
    /\ wave \in WaveState
    /\ lane \in [Lanes -> [state : LaneState, head : 0..MaxTip, fixes : 0..FixRounds]]
    /\ parked \subseteq Lanes
    /\ tip \in [Lanes -> 0..MaxTip]
    /\ integ \in Commits \union {NoCommit}
    /\ conflict \in (Lanes \X (1..MaxTip)) \union {<<>>}
    /\ merged \in [Lanes -> 0..MaxTip]
    /\ attested \in BOOLEAN
    /\ g3 \in 0..G3Runs
    /\ call \in {"none", "integrate", "g3"}
    /\ {gateHead, waveHead} \subseteq Commits \union {NoCommit}
    /\ passed \subseteq Commits

Init ==
    /\ wave = "PLANNED"
    /\ lane = [l \in Lanes |-> [state |-> "PLANNED", head |-> 0, fixes |-> 0]]
    /\ parked = {}
    /\ tip = [l \in Lanes |-> 0]
    /\ integ = NoCommit /\ conflict = <<>>
    /\ merged = [l \in Lanes |-> 0]
    /\ attested = ~Glue
    /\ g3 = 0
    /\ call = "none" /\ gateHead = NoCommit /\ waveHead = NoCommit
    /\ passed = {}

Idle == call = "none"

SetWave(to) == <<wave, to>> \in WaveMoves /\ wave' = to

SetLane(l, to) ==
    /\ Idle
    /\ <<lane[l].state, to>> \in LaneMoves
    /\ lane' = [lane EXCEPT ![l].state = to]
    /\ UNCHANGED <<wave, merged, attested, g3, waveHead, running, world, passed>>

-----------------------------------------------------------------------------
\* The wave's lifecycle.

\* start: the state moves before the worktree is allocated, which fails if the branch is
\* there already, as it is when the wave was started before.
Start ==
    /\ Idle
    /\ SetWave("RUNNING")
    /\ \/ integ = NoCommit /\ integ' = [lanes |-> [l \in Lanes |-> 0], extra |-> 0]
       \/ (integ # NoCommit \/ "git" \in Faults) /\ integ' = integ
    /\ UNCHANGED <<lane, parked, merged, attested, g3, waveHead, running, tip, conflict, passed>>

\* resume
Resume ==
    /\ Idle
    /\ SetWave("RUNNING")
    /\ UNCHANGED <<lane, parked, merged, attested, g3, waveHead, running, world, passed>>

AwaitAcceptance ==
    /\ Idle
    /\ SetWave("AWAITING_ACCEPT")
    /\ UNCHANGED <<lane, parked, merged, attested, g3, waveHead, running, world, passed>>

\* accept(sha), of a commit the owner moved the target branch to
Accept(sha) ==
    /\ Idle
    /\ wave = "AWAITING_ACCEPT"
    /\ waveHead # NoCommit => sha = waveHead
    /\ wave' = "ACCEPTED" /\ waveHead' = sha
    /\ UNCHANGED <<lane, parked, merged, attested, g3, running, world, passed>>

-----------------------------------------------------------------------------
\* The lanes.

\* start_lane: the worktree is allocated before the state moves, which may be refused.
StartLane(l) ==
    /\ Idle
    /\ wave = "RUNNING"
    /\ tip[l] = 0 /\ tip' = [tip EXCEPT ![l] = 1]
    /\ lane' = IF <<lane[l].state, "RUNNING">> \in LaneMoves
               THEN [lane EXCEPT ![l].state = "RUNNING"] ELSE lane
    /\ UNCHANGED <<wave, parked, merged, attested, g3, waveHead, running, integ, conflict, passed>>

LaneReview(l) == SetLane(l, "REVIEW") /\ UNCHANGED parked
LaneBlock(l) == SetLane(l, "BLOCKED") /\ UNCHANGED parked

\* lane_resume and lane_fix_up_complete ask the table for the same move.
LaneResume(l) == SetLane(l, "RUNNING") /\ UNCHANGED parked

\* Mutant: the budget of fix rounds is not checked
LaneFixUpUnbounded(l) ==
    /\ Idle
    /\ <<lane[l].state, "FIX_UP_K">> \in LaneMoves
    /\ lane' = [lane EXCEPT ![l].state = "FIX_UP_K", ![l].fixes = @ + 1]
    /\ UNCHANGED <<wave, parked, merged, attested, g3, waveHead, running, world, passed>>

LaneFixUp(l) ==
    /\ Idle
    /\ lane[l].fixes + 1 =< FixRounds
    /\ <<lane[l].state, "FIX_UP_K">> \in LaneMoves
    /\ lane' = [lane EXCEPT ![l].state = "FIX_UP_K", ![l].fixes = @ + 1]
    /\ UNCHANGED <<wave, parked, merged, attested, g3, waveHead, running, world, passed>>

\* lane_reviewed_provisional(sha), of a commit the reviewer saw
LaneReviewed(l, sha) ==
    /\ Idle
    /\ <<lane[l].state, "REVIEWED_PROVISIONAL">> \in LaneMoves
    /\ lane' = [lane EXCEPT ![l].state = "REVIEWED_PROVISIONAL", ![l].head = sha]
    /\ UNCHANGED <<wave, parked, merged, attested, g3, waveHead, running, world, passed>>

LaneAccept(l) ==
    /\ lane[l].head # 0
    /\ SetLane(l, "ACCEPTED") /\ UNCHANGED parked

\* preempt_lane: the port names the end of the exclusion window or does not know one.
PreemptLane(l) ==
    /\ lane[l].state \in Executing
    /\ SetLane(l, "PREEMPTED")
    /\ parked' \in {parked \ {l}, parked \union {l}}

ResumePreempted(l) ==
    /\ lane[l].state = "PREEMPTED"
    /\ l \notin parked
    /\ SetLane(l, "RUNNING") /\ UNCHANGED parked

-----------------------------------------------------------------------------
\* integrate: one lane after the other, others working meanwhile.

IntegrateBegin ==
    /\ Idle
    /\ SetWave("INTEGRATING")
    /\ call' = "integrate"
    /\ UNCHANGED <<lane, parked, merged, attested, g3, waveHead, gateHead, world, passed>>

\* Mutant: the loop goes on behind a lane it cannot merge
NextUnmerged(l) == merged[l] = 0

\* The loop skips the lanes it merged before and stops at the first that it cannot merge.
NextLane(l) ==
    /\ merged[l] = 0
    /\ \E i \in 1..Len(Order) : Order[i] = l /\ \A j \in 1..(i - 1) : merged[Order[j]] # 0

\* Mutant: the branch is not looked at again
Unpinned(l) == lane[l].head = 0

\* No pinned head, no branch, or a branch that moved since the review.
Unmergeable(l) == lane[l].head = 0 \/ tip[l] # lane[l].head

IntegrateRefuse(l) ==
    /\ call = "integrate" /\ NextLane(l)
    /\ Unmergeable(l)
    /\ SetWave("BLOCKED")
    /\ call' = "none"
    /\ UNCHANGED <<lane, parked, merged, attested, g3, waveHead, gateHead, world, passed>>

IntegrateMerge(l) ==
    /\ call = "integrate" /\ NextLane(l)
    /\ ~Unmergeable(l)
    /\ integ # NoCommit /\ conflict = <<>>
    /\ integ' = [integ EXCEPT !.lanes[l] = lane[l].head]
    /\ merged' = [merged EXCEPT ![l] = lane[l].head]
    /\ UNCHANGED <<wave, lane, parked, attested, g3, waveHead, running, tip, conflict, passed>>

\* git merge stops at a conflict and leaves it in the worktree, where it refuses every
\* other merge; or it fails before it begins.
IntegrateConflict(l) ==
    /\ call = "integrate" /\ NextLane(l)
    /\ ~Unmergeable(l)
    /\ \/ /\ integ # NoCommit /\ conflict = <<>> /\ integ.lanes[l] # lane[l].head
          /\ conflict' = <<l, lane[l].head>>
       \/ UNCHANGED conflict
    /\ call' = "none"
    /\ UNCHANGED <<engine, gateHead, tip, integ, passed>>

IntegrateEnd ==
    /\ call = "integrate"
    /\ \A l \in Lanes : merged[l] # 0
    /\ call' = "none"
    /\ UNCHANGED <<engine, gateHead, world, passed>>

\* record_integrator_resolution, by an integrator whose head holds the lane
RecordResolution(l) ==
    /\ Idle
    /\ wave = "INTEGRATING"
    /\ merged[l] = 0
    /\ integ # NoCommit /\ integ.lanes[l] # 0
    /\ merged' = [merged EXCEPT ![l] = integ.lanes[l]]
    /\ UNCHANGED <<wave, lane, parked, attested, g3, waveHead, running, world, passed>>

\* record_glue_written
RecordGlue ==
    /\ Idle
    /\ wave = "INTEGRATING"
    /\ attested' = TRUE
    /\ UNCHANGED <<wave, lane, parked, merged, g3, waveHead, running, world, passed>>

-----------------------------------------------------------------------------
\* run_g3: the head is read, the gate runs on it while others work, its verdict counts.

IntegrationComplete == \A l \in Lanes : merged[l] # 0

\* Mutant: the gate may run while lanes are missing
RunG3Early ==
    /\ Idle
    /\ wave = "INTEGRATING" /\ integ # NoCommit
    /\ attested
    /\ g3 + 1 =< G3Runs
    /\ call' = "g3" /\ gateHead' = integ
    /\ UNCHANGED <<engine, world, passed>>

RunG3 ==
    /\ Idle
    /\ wave = "INTEGRATING"
    /\ attested
    /\ IntegrationComplete
    /\ g3 + 1 =< G3Runs
    /\ call' = "g3" /\ gateHead' = integ
    /\ UNCHANGED <<engine, world, passed>>

Verdict(accepted) ==
    /\ call = "g3"
    /\ SetWave(IF accepted THEN "GATED" ELSE "BLOCKED")
    /\ g3' = g3 + 1
    /\ waveHead' = gateHead
    /\ passed' = IF accepted THEN passed \union {gateHead} ELSE passed
    /\ call' = "none" /\ gateHead' = NoCommit
    /\ UNCHANGED <<lane, parked, merged, attested, world>>

GateRaises ==
    /\ "gate" \in Faults
    /\ call = "g3"
    /\ call' = "none" /\ gateHead' = NoCommit
    /\ UNCHANGED <<engine, world, passed>>

-----------------------------------------------------------------------------
\* Workers, the integrator and time.

WorkerCommit(l) ==
    /\ tip[l] # 0 /\ tip[l] < MaxTip
    /\ tip' = [tip EXCEPT ![l] = @ + 1]
    /\ UNCHANGED <<engine, running, integ, conflict, passed>>

ResolveConflict ==
    /\ conflict # <<>>
    /\ integ' = [integ EXCEPT !.lanes[conflict[1]] = conflict[2]]
    /\ conflict' = <<>>
    /\ UNCHANGED <<engine, running, tip, passed>>

AbortMerge ==
    /\ conflict # <<>> /\ conflict' = <<>>
    /\ UNCHANGED <<engine, running, tip, integ, passed>>

IntegratorCommit ==
    /\ integ # NoCommit /\ conflict = <<>>
    /\ integ.extra < MaxExtra
    /\ integ' = [integ EXCEPT !.extra = @ + 1]
    /\ UNCHANGED <<engine, running, tip, conflict, passed>>

WindowEnds(l) ==
    /\ l \in parked /\ parked' = parked \ {l}
    /\ UNCHANGED <<wave, lane, merged, attested, g3, waveHead, running, world, passed>>

LaneStep(l) ==
    \/ StartLane(l) \/ LaneReview(l) \/ LaneBlock(l) \/ LaneResume(l) \/ LaneFixUp(l)
    \/ \E sha \in 1..tip[l] : LaneReviewed(l, sha)
    \/ LaneAccept(l) \/ PreemptLane(l) \/ ResumePreempted(l)
    \/ IntegrateRefuse(l) \/ IntegrateMerge(l) \/ IntegrateConflict(l) \/ RecordResolution(l)
    \/ WorkerCommit(l) \/ WindowEnds(l)

Next ==
    \/ Start \/ Resume \/ AwaitAcceptance
    \/ \E sha \in {waveHead, integ} : Accept(sha)
    \/ \E l \in Lanes : LaneStep(l)
    \/ IntegrateBegin \/ IntegrateEnd \/ RecordGlue
    \/ RunG3 \/ (\E accepted \in BOOLEAN : Verdict(accepted)) \/ GateRaises
    \/ ResolveConflict \/ AbortMerge \/ IntegratorCommit

Spec == Init /\ [][Next]_vars

-----------------------------------------------------------------------------
\* Properties.

\* A wave that is gated, or accepted, is so with a head the gate accepted, and that head
\* holds every lane, the commit the closure event will name included, and the glue is
\* attested: whatever was blocked, resumed, resolved and committed before (run_g3, accept).
GatedHeadHoldsEveryLane ==
    wave \in {"GATED", "AWAITING_ACCEPT", "ACCEPTED"} =>
        /\ waveHead \in passed
        /\ attested
        /\ \A l \in Lanes : merged[l] # 0 /\ waveHead.lanes[l] >= merged[l]

\* The integration branch holds nothing of a lane before the lanes that come earlier in
\* merge_order are merged, across conflicts, refusals and repeated calls (integrate).
LanesMergeInOrder ==
    \A i, j \in 1..Len(Order) :
        i < j /\ integ # NoCommit /\ integ.lanes[Order[j]] # 0 => merged[Order[i]] # 0

\* A lane's reviewed head is merged only while it still is the tip of the lane's branch,
\* and once merged the engine never merges it anew (integrate, "a moved lane head blocks
\* the merge").
MovedLanesAreNotMerged ==
    [][\A l \in Lanes :
          /\ merged[l] = 0 /\ merged'[l] # 0 /\ integ' # integ => merged'[l] = tip[l]
          /\ merged[l] # 0 => merged'[l] = merged[l]]_vars

\* Documented and not so: an accepted wave holds the reviewed head of every lane.  A
\* lane that is fixed and reviewed again after a failed gate stays in _completed_merges
\* with its old head, and integrate passes it by.
ReviewedHeadsAreAccepted == wave = "ACCEPTED" => \A l \in Lanes : merged[l] = lane[l].head

\* Documented and not so: a parked lane runs again only after its exclusion window.
\* lane_resume asks the transition table, which does not know the window.
ParkedLanesWait ==
    [][\A l \in Lanes : lane[l].state = "PREEMPTED" /\ lane'[l].state = "RUNNING"
                         => l \notin parked]_vars

\* Documented and not so: a call that raises does not advance the wave.  start moves the
\* state before it allocates the worktree.
FailedStartsChangeNothing == [][Start /\ integ' = NoCommit => wave' = wave]_vars

\* Not so: no lane works on when its wave is accepted and its worktree is offered for
\* cleanup.  integrate and accept look at the lanes' heads and not at their states.
AcceptedWavesAreQuiet == wave = "ACCEPTED" => \A l \in Lanes : lane[l].state \notin Executing
=============================================================================
