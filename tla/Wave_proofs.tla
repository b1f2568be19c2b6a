------------------------------ MODULE Wave_proofs ------------------------------
(***************************************************************************)
(* What holds of a wave for every number of lanes, every merge order,      *)
(* every budget and whatever fails.                                        *)
(***************************************************************************)
EXTENDS Wave, TLAPS

Earlier(l, k) == \E i, j \in 1..Len(Order) : i < j /\ Order[i] = k /\ Order[j] = l

\* A call that is being executed finds the wave as it has left it.
CallFits == call # "none" => wave = "INTEGRATING"

\* What the engine holds for merged is on the integration branch.
MergedIsHeld ==
    \A l \in Lanes : merged[l] # 0 => integ # NoCommit /\ integ.lanes[l] >= merged[l]

\* The integration branch holds only what workers have committed.
HeldIsCommitted == integ # NoCommit => \A l \in Lanes : integ.lanes[l] =< tip[l]

\* A merge in progress takes the branch forward, and its lane's turn has come.
ConflictFits ==
    conflict # <<>> =>
        /\ integ # NoCommit
        /\ integ.lanes[conflict[1]] =< conflict[2] /\ conflict[2] =< tip[conflict[1]]
        /\ \A k \in Lanes : Earlier(conflict[1], k) => merged[k] # 0

\* The gate works on a head that holds every lane, within its budget.
GateFits ==
    call = "g3" =>
        /\ attested /\ g3 + 1 =< G3Runs
        /\ gateHead \in Commits
        /\ \A l \in Lanes : merged[l] # 0 /\ gateHead.lanes[l] >= merged[l]

\* A lane is held only when the earlier ones are merged.
InOrder ==
    integ # NoCommit =>
        \A l, k \in Lanes : Earlier(l, k) /\ integ.lanes[l] # 0 => merged[k] # 0

BranchInv == CallFits /\ MergedIsHeld /\ HeldIsCommitted /\ ConflictFits /\ InOrder
IInv == TypeOK /\ BranchInv /\ GateFits /\ GatedHeadHoldsEveryLane

-----------------------------------------------------------------------------
(* Facts about the bookkeeping.                                            *)

\* The engine's own words for merge_order.
LEMMA OrderIsPlace ==
    ASSUME NEW l \in Lanes, NextLane(l)
    PROVE  \A k \in Lanes : Earlier(l, k) => merged[k] # 0
BY WaveAssumption DEF NextLane, Earlier

LEMMA NothingIsBeforeItself == ASSUME NEW l \in Lanes PROVE ~Earlier(l, l)
BY WaveAssumption DEF Earlier

LEMMA InOrderIsMergeOrder ==
    ASSUME TypeOK, InOrder PROVE LanesMergeInOrder
<1> SUFFICES ASSUME NEW i \in 1..Len(Order), NEW j \in 1..Len(Order),
                    i < j, integ # NoCommit, integ.lanes[Order[j]] # 0
             PROVE  merged[Order[i]] # 0
  BY DEF LanesMergeInOrder
<1>1. Order[i] \in Lanes /\ Order[j] \in Lanes
  BY WaveAssumption
<1>2. Earlier(Order[j], Order[i])
  BY DEF Earlier
<1> QED BY <1>1, <1>2 DEF InOrder

\* Writing one lane of the integration head.
LEMMA HeadWritten ==
    ASSUME TypeOK, integ # NoCommit, NEW l \in Lanes, NEW n \in 0..MaxTip
    PROVE  /\ [integ EXCEPT !.lanes[l] = n] \in Commits
           /\ [integ EXCEPT !.lanes[l] = n].lanes[l] = n
           /\ \A k \in Lanes \ {l} : [integ EXCEPT !.lanes[l] = n].lanes[k] = integ.lanes[k]
<1>1. integ \in Commits
  BY DEF TypeOK
<1> QED BY <1>1 DEF Commits

-----------------------------------------------------------------------------
(* The inductive step, one lemma per kind of step.                         *)

\* The calls that move states only.
LEMMA StatesMove ==
    ASSUME IInv,
           UNCHANGED <<merged, attested, g3, waveHead, running, world, passed>>,
           wave' = wave \/ (call = "none" /\ SetWave(wave')),
           wave' \in {"GATED", "AWAITING_ACCEPT", "ACCEPTED"} =>
               wave \in {"GATED", "AWAITING_ACCEPT", "ACCEPTED"},
           lane' \in [Lanes -> [state : LaneState, head : 0..MaxTip, fixes : 0..FixRounds]],
           parked' \subseteq Lanes
    PROVE  IInv'
<1> USE DEF running, world
<1>1. wave' \in WaveState
  BY DEF IInv, TypeOK, SetWave, WaveMoves, WaveState
<1>2. TypeOK'
  BY <1>1 DEF IInv, TypeOK
<1>3. BranchInv'
  BY DEF IInv, BranchInv, CallFits, MergedIsHeld, HeldIsCommitted, ConflictFits, InOrder
<1>4. GateFits' /\ GatedHeadHoldsEveryLane'
  BY DEF IInv, GateFits, GatedHeadHoldsEveryLane
<1> QED BY <1>2, <1>3, <1>4 DEF IInv

\* Writing one lane's record.
LEMMA LaneWritten ==
    ASSUME TypeOK, NEW l \in Lanes, NEW to \in LaneState
    PROVE  [lane EXCEPT ![l].state = to] \in
               [Lanes -> [state : LaneState, head : 0..MaxTip, fixes : 0..FixRounds]]
BY DEF TypeOK

LEMMA LaneMovesWithin == \A m \in LaneMoves : m[2] \in LaneState
BY DEF LaneMoves, LaneState

LEMMA LaneStateMoves ==
    ASSUME IInv, NEW l \in Lanes, NEW to \in LaneState, SetLane(l, to), parked' \subseteq Lanes
    PROVE  IInv'
<1>1. lane' \in [Lanes -> [state : LaneState, head : 0..MaxTip, fixes : 0..FixRounds]]
  BY LaneWritten DEF IInv, SetLane
<1> QED BY <1>1, StatesMove DEF SetLane

LEMMA LaneCalls ==
    ASSUME IInv, NEW l \in Lanes,
           \/ LaneReview(l) \/ LaneBlock(l) \/ LaneResume(l) \/ LaneFixUp(l)
           \/ \E sha \in 1..tip[l] : LaneReviewed(l, sha)
           \/ LaneAccept(l) \/ PreemptLane(l) \/ ResumePreempted(l) \/ WindowEnds(l)
    PROVE  IInv'
<1>1. parked \subseteq Lanes /\ tip[l] \in 0..MaxTip
  BY DEF IInv, TypeOK
<1>2. ASSUME LaneReview(l) \/ LaneBlock(l) \/ LaneResume(l) \/ LaneAccept(l)
             \/ PreemptLane(l) \/ ResumePreempted(l)
      PROVE  IInv'
  <2>1. PICK to \in LaneState : SetLane(l, to)
    BY <1>2 DEF LaneReview, LaneBlock, LaneResume, LaneAccept, PreemptLane, ResumePreempted,
                LaneState
  <2>2. parked' \subseteq Lanes
    BY <1>1, <1>2 DEF LaneReview, LaneBlock, LaneResume, LaneAccept, PreemptLane, ResumePreempted
  <2> QED BY <2>1, <2>2, LaneStateMoves
<1>3. CASE LaneFixUp(l)
  <2>1. lane' \in [Lanes -> [state : LaneState, head : 0..MaxTip, fixes : 0..FixRounds]]
    <3>1. lane \in [Lanes -> [state : LaneState, head : 0..MaxTip, fixes : 0..FixRounds]]
      BY DEF IInv, TypeOK
    <3>2. lane[l].fixes \in Nat /\ lane[l].fixes + 1 \in 0..FixRounds
      BY <1>3, <3>1, WaveAssumption DEF LaneFixUp
    <3>3. lane' = [lane EXCEPT ![l].state = "FIX_UP_K", ![l].fixes = lane[l].fixes + 1]
      BY <1>3, <3>1 DEF LaneFixUp
    <3>4. "FIX_UP_K" \in LaneState
      BY DEF LaneState
    <3> QED BY ONLY <3>1, <3>2, <3>3, <3>4, l \in Lanes
  <2> QED BY <1>1, <1>3, <2>1, StatesMove DEF LaneFixUp
<1>4. ASSUME NEW sha \in 1..tip[l], LaneReviewed(l, sha) PROVE IInv'
  <2>1. sha \in 0..MaxTip
    BY <1>1, WaveAssumption
  <2>2. lane' \in [Lanes -> [state : LaneState, head : 0..MaxTip, fixes : 0..FixRounds]]
    BY <1>4, <2>1 DEF LaneReviewed, LaneState, IInv, TypeOK
  <2> QED BY <1>1, <1>4, <2>2, StatesMove DEF LaneReviewed
<1>5. CASE WindowEnds(l)
  BY <1>1, <1>5, StatesMove DEF WindowEnds, IInv, TypeOK
<1> QED BY <1>2, <1>3, <1>4, <1>5

LEMMA WaveCalls ==
    ASSUME IInv, Resume \/ AwaitAcceptance \/ IntegrateEnd
    PROVE  IInv'
<1>1. CASE Resume
  BY <1>1, StatesMove DEF Resume, Idle, SetWave, IInv, TypeOK
<1>2. CASE AwaitAcceptance
  BY <1>2, StatesMove DEF AwaitAcceptance, Idle, SetWave, WaveMoves, IInv, TypeOK
<1>3. CASE IntegrateEnd
  <2> USE <1>3 DEF IntegrateEnd, engine, world
  <2>1. TypeOK'
    BY DEF IInv, TypeOK
  <2>2. BranchInv'
    BY DEF IInv, BranchInv, CallFits, MergedIsHeld, HeldIsCommitted, ConflictFits, InOrder
  <2>3. GateFits' /\ GatedHeadHoldsEveryLane'
    BY DEF IInv, GateFits, GatedHeadHoldsEveryLane
  <2> QED BY <2>1, <2>2, <2>3 DEF IInv
<1> QED BY <1>1, <1>2, <1>3

\* A wave that starts again finds its integration branch as it was.
LEMMA StartKeeps == ASSUME IInv, Start PROVE IInv'
<1> USE DEF Start, Idle, SetWave, running
<1>1. wave' = "RUNNING"
  OBVIOUS
<1>2. integ' \in Commits \union {NoCommit}
  BY WaveAssumption DEF Commits, IInv, TypeOK
<1>3. TypeOK'
  BY <1>1, <1>2 DEF IInv, TypeOK, WaveState
<1>4. integ' = integ \/ (integ = NoCommit /\ integ'.lanes = [l \in Lanes |-> 0])
  OBVIOUS
<1>5. MergedIsHeld' /\ InOrder' /\ ConflictFits' /\ CallFits'
  BY <1>4 DEF IInv, BranchInv, MergedIsHeld, InOrder, ConflictFits, CallFits
<1>6. HeldIsCommitted'
  BY <1>4 DEF IInv, TypeOK, BranchInv, HeldIsCommitted
<1>7. GateFits' /\ GatedHeadHoldsEveryLane'
  BY <1>1 DEF GateFits, GatedHeadHoldsEveryLane
<1> QED BY <1>3, <1>5, <1>6, <1>7 DEF IInv, BranchInv

\* accept changes nothing of what was judged.
LEMMA AcceptKeeps == ASSUME IInv, NEW sha \in {waveHead, integ}, Accept(sha) PROVE IInv'
<1> USE DEF Accept, Idle, running, world
<1>1. waveHead \in Commits /\ waveHead' = waveHead
  BY WaveAssumption DEF IInv, TypeOK, GatedHeadHoldsEveryLane
<1>2. TypeOK'
  BY <1>1 DEF IInv, TypeOK, WaveState
<1>3. BranchInv'
  BY DEF IInv, BranchInv, CallFits, MergedIsHeld, HeldIsCommitted, ConflictFits, InOrder
<1>4. GateFits' /\ GatedHeadHoldsEveryLane'
  BY <1>1 DEF IInv, GateFits, GatedHeadHoldsEveryLane
<1> QED BY <1>2, <1>3, <1>4 DEF IInv

\* The branch of a lane grows.
LEMMA TipsGrow ==
    ASSUME IInv, NEW l \in Lanes, StartLane(l) \/ WorkerCommit(l)
    PROVE  IInv'
<1> USE DEF StartLane, WorkerCommit, engine, running
<1>0. tip \in [Lanes -> 0..MaxTip] /\ MaxTip \in Nat \ {0}
  BY WaveAssumption DEF IInv, TypeOK
<1>1. tip' \in [Lanes -> 0..MaxTip] /\ \A k \in Lanes : tip'[k] >= tip[k]
  <2>1. PICK n \in 0..MaxTip : n >= tip[l] /\ tip' = [tip EXCEPT ![l] = n]
    BY <1>0
  <2> QED BY <1>0, <2>1
<1>2. lane' \in [Lanes -> [state : LaneState, head : 0..MaxTip, fixes : 0..FixRounds]]
  <2>1. lane' = lane \/ lane' = [lane EXCEPT ![l].state = "RUNNING"]
    OBVIOUS
  <2>2. "RUNNING" \in LaneState
    BY DEF LaneState
  <2>3. /\ TypeOK
        /\ lane \in [Lanes -> [state : LaneState, head : 0..MaxTip, fixes : 0..FixRounds]]
    BY DEF IInv, TypeOK
  <2>4. [lane EXCEPT ![l].state = "RUNNING"] \in
            [Lanes -> [state : LaneState, head : 0..MaxTip, fixes : 0..FixRounds]]
    BY <2>2, <2>3, LaneWritten
  <2> QED BY ONLY <2>1, <2>3, <2>4
<1>3. TypeOK'
  BY <1>1, <1>2 DEF IInv, TypeOK
<1>4. CallFits' /\ MergedIsHeld' /\ InOrder'
  BY DEF IInv, BranchInv, CallFits, MergedIsHeld, InOrder
<1>5. HeldIsCommitted'
  <2> SUFFICES ASSUME integ # NoCommit, NEW k \in Lanes PROVE integ.lanes[k] =< tip'[k]
    BY DEF HeldIsCommitted
  <2>1. integ.lanes[k] =< tip[k] /\ integ.lanes[k] \in Nat /\ tip[k] \in Nat /\ tip'[k] \in Nat
    BY <1>1 DEF IInv, TypeOK, Commits, BranchInv, HeldIsCommitted
  <2> QED BY <1>1, <2>1
<1>6. ConflictFits'
  <2> SUFFICES ASSUME conflict # <<>> PROVE conflict[2] =< tip'[conflict[1]]
    BY DEF ConflictFits, IInv, BranchInv
  <2>1. conflict[1] \in Lanes /\ conflict[2] \in Nat /\ conflict[2] =< tip[conflict[1]]
    BY DEF IInv, TypeOK, BranchInv, ConflictFits
  <2> QED BY <1>1, <2>1 DEF IInv, TypeOK
<1>7. GateFits' /\ GatedHeadHoldsEveryLane'
  BY DEF IInv, GateFits, GatedHeadHoldsEveryLane
<1> QED BY <1>3, <1>4, <1>5, <1>6, <1>7 DEF IInv, BranchInv

\* integrate begins, and ends without a merge.
LEMMA IntegrationCalls ==
    ASSUME IInv, IntegrateBegin \/ (\E l \in Lanes : IntegrateRefuse(l))
    PROVE  IInv'
<1> USE DEF IntegrateBegin, IntegrateRefuse, SetWave, Idle, world
<1>1. TypeOK'
  BY DEF IInv, TypeOK, WaveState
<1>2. BranchInv'
  BY DEF IInv, BranchInv, CallFits, MergedIsHeld, HeldIsCommitted, ConflictFits, InOrder
<1>3. GateFits' /\ GatedHeadHoldsEveryLane'
  BY DEF IInv, GateFits, GatedHeadHoldsEveryLane
<1> QED BY <1>1, <1>2, <1>3 DEF IInv

\* A merge takes the branch forward.
LEMMA MergeKeeps == ASSUME IInv, NEW l \in Lanes, IntegrateMerge(l) PROVE IInv'
<1> USE DEF IntegrateMerge, running
<1>1. /\ merged[l] = 0 /\ lane[l].head # 0 /\ tip[l] = lane[l].head
      /\ lane[l].head \in 0..MaxTip
      /\ merged' = [merged EXCEPT ![l] = lane[l].head] /\ merged \in [Lanes -> 0..MaxTip]
  BY DEF NextLane, Unmergeable, IInv, TypeOK
<1>2. /\ integ' \in Commits /\ integ' # NoCommit /\ integ'.lanes[l] = lane[l].head
      /\ \A k \in Lanes \ {l} : integ'.lanes[k] = integ.lanes[k]
  <2>1. integ' = [integ EXCEPT !.lanes[l] = lane[l].head] /\ integ # NoCommit
    OBVIOUS
  <2>2. NoCommit \notin Commits
    BY WaveAssumption
  <2>3. lane[l].head \in 0..MaxTip /\ TypeOK
    BY <1>1 DEF IInv
  <2> QED BY ONLY <2>1, <2>2, <2>3, HeadWritten, l \in Lanes
<1>3. \A k \in Lanes : merged[k] # 0 => merged'[k] = merged[k]
  BY <1>1
<1>4. TypeOK'
  BY <1>1, <1>2 DEF IInv, TypeOK
<1>5. CallFits' /\ ConflictFits'
  BY DEF IInv, BranchInv, CallFits, ConflictFits
<1>6. MergedIsHeld' /\ HeldIsCommitted'
  BY <1>1, <1>2 DEF IInv, BranchInv, MergedIsHeld, HeldIsCommitted
<1>7. InOrder'
  <2> SUFFICES ASSUME NEW j \in Lanes, NEW k \in Lanes, Earlier(j, k), integ'.lanes[j] # 0
               PROVE  merged'[k] # 0
    BY DEF InOrder, Earlier
  <2>1. merged[k] # 0
    BY <1>2, OrderIsPlace DEF IInv, BranchInv, InOrder
  <2> QED BY <1>3, <2>1
<1>8. GateFits' /\ GatedHeadHoldsEveryLane'
  BY DEF IInv, BranchInv, CallFits, GateFits, GatedHeadHoldsEveryLane
<1> QED BY <1>4, <1>5, <1>6, <1>7, <1>8 DEF IInv, BranchInv

\* A merge that stops leaves the lane whose turn it is.
LEMMA ConflictKeeps == ASSUME IInv, NEW l \in Lanes, IntegrateConflict(l) PROVE IInv'
<1> USE DEF IntegrateConflict, engine
<1>1. /\ lane[l].head # 0 /\ tip[l] = lane[l].head /\ lane[l].head \in 0..MaxTip
      /\ \A k \in Lanes : Earlier(l, k) => merged[k] # 0
  BY OrderIsPlace DEF Unmergeable, IInv, TypeOK
<1>2. TypeOK'
  <2>1. conflict' \in (Lanes \X (1..MaxTip)) \union {<<>>}
    BY <1>1, WaveAssumption DEF IInv, TypeOK
  <2> QED BY <2>1 DEF IInv, TypeOK
<1>3. CallFits' /\ MergedIsHeld' /\ HeldIsCommitted' /\ InOrder'
  BY DEF IInv, BranchInv, CallFits, MergedIsHeld, HeldIsCommitted, InOrder
<1>4. ConflictFits'
  <2>1. CASE UNCHANGED conflict
    BY <2>1 DEF IInv, BranchInv, ConflictFits, Earlier
  <2>2. CASE integ # NoCommit /\ conflict' = <<l, lane[l].head>>
    <3>1. integ.lanes[l] =< lane[l].head /\ lane[l].head =< tip[l]
      BY <1>1, <2>2 DEF IInv, BranchInv, HeldIsCommitted
    <3> QED BY <1>1, <2>2, <3>1 DEF ConflictFits, Earlier
  <2> QED BY <2>1, <2>2
<1>5. GateFits' /\ GatedHeadHoldsEveryLane'
  BY DEF IInv, BranchInv, CallFits, GateFits, GatedHeadHoldsEveryLane
<1> QED BY <1>2, <1>3, <1>4, <1>5 DEF IInv, BranchInv

\* The integrator's report, and its note of the glue.
LEMMA RecordsKeep ==
    ASSUME IInv, RecordGlue \/ (\E l \in Lanes : RecordResolution(l))
    PROVE  IInv'
<1> USE DEF running, world
<1>1. CASE RecordGlue
  <2> USE <1>1 DEF RecordGlue, Idle
  <2>1. TypeOK'
    BY DEF IInv, TypeOK
  <2>2. BranchInv'
    BY DEF IInv, BranchInv, CallFits, MergedIsHeld, HeldIsCommitted, ConflictFits, InOrder
  <2>3. GateFits' /\ GatedHeadHoldsEveryLane'
    BY DEF IInv, GateFits, GatedHeadHoldsEveryLane
  <2> QED BY <2>1, <2>2, <2>3 DEF IInv
<1>2. ASSUME NEW l \in Lanes, RecordResolution(l) PROVE IInv'
  <2> USE <1>2 DEF RecordResolution, Idle
  <2>1. integ \in Commits /\ integ.lanes[l] \in 0..MaxTip
    BY DEF IInv, TypeOK, Commits
  <2>2. /\ merged' \in [Lanes -> 0..MaxTip] /\ merged'[l] = integ.lanes[l]
        /\ \A k \in Lanes \ {l} : merged'[k] = merged[k]
    BY <2>1 DEF IInv, TypeOK
  <2>3. \A k \in Lanes : merged[k] # 0 => merged'[k] # 0
    BY <2>2
  <2>4. TypeOK'
    BY <2>2 DEF IInv, TypeOK
  <2>5. CallFits' /\ HeldIsCommitted'
    BY DEF IInv, BranchInv, CallFits, HeldIsCommitted
  <2>6. MergedIsHeld'
    BY <2>1, <2>2 DEF IInv, BranchInv, MergedIsHeld
  <2>7. ConflictFits' /\ InOrder'
    BY <2>3 DEF IInv, BranchInv, ConflictFits, InOrder, Earlier
  <2>8. GateFits' /\ GatedHeadHoldsEveryLane'
    BY DEF GateFits, GatedHeadHoldsEveryLane
  <2> QED BY <2>4, <2>5, <2>6, <2>7, <2>8 DEF IInv, BranchInv
<1> QED BY <1>1, <1>2

\* The gate reads a head that holds every lane, and judges that head.
LEMMA GateKeeps ==
    ASSUME IInv, RunG3 \/ (\E accepted \in BOOLEAN : Verdict(accepted)) \/ GateRaises
    PROVE  IInv'
<1> USE DEF engine, world
<1>1. CASE RunG3
  <2> USE <1>1 DEF RunG3, Idle
  <2>1. integ \in Commits /\ \A l \in Lanes : merged[l] # 0 /\ integ.lanes[l] >= merged[l]
    BY WaveAssumption DEF IntegrationComplete, IInv, TypeOK, BranchInv, MergedIsHeld
  <2>2. TypeOK' /\ GateFits'
    BY <2>1 DEF IInv, TypeOK, GateFits
  <2>3. BranchInv'
    BY DEF IInv, BranchInv, CallFits, MergedIsHeld, HeldIsCommitted, ConflictFits, InOrder
  <2>4. GatedHeadHoldsEveryLane'
    BY DEF GatedHeadHoldsEveryLane
  <2> QED BY <2>2, <2>3, <2>4 DEF IInv
<1>2. ASSUME NEW accepted \in BOOLEAN, Verdict(accepted) PROVE IInv'
  <2> USE <1>2 DEF Verdict, SetWave
  <2>1. /\ attested /\ g3 + 1 =< G3Runs /\ gateHead \in Commits
        /\ \A l \in Lanes : merged[l] # 0 /\ gateHead.lanes[l] >= merged[l]
    BY DEF IInv, GateFits
  <2>2. wave' = (IF accepted THEN "GATED" ELSE "BLOCKED")
    OBVIOUS
  <2>3. g3' \in 0..G3Runs
    BY <2>1, WaveAssumption DEF IInv, TypeOK
  <2>4. TypeOK'
    BY <2>1, <2>2, <2>3 DEF IInv, TypeOK, WaveState
  <2>5. BranchInv'
    BY DEF IInv, BranchInv, CallFits, MergedIsHeld, HeldIsCommitted, ConflictFits, InOrder
  <2>6. GateFits' /\ GatedHeadHoldsEveryLane'
    BY <2>1, <2>2 DEF GateFits, GatedHeadHoldsEveryLane
  <2> QED BY <2>4, <2>5, <2>6 DEF IInv
<1>3. CASE GateRaises
  <2> USE <1>3 DEF GateRaises
  <2>1. TypeOK'
    BY DEF IInv, TypeOK
  <2>2. BranchInv'
    BY DEF IInv, BranchInv, CallFits, MergedIsHeld, HeldIsCommitted, ConflictFits, InOrder
  <2>3. GateFits' /\ GatedHeadHoldsEveryLane'
    BY DEF IInv, GateFits, GatedHeadHoldsEveryLane
  <2> QED BY <2>1, <2>2, <2>3 DEF IInv
<1> QED BY <1>1, <1>2, <1>3

\* What the integrator does in the worktree meanwhile.
LEMMA IntegratorKeeps ==
    ASSUME IInv, ResolveConflict \/ AbortMerge \/ IntegratorCommit
    PROVE  IInv'
<1> USE DEF engine, running
<1>1. GateFits' /\ GatedHeadHoldsEveryLane'
  BY DEF IInv, GateFits, GatedHeadHoldsEveryLane, ResolveConflict, AbortMerge, IntegratorCommit
<1>2. CASE ResolveConflict
  <2> USE <1>2 DEF ResolveConflict
  <2> DEFINE l == conflict[1]
             n == conflict[2]
  <2>1. /\ l \in Lanes /\ n \in 1..MaxTip /\ integ # NoCommit
        /\ integ.lanes[l] =< n /\ n =< tip[l]
        /\ \A k \in Lanes : Earlier(l, k) => merged[k] # 0
    BY DEF IInv, TypeOK, BranchInv, ConflictFits
  <2>2. /\ integ' \in Commits /\ integ' # NoCommit /\ integ'.lanes[l] = n
        /\ \A k \in Lanes \ {l} : integ'.lanes[k] = integ.lanes[k]
    <3>1. n \in 0..MaxTip
      BY <2>1
    <3> HIDE DEF l, n
    <3>2. integ' = [integ EXCEPT !.lanes[l] = n]
      BY DEF l, n
    <3>3. NoCommit \notin Commits /\ TypeOK
      BY WaveAssumption DEF IInv
    <3> QED BY ONLY <2>1, <3>1, <3>2, <3>3, HeadWritten
  <2> HIDE DEF l, n
  <2>3. TypeOK'
    BY <2>2 DEF IInv, TypeOK
  <2>4. CallFits' /\ ConflictFits'
    BY DEF IInv, BranchInv, CallFits, ConflictFits
  <2>5. integ \in Commits /\ \A k \in Lanes : integ.lanes[k] \in Nat /\ merged[k] \in Nat
    BY <2>1 DEF IInv, TypeOK, Commits
  <2>6. MergedIsHeld'
    <3> SUFFICES ASSUME NEW k \in Lanes, merged[k] # 0 PROVE integ'.lanes[k] >= merged[k]
      BY <2>2 DEF MergedIsHeld
    <3>1. integ.lanes[k] >= merged[k]
      BY DEF IInv, BranchInv, MergedIsHeld
    <3> QED BY <2>1, <2>2, <2>5, <3>1
  <2>7. HeldIsCommitted'
    BY <2>1, <2>2 DEF IInv, BranchInv, HeldIsCommitted
  <2>8. InOrder'
    BY <2>1, <2>2 DEF IInv, BranchInv, InOrder, Earlier
  <2> QED BY <1>1, <2>3, <2>4, <2>6, <2>7, <2>8 DEF IInv, BranchInv
<1>3. CASE AbortMerge
  <2> USE <1>3 DEF AbortMerge
  <2>1. TypeOK'
    BY DEF IInv, TypeOK
  <2>2. BranchInv'
    BY DEF IInv, BranchInv, CallFits, MergedIsHeld, HeldIsCommitted, ConflictFits, InOrder
  <2> QED BY <1>1, <2>1, <2>2 DEF IInv
<1>4. CASE IntegratorCommit
  <2> USE <1>4 DEF IntegratorCommit
  <2>1. integ' \in Commits /\ integ' # NoCommit /\ integ'.lanes = integ.lanes
    <3>1. integ \in Commits /\ integ.extra < MaxExtra /\ MaxExtra \in Nat
      BY WaveAssumption DEF IInv, TypeOK
    <3>2. integ' = [integ EXCEPT !.extra = integ.extra + 1]
      OBVIOUS
    <3>3. integ' \in Commits /\ integ'.lanes = integ.lanes
      BY ONLY <3>1, <3>2 DEF Commits
    <3> QED BY <3>3, WaveAssumption
  <2>2. TypeOK'
    BY <2>1 DEF IInv, TypeOK
  <2>3. BranchInv'
    BY <2>1 DEF IInv, BranchInv, CallFits, MergedIsHeld, HeldIsCommitted, ConflictFits, InOrder
  <2> QED BY <1>1, <2>2, <2>3 DEF IInv
<1> QED BY <1>2, <1>3, <1>4

LEMMA InitFits == Init => IInv
<1> SUFFICES ASSUME Init PROVE IInv
  OBVIOUS
<1> USE DEF Init
<1>1. TypeOK
  BY WaveAssumption DEF TypeOK, WaveState, LaneState
<1>2. BranchInv
  BY DEF BranchInv, CallFits, MergedIsHeld, HeldIsCommitted, ConflictFits, InOrder
<1>3. GateFits /\ GatedHeadHoldsEveryLane
  BY DEF GateFits, GatedHeadHoldsEveryLane
<1> QED BY <1>1, <1>2, <1>3 DEF IInv

LEMMA StepsKeep == IInv /\ [Next]_vars => IInv'
<1> SUFFICES ASSUME IInv, [Next]_vars PROVE IInv'
  OBVIOUS
<1>1. CASE UNCHANGED vars
  BY <1>1, StatesMove DEF vars, engine, IInv, TypeOK
<1>2. ASSUME NEW l \in Lanes, LaneStep(l) PROVE IInv'
  BY <1>2, LaneCalls, TipsGrow, IntegrationCalls, MergeKeeps, ConflictKeeps, RecordsKeep
     DEF LaneStep
<1>3. ASSUME NEW sha \in {waveHead, integ}, Accept(sha) PROVE IInv'
  BY <1>3, AcceptKeeps
<1>4. CASE Start \/ Resume \/ AwaitAcceptance \/ IntegrateBegin \/ IntegrateEnd \/ RecordGlue
  BY <1>4, StartKeeps, WaveCalls, IntegrationCalls, RecordsKeep
<1>5. CASE RunG3 \/ (\E accepted \in BOOLEAN : Verdict(accepted)) \/ GateRaises
  BY <1>5, GateKeeps
<1>6. CASE ResolveConflict \/ AbortMerge \/ IntegratorCommit
  BY <1>6, IntegratorKeeps
<1> QED BY <1>1, <1>2, <1>3, <1>4, <1>5, <1>6 DEF Next

LEMMA Invariant == Spec => []IInv
BY InitFits, StepsKeep, PTL DEF Spec

-----------------------------------------------------------------------------
(* The theorems.                                                           *)

\* Every state has the types of wave_models.py, and no budget is overdrawn.
THEOREM WaveTypes == Spec => []TypeOK
<1>1. IInv => TypeOK
  BY DEF IInv
<1> QED BY <1>1, Invariant, PTL

\* A gated or accepted wave stands on a head that the gate accepted and that holds every
\* lane (run_g3, accept).
THEOREM GatedHeadIsWhole == Spec => []GatedHeadHoldsEveryLane
<1>1. IInv => GatedHeadHoldsEveryLane
  BY DEF IInv
<1> QED BY <1>1, Invariant, PTL

\* The integration branch takes lanes in merge_order (integrate, record_integrator_resolution).
THEOREM MergesAreOrdered == Spec => []LanesMergeInOrder
<1>1. IInv => LanesMergeInOrder
  BY InOrderIsMergeOrder DEF IInv, BranchInv
<1> QED BY <1>1, Invariant, PTL

\* integrate merges a lane at its tip or not at all, and a merged lane stays merged as it
\* is (integrate).
THEOREM MergesAreFinal == Spec => MovedLanesAreNotMerged
<1> DEFINE Moved ==
        \A l \in Lanes :
            /\ merged[l] = 0 /\ merged'[l] # 0 /\ integ' # integ => merged'[l] = tip[l]
            /\ merged[l] # 0 => merged'[l] = merged[l]
<1>1. ASSUME IInv, [Next]_vars PROVE Moved
  <2>0. merged \in [Lanes -> 0..MaxTip]
    BY <1>1 DEF IInv, TypeOK
  <2>1. CASE UNCHANGED merged
    BY <2>1
  <2>2. ASSUME NEW l \in Lanes, IntegrateMerge(l) PROVE Moved
    BY <2>0, <2>2 DEF IntegrateMerge, NextLane, Unmergeable
  <2>3. ASSUME NEW l \in Lanes, RecordResolution(l) PROVE Moved
    BY <2>0, <2>3 DEF RecordResolution, world
  <2>4. ASSUME NEW l \in Lanes, LaneStep(l), ~IntegrateMerge(l), ~RecordResolution(l)
        PROVE  UNCHANGED merged
    BY <2>4 DEF LaneStep, StartLane, LaneReview, LaneBlock, LaneResume, LaneFixUp, LaneReviewed,
                LaneAccept, PreemptLane, ResumePreempted, SetLane, IntegrateRefuse,
                IntegrateConflict, WorkerCommit, WindowEnds, engine
  <2>5. ASSUME ~ \E l \in Lanes : LaneStep(l) PROVE UNCHANGED merged
    BY <1>1, <2>5 DEF Next, vars, engine, Start, Resume, AwaitAcceptance, Accept, IntegrateBegin,
                      IntegrateEnd, RecordGlue, RunG3, Verdict, GateRaises, ResolveConflict,
                      AbortMerge, IntegratorCommit
  <2> QED BY <2>1, <2>2, <2>3, <2>4, <2>5
<1>2. IInv /\ [Next]_vars => [Moved]_vars
  BY <1>1
<1> QED BY <1>2, Invariant, PTL DEF Spec, MovedLanesAreNotMerged
=============================================================================
