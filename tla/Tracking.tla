------------------------------ MODULE Tracking ------------------------------
(***************************************************************************)
(* The life of a track and the scheduling of beams (Tracking/src).         *)
(*                                                                         *)
(* The algorithm task runs once per frame of radar data.  A frame is one   *)
(* pass through alg_process: the points that belong to no track start new  *)
(* trackers, trackers are merged and managed, candidates for a confirming  *)
(* beam are selected, the tracks are divided into those followed while     *)
(* scanning (TWS) and those that get beams of their own (TAS), and the     *)
(* next beam is scheduled.  The beam passes through two more buffers, so   *)
(* that its data is processed two frames later, when trackers may have     *)
(* been freed, moved or given to another target.                           *)
(*                                                                         *)
(* Trackers are numbered; a list is the set of numbers on it.  Whatever    *)
(* depends on measured values (ranges, scores, lifetimes, threat) is any   *)
(* choice.  Left out: velUnambigiousMethod WHOLE_SCAN, which alone uses    *)
(* initTrackList; targets chosen by hand (manualTasTraj, which nothing     *)
(* sets); the direction of search beams; g_byDummyTest.                    *)
(***************************************************************************)
EXTENDS Naturals, Sequences, FiniteSets, Functions

CONSTANTS Uids,       \* the numbers of the trackers: MAX_NUM_TRAJS, 128
          Zero,       \* tracker 0
          NoUid,      \* INVALID_TARGET_ID
          TasMax,     \* TAS_ID_MAX_SIZE = TAS_REAL_TARGET_MAX_NUM, 3
          ConfMax,    \* length of confirmBeamId, 3
          TasBeams,   \* TAS_CYCLE_TOTAL_BEAM_NUM, 4
          CycleLen,   \* TAS_CYCLE_BEAM_NUM, 24
          MaxMeas     \* points that start trackers in one frame (bound)

ASSUME TrackingAssumption ==
  /\ IsFiniteSet(Uids) /\ Zero \in Uids /\ NoUid \notin Uids
  /\ TasMax \in Nat /\ ConfMax \in Nat
  /\ TasBeams \in Nat \ {0, 1} /\ MaxMeas \in Nat
  /\ CycleLen \in Nat /\ CycleLen >= ConfMax + TasMax * TasBeams + 2

VARIABLES
  mode,          \* workMode: 0 scans only, 1 follows targets as well
  scan,          \* g_scanType
  stage,         \* progress of the frame
  freeList, twsList, tasList,
  state,         \* objManagement.state of each tracker
  meas,          \* points of this frame that have started trackers
  left,          \* trackers still to be started for the current point
  group,         \* trackers started for it so far, siblings
  confirmBeamId, \* candidates for a confirming beam
  initPending,   \* dispatchInitTrackInfo: those whose beam is to come
  tasPending,    \* dispatchTasTrackInfo: targets whose beams are not over
  tasBeam,       \* tasScanBeamInCycleCnt
  cnt,           \* gTasScanBeamCnt % CycleLen
  next,          \* dispatchOutputNext
  output,        \* dispatchOutput: the beam whose data is processed
  restarted,     \* of Awaited, those freed and started anew (history)
  evicted,       \* of Awaited, those given up for another point (history)
  paused,        \* the mode was 0 in between (history)
  away           \* beams scheduled since the last search beam (history)

lists == <<freeList, twsList, tasList>>
frameVars == <<mode, scan>>
allocVars == <<meas, left, group>>
cycleVars == <<initPending, tasPending, tasBeam, cnt, next, output, paused, away>>
historyVars == <<restarted, evicted>>
vars == <<frameVars, stage, lists, state, allocVars, confirmBeamId, cycleVars, historyVars>>

\* TRACK_STATE_*; a tracker that was never used counts as FREE.
States == {"FREE", "DETECTION", "NEW_ACTIVE", "ACTIVE"}
Beam(type, u, cur, total) == [scan |-> type, uid |-> u, cur |-> cur, total |-> total]
SearchBeam == Beam("TWS", NoUid, 0, 0)
Beams == [scan : {"TWS", "TAS"}, uid : Uids \union {NoUid},
          cur : 0 .. TasBeams, total : {0, 1, TasBeams}]

\* The orders in which at most n members of S can stand.
Orders(S, n) == UNION {{s \in [1 .. k -> S] : IsInjective(s)} : k \in 0 .. n}

Init ==
  /\ mode = 0 /\ scan = "TWS" /\ stage = "frame"
  /\ freeList = Uids /\ twsList = {} /\ tasList = {}
  /\ state = [u \in Uids |-> "FREE"]
  /\ meas = 0 /\ left = 0 /\ group = <<>>
  /\ confirmBeamId = <<>>
  /\ initPending = <<>> /\ tasPending = <<>> /\ tasBeam = 0 /\ cnt = 0
  /\ next = SearchBeam /\ output = SearchBeam
  /\ restarted = {} /\ evicted = {} /\ paused = FALSE /\ away = 0

Listed == twsList \union tasList

-----------------------------------------------------------------------------
(***************************************************************************)
(* A frame begins                                                          *)
(***************************************************************************)
\* The parameters are copied, and with them the mode of the client.  Mode 0
\* returns the targets to the scan; whether it does so here is up to the
\* address of a counter, which is compared in place of its value.
BeginFrame ==
  /\ stage = "frame"
  /\ mode' \in {0, 1}
  /\ scan' = IF mode' = 0 THEN "TWS" ELSE output.scan
  /\ \/ UNCHANGED lists
     \/ /\ mode' = 0 /\ tasList # {}
        /\ twsList' = Listed /\ tasList' = {} /\ UNCHANGED freeList
  /\ stage' = "allocate"
  /\ UNCHANGED <<state, allocVars, confirmBeamId, cycleVars, historyVars>>

-----------------------------------------------------------------------------
(***************************************************************************)
(* New trackers                                                            *)
(***************************************************************************)
\* Mutant: points that do not belong to the target of a TAS beam start trackers.
TakesAnyPoint == TRUE

\* Only a scan starts trackers: tasAssociate discards every other point.
TakesPoints == scan = "TWS"

\* A point starts one tracker, or three of which only one has its velocity right.
NextPoint ==
  /\ stage = "allocate" /\ left = 0
  /\ TakesPoints /\ meas < MaxMeas
  /\ left' \in {1, 3}
  /\ meas' = meas + 1 /\ group' = <<>>
  /\ UNCHANGED <<frameVars, stage, lists, state, confirmBeamId, cycleVars, historyVars>>

\* Mutant: a tracker at the same range gives way, too.
FartherOrEqual(a, b) == a >= b

Farther(a, b) == a > b

\* Mutant: the trackers of targets are candidates as well.
AnyListed == {u \in Listed : state[u] # "ACTIVE"}

\* Trackers that may be given up for a closer point.
Candidates == {u \in twsList : state[u] # "ACTIVE"}

\* No tracker is free: the farthest candidate beyond the point at range r is taken.
Evicts(u) ==
  /\ freeList = {} /\ u \in Candidates
  /\ \E range \in [Candidates -> 1 .. 2], r \in 1 .. 2 :
       /\ \A s \in Candidates \cap Range(group) : range[s] = r
       /\ \A c \in Candidates : range[u] >= range[c]
       /\ Farther(range[u], r)

\* The trackers whose beams are to come, or the data of them.
Awaited == (Range(initPending) \union Range(tasPending) \union {next.uid, output.uid}) \ {NoUid}

\* tracking_allocate_unitTracker.
AllocateUnit(u) ==
  /\ stage = "allocate" /\ left > 0
  /\ u \in freeList \/ Evicts(u)
  /\ freeList' = freeList \ {u} /\ twsList' = twsList \union {u} /\ UNCHANGED tasList
  /\ state' = [state EXCEPT ![u] = "DETECTION"]
  /\ group' = Append(group, u) /\ left' = left - 1
  /\ restarted' = restarted \union (Awaited \cap {u} \cap freeList)
  /\ evicted' = evicted \union ((Awaited \cap {u}) \ freeList)
  /\ UNCHANGED <<frameVars, stage, meas, confirmBeamId, cycleVars>>

\* No tracker is free and none is far enough.
AllocateNone ==
  /\ stage = "allocate" /\ left > 0 /\ freeList = {}
  /\ left' = left - 1
  /\ UNCHANGED <<frameVars, stage, lists, state, meas, group, confirmBeamId, cycleVars, historyVars>>

EndAllocate ==
  /\ stage = "allocate" /\ left = 0
  /\ stage' = "manage" /\ meas' = 0 /\ group' = <<>>
  /\ UNCHANGED <<frameVars, lists, state, left, confirmBeamId, cycleVars, historyVars>>

-----------------------------------------------------------------------------
(***************************************************************************)
(* Merging and managing                                                    *)
(***************************************************************************)
\* The target the measurements are attributed to: tracker 0 when the target of the beam
\* has gone, because loadDetectionData clears the structure and finds no track.
MeasTarget == IF output.uid \in Listed THEN output.uid ELSE Zero

\* A TAS scan compares each target with the other tracks.
Merges(u) == tasList \ {u} # {} \/ (u \in tasList /\ Listed # {u})

\* Mutant: any tracker may be deleted in any scan.
DeletableAlways == Listed

\* isTrackerCanDelete, of the trackers that merging and managing come to.
Deletable ==
  IF scan = "TWS" THEN Listed
  ELSE {u \in Listed : u = MeasTarget /\ (u = output.uid \/ Merges(u))}

\* Trackers whose state is managed.
Managed == IF scan = "TWS" THEN Listed ELSE Listed \cap {output.uid}

\* tracking_moduleMerge and tracking_moduleManager, which ends by returning
\* the trackers in state FREE to the free list.
Manage ==
  /\ stage = "manage"
  /\ \E gone \in SUBSET Deletable,
        found \in SUBSET {u \in Managed : state[u] = "DETECTION"} :
       /\ state' = [u \in Uids |->
            IF u \in gone THEN "FREE"
            ELSE IF u \in found THEN "NEW_ACTIVE"
            ELSE IF u \in Managed /\ state[u] = "NEW_ACTIVE" THEN "ACTIVE" ELSE state[u]]
       /\ freeList' = freeList \union gone
       /\ twsList' = twsList \ gone /\ tasList' = tasList \ gone
  /\ stage' = "select"
  /\ UNCHANGED <<frameVars, allocVars, confirmBeamId, cycleVars, historyVars>>

-----------------------------------------------------------------------------
(***************************************************************************)
(* Candidates and targets                                                  *)
(***************************************************************************)
Unconfirmed == {u \in twsList : state[u] = "DETECTION"}

\* Mutant: the list of the last frame stays when there is no candidate.
SelectKeepsOld ==
  IF Unconfirmed = {} THEN {confirmBeamId} ELSE Orders(Unconfirmed, ConfMax)

\* tracking_confirmList: cleared, then the best of those that qualify.
Selections == Orders(Unconfirmed, ConfMax)

ConfirmSelect ==
  /\ stage = "select"
  /\ IF scan = "TWS" THEN confirmBeamId' \in Selections ELSE UNCHANGED confirmBeamId
  /\ stage' = "list"
  /\ UNCHANGED <<frameVars, lists, state, allocVars, cycleVars, historyVars>>

Stable == {u \in Listed : state[u] \in {"NEW_ACTIVE", "ACTIVE"}}
TasTargetNum == IF Cardinality(Stable) < TasMax THEN Cardinality(Stable) ELSE TasMax

\* The tracks that pose the greatest threat.  An unstable track poses none, but
\* so does a stable one whose direction is no number; hence any choice.
Targets == {t \in SUBSET Listed : Cardinality(t) = TasTargetNum}

\* tastwsListConstruct; while the data of a TAS beam is processed nothing moves.
ListConstruct ==
  /\ stage = "list"
  /\ IF mode = 1 /\ output.cur # 0
     THEN UNCHANGED <<twsList, tasList>>
     ELSE /\ tasList' \in IF mode = 1 THEN Targets ELSE {{}}
          /\ twsList' = Listed \ tasList'
  /\ stage' = "dispatch"
  /\ UNCHANGED <<frameVars, freeList, state, allocVars, confirmBeamId, cycleVars, historyVars>>

-----------------------------------------------------------------------------
(***************************************************************************)
(* The next beam                                                           *)
(***************************************************************************)
\* A beam enters the pipeline and the frame ends.
Schedule(beam) ==
  /\ output' = next /\ next' = beam
  /\ away' = IF beam = SearchBeam THEN 0 ELSE away + 1
  /\ stage' = "frame"
  /\ UNCHANGED <<frameVars, lists, state, allocVars, confirmBeamId>>

\* Mutant: the beams of a pure scan count as beams of the cycle.
DispatchTwsCounts ==
  /\ stage = "dispatch" /\ mode = 0
  /\ Schedule(SearchBeam)
  /\ cnt' = (cnt + 1) % CycleLen
  /\ paused' = TRUE /\ restarted' = {} /\ evicted' = {}
  /\ UNCHANGED <<initPending, tasPending, tasBeam>>

\* DispatchTwsScan.  From here to the next cycle the history of trackers does not count.
DispatchTws ==
  /\ stage = "dispatch" /\ mode = 0
  /\ Schedule(SearchBeam)
  /\ paused' = TRUE /\ restarted' = {} /\ evicted' = {}
  /\ UNCHANGED <<initPending, tasPending, tasBeam, cnt>>

\* InitTrackBeamProcAndOut: one beam for each candidate.
InitTrackBeam(init, tas, beam) ==
  /\ init # <<>>
  /\ Schedule(Beam("TAS", Head(init), 1, 1))
  /\ initPending' = Tail(init) /\ tasPending' = tas /\ tasBeam' = beam

\* Mutant: the last target is begun again.
TasTargetRepeats(tas) == IF Len(tas) = 1 THEN tas ELSE Tail(tas)

\* All beams of a target have been scheduled.
TasTargetOver(tas) == Tail(tas)

\* TasTrackBeamProcAndOut: several beams for each target.
TasTrackBeam(init, tas, beam) ==
  /\ init = <<>> /\ tas # <<>>
  /\ Schedule(Beam("TAS", Head(tas), beam + 1, TasBeams))
  /\ initPending' = init
  /\ IF beam + 1 = TasBeams
     THEN tasPending' = TasTargetOver(tas) /\ tasBeam' = 0
     ELSE tasPending' = tas /\ tasBeam' = beam + 1

\* TasScanNormalSearchBeamProcAndOut.
TasSearchBeam(init, tas, beam) ==
  /\ init = <<>> /\ tas = <<>>
  /\ Schedule(SearchBeam)
  /\ initPending' = init /\ tasPending' = tas /\ tasBeam' = beam

NextBeam(init, tas, beam) ==
  \/ InitTrackBeam(init, tas, beam)
  \/ TasTrackBeam(init, tas, beam)
  \/ TasSearchBeam(init, tas, beam)

\* A cycle begins: the candidates and the targets of this moment.
TasCycle ==
  /\ stage = "dispatch" /\ mode = 1 /\ cnt = 0
  /\ \E tas \in {s \in Orders(tasList, TasMax) : Range(s) = tasList} :
       NextBeam(confirmBeamId, tas, 0)
  /\ cnt' = 1
  /\ restarted' = {} /\ evicted' = {} /\ paused' = FALSE

\* DispatchTasScan within a cycle.
TasBeamOfCycle ==
  /\ stage = "dispatch" /\ mode = 1 /\ cnt # 0
  /\ NextBeam(initPending, tasPending, tasBeam)
  /\ cnt' = (cnt + 1) % CycleLen
  /\ UNCHANGED <<historyVars, paused>>

Next ==
  \/ BeginFrame
  \/ NextPoint \/ (\E u \in Uids : AllocateUnit(u)) \/ AllocateNone \/ EndAllocate
  \/ Manage \/ ConfirmSelect \/ ListConstruct
  \/ DispatchTws \/ TasCycle \/ TasBeamOfCycle

TrackingSpec == Init /\ [][Next]_vars

-----------------------------------------------------------------------------
(***************************************************************************)
(* Properties                                                              *)
(***************************************************************************)
\* Every tracker is on exactly one list, on the free one if and only if it is
\* in no use (the list functions of tracking_listlib.c and their callers).
Partition ==
  /\ freeList \union twsList \union tasList = Uids
  /\ freeList \cap twsList = {} /\ freeList \cap tasList = {} /\ twsList \cap tasList = {}
  /\ \A u \in Uids : u \in freeList <=> state[u] = "FREE"

\* Type correctness, with the lists a partition of the trackers.
TrackTypeOK ==
  /\ mode \in {0, 1} /\ scan \in {"TWS", "TAS"}
  /\ stage \in {"frame", "allocate", "manage", "select", "list", "dispatch"}
  /\ state \in [Uids -> States] /\ Partition
  /\ Cardinality(tasList) <= TasMax
  /\ meas \in 0 .. MaxMeas /\ left \in 0 .. 3 /\ group \in Seq(Uids)
  /\ confirmBeamId \in Seq(Uids) /\ Len(confirmBeamId) <= ConfMax
  /\ initPending \in Seq(Uids) /\ tasPending \in Seq(Uids)
  /\ tasBeam \in 0 .. TasBeams - 1 /\ cnt \in 0 .. CycleLen - 1
  /\ next \in Beams /\ output \in Beams
  /\ restarted \subseteq Uids /\ evicted \subseteq Uids /\ paused \in BOOLEAN /\ away \in Nat

\* The three trackers started for one ambiguous point are three: none of them is
\* given up for its own sibling (tracking_moduleAllocate links them by number).
SiblingsDistinct ==
  /\ IsInjective(group)
  /\ \A u \in Range(group) : u \in twsList /\ state[u] = "DETECTION"

\* When a cycle begins, each candidate is a track that still waits for confirmation,
\* although a frame that processes a TAS beam selects none (GetInitTrackCurrentCycle).
SnapshotFresh ==
  stage = "dispatch" /\ mode = 1 /\ cnt = 0 =>
    \A u \in Range(confirmBeamId) : u \in Listed /\ state[u] = "DETECTION"

\* The data of a TAS beam, which arrives two frames after its scheduling and many
\* after the snapshot, is never attributed to another target that has been given the
\* number of the tracker since (tasObjId), unless the mode was 0 in between.  One case is
\* excepted: the candidate of a confirming beam may be given up for a closer point, in the
\* one scan between the snapshot and its beam (tracking_allocate_unitTracker).
TasDwellFresh ==
  stage # "frame" /\ scan = "TAS" /\ ~paused =>
    /\ output.uid \notin restarted
    /\ output.uid \in evicted => output.total = 1

\* A cycle is long enough for all its candidates and targets (TAS_CYCLE_BEAM_NUM):
\* nothing of it is left, in the queues or in the pipeline, when the next one begins.
CycleFinishes ==
  stage = "dispatch" /\ mode = 1 /\ cnt = 0 =>
    /\ initPending = <<>> /\ tasPending = <<>>
    /\ output = SearchBeam /\ next = SearchBeam

\* The search is never put off for more beams than one full cycle of targets needs.
SearchGoesOn == away <= ConfMax + TasMax * TasBeams

\* While the data of a TAS beam is processed no track is deleted but the one it is
\* about, or tracker 0 when that one has gone (isTrackerCanDelete).
TasScanSpares ==
  [][scan = "TAS" =>
       \A u \in freeList' \ freeList :
         u = output.uid \/ (u = Zero /\ output.uid \in freeList)]_vars
=============================================================================
