--------------------------- MODULE TrackingProofs ---------------------------
(***************************************************************************)
(* Proofs about tracking and the scheduling of beams, for any number of    *)
(* trackers, candidates, targets and beams.                                *)
(***************************************************************************)
EXTENDS Tracking, FiniteSetTheorems, SequenceTheorems, TLAPS

USE TrackingAssumption

-----------------------------------------------------------------------------
(***************************************************************************)
(* The inductive invariant                                                 *)
(***************************************************************************)
\* The siblings, which exist while trackers are started only.
GroupInv == SiblingsDistinct /\ (stage # "allocate" => group = <<>>)

\* Trackers are started in a scan only.
LeftInv == left > 0 => stage = "allocate" /\ scan = "TWS"

\* A search beam has no target, a TAS beam has one.
BeamInv ==
  \A b \in {next, output} : IF b.scan = "TAS" THEN b.uid \in Uids /\ b.total \in {1, TasBeams}
                                            ELSE b = SearchBeam

\* The scan of a frame is that of its beam, unless the mode is 0.
ScanInv == stage # "frame" => scan = IF mode = 0 THEN "TWS" ELSE output.scan

\* The candidates selected in this frame.
SelectInv ==
  stage \in {"list", "dispatch"} /\ scan = "TWS" =>
    \A u \in Range(confirmBeamId) : u \in Listed /\ state[u] = "DETECTION"

\* Beams that candidates and targets still need.
Needed(init, tas, beam) == Len(init) + TasBeams * Len(tas) - beam
NeededNow == Needed(initPending, tasPending, tasBeam)
MaxNeeded == ConfMax + TasMax * TasBeams

\* What is left of a cycle is enough for its beams to pass through the pipeline.
CycleInv ==
  /\ tasPending = <<>> => tasBeam = 0
  /\ initPending # <<>> \/ tasPending # <<>> => cnt # 0 /\ NeededNow + 2 <= CycleLen - cnt
  /\ next # SearchBeam => cnt # 0 /\ 2 <= CycleLen - cnt
  /\ output # SearchBeam => cnt # 0

\* Beams scheduled away from the search, and those to come.
AwayInv ==
  /\ next = SearchBeam <=> away = 0
  /\ away + NeededNow <= MaxNeeded

\* The targets of beams to come, and the trackers of all of them.
TargetOf(b) == IF b.total = TasBeams THEN {b.uid} ELSE {}
TrackerOf(b) == IF b.scan = "TAS" THEN {b.uid} ELSE {}
Targeted == Range(tasPending) \union TargetOf(next) \union TargetOf(output)
Beamed == Range(initPending) \union Range(tasPending) \union TrackerOf(next) \union TrackerOf(output)

\* No tracker of a beam has been freed and started anew, and no target given up.  A scan
\* that could do so is a search beam's: either the one before the first TAS beam, when the
\* trackers are still listed and the targets on the TAS list, or one after the last.
DwellInv ==
  \/ paused
  \/ mode = 0 /\ stage # "frame"
  \/ /\ next = SearchBeam => initPending = <<>> /\ tasPending = <<>>
     /\ output = SearchBeam /\ next # SearchBeam /\ stage \in {"frame", "allocate"} =>
          Targeted \subseteq tasList /\ Beamed \subseteq Listed
     /\ Beamed \cap restarted = {} /\ Targeted \cap evicted = {}

TrackInv ==
  /\ TrackTypeOK /\ GroupInv /\ LeftInv /\ BeamInv /\ ScanInv /\ SelectInv
  /\ CycleInv /\ AwayInv /\ DwellInv

-----------------------------------------------------------------------------
(***************************************************************************)
(* Sequences                                                               *)
(***************************************************************************)
\* What an order of members of a set is.
LEMMA OrdersSeq ==
  ASSUME NEW S, NEW n \in Nat, NEW s \in Orders(S, n)
  PROVE  s \in Seq(S) /\ Len(s) <= n /\ Range(s) \subseteq S
<1>1. PICK k \in 0 .. n : s \in [1 .. k -> S]
  BY DEF Orders
<1>2. s \in Seq(S)
  BY <1>1
<1>3. Len(s) = k
  BY <1>1, <1>2
<1> QED BY <1>1, <1>2, <1>3 DEF Range

\* The members of a sequence before and after its head is taken off.
LEMMA TailRange ==
  ASSUME NEW s \in Seq(Uids), s # <<>>
  PROVE  /\ Head(s) \in Uids /\ Tail(s) \in Seq(Uids) /\ Len(Tail(s)) = Len(s) - 1
         /\ Head(s) \in Range(s) /\ Range(Tail(s)) \subseteq Range(s)
<1>1. Head(s) \in Uids /\ Tail(s) \in Seq(Uids) /\ Len(s) \in Nat /\ Len(s) > 0
  OBVIOUS
<1>2. Len(Tail(s)) = Len(s) - 1
  OBVIOUS
<1>3. DOMAIN s = 1 .. Len(s) /\ DOMAIN Tail(s) = 1 .. Len(s) - 1
  BY <1>1, <1>2
<1>4. Head(s) \in Range(s)
  BY <1>1, <1>3 DEF Range
<1>5. \A i \in 1 .. Len(s) - 1 : Tail(s)[i] = s[i + 1]
  BY <1>1
<1>6. Range(Tail(s)) \subseteq Range(s)
  BY <1>1, <1>3, <1>5 DEF Range
<1> QED BY <1>1, <1>2, <1>4, <1>6

\* Appending a new member keeps a sequence injective.
LEMMA AppendNew ==
  ASSUME NEW s \in Seq(Uids), NEW u \in Uids, IsInjective(s), u \notin Range(s),
         NEW t, t = Append(s, u)
  PROVE  t \in Seq(Uids) /\ IsInjective(t) /\ Range(t) \subseteq Range(s) \union {u}
<1>1. t \in Seq(Uids) /\ Len(t) = Len(s) + 1 /\ Len(s) \in Nat
  OBVIOUS
<1>2. DOMAIN t = 1 .. Len(s) + 1 /\ DOMAIN s = 1 .. Len(s)
  BY <1>1
<1>3. t[Len(s) + 1] = u /\ \A i \in 1 .. Len(s) : t[i] = s[i]
  OBVIOUS
<1>4. \A i \in 1 .. Len(s) : s[i] \in Range(s)
  BY <1>2 DEF Range
<1>5. IsInjective(t)
  <2> SUFFICES ASSUME NEW i \in 1 .. Len(s) + 1, NEW j \in 1 .. Len(s) + 1, t[i] = t[j]
               PROVE  i = j
    BY <1>2 DEF IsInjective
  <2>1. CASE i \in 1 .. Len(s) /\ j \in 1 .. Len(s)
    BY <1>2, <1>3, <2>1 DEF IsInjective
  <2>2. CASE i = Len(s) + 1 /\ j \in 1 .. Len(s)
    BY <1>3, <1>4, <2>2
  <2>3. CASE j = Len(s) + 1 /\ i \in 1 .. Len(s)
    BY <1>3, <1>4, <2>3
  <2> QED BY <1>1, <2>1, <2>2, <2>3
<1>6. Range(t) \subseteq Range(s) \union {u}
  <2> SUFFICES ASSUME NEW i \in 1 .. Len(s) + 1
               PROVE  t[i] \in Range(s) \union {u}
    BY <1>2 DEF Range
  <2> QED BY <1>1, <1>3, <1>4
<1> QED BY <1>1, <1>5, <1>6

\* A subset of the TAS list is as short as that is.
LEMMA FewerTas ==
  ASSUME NEW S \in SUBSET Uids, NEW R \in SUBSET S, Cardinality(S) <= TasMax
  PROVE  Cardinality(R) <= TasMax
<1>1. IsFiniteSet(S)
  BY FS_Subset
<1>2. Cardinality(R) <= Cardinality(S) /\ IsFiniteSet(R)
  BY <1>1, FS_Subset
<1> QED BY <1>1, <1>2, FS_CardinalityType

\* At most TasMax tracks become targets.
LEMMA TargetsFew ==
  ASSUME NEW t \in Targets, Listed \subseteq Uids
  PROVE  t \subseteq Listed /\ Cardinality(t) <= TasMax
<1>1. IsFiniteSet(Stable) /\ Cardinality(Stable) \in Nat
  <2>1. Stable \subseteq Uids
    BY DEF Stable
  <2> QED BY <2>1, FS_Subset, FS_CardinalityType
<1> QED BY <1>1 DEF Targets, TasTargetNum

-----------------------------------------------------------------------------
(***************************************************************************)
(* Beams                                                                   *)
(***************************************************************************)
LEMMA BeamType ==
  ASSUME NEW u \in Uids, NEW c \in 0 .. TasBeams, NEW n \in {0, 1, TasBeams}
  PROVE  /\ Beam("TAS", u, c, n) \in Beams /\ Beam("TAS", u, c, n).scan = "TAS"
         /\ Beam("TAS", u, c, n).uid = u /\ Beam("TAS", u, c, n).total = n
         /\ Beam("TAS", u, c, n) # SearchBeam
         /\ SearchBeam \in Beams /\ SearchBeam.scan = "TWS" /\ SearchBeam.total = 0
  BY DEF Beam, Beams, SearchBeam

LEMMA SearchBeamType ==
  SearchBeam \in Beams /\ SearchBeam.scan = "TWS" /\ SearchBeam.total = 0
  BY DEF Beam, Beams, SearchBeam

\* A product grows with its second factor.
LEMMA Multiples ==
  ASSUME NEW a \in Nat, NEW b \in Nat, NEW c \in Nat, a <= b
  PROVE  c * a \in Nat /\ c * a <= c * b /\ c * b \in Nat
<1>1. PICK d \in Nat : b = a + d
  <2> WITNESS b - a \in Nat
  <2> QED OBVIOUS
<1>2. c * b = c * a + c * d
  BY <1>1
<1>3. c * a \in Nat /\ c * d \in Nat
  OBVIOUS
<1> QED BY <1>2, <1>3

\* What is scheduled next: a beam that is needed, or a search beam when none is.
LEMMA NextBeamStep ==
  ASSUME NEW init \in Seq(Uids), NEW tas \in Seq(Uids), NEW beam \in 0 .. TasBeams - 1,
         tas = <<>> => beam = 0, NextBeam(init, tas, beam)
  PROVE  /\ initPending' \in Seq(Uids) /\ tasPending' \in Seq(Uids)
         /\ tasBeam' \in 0 .. TasBeams - 1 /\ (tasPending' = <<>> => tasBeam' = 0)
         /\ next' \in Beams /\ output' = next
         /\ Needed(init, tas, beam) \in Nat
         /\ Range(tasPending') \subseteq Range(tas) /\ Range(initPending') \subseteq Range(init)
         /\ \/ /\ init = <<>> /\ tas = <<>> /\ next' = SearchBeam /\ away' = 0
               /\ initPending' = <<>> /\ tasPending' = <<>>
               /\ Needed(init, tas, beam) = 0 /\ NeededNow' = 0
            \/ /\ init # <<>> \/ tas # <<>>
               /\ next' # SearchBeam /\ next'.scan = "TAS" /\ next'.uid \in Uids
               /\ next'.total \in {1, TasBeams}
               /\ TargetOf(next') \subseteq Range(tas)
               /\ TrackerOf(next') \subseteq Range(init) \union Range(tas)
               /\ Needed(init, tas, beam) >= 1 /\ away' = away + 1
               /\ NeededNow' = Needed(init, tas, beam) - 1
<1>0. TasBeams \in Nat /\ TasBeams >= 2 /\ Len(init) \in Nat /\ Len(tas) \in Nat
  OBVIOUS
<1>1. tas # <<>> => TasBeams * Len(tas) >= TasBeams
  <2> SUFFICES ASSUME tas # <<>> PROVE TasBeams * Len(tas) >= TasBeams * 1
    BY <1>0
  <2>1. 1 <= Len(tas)
    BY <1>0
  <2> QED BY <1>0, <2>1, Multiples
<1>2. Needed(init, tas, beam) \in Nat
  <2>1. CASE tas = <<>>
    <3>1. Len(tas) = 0 /\ beam = 0
      BY <2>1
    <3> QED BY <1>0, <3>1 DEF Needed
  <2>2. CASE tas # <<>>
    <3>1. TasBeams * Len(tas) \in Nat
      BY <1>0
    <3> QED BY <1>0, <1>1, <2>2, <3>1 DEF Needed
  <2> QED BY <2>1, <2>2
<1>3. CASE InitTrackBeam(init, tas, beam)
  <2>1. init # <<>> /\ initPending' = Tail(init) /\ tasPending' = tas /\ tasBeam' = beam
        /\ next' = Beam("TAS", Head(init), 1, 1) /\ output' = next
        /\ away' = IF next' = SearchBeam THEN 0 ELSE away + 1
    BY <1>3 DEF InitTrackBeam, Schedule
  <2>2. Head(init) \in Uids /\ Tail(init) \in Seq(Uids) /\ Len(Tail(init)) = Len(init) - 1
        /\ Head(init) \in Range(init) /\ Range(Tail(init)) \subseteq Range(init)
    BY <2>1, TailRange
  <2>3. /\ next' \in Beams /\ next'.scan = "TAS" /\ next'.uid = Head(init)
        /\ next'.total = 1 /\ next' # SearchBeam
    BY <1>0, <2>1, <2>2, BeamType
  <2>4. TargetOf(next') = {} /\ TrackerOf(next') \subseteq Range(init)
    BY <1>0, <2>2, <2>3 DEF TargetOf, TrackerOf
  <2>5. NeededNow' = Needed(init, tas, beam) - 1 /\ Needed(init, tas, beam) >= 1
    <3>1. NeededNow' = Len(Tail(init)) + TasBeams * Len(tas) - beam
      BY <2>1 DEF NeededNow, Needed
    <3>2. TasBeams * Len(tas) \in Nat /\ TasBeams * Len(tas) >= beam
      <4>1. CASE tas = <<>>
        <5>1. Len(tas) = 0 /\ beam = 0
          BY <4>1
        <5> QED BY <1>0, <5>1
      <4>2. CASE tas # <<>>
        BY <1>0, <1>1, <4>2
      <4> QED BY <4>1, <4>2
    <3> QED BY <1>0, <2>1, <2>2, <3>1, <3>2 DEF Needed
  <2> QED BY <1>2, <2>1, <2>2, <2>3, <2>4, <2>5
<1>4. CASE TasTrackBeam(init, tas, beam)
  <2>1. init = <<>> /\ tas # <<>> /\ initPending' = init
        /\ next' = Beam("TAS", Head(tas), beam + 1, TasBeams) /\ output' = next
        /\ away' = IF next' = SearchBeam THEN 0 ELSE away + 1
    BY <1>4 DEF TasTrackBeam, Schedule
  <2>2. Head(tas) \in Uids /\ Tail(tas) \in Seq(Uids) /\ Len(Tail(tas)) = Len(tas) - 1
        /\ Head(tas) \in Range(tas) /\ Range(Tail(tas)) \subseteq Range(tas)
    BY <2>1, TailRange
  <2>3. /\ next' \in Beams /\ next'.scan = "TAS" /\ next'.uid = Head(tas)
        /\ next'.total = TasBeams /\ next' # SearchBeam
    BY <1>0, <2>1, <2>2, BeamType
  <2>4. TargetOf(next') \subseteq Range(tas) /\ TrackerOf(next') \subseteq Range(tas)
    BY <2>2, <2>3 DEF TargetOf, TrackerOf
  <2>5. Len(init) = 0
    BY <2>1
  <2>6. CASE beam + 1 = TasBeams
    <3>1. tasPending' = Tail(tas) /\ tasBeam' = 0
      BY <1>4, <2>6 DEF TasTrackBeam, TasTargetOver
    <3>2. TasBeams * Len(Tail(tas)) = TasBeams * Len(tas) - TasBeams
      BY <1>0, <2>2
    <3>3. NeededNow' = TasBeams * Len(Tail(tas)) /\ Needed(init, tas, beam) = TasBeams * Len(tas) - beam
      <4>1. NeededNow' = Len(init) + TasBeams * Len(Tail(tas)) - 0
        BY <2>1, <3>1 DEF NeededNow, Needed
      <4>2. TasBeams * Len(Tail(tas)) \in Nat /\ TasBeams * Len(tas) \in Nat
        BY <1>0, <2>2
      <4> QED BY <1>0, <2>5, <4>1, <4>2 DEF Needed
    <3>4. NeededNow' = Needed(init, tas, beam) - 1 /\ Needed(init, tas, beam) >= 1
      <4>1. TasBeams * Len(tas) \in Nat
        BY <1>0
      <4> QED BY <1>0, <1>1, <2>1, <2>6, <3>2, <3>3, <4>1
    <3> QED BY <1>0, <1>2, <2>1, <2>2, <2>3, <2>4, <3>1, <3>4
  <2>7. CASE beam + 1 # TasBeams
    <3>1. tasPending' = tas /\ tasBeam' = beam + 1
      BY <1>4, <2>7 DEF TasTrackBeam
    <3>2. NeededNow' = Needed(init, tas, beam) - 1 /\ Needed(init, tas, beam) >= 1
      <4>1. TasBeams * Len(tas) \in Nat
        BY <1>0
      <4>2. NeededNow' = Len(init) + TasBeams * Len(tas) - (beam + 1)
        BY <2>1, <3>1 DEF NeededNow, Needed
      <4> QED BY <1>0, <1>1, <2>1, <2>5, <4>1, <4>2 DEF Needed
    <3> QED BY <1>0, <1>2, <2>1, <2>2, <2>3, <2>4, <2>7, <3>1, <3>2
  <2> QED BY <2>6, <2>7
<1>5. CASE TasSearchBeam(init, tas, beam)
  <2>1. init = <<>> /\ tas = <<>> /\ next' = SearchBeam /\ output' = next /\ away' = 0
        /\ initPending' = init /\ tasPending' = tas /\ tasBeam' = beam
    BY <1>5 DEF TasSearchBeam, Schedule
  <2>2. Needed(init, tas, beam) = 0 /\ NeededNow' = 0
    <3>1. Len(init) = 0 /\ Len(tas) = 0 /\ beam = 0 /\ TasBeams * 0 = 0
      BY <1>0, <2>1
    <3>2. Needed(init, tas, beam) = 0
      BY <1>0, <3>1 DEF Needed
    <3>3. NeededNow' = Needed(init, tas, beam)
      BY <2>1 DEF NeededNow, Needed
    <3> QED BY <3>2, <3>3
  <2> QED BY <1>2, <2>1, <2>2, SearchBeamType
<1> QED BY <1>3, <1>4, <1>5 DEF NextBeam

-----------------------------------------------------------------------------
(***************************************************************************)
(* Types                                                                   *)
(***************************************************************************)
ListType == state \in [Uids -> States] /\ Partition /\ Cardinality(tasList) <= TasMax
AllocType == meas \in 0 .. MaxMeas /\ left \in 0 .. 3 /\ group \in Seq(Uids)
SelectType == confirmBeamId \in Seq(Uids) /\ Len(confirmBeamId) <= ConfMax
CycleType ==
  /\ initPending \in Seq(Uids) /\ tasPending \in Seq(Uids)
  /\ tasBeam \in 0 .. TasBeams - 1 /\ cnt \in 0 .. CycleLen - 1
  /\ next \in Beams /\ output \in Beams /\ away \in Nat
FrameType ==
  /\ mode \in {0, 1} /\ scan \in {"TWS", "TAS"}
  /\ stage \in {"frame", "allocate", "manage", "select", "list", "dispatch"}
  /\ restarted \subseteq Uids /\ evicted \subseteq Uids /\ paused \in BOOLEAN

LEMMA TypeParts ==
  TrackTypeOK <=> ListType /\ AllocType /\ SelectType /\ CycleType /\ FrameType
  BY DEF TrackTypeOK, ListType, AllocType, SelectType, CycleType, FrameType

LEMMA InitTypeOK == Init => TrackTypeOK
<1> SUFFICES ASSUME Init PROVE TrackTypeOK
  OBVIOUS
<1>1. ListType
  <2>1. Cardinality({}) = 0
    BY FS_EmptySet
  <2>2. state \in [Uids -> States] /\ \A u \in Uids : u \in freeList <=> state[u] = "FREE"
    BY DEF Init, States
  <2> QED BY <2>1, <2>2 DEF Init, ListType, Partition
<1>2. AllocType /\ SelectType
  BY DEF Init, AllocType, SelectType
<1>3. CycleType
  <2>1. 0 \in 0 .. TasBeams - 1
    OBVIOUS
  <2>2. ConfMax + TasMax * TasBeams \in Nat
    OBVIOUS
  <2>3. 0 \in 0 .. CycleLen - 1
    BY <2>2
  <2> QED BY <2>1, <2>3, SearchBeamType DEF Init, CycleType
<1>4. FrameType
  BY DEF Init, FrameType
<1> QED BY <1>1, <1>2, <1>3, <1>4, TypeParts

\* A frame of the proofs about one step: which actions change the lists.
LEMMA OtherSteps ==
  ASSUME Next
  PROVE  \/ BeginFrame \/ (\E u \in Uids : AllocateUnit(u)) \/ Manage \/ ListConstruct
         \/ UNCHANGED <<lists, state>>
<1> USE DEF frameVars, lists, allocVars, cycleVars, historyVars
<1>1. NextPoint => UNCHANGED <<lists, state>>
  BY DEF NextPoint
<1>2. AllocateNone => UNCHANGED <<lists, state>>
  BY DEF AllocateNone
<1>3. EndAllocate => UNCHANGED <<lists, state>>
  BY DEF EndAllocate
<1>4. ConfirmSelect => UNCHANGED <<lists, state>>
  BY DEF ConfirmSelect
<1>5. DispatchTws => UNCHANGED <<lists, state>>
  BY DEF DispatchTws, Schedule
<1>6. ASSUME NEW i, NEW t, NEW b, NextBeam(i, t, b) PROVE UNCHANGED <<lists, state>>
  BY <1>6 DEF NextBeam, InitTrackBeam, TasTrackBeam, TasSearchBeam, Schedule
<1>7. TasCycle => UNCHANGED <<lists, state>>
  BY <1>6 DEF TasCycle
<1>8. TasBeamOfCycle => UNCHANGED <<lists, state>>
  BY <1>6 DEF TasBeamOfCycle
<1> QED BY <1>1, <1>2, <1>3, <1>4, <1>5, <1>7, <1>8 DEF Next

\* The lists stay a partition, with few enough targets.
LEMMA ListStep ==
  ASSUME TrackTypeOK, Next
  PROVE  ListType'
<1>0. ListType
  BY TypeParts
<1> USE DEF lists
<1>1. CASE BeginFrame
  <2>1. CASE UNCHANGED lists
    BY <1>0, <1>1, <2>1 DEF BeginFrame, ListType, Partition
  <2>2. CASE twsList' = Listed /\ tasList' = {} /\ UNCHANGED freeList
    <3>1. Partition'
      BY <1>0, <1>1, <2>2 DEF BeginFrame, ListType, Partition, Listed
    <3>2. Cardinality(tasList') <= TasMax
      BY <2>2, FS_EmptySet
    <3> QED BY <1>0, <1>1, <3>1, <3>2 DEF BeginFrame, ListType
  <2> QED BY <1>1, <2>1, <2>2 DEF BeginFrame
<1>2. ASSUME NEW u \in Uids, AllocateUnit(u) PROVE ListType'
  <2>1. /\ u \in freeList \/ u \in twsList
        /\ freeList' = freeList \ {u} /\ twsList' = twsList \union {u} /\ tasList' = tasList
        /\ state' = [state EXCEPT ![u] = "DETECTION"]
    BY <1>2 DEF AllocateUnit, Evicts, Candidates
  <2>2. state' \in [Uids -> States]
    BY <1>0, <2>1 DEF ListType, States
  <2>3. \A v \in Uids : v \in freeList' <=> state'[v] = "FREE"
    BY <1>0, <2>1 DEF ListType, Partition
  <2>4. Partition'
    BY <1>0, <2>1, <2>3 DEF ListType, Partition
  <2> QED BY <1>0, <2>1, <2>2, <2>4 DEF ListType
<1>3. CASE Manage
  <2>1. PICK gone \in SUBSET Deletable, found \in SUBSET {u \in Managed : state[u] = "DETECTION"} :
          /\ state' = [u \in Uids |->
               IF u \in gone THEN "FREE"
               ELSE IF u \in found THEN "NEW_ACTIVE"
               ELSE IF u \in Managed /\ state[u] = "NEW_ACTIVE" THEN "ACTIVE" ELSE state[u]]
          /\ freeList' = freeList \union gone
          /\ twsList' = twsList \ gone /\ tasList' = tasList \ gone
    BY <1>3 DEF Manage
  <2>2. gone \subseteq Listed /\ found \subseteq Listed
    BY DEF Deletable, Managed
  <2>3. state' \in [Uids -> States]
    BY <1>0, <2>1 DEF ListType, States
  <2>4. \A v \in Uids : v \in freeList' <=> state'[v] = "FREE"
    BY <1>0, <2>1, <2>2 DEF ListType, Partition, Listed
  <2>5. Partition'
    BY <1>0, <2>1, <2>2, <2>4 DEF ListType, Partition, Listed
  <2>6. Cardinality(tasList') <= TasMax
    <3>1. tasList \subseteq Uids /\ tasList' \subseteq tasList
      BY <1>0, <2>1 DEF ListType, Partition
    <3> QED BY <1>0, <3>1, FewerTas DEF ListType
  <2> QED BY <2>3, <2>5, <2>6 DEF ListType
<1>4. CASE ListConstruct
  <2>1. CASE UNCHANGED <<twsList, tasList>>
    BY <1>0, <1>4, <2>1 DEF ListConstruct, ListType, Partition
  <2>2. CASE tasList' \in (IF mode = 1 THEN Targets ELSE {{}}) /\ twsList' = Listed \ tasList'
    <3>1. Listed \subseteq Uids
      BY <1>0 DEF ListType, Partition, Listed
    <3>2. tasList' \subseteq Listed /\ Cardinality(tasList') <= TasMax
      <4>1. CASE tasList' \in Targets
        BY <3>1, <4>1, TargetsFew
      <4>2. CASE tasList' = {}
        BY <4>2, FS_EmptySet
      <4> QED BY <2>2, <4>1, <4>2
    <3>3. Partition'
      BY <1>0, <1>4, <2>2, <3>2 DEF ListConstruct, ListType, Partition, Listed
    <3> QED BY <1>0, <1>4, <3>2, <3>3 DEF ListConstruct, ListType
  <2> QED BY <1>4, <2>1, <2>2 DEF ListConstruct
<1>5. CASE UNCHANGED <<lists, state>>
  BY <1>0, <1>5 DEF ListType, Partition
<1> QED BY <1>1, <1>2, <1>3, <1>4, <1>5, OtherSteps

\* Starting trackers: numbers of points, and siblings that are distinct.  A tracker
\* that is evicted is farther away than the point, its siblings are not.
LEMMA AllocStep ==
  ASSUME TrackTypeOK, GroupInv, Next
  PROVE  AllocType' /\ GroupInv'
<1>0. AllocType /\ ListType
  BY TypeParts
<1> USE DEF frameVars, lists, allocVars, cycleVars, historyVars
<1>e. IsInjective(<<>>) /\ Range(<<>>) = {} /\ <<>> \in Seq(Uids)
  BY DEF IsInjective, Range
<1>1. CASE group' = <<>> /\ AllocType'
  BY <1>1, <1>e DEF GroupInv, SiblingsDistinct
<1>2. CASE NextPoint
  BY <1>0, <1>1, <1>2, <1>e DEF NextPoint, AllocType
<1>3. ASSUME NEW u \in Uids, AllocateUnit(u) PROVE AllocType' /\ GroupInv'
  <2>1. /\ stage = "allocate" /\ stage' = stage /\ left > 0
        /\ u \in freeList \/ Evicts(u)
        /\ twsList' = twsList \union {u} /\ state' = [state EXCEPT ![u] = "DETECTION"]
        /\ group' = Append(group, u) /\ left' = left - 1 /\ meas' = meas
    BY <1>3 DEF AllocateUnit
  <2>2. IsInjective(group) /\ \A v \in Range(group) : v \in twsList /\ state[v] = "DETECTION"
    BY DEF GroupInv, SiblingsDistinct
  <2>3. u \notin Range(group)
    <3>1. CASE u \in freeList
      BY <1>0, <2>2, <3>1 DEF ListType, Partition
    <3>2. CASE Evicts(u)
      <4>1. PICK range \in [Candidates -> 1 .. 2], r \in 1 .. 2 :
              /\ \A v \in Candidates \cap Range(group) : range[v] = r
              /\ Farther(range[u], r)
        BY <3>2 DEF Evicts
      <4>2. u \in Candidates
        BY <3>2 DEF Evicts
      <4> QED BY <4>1, <4>2 DEF Farther
    <3> QED BY <2>1, <3>1, <3>2
  <2>4. group' \in Seq(Uids) /\ IsInjective(group') /\ Range(group') \subseteq Range(group) \union {u}
    BY <1>0, <2>1, <2>2, <2>3, AppendNew DEF AllocType
  <2>5. \A v \in Range(group') : v \in twsList' /\ state'[v] = "DETECTION"
    BY <1>0, <2>1, <2>2, <2>4 DEF ListType, Partition
  <2> QED BY <1>0, <2>1, <2>4, <2>5 DEF AllocType, GroupInv, SiblingsDistinct
<1>4. CASE AllocateNone
  BY <1>0, <1>4 DEF AllocateNone, AllocType, GroupInv, SiblingsDistinct
<1>5. CASE EndAllocate
  BY <1>0, <1>1, <1>5 DEF EndAllocate, AllocType
<1>6. CASE stage # "allocate" /\ UNCHANGED allocVars
  BY <1>0, <1>1, <1>6 DEF GroupInv, AllocType
<1>7. BeginFrame \/ Manage \/ ConfirmSelect \/ ListConstruct => stage # "allocate" /\ UNCHANGED allocVars
  BY DEF BeginFrame, Manage, ConfirmSelect, ListConstruct
<1>8. DispatchTws => stage # "allocate" /\ UNCHANGED allocVars
  BY DEF DispatchTws, Schedule
<1>9. ASSUME NEW i, NEW t, NEW b, NextBeam(i, t, b) PROVE UNCHANGED allocVars
  BY <1>9 DEF NextBeam, InitTrackBeam, TasTrackBeam, TasSearchBeam, Schedule
<1>10. TasCycle \/ TasBeamOfCycle => stage # "allocate" /\ UNCHANGED allocVars
  BY <1>9 DEF TasCycle, TasBeamOfCycle
<1> QED BY <1>2, <1>3, <1>4, <1>5, <1>6, <1>7, <1>8, <1>10 DEF Next

\* What every scheduled beam leaves alone.
LEMMA BeamFrame ==
  ASSUME NEW i, NEW t, NEW b, NextBeam(i, t, b)
  PROVE  /\ UNCHANGED <<frameVars, lists, state, allocVars, confirmBeamId>>
         /\ stage' = "frame"
  BY DEF NextBeam, InitTrackBeam, TasTrackBeam, TasSearchBeam, Schedule

\* The candidates: those of this frame are unconfirmed tracks.
LEMMA SelectStep ==
  ASSUME TrackTypeOK, SelectInv, Next
  PROVE  SelectType' /\ SelectInv'
<1>0. SelectType /\ ListType
  BY TypeParts
<1> USE DEF frameVars, lists, allocVars, cycleVars, historyVars
<1>1. CASE ConfirmSelect
  <2>1. CASE scan = "TWS"
    <3>1. confirmBeamId' \in Orders(Unconfirmed, ConfMax)
      BY <1>1, <2>1 DEF ConfirmSelect, Selections
    <3>2. confirmBeamId' \in Seq(Unconfirmed) /\ Len(confirmBeamId') <= ConfMax
          /\ Range(confirmBeamId') \subseteq Unconfirmed
      BY <3>1, OrdersSeq
    <3>3. Unconfirmed \subseteq Uids
      BY <1>0 DEF ListType, Partition, Unconfirmed
    <3>4. SelectInv'
      BY <1>1, <3>2 DEF ConfirmSelect, SelectInv, Unconfirmed, Listed
    <3>5. confirmBeamId' \in Seq(Uids)
      BY <3>2, <3>3
    <3> QED BY <3>2, <3>4, <3>5 DEF SelectType
  <2>2. CASE scan # "TWS"
    BY <1>0, <1>1, <2>2 DEF ConfirmSelect, SelectType, SelectInv
  <2> QED BY <2>1, <2>2
<1>2. CASE ListConstruct
  <2>1. UNCHANGED <<confirmBeamId, state, scan>> /\ stage = "list"
    BY <1>2 DEF ListConstruct
  <2>2. Listed' = Listed
    <3>1. CASE UNCHANGED <<twsList, tasList>>
      BY <3>1 DEF Listed
    <3>2. CASE tasList' \in (IF mode = 1 THEN Targets ELSE {{}}) /\ twsList' = Listed \ tasList'
      <4>1. tasList' \subseteq Listed
        BY <3>2 DEF Targets
      <4> QED BY <3>2, <4>1 DEF Listed
    <3> QED BY <1>2, <3>1, <3>2 DEF ListConstruct
  <2>3. SelectInv'
    BY <2>1, <2>2 DEF SelectInv
  <2> QED BY <1>0, <2>1, <2>3 DEF SelectType
<1>3. CASE UNCHANGED confirmBeamId /\ stage' \notin {"list", "dispatch"}
  BY <1>0, <1>3 DEF SelectType, SelectInv
<1>4. BeginFrame => UNCHANGED confirmBeamId /\ stage' \notin {"list", "dispatch"}
  BY DEF BeginFrame
<1>5. NextPoint => UNCHANGED confirmBeamId /\ stage' \notin {"list", "dispatch"}
  BY DEF NextPoint
<1>6. ASSUME NEW u \in Uids, AllocateUnit(u)
      PROVE  UNCHANGED confirmBeamId /\ stage' \notin {"list", "dispatch"}
  BY <1>6 DEF AllocateUnit
<1>7. AllocateNone \/ EndAllocate \/ Manage => UNCHANGED confirmBeamId /\ stage' \notin {"list", "dispatch"}
  BY DEF AllocateNone, EndAllocate, Manage
<1>8. DispatchTws => UNCHANGED confirmBeamId /\ stage' \notin {"list", "dispatch"}
  BY DEF DispatchTws, Schedule
<1>9. TasCycle \/ TasBeamOfCycle => UNCHANGED confirmBeamId /\ stage' \notin {"list", "dispatch"}
  BY BeamFrame DEF TasCycle, TasBeamOfCycle
<1> QED BY <1>1, <1>2, <1>3, <1>4, <1>5, <1>6, <1>7, <1>8, <1>9 DEF Next

-----------------------------------------------------------------------------
(***************************************************************************)
(* Beams and cycles                                                        *)
(***************************************************************************)
\* Steps that schedule no beam leave the cycle and the pipeline alone.
LEMMA CycleSteps ==
  ASSUME Next
  PROVE  DispatchTws \/ TasCycle \/ TasBeamOfCycle \/ UNCHANGED cycleVars
<1> USE DEF frameVars, lists, allocVars, cycleVars, historyVars
<1>1. BeginFrame => UNCHANGED cycleVars
  BY DEF BeginFrame
<1>2. NextPoint => UNCHANGED cycleVars
  BY DEF NextPoint
<1>3. ASSUME NEW u \in Uids, AllocateUnit(u) PROVE UNCHANGED cycleVars
  BY <1>3 DEF AllocateUnit
<1>4. AllocateNone \/ EndAllocate => UNCHANGED cycleVars
  BY DEF AllocateNone, EndAllocate
<1>5. Manage => UNCHANGED cycleVars
  BY DEF Manage
<1>6. ConfirmSelect \/ ListConstruct => UNCHANGED cycleVars
  BY DEF ConfirmSelect, ListConstruct
<1> QED BY <1>1, <1>2, <1>3, <1>4, <1>5, <1>6 DEF Next

\* The position in the cycle after one more beam.
LEMMA NextCount ==
  ASSUME cnt \in 0 .. CycleLen - 1
  PROVE  /\ (cnt + 1) % CycleLen \in 0 .. CycleLen - 1
         /\ cnt + 1 < CycleLen => (cnt + 1) % CycleLen = cnt + 1
<1>1. CycleLen \in Nat /\ CycleLen > 0 /\ cnt + 1 \in Nat
  OBVIOUS
<1> QED BY <1>1

LEMMA CycleLenEnough == MaxNeeded \in Nat /\ MaxNeeded + 2 <= CycleLen
  BY DEF MaxNeeded

\* The beams that a cycle needs at its beginning.
LEMMA NeededAtStart ==
  ASSUME SelectType, NEW tas \in Seq(Uids), Len(tas) <= TasMax
  PROVE  Needed(confirmBeamId, tas, 0) <= MaxNeeded
<1>1. Len(tas) \in Nat /\ TasMax \in Nat /\ TasBeams \in Nat /\ Len(confirmBeamId) \in Nat
  BY DEF SelectType
<1>2. TasBeams * Len(tas) <= TasBeams * TasMax
  BY <1>1, Multiples
<1>3. TasBeams * TasMax = TasMax * TasBeams /\ TasBeams * TasMax \in Nat /\ TasBeams * Len(tas) \in Nat
  BY <1>1
<1> QED BY <1>1, <1>2, <1>3 DEF SelectType, Needed, MaxNeeded

\* Types, cycle and distance from the search.
LEMMA CycleStep ==
  ASSUME TrackTypeOK, BeamInv, CycleInv, AwayInv, Next
  PROVE  CycleType' /\ BeamInv' /\ CycleInv' /\ AwayInv'
<1>0. CycleType /\ SelectType /\ ListType
  BY TypeParts
<1>a. /\ CycleLen \in Nat /\ TasBeams \in Nat /\ TasBeams >= 2 /\ away \in Nat
      /\ cnt \in 0 .. CycleLen - 1 /\ tasBeam \in 0 .. TasBeams - 1
      /\ initPending \in Seq(Uids) /\ tasPending \in Seq(Uids)
  BY <1>0 DEF CycleType
<1>1. CASE DispatchTws
  <2>1. /\ output' = next /\ next' = SearchBeam /\ away' = 0
        /\ UNCHANGED <<initPending, tasPending, tasBeam, cnt>>
    BY <1>1 DEF DispatchTws, Schedule
  <2>2. CycleType'
    BY <1>0, <2>1, SearchBeamType DEF CycleType
  <2>3. BeamInv'
    BY <2>1, SearchBeamType DEF BeamInv
  <2>4. NeededNow' = NeededNow
    BY <2>1 DEF NeededNow
  <2>5. CycleInv'
    BY <2>1, <2>4 DEF CycleInv
  <2>6. AwayInv'
    <3>1. NeededNow <= MaxNeeded
      <4>1. NeededNow \in Int
        <5>1. TasBeams * Len(tasPending) \in Int /\ Len(initPending) \in Int /\ tasBeam \in Int
          BY <1>a
        <5> QED BY <5>1 DEF NeededNow, Needed
      <4> QED BY <1>a, <4>1, CycleLenEnough DEF AwayInv
    <3>2. NeededNow \in Int
      <4>1. TasBeams * Len(tasPending) \in Int /\ Len(initPending) \in Int /\ tasBeam \in Int
        BY <1>a
      <4> QED BY <4>1 DEF NeededNow, Needed
    <3> QED BY <2>1, <2>4, <3>1, <3>2 DEF AwayInv
  <2> QED BY <2>2, <2>3, <2>5, <2>6
<1>2. CASE TasCycle
  <2>1. PICK tas \in Orders(tasList, TasMax) :
          Range(tas) = tasList /\ NextBeam(confirmBeamId, tas, 0)
    BY <1>2 DEF TasCycle
  <2>2. tas \in Seq(Uids) /\ Len(tas) <= TasMax
    <3>1. tas \in Seq(tasList) /\ Len(tas) <= TasMax
      BY OrdersSeq
    <3>2. tasList \subseteq Uids
      BY <1>0 DEF ListType, Partition
    <3> QED BY <3>1, <3>2
  <2> DEFINE n == Needed(confirmBeamId, tas, 0)
  <2>3. confirmBeamId \in Seq(Uids) /\ 0 \in 0 .. TasBeams - 1
    BY <1>0, <1>a DEF SelectType
  <2>4. n \in Nat /\ n <= MaxNeeded
    BY <1>0, <2>1, <2>2, <2>3, NextBeamStep, NeededAtStart
  <2>5. cnt = 0 /\ cnt' = 1
    BY <1>2 DEF TasCycle
  <2>6. next = SearchBeam /\ away = 0
    BY <2>5 DEF CycleInv, AwayInv
  <2>7. /\ initPending' \in Seq(Uids) /\ tasPending' \in Seq(Uids)
        /\ tasBeam' \in 0 .. TasBeams - 1 /\ (tasPending' = <<>> => tasBeam' = 0)
        /\ next' \in Beams /\ output' = next
        /\ \/ /\ next' = SearchBeam /\ away' = 0
              /\ initPending' = <<>> /\ tasPending' = <<>>
              /\ n = 0 /\ NeededNow' = 0
           \/ /\ next' # SearchBeam /\ next'.scan = "TAS" /\ next'.uid \in Uids
              /\ next'.total \in {1, TasBeams}
              /\ n >= 1 /\ away' = away + 1 /\ NeededNow' = n - 1
    <3> HIDE DEF n
    <3>1. n = Needed(confirmBeamId, tas, 0)
      BY DEF n
    <3> QED BY <2>1, <2>2, <2>3, <3>1, NextBeamStep
  <2> HIDE DEF n
  <2>8. CycleType'
    <3>1. 1 \in 0 .. CycleLen - 1
      BY <1>a, CycleLenEnough
    <3> QED BY <1>0, <1>a, <2>5, <2>7, <3>1 DEF CycleType
  <2>9. BeamInv'
    BY <2>6, <2>7, SearchBeamType DEF BeamInv
  <2>10. CycleInv'
    BY <1>a, <2>4, <2>5, <2>6, <2>7, CycleLenEnough DEF CycleInv
  <2>11. AwayInv'
    BY <2>4, <2>6, <2>7, CycleLenEnough DEF AwayInv
  <2> QED BY <2>8, <2>9, <2>10, <2>11
<1>3. CASE TasBeamOfCycle
  <2>1. NextBeam(initPending, tasPending, tasBeam) /\ cnt # 0 /\ cnt' = (cnt + 1) % CycleLen
    BY <1>3 DEF TasBeamOfCycle
  <2>2. tasPending = <<>> => tasBeam = 0
    BY DEF CycleInv
  <2>3. /\ initPending' \in Seq(Uids) /\ tasPending' \in Seq(Uids)
        /\ tasBeam' \in 0 .. TasBeams - 1 /\ (tasPending' = <<>> => tasBeam' = 0)
        /\ next' \in Beams /\ output' = next /\ NeededNow \in Nat
        /\ \/ /\ next' = SearchBeam /\ away' = 0
              /\ initPending' = <<>> /\ tasPending' = <<>>
              /\ NeededNow = 0 /\ NeededNow' = 0
           \/ /\ initPending # <<>> \/ tasPending # <<>>
              /\ next' # SearchBeam /\ next'.scan = "TAS" /\ next'.uid \in Uids
              /\ next'.total \in {1, TasBeams}
              /\ NeededNow >= 1 /\ away' = away + 1 /\ NeededNow' = NeededNow - 1
    <3>1. NeededNow = Needed(initPending, tasPending, tasBeam)
      BY DEF NeededNow
    <3> QED BY <1>a, <2>1, <2>2, <3>1, NextBeamStep
  <2>4. cnt' \in 0 .. CycleLen - 1 /\ (cnt + 1 < CycleLen => cnt' = cnt + 1)
    BY <1>a, <2>1, NextCount
  <2>5. CycleType'
    BY <1>0, <1>a, <2>3, <2>4 DEF CycleType
  <2>6. BeamInv'
    BY <2>3, SearchBeamType DEF BeamInv
  <2>7. CycleInv'
    <3>1. output' # SearchBeam => cnt' # 0
      BY <1>a, <2>3, <2>4 DEF CycleInv
    <3>2. ASSUME next' # SearchBeam PROVE cnt' # 0 /\ 2 <= CycleLen - cnt'
      <4>1. NeededNow >= 1 /\ NeededNow + 2 <= CycleLen - cnt
        BY <2>3, <3>2 DEF CycleInv
      <4>2. cnt \in Nat /\ NeededNow \in Nat /\ CycleLen \in Nat
        BY <1>a, <2>3
      <4>3. cnt + 3 <= CycleLen
        BY <4>1, <4>2
      <4>4. cnt' = cnt + 1
        BY <2>4, <4>2, <4>3
      <4> QED BY <4>2, <4>3, <4>4
    <3>3. initPending' # <<>> \/ tasPending' # <<>> => cnt' # 0 /\ NeededNow' + 2 <= CycleLen - cnt'
      BY <1>a, <2>3, <2>4 DEF CycleInv
    <3> QED BY <2>3, <3>1, <3>2, <3>3 DEF CycleInv
  <2>8. AwayInv'
    BY <1>a, <2>3, CycleLenEnough DEF AwayInv
  <2> QED BY <2>5, <2>6, <2>7, <2>8
<1>4. CASE UNCHANGED cycleVars
  BY <1>0, <1>4 DEF cycleVars, CycleType, BeamInv, CycleInv, AwayInv, NeededNow, Needed
<1> QED BY <1>1, <1>2, <1>3, <1>4, CycleSteps

\* The scan of a frame is fixed when it begins.
LEMMA FrameStep ==
  ASSUME TrackTypeOK, ScanInv, Next
  PROVE  FrameType' /\ ScanInv'
<1>0. FrameType /\ CycleType
  BY TypeParts
<1> USE DEF frameVars, lists, allocVars, cycleVars, historyVars
<1>1. CASE BeginFrame
  <2>1. output.scan \in {"TWS", "TAS"}
    BY <1>0 DEF CycleType, Beams
  <2>2. /\ mode' \in {0, 1} /\ scan' = (IF mode' = 0 THEN "TWS" ELSE output.scan)
        /\ stage' = "allocate" /\ output' = output
        /\ UNCHANGED <<historyVars, paused>>
    BY <1>1 DEF BeginFrame
  <2> QED BY <1>0, <2>1, <2>2 DEF FrameType, ScanInv
<1>2. CASE NextPoint
  BY <1>0, <1>2 DEF NextPoint, FrameType, ScanInv
<1>3. ASSUME NEW u \in Uids, AllocateUnit(u) PROVE FrameType' /\ ScanInv'
  BY <1>0, <1>3 DEF AllocateUnit, FrameType, ScanInv
<1>4. CASE AllocateNone
  BY <1>0, <1>4 DEF AllocateNone, FrameType, ScanInv
<1>5. CASE EndAllocate
  BY <1>0, <1>5 DEF EndAllocate, FrameType, ScanInv
<1>6. CASE Manage
  BY <1>0, <1>6 DEF Manage, FrameType, ScanInv
<1>7. CASE ConfirmSelect
  BY <1>0, <1>7 DEF ConfirmSelect, FrameType, ScanInv
<1>8. CASE ListConstruct
  BY <1>0, <1>8 DEF ListConstruct, FrameType, ScanInv
<1>9. CASE DispatchTws
  BY <1>0, <1>9 DEF DispatchTws, Schedule, FrameType, ScanInv
<1>10. CASE TasCycle
  <2>1. stage' = "frame" /\ UNCHANGED <<mode, scan>>
    BY <1>10, BeamFrame DEF TasCycle
  <2>2. restarted' = {} /\ evicted' = {} /\ paused' = FALSE
    BY <1>10 DEF TasCycle
  <2> QED BY <1>0, <2>1, <2>2 DEF FrameType, ScanInv
<1>11. CASE TasBeamOfCycle
  <2>1. stage' = "frame" /\ UNCHANGED <<mode, scan>>
    BY <1>11, BeamFrame DEF TasBeamOfCycle
  <2>2. UNCHANGED <<historyVars, paused>>
    BY <1>11 DEF TasBeamOfCycle
  <2> QED BY <1>0, <2>1, <2>2 DEF FrameType, ScanInv
<1> QED BY <1>2, <1>3, <1>4, <1>5, <1>6, <1>7, <1>8, <1>9, <1>1, <1>10, <1>11 DEF Next

\* Trackers are started in a scan only, because the others discard their points.
LEMMA LeftStep ==
  ASSUME TrackTypeOK, LeftInv, Next
  PROVE  LeftInv'
<1>0. left \in Nat
  BY DEF TrackTypeOK
<1> USE DEF frameVars, lists, allocVars, cycleVars, LeftInv
<1>1. CASE BeginFrame
  BY <1>0, <1>1 DEF BeginFrame
<1>2. CASE NextPoint
  BY <1>0, <1>2 DEF NextPoint, TakesPoints
<1>3. ASSUME NEW u \in Uids, AllocateUnit(u) PROVE LeftInv'
  BY <1>0, <1>3 DEF AllocateUnit
<1>4. CASE AllocateNone
  BY <1>0, <1>4 DEF AllocateNone
<1>5. CASE EndAllocate
  BY <1>0, <1>5 DEF EndAllocate
<1>6. CASE Manage
  BY <1>0, <1>6 DEF Manage
<1>7. CASE ConfirmSelect \/ ListConstruct
  BY <1>0, <1>7 DEF ConfirmSelect, ListConstruct
<1>8. CASE DispatchTws
  BY <1>0, <1>8 DEF DispatchTws, Schedule
<1>9. CASE TasCycle
  <2>1. stage = "dispatch" /\ UNCHANGED left
    BY <1>9, BeamFrame DEF TasCycle
  <2> QED BY <1>0, <2>1
<1>10. CASE TasBeamOfCycle
  <2>1. stage = "dispatch" /\ UNCHANGED left
    BY <1>10, BeamFrame DEF TasBeamOfCycle
  <2> QED BY <1>0, <2>1
<1> QED BY <1>1, <1>2, <1>3, <1>4, <1>5, <1>6, <1>7, <1>8, <1>9, <1>10 DEF Next

-----------------------------------------------------------------------------
(***************************************************************************)
(* Trackers are not restarted before their beams are processed             *)
(***************************************************************************)
\* The third case of DwellInv.
DwellFresh ==
  /\ next = SearchBeam => initPending = <<>> /\ tasPending = <<>>
  /\ output = SearchBeam /\ next # SearchBeam /\ stage \in {"frame", "allocate"} =>
       Targeted \subseteq tasList /\ Beamed \subseteq Listed
  /\ Beamed \cap restarted = {} /\ Targeted \cap evicted = {}

LEMMA DwellCases == DwellInv <=> paused \/ (mode = 0 /\ stage # "frame") \/ DwellFresh
  BY DEF DwellInv, DwellFresh

\* A search beam has no target and no tracker.
LEMMA NoTarget == TargetOf(SearchBeam) = {} /\ TrackerOf(SearchBeam) = {}
<1>1. TasBeams # 0
  OBVIOUS
<1> QED BY <1>1, SearchBeamType DEF TargetOf, TrackerOf

\* What is not changed by a step that leaves the beams alone.
LEMMA SameBeams ==
  ASSUME UNCHANGED <<initPending, tasPending, next, output>>
  PROVE  Targeted' = Targeted /\ Beamed' = Beamed
  BY DEF Targeted, Beamed, TargetOf, TrackerOf

\* Starting a tracker: the scan is a search beam's, so that the trackers of beams are
\* still listed, the targets on the TAS list, and what is started was not.
LEMMA DwellAllocate ==
  ASSUME TrackInv, NEW u \in Uids, AllocateUnit(u)
  PROVE  DwellInv'
<1>0. TrackTypeOK /\ BeamInv /\ ScanInv /\ DwellInv /\ ListType /\ CycleType
  BY TypeParts DEF TrackInv
<1>1. /\ stage = "allocate" /\ stage' = stage
      /\ u \in freeList \/ u \in twsList
      /\ restarted' \subseteq restarted \union ({u} \cap freeList)
      /\ evicted' \subseteq evicted \union {u}
      /\ tasList' = tasList /\ twsList' = twsList \union {u}
      /\ UNCHANGED <<mode, paused, initPending, tasPending, next, output>>
  BY DEF AllocateUnit, Evicts, Candidates, lists, frameVars, cycleVars
<1>a. scan = "TWS"
  BY DEF AllocateUnit, TrackInv, LeftInv
<1>b. ~paused /\ mode # 0 => output = SearchBeam
  <2> SUFFICES ASSUME mode # 0 PROVE output = SearchBeam
    OBVIOUS
  <2>1. scan = output.scan
    BY <1>0, <1>1 DEF ScanInv
  <2> QED BY <1>0, <1>a, <2>1 DEF BeamInv
<1>2. u \notin tasList /\ (u \in freeList => u \notin Listed) /\ Listed \subseteq Listed'
  BY <1>0, <1>1 DEF ListType, Partition, Listed
<1>3. Targeted' = Targeted /\ Beamed' = Beamed
  BY <1>1, SameBeams
<1>4. CASE paused \/ mode = 0
  BY <1>1, <1>4 DEF DwellInv
<1>5. CASE ~paused /\ mode # 0
  <2>1. DwellFresh
    BY <1>0, <1>5, DwellCases
  <2>2. CASE next = SearchBeam
    <3>1. Range(initPending) = {} /\ Range(tasPending) = {}
      BY <2>1, <2>2 DEF DwellFresh, Range
    <3>2. Targeted = {} /\ Beamed = {}
      BY <1>5, <1>b, <2>2, <3>1, NoTarget DEF Targeted, Beamed
    <3>3. DwellFresh'
      BY <1>1, <1>3, <2>1, <2>2, <3>2 DEF DwellFresh
    <3> QED BY <1>1, <3>3 DEF DwellInv, DwellFresh
  <2>3. CASE next # SearchBeam
    <3>1. Targeted \subseteq tasList /\ Beamed \subseteq Listed
      BY <1>1, <1>5, <1>b, <2>1, <2>3 DEF DwellFresh
    <3>2. DwellFresh'
      BY <1>1, <1>2, <1>3, <2>1, <2>3, <3>1 DEF DwellFresh
    <3> QED BY <1>1, <3>2 DEF DwellInv, DwellFresh
  <2> QED BY <2>2, <2>3
<1> QED BY <1>4, <1>5

\* Within a frame the trackers stay fresh: only starting trackers could disturb them.
LEMMA DwellFrame ==
  ASSUME DwellInv, UNCHANGED <<mode, cycleVars, historyVars>>, stage # "frame",
         stage' \notin {"frame", "allocate"} \/ UNCHANGED <<stage, lists>>
  PROVE  DwellInv'
<1>1. /\ Targeted' = Targeted /\ Beamed' = Beamed
      /\ UNCHANGED <<next, output, initPending, tasPending, paused, restarted, evicted>>
  BY SameBeams DEF cycleVars, historyVars
<1>2. CASE paused \/ mode = 0
  BY <1>1, <1>2 DEF DwellInv, cycleVars
<1>3. CASE ~paused /\ mode # 0
  <2>1. DwellFresh
    BY <1>3, DwellCases
  <2>2. DwellFresh'
    BY <1>1, <2>1 DEF DwellFresh, Listed, lists
  <2> QED BY <2>2 DEF DwellInv, DwellFresh
<1> QED BY <1>2, <1>3

LEMMA DwellStep ==
  ASSUME TrackInv, Next
  PROVE  DwellInv'
<1>0. TrackTypeOK /\ DwellInv /\ CycleInv /\ CycleType /\ SelectType /\ ListType
  BY TypeParts DEF TrackInv
<1>1. CASE BeginFrame
  <2>1. /\ stage = "frame" /\ stage' = "allocate" /\ mode' \in {0, 1}
        /\ mode' = 0 \/ UNCHANGED <<twsList, tasList>>
        /\ UNCHANGED <<restarted, evicted, paused, initPending, tasPending, next, output>>
    BY <1>1 DEF BeginFrame, lists, cycleVars, historyVars
  <2>2. CASE paused \/ mode' = 0
    BY <2>1, <2>2 DEF DwellInv
  <2>3. CASE ~paused /\ mode' # 0
    <3>1. DwellFresh
      BY <1>0, <2>1, <2>3, DwellCases
    <3>2. Targeted' = Targeted /\ Beamed' = Beamed
      BY <2>1, SameBeams
    <3>3. DwellFresh'
      BY <2>1, <2>3, <3>1, <3>2 DEF DwellFresh, Listed
    <3> QED BY <3>3 DEF DwellInv, DwellFresh
  <2> QED BY <2>2, <2>3
<1>2. CASE NextPoint
  BY <1>0, <1>2, DwellFrame DEF NextPoint, frameVars, lists
<1>3. CASE \E u \in Uids : AllocateUnit(u)
  BY <1>3, DwellAllocate
<1>4. CASE AllocateNone
  BY <1>0, <1>4, DwellFrame DEF AllocateNone, frameVars, lists
<1>5. CASE EndAllocate
  BY <1>0, <1>5, DwellFrame DEF EndAllocate, frameVars
<1>6. CASE Manage
  BY <1>0, <1>6, DwellFrame DEF Manage, frameVars
<1>7. CASE ConfirmSelect
  BY <1>0, <1>7, DwellFrame DEF ConfirmSelect, frameVars
<1>8. CASE ListConstruct
  BY <1>0, <1>8, DwellFrame DEF ListConstruct, frameVars
<1>9. CASE DispatchTws
  <2>1. paused'
    BY <1>9 DEF DispatchTws
  <2> QED BY <2>1 DEF DwellInv
<1>10. CASE TasCycle
  \* The snapshot: all candidates are listed and all targets on the TAS list, and none
  \* has been restarted or given up yet.
  <2>1. PICK tas \in Orders(tasList, TasMax) :
          Range(tas) = tasList /\ NextBeam(confirmBeamId, tas, 0)
    BY <1>10 DEF TasCycle
  <2>2. tas \in Seq(Uids)
    <3>1. tas \in Seq(tasList)
      BY OrdersSeq
    <3>2. tasList \subseteq Uids
      BY <1>0 DEF ListType, Partition
    <3> QED BY <3>1, <3>2
  <2>3. confirmBeamId \in Seq(Uids) /\ 0 \in 0 .. TasBeams - 1
    BY <1>0 DEF SelectType
  <2>4. /\ output' = next /\ Range(tasPending') \subseteq tasList
        /\ Range(initPending') \subseteq Range(confirmBeamId)
        /\ \/ next' = SearchBeam /\ initPending' = <<>> /\ tasPending' = <<>>
           \/ /\ next' # SearchBeam /\ TargetOf(next') \subseteq tasList
              /\ TrackerOf(next') \subseteq Range(confirmBeamId) \union tasList
    BY <2>1, <2>2, <2>3, NextBeamStep
  <2>5. next = SearchBeam /\ output = SearchBeam
    BY <1>0, <1>10 DEF TasCycle, CycleInv
  <2>6. UNCHANGED <<twsList, tasList>> /\ restarted' = {} /\ evicted' = {}
    BY <1>10, <2>1, BeamFrame DEF TasCycle, lists
  <2>a. Range(confirmBeamId) \subseteq Listed
    <3>1. stage = "dispatch" /\ scan = "TWS"
      BY <1>10, <2>5, SearchBeamType DEF TasCycle, TrackInv, ScanInv
    <3> QED BY <3>1 DEF TrackInv, SelectInv
  <2>7. Targeted' = Range(tasPending') \union TargetOf(next') \union TargetOf(next)
    BY <2>4 DEF Targeted, TargetOf
  <2>8. Targeted' \subseteq tasList
    BY <2>4, <2>5, <2>7, NoTarget
  <2>b. Beamed' = Range(initPending') \union Range(tasPending') \union TrackerOf(next') \union TrackerOf(next)
    BY <2>4 DEF Beamed, TrackerOf
  <2>c. Beamed' \subseteq Listed
    BY <2>4, <2>5, <2>a, <2>b, NoTarget DEF Listed
  <2>9. DwellFresh'
    BY <2>4, <2>6, <2>8, <2>c DEF DwellFresh, Listed
  <2> QED BY <2>9 DEF DwellInv, DwellFresh
<1>11. CASE TasBeamOfCycle
  \* No tracker comes in, and once a search beam is scheduled none is left.
  <2>1. /\ NextBeam(initPending, tasPending, tasBeam) /\ stage = "dispatch" /\ mode = 1
        /\ UNCHANGED <<restarted, evicted, paused>>
    BY <1>11 DEF TasBeamOfCycle, historyVars
  <2>2. CASE paused
    BY <2>1, <2>2 DEF DwellInv
  <2>3. CASE ~paused
    <3>1. DwellFresh
      BY <1>0, <2>1, <2>3, DwellCases
    <3>2. /\ output' = next /\ Range(tasPending') \subseteq Range(tasPending)
          /\ Range(initPending') \subseteq Range(initPending)
          /\ \/ next' = SearchBeam /\ initPending' = <<>> /\ tasPending' = <<>>
             \/ /\ next' # SearchBeam /\ TargetOf(next') \subseteq Range(tasPending)
                /\ TrackerOf(next') \subseteq Range(initPending) \union Range(tasPending)
                /\ initPending # <<>> \/ tasPending # <<>>
      <4>1. tasPending = <<>> => tasBeam = 0
        BY <1>0 DEF CycleInv
      <4> QED BY <1>0, <2>1, <4>1, NextBeamStep DEF CycleType
    <3>3. Targeted' = Range(tasPending') \union TargetOf(next') \union TargetOf(next)
      BY <3>2 DEF Targeted, TargetOf
    <3>4. Targeted' \subseteq Targeted
      BY <3>2, <3>3, NoTarget DEF Targeted
    <3>a. Beamed' = Range(initPending') \union Range(tasPending') \union TrackerOf(next') \union TrackerOf(next)
      BY <3>2 DEF Beamed, TrackerOf
    <3>b. Beamed' \subseteq Beamed
      BY <3>2, <3>a, NoTarget DEF Beamed
    <3>5. DwellFresh'
      BY <2>1, <3>1, <3>2, <3>4, <3>b DEF DwellFresh
    <3> QED BY <3>5 DEF DwellInv, DwellFresh
  <2> QED BY <2>2, <2>3
<1> QED BY <1>1, <1>2, <1>3, <1>4, <1>5, <1>6, <1>7, <1>8, <1>9, <1>10, <1>11 DEF Next

-----------------------------------------------------------------------------
(***************************************************************************)
(* Theorems                                                                *)
(***************************************************************************)
LEMMA InitTrackInv == Init => TrackInv
<1> SUFFICES ASSUME Init PROVE TrackInv
  OBVIOUS
<1>1. TrackTypeOK
  BY InitTypeOK
<1>2. GroupInv /\ LeftInv /\ ScanInv /\ SelectInv
  BY DEF Init, GroupInv, SiblingsDistinct, IsInjective, Range, LeftInv, ScanInv, SelectInv
<1>3. BeamInv
  BY SearchBeamType DEF Init, BeamInv
<1>4. CycleInv
  BY DEF Init, CycleInv
<1>5. AwayInv
  <2>1. NeededNow = 0
    <3>1. Len(initPending) = 0 /\ Len(tasPending) = 0 /\ tasBeam = 0 /\ TasBeams * 0 = 0
      BY DEF Init
    <3> QED BY <3>1 DEF NeededNow, Needed
  <2> QED BY <2>1, CycleLenEnough DEF Init, AwayInv
<1>6. DwellInv
  <2>1. Beamed \cap restarted = {} /\ Targeted \cap evicted = {} /\ next = SearchBeam /\ initPending = <<>> /\ tasPending = <<>>
    BY DEF Init
  <2> QED BY <2>1 DEF DwellInv
<1> QED BY <1>1, <1>2, <1>3, <1>4, <1>5, <1>6 DEF TrackInv

LEMMA NextTrackInv == TrackInv /\ Next => TrackInv'
<1> SUFFICES ASSUME TrackInv, Next PROVE TrackInv'
  OBVIOUS
<1>0. TrackTypeOK /\ GroupInv /\ LeftInv /\ BeamInv /\ ScanInv /\ SelectInv /\ CycleInv /\ AwayInv
  BY DEF TrackInv
<1>1. ListType'
  BY <1>0, ListStep
<1>2. AllocType' /\ GroupInv'
  BY <1>0, AllocStep
<1>3. SelectType' /\ SelectInv'
  BY <1>0, SelectStep
<1>4. CycleType' /\ BeamInv' /\ CycleInv' /\ AwayInv'
  BY <1>0, CycleStep
<1>5. FrameType' /\ ScanInv'
  BY <1>0, FrameStep
<1>6. LeftInv' /\ DwellInv'
  BY <1>0, LeftStep, DwellStep
<1>7. TrackTypeOK'
  BY <1>1, <1>2, <1>3, <1>4, <1>5
  DEF TrackTypeOK, ListType, AllocType, SelectType, CycleType, FrameType
<1> QED BY <1>2, <1>3, <1>4, <1>5, <1>6, <1>7 DEF TrackInv

LEMMA StutterTrackInv == TrackInv /\ UNCHANGED vars => TrackInv'
<1> SUFFICES ASSUME TrackInv, UNCHANGED vars PROVE TrackInv'
  OBVIOUS
<1> USE DEF vars, frameVars, lists, allocVars, cycleVars, historyVars
<1>1. TrackTypeOK'
  BY DEF TrackInv, TrackTypeOK, Partition
<1>2. GroupInv' /\ LeftInv' /\ ScanInv' /\ BeamInv'
  BY DEF TrackInv, GroupInv, SiblingsDistinct, LeftInv, ScanInv, BeamInv
<1>3. SelectInv'
  BY DEF TrackInv, SelectInv, Listed
<1>4. CycleInv' /\ AwayInv'
  BY DEF TrackInv, CycleInv, AwayInv, NeededNow
<1>5. DwellInv'
  BY SameBeams DEF TrackInv, DwellInv, Listed, historyVars
<1> QED BY <1>1, <1>2, <1>3, <1>4, <1>5 DEF TrackInv

\* The inductive invariant holds in every state of a run.
THEOREM TrackInvariant == TrackingSpec => []TrackInv
<1>1. Init => TrackInv
  BY InitTrackInv
<1>2. TrackInv /\ [Next]_vars => TrackInv'
  BY NextTrackInv, StutterTrackInv
<1> QED BY <1>1, <1>2, PTL DEF TrackingSpec

\* Types: every tracker is on exactly one list at any time, and on the free one if and
\* only if it is in no use (tracking_listlib.c and its callers).
THEOREM TrackTypeCorrect == TrackingSpec => []TrackTypeOK
<1>1. TrackInv => TrackTypeOK
  BY DEF TrackInv
<1> QED BY <1>1, TrackInvariant, PTL

\* The trackers started for one ambiguous point are never one another's victims, however
\* few trackers there are (tracking_allocate_unitTracker).
THEOREM SiblingsAreDistinct == TrackingSpec => []SiblingsDistinct
<1>1. TrackInv => SiblingsDistinct
  BY DEF TrackInv, GroupInv
<1> QED BY <1>1, TrackInvariant, PTL

\* A cycle begins with candidates of its own frame: what the frames of TAS beams leave
\* behind is never used (GetInitTrackCurrentCycle).
THEOREM SnapshotIsFresh == TrackingSpec => []SnapshotFresh
<1>1. TrackInv => SnapshotFresh
  <2> SUFFICES ASSUME TrackInv, stage = "dispatch", mode = 1, cnt = 0
               PROVE  \A u \in Range(confirmBeamId) : u \in Listed /\ state[u] = "DETECTION"
    BY DEF SnapshotFresh
  <2>1. output = SearchBeam
    BY DEF TrackInv, CycleInv
  <2>2. scan = "TWS"
    BY <2>1, SearchBeamType DEF TrackInv, ScanInv
  <2> QED BY <2>2 DEF TrackInv, SelectInv
<1> QED BY <1>1, TrackInvariant, PTL

\* The data of a TAS beam reaches the tracker it was meant for, but for a candidate that
\* was given up just before its confirming beam, for any length of a cycle that suffices
\* and any number of candidates and targets (TasTrackBeamProcAndOut, InitTrackBeamProcAndOut).
THEOREM DwellIsFresh == TrackingSpec => []TasDwellFresh
<1>1. TrackInv => TasDwellFresh
  <2> SUFFICES ASSUME TrackInv, stage # "frame", scan = "TAS", ~paused
               PROVE  output.uid \notin restarted /\ (output.uid \in evicted => output.total = 1)
    BY DEF TasDwellFresh
  <2>1. mode # 0 /\ output.scan = "TAS"
    BY DEF TrackInv, ScanInv
  <2>2. DwellFresh
    BY <2>1, DwellCases DEF TrackInv
  <2>3. output.uid \in Beamed /\ output.total \in {1, TasBeams}
    BY <2>1 DEF Beamed, TrackerOf, TrackInv, BeamInv
  <2>4. output.total = TasBeams => output.uid \in Targeted
    BY DEF Targeted, TargetOf
  <2> QED BY <2>2, <2>3, <2>4 DEF DwellFresh
<1> QED BY <1>1, TrackInvariant, PTL

\* With TAS_CYCLE_BEAM_NUM two beams longer than all its beams, a cycle is over when the
\* next one begins (DispatchTasScan).
THEOREM CyclesFinish == TrackingSpec => []CycleFinishes
<1>1. TrackInv => CycleFinishes
  BY DEF TrackInv, CycleInv, CycleFinishes
<1> QED BY <1>1, TrackInvariant, PTL

\* The search is put off for at most the beams of one cycle (DispatchTasScan).
THEOREM SearchNeverStops == TrackingSpec => []SearchGoesOn
<1>1. TrackInv => SearchGoesOn
  <2> SUFFICES ASSUME TrackInv PROVE SearchGoesOn
    OBVIOUS
  <2>1. /\ away \in Nat /\ tasBeam \in 0 .. TasBeams - 1
        /\ initPending \in Seq(Uids) /\ tasPending \in Seq(Uids)
        /\ tasPending = <<>> => tasBeam = 0
    BY DEF TrackInv, TrackTypeOK, CycleInv
  <2>2. Len(initPending) \in Nat /\ Len(tasPending) \in Nat /\ TasBeams \in Nat
    BY <2>1
  <2>3. TasBeams * Len(tasPending) \in Nat /\ TasBeams * Len(tasPending) >= tasBeam
    <3>1. CASE tasPending = <<>>
      <4>1. Len(tasPending) = 0 /\ tasBeam = 0 /\ TasBeams * 0 = 0
        BY <2>1, <3>1
      <4> QED BY <4>1
    <3>2. CASE tasPending # <<>>
      <4>1. 1 <= Len(tasPending)
        BY <2>1, <3>2
      <4>2. TasBeams * 1 <= TasBeams * Len(tasPending) /\ TasBeams * Len(tasPending) \in Nat
        BY <2>2, <4>1, Multiples
      <4> QED BY <2>1, <2>2, <4>2
    <3> QED BY <3>1, <3>2
  <2>4. NeededNow \in Nat
    BY <2>1, <2>2, <2>3 DEF NeededNow, Needed
  <2> QED BY <2>1, <2>4, CycleLenEnough DEF TrackInv, AwayInv, MaxNeeded, SearchGoesOn
<1> QED BY <1>1, TrackInvariant, PTL

\* While the data of a TAS beam is processed, no track is deleted but the beam's own, or
\* tracker 0 (isTrackerCanDelete).
THEOREM TasScanSparesAlways == TrackingSpec => TasScanSpares
<1>1. TrackInv /\ [Next]_vars =>
        [scan = "TAS" =>
           \A u \in freeList' \ freeList :
             u = output.uid \/ (u = Zero /\ output.uid \in freeList)]_vars
  <2> SUFFICES ASSUME TrackInv, Next, scan = "TAS", NEW u \in freeList' \ freeList
               PROVE  u = output.uid \/ (u = Zero /\ output.uid \in freeList)
    OBVIOUS
  <2>1. CASE Manage
    <3>1. u \in Deletable
      BY <2>1 DEF Manage
    <3>2. u = MeasTarget
      BY <3>1 DEF Deletable
    <3>3. output.uid \in Uids
      <4>1. stage = "manage"
        BY <2>1 DEF Manage
      <4>2. output.scan = "TAS"
        BY <4>1 DEF TrackInv, ScanInv
      <4> QED BY <4>2 DEF TrackInv, BeamInv
    <3>4. output.uid \in freeList \/ output.uid \in Listed
      BY <3>3 DEF TrackInv, TrackTypeOK, Partition, Listed
    <3> QED BY <3>2, <3>4 DEF MeasTarget
  <2>2. CASE BeginFrame \/ ListConstruct \/ \E v \in Uids : AllocateUnit(v)
    BY <2>2 DEF BeginFrame, ListConstruct, AllocateUnit, lists
  <2>3. CASE UNCHANGED <<lists, state>>
    BY <2>3 DEF lists
  <2> QED BY <2>1, <2>2, <2>3, OtherSteps
<1> QED BY <1>1, TrackInvariant, PTL DEF TrackingSpec, TasScanSpares
=============================================================================
