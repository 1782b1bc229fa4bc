--------------------------- MODULE DataPathProofs ---------------------------
(***************************************************************************)
(* Proofs about the data path, for queues of any length: types, that one   *)
(* slot more than a queue holds is enough, and that the buffers are handed *)
(* over as SendBuffer says.                                                *)
(***************************************************************************)
EXTENDS DataPath, SequenceTheorems, TLAPS

USE DataAssumption

-----------------------------------------------------------------------------
\* The cpib handler stays within the slots.
LEMMA NextWaveType ==
  ASSUME NEW w \in Positions
  PROVE  NextWave(w) \in Positions
  BY DEF NextWave, Positions

LEMMA InitType == Init => DataTypeOK
<1> SUFFICES ASSUME Init PROVE DataTypeOK
  OBVIOUS
<1>1. 0 \in Positions
  BY DEF Positions
<1>2. pushQ \in Seq(Positions) /\ Len(pushQ) <= QueueLen /\ udpQ \in Seq(Buffers)
  BY DEF Init
<1>3. push \in PushState
  BY <1>1 DEF Init, Idle, PushState, Buffers
<1>4. udp \in UdpState
  BY DEF Init, Waiting, UdpState
<1>5. reader \in ReaderState
  BY <1>1 DEF Init, ReaderState
<1>6. /\ cpibIrq \in BOOLEAN /\ rdmapIrq \in BOOLEAN /\ busy \in BOOLEAN /\ overrun \in BOOLEAN
      /\ late \in BOOLEAN /\ lock \in {"alg", "udp", Nothing}
  BY DEF Init
<1>7. mode \in Modes /\ wave \in Positions /\ donePos \in Positions
  BY <1>1 DEF Init
<1>8. algQ \in Seq(Positions) /\ alg \in AlgState
  BY <1>1 DEF Init, AlgIdle, AlgState
<1> QED BY <1>2, <1>3, <1>4, <1>5, <1>6, <1>7, <1>8 DEF DataTypeOK

\* What the interrupt threads do to the types.
LEMMA ReaderType ==
  ASSUME DataTypeOK, FrameDone \/ CpibHandler \/ Reader
  PROVE  DataTypeOK'
<1>0. reader \in ReaderState /\ donePos \in Positions /\ pushQ \in Seq(Positions)
  BY DEF DataTypeOK
<1> USE DEF plVars, pushVars, sendVars, algVars
<1>1. CASE FrameDone
  BY <1>1 DEF FrameDone, DataTypeOK
<1>2. CASE CpibHandler
  BY <1>2, NextWaveType DEF CpibHandler, DataTypeOK
<1>3. CASE RdmapPoll
  <2>1. reader' \in ReaderState
    BY <1>0, <1>3 DEF RdmapPoll, ReaderState
  <2> QED BY <1>3, <2>1 DEF RdmapPoll, DataTypeOK
<1>4. CASE RdmapSkip
  <2>1. reader.count + 1 \in 0 .. 2
    BY <1>0, <1>4 DEF RdmapSkip, ReaderState
  <2>2. reader' \in ReaderState
    BY <1>0, <1>4, <2>1 DEF RdmapSkip, ReaderState
  <2> QED BY <1>4, <2>2 DEF RdmapSkip, DataTypeOK
<1>5. CASE RdmapCopy
  <2>1. reader' \in ReaderState
    BY <1>0, <1>5 DEF RdmapCopy, ReaderState
  <2> QED BY <1>5, <2>1 DEF RdmapCopy, DataTypeOK
<1>6. CASE RdmapSend
  <2>1. reader' \in ReaderState
    <3>1. 0 \in Positions
      BY DEF Positions
    <3> QED BY <1>0, <1>6, <3>1 DEF RdmapSend, ReaderState
  <2>2. reader.pos \in Positions
    BY <1>0 DEF ReaderState
  <2>3. pushQ' \in Seq(Positions) /\ Len(pushQ') <= QueueLen
    BY <1>0, <1>6, <2>2 DEF RdmapSend
  <2> QED BY <1>6, <2>1, <2>3 DEF RdmapSend, DataTypeOK
<1> QED BY <1>1, <1>2, <1>3, <1>4, <1>5, <1>6 DEF Reader

\* What the push task does to them.
LEMMA PushType ==
  ASSUME DataTypeOK, Push \/ SetMode
  PROVE  DataTypeOK'
<1>0. push \in PushState /\ pushQ \in Seq(Positions) /\ udpQ \in Seq(Buffers)
  BY DEF DataTypeOK
<1>a. Idle \in PushState
  BY DEF Idle, PushState, Positions, Buffers
<1>b. push.buffer \in Buffers
  BY <1>0 DEF PushState
<1> USE DEF plVars, pushVars, sendVars, algVars
<1>1. CASE PushReceive
  <2>1. /\ Head(pushQ) \in Positions
        /\ pushQ' \in Seq(Positions) /\ Len(pushQ') <= Len(pushQ)
    BY <1>0, <1>1 DEF PushReceive
  <2>2. push' \in PushState
    BY <1>0, <1>1, <2>1 DEF PushReceive, PushState
  <2>3. late' \in BOOLEAN
    BY <1>1 DEF PushReceive
  <2> QED BY <1>1, <2>1, <2>2, <2>3 DEF PushReceive, DataTypeOK
<1>2. CASE PushReceived
  <2>1. push' \in PushState
    BY <1>0, <1>2 DEF PushReceived, PushState
  <2> QED BY <1>2, <2>1 DEF PushReceived, DataTypeOK
<1>3. CASE PushToAlg
  <2>1. push' \in PushState
    BY <1>0, <1>3 DEF PushToAlg, PushState
  <2>2. algQ' \in Seq(Positions)
    BY <1>0, <1>3 DEF PushToAlg, PushState, DataTypeOK
  <2> QED BY <1>3, <2>1, <2>2 DEF PushToAlg, DataTypeOK
<1>4. CASE PushTest
  <2>1. push.test \in 1 .. 5
    BY <1>0 DEF PushState
  <2>2. push' \in PushState
    <3>1. CASE TestHolds(push.test) /\ push.test # 2
      BY <1>0, <1>4, <3>1 DEF PushTest, PushState, Buffers
    <3>2. CASE ~(TestHolds(push.test) /\ push.test # 2) /\ (push.test = 5 \/ TestHolds(push.test))
      BY <1>a, <1>4, <3>2 DEF PushTest
    <3>3. CASE ~(push.test = 5 \/ TestHolds(push.test))
      <4>1. push' = [push EXCEPT !.test = push.test + 1] /\ push.test + 1 \in 1 .. 5
        BY <1>4, <2>1, <3>3 DEF PushTest
      <4> QED BY <1>0, <4>1 DEF PushState
    <3> QED BY <3>1, <3>2, <3>3
  <2> QED BY <1>4, <2>2 DEF PushTest, DataTypeOK
<1>5. CASE PushFill
  <2>1. push' \in PushState
    BY <1>0, <1>5 DEF PushFill, PushState
  <2> QED BY <1>5, <2>1 DEF PushFill, DataTypeOK
<1>6. CASE PushSend
  <2>1. push' \in PushState
    BY <1>0, <1>a, <1>6 DEF PushSend, AfterSend, PushState
  <2>2. udpQ' \in Seq(Buffers)
    BY <1>0, <1>b, <1>6 DEF PushSend
  <2> QED BY <1>6, <2>1, <2>2 DEF PushSend, DataTypeOK
<1>7. CASE PushSpin
  <2>1. push' \in PushState
    BY <1>0, <1>7 DEF PushSpin, PushState, Buffers
  <2> QED BY <1>7, <2>1 DEF PushSpin, DataTypeOK
<1>8. CASE SetMode
  BY <1>8 DEF SetMode, DataTypeOK
<1> QED BY <1>1, <1>2, <1>3, <1>4, <1>5, <1>6, <1>7, <1>8 DEF Push

\* What the algorithm task and the UDP thread do to them.
LEMMA SenderType ==
  ASSUME DataTypeOK, Alg \/ Udp
  PROVE  DataTypeOK'
<1>0. udp \in UdpState /\ udpQ \in Seq(Buffers)
  BY DEF DataTypeOK
<1> USE DEF plVars, pushVars, sendVars, algVars
<1>1. CASE AlgReceive
  <2>1. Head(algQ) \in Positions /\ algQ' \in Seq(Positions)
    BY <1>1 DEF AlgReceive, DataTypeOK
  <2>2. alg' \in AlgState
    BY <1>1, <2>1 DEF AlgReceive, AlgState
  <2> QED BY <1>1, <2>1, <2>2 DEF AlgReceive, DataTypeOK
<1>2. CASE AlgStart
  <2>1. alg' \in AlgState
    BY <1>2 DEF AlgStart, AlgState, DataTypeOK
  <2> QED BY <1>2, <2>1 DEF AlgStart, DataTypeOK
<1>3. CASE AlgSend
  <2>1. alg' \in AlgState
    BY <1>3 DEF AlgSend, AlgState, DataTypeOK
  <2> QED BY <1>3, <2>1 DEF AlgSend, DataTypeOK
<1>4. CASE AlgEnd
  <2>1. alg' \in AlgState /\ late' \in BOOLEAN
    BY <1>4 DEF AlgEnd, AlgIdle, AlgState, Positions, DataTypeOK
  <2> QED BY <1>4, <2>1 DEF AlgEnd, DataTypeOK
<1>5. CASE UdpReceive
  <2>1. Head(udpQ) \in Buffers /\ udpQ' \in Seq(Buffers)
    BY <1>0, <1>5 DEF UdpReceive
  <2>2. udp' \in UdpState
    BY <1>5, <2>1 DEF UdpReceive, UdpState
  <2> QED BY <1>5, <2>1, <2>2 DEF UdpReceive, DataTypeOK
<1>6. CASE UdpLock
  <2>1. udp' \in UdpState
    BY <1>0, <1>6 DEF UdpLock, UdpState
  <2> QED BY <1>6, <2>1 DEF UdpLock, DataTypeOK
<1>7. CASE UdpSend
  <2>1. udp' \in UdpState
    BY <1>0, <1>7 DEF UdpSend, UdpState
  <2> QED BY <1>7, <2>1 DEF UdpSend, DataTypeOK
<1>8. CASE UdpCall
  <2>1. udp' \in UdpState
    BY <1>8 DEF UdpCall, Waiting, UdpState
  <2> QED BY <1>8, <2>1 DEF UdpCall, DataTypeOK
<1> QED BY <1>1, <1>2, <1>3, <1>4, <1>5, <1>6, <1>7, <1>8 DEF Alg, Udp

LEMMA NextType == DataTypeOK /\ [Next]_vars => DataTypeOK'
<1> SUFFICES ASSUME DataTypeOK, [Next]_vars PROVE DataTypeOK'
  OBVIOUS
<1>1. CASE UNCHANGED vars
  BY <1>1 DEF vars, DataTypeOK, plVars, pushVars, sendVars, algVars
<1>2. CASE Next
  BY <1>2, ReaderType, PushType, SenderType DEF Next
<1> QED BY <1>1, <1>2

\* The data path keeps the types of its variables (data_path.c).
THEOREM DataTypeCorrect == Spec => []DataTypeOK
  BY InitType, NextType, PTL DEF Spec

-----------------------------------------------------------------------------
(***************************************************************************)
(* One slot more than a queue holds is enough.  The frames that are still  *)
(* needed stand in the slots before the one the next frame is copied to,   *)
(* the newest first, and there are at most Slots of them.  What a timely   *)
(* algorithm task has is the frame the push task has or had last.          *)
(***************************************************************************)
\* The slot d before p.
Before(p, d) == IF d <= p THEN p - d ELSE p - d + Slots

\* The slot of the next frame to be copied.
Coming == IF rdmapIrq \/ reader.pc = "read" THEN donePos ELSE NextWave(donePos)

\* The number of frames the interrupt thread holds.
InHand == IF reader.pc = "send" THEN 1 ELSE 0

InStep == wave = IF cpibIrq THEN donePos ELSE NextWave(donePos)

InPlace ==
  /\ reader.pc = "send" => reader.pos = Before(Coming, 1)
  /\ \A i \in 1 .. Len(pushQ) : pushQ[i] = Before(Coming, InHand + Len(pushQ) - i + 1)
  /\ push.pc # "idle" => push.pos = Before(Coming, InHand + Len(pushQ) + 1)

FewEnough ==
  /\ reader.pc = "send" => Len(pushQ) < QueueLen
  /\ reader.count < 2 => push.pc = "idle" /\ pushQ = <<>> /\ reader.pc # "send"

SlotInv == ~overrun => InStep /\ ~(rdmapIrq /\ reader.pc # "wait") /\ InPlace /\ FewEnough

LEMMA InitSlots == Init => SlotInv
  BY DEF Init, SlotInv, InStep, InPlace, FewEnough, Idle

\* Going on to the next slot moves every distance by one.
LEMMA BeforeNext ==
  ASSUME NEW p \in Positions, NEW d \in 1 .. QueueLen
  PROVE  Before(NextWave(p), d + 1) = Before(p, d)
  BY DEF Before, NextWave, Positions

LEMMA BeforeOne ==
  ASSUME NEW p \in Positions
  PROVE  Before(NextWave(p), 1) = p
  BY DEF Before, NextWave, Positions

\* The frames stay in place when no frame is copied or taken.
LEMMA SameFrames ==
  ASSUME DataTypeOK, SlotInv, overrun' = overrun,
         UNCHANGED <<wave, donePos, cpibIrq, rdmapIrq, reader, pushQ>>,
         push.pc # "idle" /\ push' \in PushState /\ (push'.pc # "idle" => push'.pos = push.pos)
  PROVE  SlotInv'
  BY DEF SlotInv, InStep, InPlace, FewEnough, Coming, InHand

LEMMA ReaderSlots ==
  ASSUME DataTypeOK, SlotInv, FrameDone \/ CpibHandler \/ Reader
  PROVE  SlotInv'
<1> SUFFICES ASSUME ~overrun' PROVE SlotInv'
  BY DEF SlotInv
<1>0. reader \in ReaderState /\ donePos \in Positions /\ wave \in Positions
      /\ pushQ \in Seq(Positions) /\ Len(pushQ) \in 0 .. QueueLen
  BY DEF DataTypeOK
<1>a. ~overrun
  BY DEF FrameDone, CpibHandler, Reader, RdmapPoll, RdmapSkip, RdmapCopy, RdmapSend
<1>b. InStep /\ ~(rdmapIrq /\ reader.pc # "wait") /\ InPlace /\ FewEnough
  BY <1>a DEF SlotInv
<1> USE DEF plVars, pushVars
<1>1. CASE FrameDone
  <2>1. reader.pc = "wait" /\ ~cpibIrq /\ ~rdmapIrq /\ donePos' = NextWave(donePos)
    BY <1>1, <1>b DEF FrameDone, InStep
  <2>2. Coming' = Coming /\ InHand' = InHand
    BY <1>1, <2>1 DEF FrameDone, Coming, InHand
  <2>3. InPlace' /\ FewEnough'
    BY <1>1, <1>b, <2>2 DEF FrameDone, InPlace, FewEnough
  <2>4. InStep'
    BY <1>1 DEF FrameDone, InStep
  <2> QED BY <1>1, <2>1, <2>3, <2>4 DEF FrameDone, SlotInv
<1>2. CASE CpibHandler
  <2>1. Coming' = Coming /\ InHand' = InHand
    BY <1>2 DEF CpibHandler, Coming, InHand, NextWave
  <2>2. InPlace' /\ FewEnough'
    BY <1>2, <1>b, <2>1 DEF CpibHandler, InPlace, FewEnough
  <2>3. InStep'
    BY <1>2, <1>b DEF CpibHandler, InStep, NextWave
  <2> QED BY <1>2, <1>b, <2>2, <2>3 DEF CpibHandler, SlotInv
<1>3. CASE RdmapPoll
  <2>1. reader'.pc = "read" /\ reader'.count = reader.count
    BY <1>0, <1>3 DEF RdmapPoll, ReaderState
  <2>2. Coming' = Coming /\ InHand' = InHand
    BY <1>3, <2>1 DEF RdmapPoll, Coming, InHand
  <2>3. InPlace' /\ FewEnough'
    BY <1>3, <1>b, <2>1, <2>2 DEF RdmapPoll, InPlace, FewEnough
  <2>4. InStep'
    BY <1>3, <1>b DEF RdmapPoll, InStep
  <2> QED BY <1>3, <2>3, <2>4 DEF RdmapPoll, SlotInv
<1>4. CASE RdmapSkip
  <2>1. reader'.pc = "wait" /\ push.pc = "idle" /\ pushQ = <<>>
    BY <1>0, <1>4, <1>b DEF RdmapSkip, ReaderState, FewEnough
  <2>2. InPlace' /\ FewEnough'
    BY <1>4, <2>1 DEF RdmapSkip, InPlace, FewEnough
  <2>3. InStep'
    BY <1>4, <1>b DEF RdmapSkip, InStep
  <2> QED BY <2>1, <2>2, <2>3 DEF SlotInv
<1>5. CASE RdmapCopy
  <2>1. reader'.pc = "send" /\ reader'.pos = donePos /\ reader'.count = 2 /\ reader.pc = "read"
    BY <1>0, <1>5 DEF RdmapCopy, ReaderState
  <2>2. ~rdmapIrq /\ ~rdmapIrq' /\ Len(pushQ) < QueueLen
    <3>1. overrun' = (overrun \/ Len(pushQ) = QueueLen) /\ rdmapIrq' = rdmapIrq
      BY <1>5 DEF RdmapCopy
    <3>2. Len(pushQ) # QueueLen
      BY <3>1, Zenon
    <3> QED BY <1>0, <1>b, <2>1, <3>1, <3>2
  <2>3. Coming = donePos /\ Coming' = NextWave(donePos) /\ InHand = 0 /\ InHand' = 1
    BY <1>5, <2>1, <2>2 DEF RdmapCopy, Coming, InHand, NextWave
  <2>4. reader'.pos = Before(Coming', 1)
    BY <1>0, <2>1, <2>3, BeforeOne
  <2>5. ASSUME NEW i \in 1 .. Len(pushQ)
        PROVE  pushQ[i] = Before(Coming', InHand' + Len(pushQ) - i + 1)
    <3> DEFINE d == Len(pushQ) - i + 1
    <3>1. d \in 1 .. QueueLen /\ InHand + Len(pushQ) - i + 1 = d
          /\ InHand' + Len(pushQ) - i + 1 = d + 1
      BY <1>0, <2>3
    <3>2. pushQ[i] = Before(Coming, d)
      BY <1>b, <3>1 DEF InPlace
    <3> HIDE DEF d
    <3> QED BY <1>0, <2>3, <3>1, <3>2, BeforeNext
  <2>6. push.pc # "idle" => push.pos = Before(Coming', InHand' + Len(pushQ) + 1)
    <3> DEFINE d == Len(pushQ) + 1
    <3>1. d \in 1 .. QueueLen /\ InHand + Len(pushQ) + 1 = d /\ InHand' + Len(pushQ) + 1 = d + 1
      BY <1>0, <2>2, <2>3
    <3>2. push.pc # "idle" => push.pos = Before(Coming, d)
      BY <1>b, <3>1 DEF InPlace
    <3> HIDE DEF d
    <3> QED BY <1>0, <2>3, <3>1, <3>2, BeforeNext
  <2>7. pushQ' = pushQ /\ push' = push
    BY <1>5 DEF RdmapCopy
  <2>8. InPlace'
    BY <2>4, <2>5, <2>6, <2>7 DEF InPlace
  <2>9. FewEnough'
    BY <2>1, <2>2, <2>7 DEF FewEnough
  <2>10. InStep'
    BY <1>5, <1>b DEF RdmapCopy, InStep, NextWave
  <2> QED BY <2>2, <2>8, <2>9, <2>10 DEF SlotInv
<1>6. CASE RdmapSend
  <2>1. /\ reader'.pc = "wait" /\ reader'.count = reader.count
        /\ reader.pc = "send" /\ reader.pos \in Positions
    BY <1>0, <1>6 DEF RdmapSend, ReaderState
  <2>2. Coming' = Coming /\ InHand = 1 /\ InHand' = 0
    BY <1>6, <2>1 DEF RdmapSend, Coming, InHand, NextWave
  <2>3. /\ pushQ' = Append(pushQ, reader.pos) /\ Len(pushQ') = Len(pushQ) + 1
        /\ pushQ'[Len(pushQ) + 1] = reader.pos
        /\ \A i \in 1 .. Len(pushQ) : pushQ'[i] = pushQ[i]
    BY <1>0, <1>6, <2>1 DEF RdmapSend
  <2>4. ASSUME NEW i \in 1 .. Len(pushQ')
        PROVE  pushQ'[i] = Before(Coming, Len(pushQ') - i + 1)
    <3>1. CASE i = Len(pushQ) + 1
      BY <1>0, <1>b, <2>1, <2>3, <3>1 DEF InPlace
    <3>2. CASE i \in 1 .. Len(pushQ)
      <4>1. pushQ[i] = Before(Coming, InHand + Len(pushQ) - i + 1)
        BY <1>b, <3>2 DEF InPlace
      <4>2. InHand + Len(pushQ) - i + 1 = Len(pushQ') - i + 1
        BY <1>0, <2>2, <2>3, <3>2
      <4> QED BY <2>3, <3>2, <4>1, <4>2
    <3> QED BY <1>0, <2>3, <3>1, <3>2
  <2>5. push.pc # "idle" => push.pos = Before(Coming, Len(pushQ') + 1)
    <3>1. InHand + Len(pushQ) + 1 = Len(pushQ') + 1
      BY <1>0, <2>2, <2>3
    <3> QED BY <1>b, <3>1 DEF InPlace
  <2>6. InPlace'
    <3>1. \A i \in 1 .. Len(pushQ') :
            /\ InHand' + Len(pushQ') - i + 1 = Len(pushQ') - i + 1
            /\ InHand' + Len(pushQ') + 1 = Len(pushQ') + 1
      BY <1>0, <2>2, <2>3
    <3>2. InHand' + Len(pushQ') + 1 = Len(pushQ') + 1
      BY <1>0, <2>2, <2>3
    <3>3. push' = push
      BY <1>6 DEF RdmapSend
    <3> QED BY <2>1, <2>2, <2>4, <2>5, <3>1, <3>2, <3>3 DEF InPlace
  <2>7. FewEnough'
    BY <1>0, <1>b, <2>1 DEF FewEnough, ReaderState
  <2>8. InStep'
    BY <1>6, <1>b DEF RdmapSend, InStep, NextWave
  <2> QED BY <2>1, <2>6, <2>7, <2>8 DEF SlotInv
<1> QED BY <1>1, <1>2, <1>3, <1>4, <1>5, <1>6 DEF Reader

\* The push task takes the oldest frame out of the queue.
LEMMA ReceiveSlots ==
  ASSUME DataTypeOK, SlotInv, PushReceive
  PROVE  SlotInv'
<1> SUFFICES ASSUME ~overrun PROVE SlotInv'
  BY DEF SlotInv, PushReceive
<1>0. reader \in ReaderState /\ pushQ \in Seq(Positions) /\ Len(pushQ) \in 1 .. QueueLen
  BY DEF DataTypeOK, PushReceive
<1>1. InStep /\ ~(rdmapIrq /\ reader.pc # "wait") /\ InPlace /\ FewEnough
  BY DEF SlotInv
<1>2. /\ pushQ' = Tail(pushQ) /\ Len(pushQ') = Len(pushQ) - 1
      /\ \A i \in 1 .. Len(pushQ') : pushQ'[i] = pushQ[i + 1]
  BY <1>0 DEF PushReceive
<1>3. push'.pc = "received" /\ push'.pos = pushQ[1]
  BY <1>0 DEF PushReceive, DataTypeOK, PushState
<1>4. Coming' = Coming /\ InHand' = InHand /\ InHand \in {0, 1} /\ reader' = reader
  BY DEF PushReceive, Coming, InHand, NextWave, plVars
<1>5. \A i \in 1 .. Len(pushQ') : pushQ'[i] = Before(Coming, InHand + Len(pushQ') - i + 1)
  <2> TAKE i \in 1 .. Len(pushQ')
  <2>1. i + 1 \in 1 .. Len(pushQ) /\ InHand + Len(pushQ) - (i + 1) + 1 = InHand + Len(pushQ') - i + 1
    BY <1>0, <1>2, <1>4
  <2> QED BY <1>1, <1>2, <2>1 DEF InPlace
<1>6. push'.pos = Before(Coming, InHand + Len(pushQ') + 1)
  <2>1. 1 \in 1 .. Len(pushQ) /\ InHand + Len(pushQ) - 1 + 1 = InHand + Len(pushQ') + 1
    BY <1>0, <1>2, <1>4
  <2> QED BY <1>1, <1>3, <2>1 DEF InPlace
<1>7. InPlace'
  BY <1>1, <1>4, <1>5, <1>6 DEF InPlace
<1>8. FewEnough'
  BY <1>0, <1>1, <1>2, <1>4 DEF FewEnough, PushReceive
<1>9. InStep' /\ rdmapIrq' = rdmapIrq
  BY <1>1 DEF PushReceive, InStep, NextWave, plVars
<1> QED BY <1>1, <1>4, <1>7, <1>8, <1>9 DEF SlotInv

LEMMA NextSlots == DataTypeOK /\ SlotInv /\ [Next]_vars => SlotInv'
<1> SUFFICES ASSUME DataTypeOK, SlotInv, [Next]_vars PROVE SlotInv'
  OBVIOUS
<1>0. DataTypeOK' /\ push \in PushState /\ push' \in PushState
  BY NextType DEF DataTypeOK
<1> USE DEF plVars, pushVars, sendVars, algVars
<1>1. CASE UNCHANGED vars \/ SetMode \/ Alg \/ Udp
  <2>1. UNCHANGED <<wave, donePos, cpibIrq, rdmapIrq, reader, pushQ, push, overrun>>
    BY <1>1 DEF vars, SetMode, Alg, Udp, AlgReceive, AlgStart, AlgSend, AlgEnd,
                UdpReceive, UdpLock, UdpSend, UdpCall
  <2> QED BY <2>1 DEF SlotInv, InStep, InPlace, FewEnough, Coming, InHand, NextWave, Before
<1>2. CASE FrameDone \/ CpibHandler \/ Reader
  BY <1>2, ReaderSlots
<1>3. CASE PushReceive
  BY <1>3, ReceiveSlots
<1>4. CASE PushReceived \/ PushToAlg \/ PushTest \/ PushFill \/ PushSend \/ PushSpin
  <2>1. /\ UNCHANGED <<wave, donePos, cpibIrq, rdmapIrq, reader, pushQ, overrun>>
        /\ push.pc # "idle"
    BY <1>4 DEF PushReceived, PushToAlg, PushTest, PushFill, PushSend, PushSpin
  <2>2. push'.pc # "idle" => push'.pos = push.pos
    <3>1. CASE PushTest
      BY <1>0, <3>1 DEF PushTest, Idle, PushState
    <3>2. CASE PushSend
      BY <1>0, <3>2 DEF PushSend, AfterSend, Idle, PushState
    <3>3. CASE PushReceived \/ PushToAlg \/ PushFill \/ PushSpin
      BY <1>0, <3>3 DEF PushReceived, PushToAlg, PushFill, PushSpin, PushState
    <3> QED BY <1>4, <3>1, <3>2, <3>3
  <2> QED BY <1>0, <2>1, <2>2, SameFrames
<1> QED BY <1>1, <1>2, <1>3, <1>4 DEF Next, Push

\* A timely algorithm task has the frame of the push task, or the one before all that
\* wait for it; and none before the first frame was copied.
AlgInv == ~overrun => /\ ~late => \A p \in AlgNeeds : p = Before(Coming, InHand + Len(pushQ) + 1)
                      /\ reader.count < 2 => AlgNeeds = {}

\* It stays so while no frame is copied and the task gets none.
LEMMA AlgSame ==
  ASSUME AlgInv, ~overrun, Coming' = Coming, InHand' + Len(pushQ') = InHand + Len(pushQ),
         AlgNeeds' \subseteq AlgNeeds, ~late' => ~late \/ AlgNeeds' = {},
         reader'.count = reader.count
  PROVE  AlgInv'
BY DEF AlgInv

LEMMA AlgSlots ==
  ASSUME DataTypeOK, SlotInv, AlgInv, [Next]_vars
  PROVE  AlgInv'
<1> SUFFICES ASSUME ~overrun' PROVE AlgInv'
  BY DEF AlgInv
<1>0. /\ reader \in ReaderState /\ push \in PushState /\ donePos \in Positions
      /\ pushQ \in Seq(Positions) /\ Len(pushQ) \in 0 .. QueueLen
      /\ algQ \in Seq(Positions) /\ alg \in AlgState
  BY DEF DataTypeOK
<1> USE DEF plVars, pushVars, sendVars, algVars
<1>a. ~overrun
  BY DEF Next, vars, FrameDone, CpibHandler, Reader, RdmapPoll, RdmapSkip, RdmapCopy, RdmapSend, SetMode,
         Push, PushReceive, PushReceived, PushToAlg, PushTest, PushFill, PushSend, PushSpin, Alg,
         AlgReceive, AlgStart, AlgSend, AlgEnd, Udp, UdpReceive, UdpLock, UdpSend, UdpCall
<1>b. InStep /\ ~(rdmapIrq /\ reader.pc # "wait") /\ InPlace /\ FewEnough
  BY <1>a DEF SlotInv
<1>1. CASE \/ UNCHANGED vars \/ SetMode \/ Udp
           \/ PushReceived \/ PushTest \/ PushFill \/ PushSend \/ PushSpin
  <2>1. UNCHANGED <<wave, donePos, cpibIrq, rdmapIrq, reader, pushQ, algQ, alg, late, overrun>>
    BY <1>1 DEF vars, SetMode, Udp, UdpReceive, UdpLock, UdpSend, UdpCall,
                PushReceived, PushTest, PushFill, PushSend, PushSpin
  <2>2. Coming' = Coming /\ InHand' = InHand /\ AlgNeeds' = AlgNeeds
    BY <2>1 DEF Coming, InHand, AlgNeeds, NextWave
  <2> QED BY <1>a, <2>1, <2>2, AlgSame
<1>2. CASE FrameDone \/ CpibHandler \/ RdmapPoll
  <2>1. Coming' = Coming /\ InHand' = InHand /\ reader'.count = reader.count
    <3>1. CASE FrameDone
      <4>1. reader.pc = "wait" /\ ~cpibIrq /\ ~rdmapIrq /\ donePos' = NextWave(donePos)
        BY <3>1, <1>b DEF FrameDone, InStep
      <4> QED BY <3>1, <4>1 DEF FrameDone, Coming, InHand
    <3>2. CASE CpibHandler
      BY <3>2 DEF CpibHandler, Coming, InHand, NextWave
    <3>3. CASE RdmapPoll
      BY <1>0, <3>3 DEF RdmapPoll, Coming, InHand, ReaderState
    <3> QED BY <1>2, <3>1, <3>2, <3>3
  <2>2. UNCHANGED <<pushQ, algQ, alg, late>> /\ AlgNeeds' = AlgNeeds
    BY <1>2 DEF FrameDone, CpibHandler, RdmapPoll, AlgNeeds
  <2> QED BY <1>a, <2>1, <2>2, AlgSame
<1>3. CASE RdmapSkip
  <2>1. UNCHANGED <<algQ, alg>> /\ reader.count < 2
    BY <1>3 DEF RdmapSkip
  <2>2. AlgNeeds' = {}
    BY <1>a, <2>1 DEF AlgInv, AlgNeeds
  <2> QED BY <2>2 DEF AlgInv
<1>4. CASE RdmapCopy
  <2>1. /\ reader'.pc = "send" /\ reader'.count = 2 /\ reader.pc = "read" /\ ~rdmapIrq
        /\ UNCHANGED <<rdmapIrq, donePos, pushQ, algQ, alg, late>>
    BY <1>0, <1>b, <1>4 DEF RdmapCopy, ReaderState
  <2>2. Len(pushQ) < QueueLen
    <3>1. Len(pushQ) # QueueLen
      <4>1. overrun' = (overrun \/ Len(pushQ) = QueueLen)
        BY <1>4 DEF RdmapCopy
      <4> QED BY <4>1, Zenon
    <3> QED BY <1>0, <3>1
  <2>3. Coming = donePos /\ Coming' = NextWave(donePos) /\ InHand = 0 /\ InHand' = 1
    BY <2>1 DEF Coming, InHand, NextWave
  <2>4. ASSUME ~late, NEW p \in AlgNeeds PROVE p = Before(Coming', InHand' + Len(pushQ) + 1)
    <3> DEFINE d == Len(pushQ) + 1
    <3>1. d \in 1 .. QueueLen /\ InHand + Len(pushQ) + 1 = d /\ InHand' + Len(pushQ) + 1 = d + 1
      BY <1>0, <2>2, <2>3
    <3>2. p = Before(Coming, d)
      BY <1>a, <2>4, <3>1 DEF AlgInv
    <3> HIDE DEF d
    <3> QED BY <1>0, <2>3, <3>1, <3>2, BeforeNext
  <2>5. AlgNeeds' = AlgNeeds
    BY <2>1 DEF AlgNeeds
  <2> QED BY <2>1, <2>4, <2>5 DEF AlgInv
<1>5. CASE RdmapSend
  <2>1. /\ reader.pc = "send" /\ reader'.pc = "wait" /\ reader'.count = reader.count
        /\ UNCHANGED <<wave, donePos, cpibIrq, rdmapIrq, algQ, alg, late, overrun>>
    BY <1>0, <1>5 DEF RdmapSend, ReaderState
  <2>2. Coming' = Coming /\ AlgNeeds' = AlgNeeds
    BY <2>1 DEF Coming, AlgNeeds, NextWave
  <2>3. InHand' + Len(pushQ') = InHand + Len(pushQ)
    <3>1. Len(pushQ') = Len(pushQ) + 1
      BY <1>0, <1>5 DEF RdmapSend, ReaderState
    <3> QED BY <1>0, <2>1, <3>1 DEF InHand
  <2> QED BY <1>a, <2>1, <2>2, <2>3, AlgSame
<1>6. CASE PushReceive
  <2>1. UNCHANGED <<reader, algQ, alg>> /\ late' = (AlgNeeds # {})
    BY <1>6 DEF PushReceive
  <2>2. AlgNeeds' = AlgNeeds
    BY <2>1 DEF AlgNeeds
  <2>3. ~late' => AlgNeeds' = {}
    BY <2>1, <2>2
  <2> QED BY <1>a, <2>1, <2>2, <2>3 DEF AlgInv
<1>7. CASE PushToAlg
  <2>1. /\ UNCHANGED <<wave, donePos, cpibIrq, rdmapIrq, reader, pushQ, alg, late>>
        /\ algQ' = Append(algQ, push.pos) /\ push.pc # "idle" /\ push.pos \in Positions
    BY <1>0, <1>7 DEF PushToAlg, PushState
  <2>2. Coming' = Coming /\ InHand' = InHand
    BY <2>1 DEF Coming, InHand, NextWave
  <2>3. AlgNeeds' \subseteq AlgNeeds \cup {push.pos}
    <3>1. Range(algQ') \subseteq Range(algQ) \cup {push.pos}
      BY <1>0, <2>1 DEF Range
    <3> QED BY <2>1, <3>1 DEF AlgNeeds
  <2>4. push.pos = Before(Coming, InHand + Len(pushQ) + 1) /\ ~(reader.count < 2)
    BY <1>b, <2>1 DEF InPlace, FewEnough
  <2> QED BY <1>a, <2>1, <2>2, <2>3, <2>4 DEF AlgInv
<1>8. CASE Alg
  <2>1. /\ UNCHANGED <<wave, donePos, cpibIrq, rdmapIrq, reader, pushQ, overrun>>
        /\ Coming' = Coming /\ InHand' = InHand
    BY <1>8 DEF Alg, AlgReceive, AlgStart, AlgSend, AlgEnd, Coming, InHand, NextWave
  <2>2. AlgNeeds' \subseteq AlgNeeds /\ (~late' => ~late \/ AlgNeeds' = {})
    <3>1. CASE AlgReceive
      <4>1. algQ # <<>> /\ algQ' = Tail(algQ) /\ alg' = [pc |-> "taken", pos |-> Head(algQ)] /\ late' = late
        BY <3>1 DEF AlgReceive
      <4>2. Range(algQ') \subseteq Range(algQ) /\ Head(algQ) \in Range(algQ)
        BY <1>0, <4>1 DEF Range
      <4> QED BY <4>1, <4>2 DEF AlgNeeds
    <3>2. CASE AlgStart \/ AlgSend
      BY <1>0, <3>2 DEF AlgStart, AlgSend, AlgState, AlgNeeds
    <3>3. CASE AlgEnd
      <4>1. alg'.pc = "idle" /\ algQ' = algQ /\ late' = (late /\ algQ # <<>>)
        BY <3>3 DEF AlgEnd, AlgIdle
      <4>2. algQ = <<>> => Range(algQ) = {}
        BY DEF Range
      <4> QED BY <4>1, <4>2 DEF AlgNeeds
    <3> QED BY <1>8, <3>1, <3>2, <3>3 DEF Alg
  <2> QED BY <1>a, <2>1, <2>2, AlgSame
<1> QED BY <1>1, <1>2, <1>3, <1>4, <1>5, <1>6, <1>7, <1>8 DEF Next, Reader, Push

\* The next frame is not copied to a slot that lies less than Slots before it.
LEMMA BeforeOther ==
  ASSUME NEW p \in Positions, NEW d \in 1 .. QueueLen
  PROVE  Before(p, d) # p
  BY DEF Before, Positions

\* No frame is copied over one that waits, is being pushed or is with a timely algorithm
\* task, unless a thread fell behind the PL: the slots of data_path.c:276 and the queues
\* of :172 fit together.
THEOREM SlotsAlwaysSuffice == Spec => SlotsSuffice
<1>1. ASSUME DataTypeOK, SlotInv, AlgInv, [Next]_vars, reader.pc = "read", reader'.pc = "send", ~overrun'
      PROVE  reader'.pos \notin Needed
  <2>0. /\ reader \in ReaderState /\ donePos \in Positions
        /\ pushQ \in Seq(Positions) /\ Len(pushQ) \in 0 .. QueueLen
    BY <1>1 DEF DataTypeOK
  <2>1. RdmapCopy
    BY <1>1, <2>0 DEF Next, vars, pushVars, sendVars, algVars, FrameDone, CpibHandler, Reader, RdmapPoll,
           RdmapSkip, RdmapSend, SetMode, Push, PushReceive, PushReceived, PushToAlg, PushTest, PushFill,
           PushSend, PushSpin, Alg, AlgReceive, AlgStart, AlgSend, AlgEnd, Udp, UdpReceive, UdpLock,
           UdpSend, UdpCall, ReaderState
  <2>2. ~overrun /\ Len(pushQ) # QueueLen /\ reader'.pos = donePos
    <3>1. overrun' = (overrun \/ Len(pushQ) = QueueLen)
      BY <2>1 DEF RdmapCopy
    <3>2. ~overrun /\ Len(pushQ) # QueueLen
      BY <1>1, <3>1, Zenon
    <3> QED BY <2>0, <2>1, <3>2 DEF RdmapCopy, ReaderState
  <2>3. InPlace /\ Coming = donePos /\ InHand = 0
    BY <1>1, <2>2 DEF SlotInv, Coming, InHand
  <2>4. Len(pushQ) + 1 \in 1 .. QueueLen /\ InHand + Len(pushQ) + 1 = Len(pushQ) + 1
    BY <2>0, <2>2, <2>3
  <2>5. ASSUME NEW i \in 1 .. Len(pushQ) PROVE pushQ[i] # donePos
    <3> DEFINE d == Len(pushQ) - i + 1
    <3>1. d \in 1 .. QueueLen /\ InHand + Len(pushQ) - i + 1 = d
      BY <2>0, <2>3
    <3>2. pushQ[i] = Before(donePos, d)
      BY <2>3, <3>1 DEF InPlace
    <3> HIDE DEF d
    <3> QED BY <2>0, <3>1, <3>2, BeforeOther
  <2>6. donePos \notin Range(pushQ)
    BY <2>0, <2>5 DEF Range
  <2>7. Before(donePos, Len(pushQ) + 1) # donePos
    BY <2>0, <2>4, BeforeOther
  <2>8. push.pc # "idle" => push.pos # donePos
    BY <2>3, <2>4, <2>7 DEF InPlace
  <2>9. ~late => donePos \notin AlgNeeds
    BY <1>1, <2>2, <2>3, <2>4, <2>7 DEF AlgInv
  <2> QED BY <2>2, <2>6, <2>8, <2>9 DEF Needed
<1>2. Init => AlgInv
  BY DEF Init, AlgInv, AlgNeeds, AlgIdle, Range
<1>3. DataTypeOK /\ SlotInv /\ AlgInv /\ [Next]_vars => AlgInv'
  BY AlgSlots
<1>4. DataTypeOK /\ SlotInv /\ AlgInv /\ [Next]_vars
        => [reader.pc = "read" /\ reader'.pc = "send" /\ ~overrun' => reader'.pos \notin Needed]_vars
  BY <1>1
<1> QED BY <1>2, <1>3, <1>4, InitType, NextType, InitSlots, NextSlots, PTL DEF Spec, SlotsSuffice

-----------------------------------------------------------------------------
(***************************************************************************)
(* The buffers.  While the flag is down neither the queue nor the UDP      *)
(* thread has one, and never more than one.                                *)
(***************************************************************************)
Owned ==
  /\ push.pc = "fill" => ~busy
  /\ push.pc = "send" => udpQ = <<>> /\ udp.buffer = Nothing /\ busy
  /\ ~busy => udpQ = <<>> /\ udp.buffer = Nothing
  /\ udpQ # <<>> => Len(udpQ) = 1 /\ udp.buffer = Nothing
  /\ udp.pc = "wait" <=> udp.buffer = Nothing

LEMMA InitOwned == Init => Owned /\ Handover!Init
  BY DEF Init, Owned, Idle, Waiting, Handover!Init, Filled, Out, Range

\* The buffers a queue of one or no message points to.
LEMMA OutFacts ==
  ASSUME DataTypeOK, Owned
  PROVE  /\ udpQ = <<>> /\ udp.buffer = Nothing => Out = {}
         /\ udpQ = <<>> /\ udp.buffer # Nothing => Out = {udp.buffer}
         /\ udpQ # <<>> => Out = {Head(udpQ)} /\ Tail(udpQ) = <<>> /\ Head(udpQ) \in Buffers
<1>1. udpQ \in Seq(Buffers)
  BY DEF DataTypeOK
<1>2. udpQ = <<>> => Range(udpQ) = {}
  BY DEF Range
<1>3. udpQ # <<>> => /\ Range(udpQ) = {Head(udpQ)} /\ Tail(udpQ) = <<>>
                     /\ Head(udpQ) \in Buffers /\ udp.buffer = Nothing
  <2> SUFFICES ASSUME udpQ # <<>>
               PROVE  /\ Range(udpQ) = {Head(udpQ)} /\ Tail(udpQ) = <<>>
                      /\ Head(udpQ) \in Buffers /\ udp.buffer = Nothing
    OBVIOUS
  <2>1. Len(udpQ) = 1 /\ udp.buffer = Nothing
    BY DEF Owned
  <2>2. DOMAIN udpQ = {1} /\ Head(udpQ) = udpQ[1] /\ udpQ[1] \in Buffers
    BY <1>1, <2>1
  <2>3. Tail(udpQ) = <<>>
    <3>1. Tail(udpQ) \in Seq(Buffers) /\ Len(Tail(udpQ)) = 0
      BY <1>1, <2>1
    <3> QED BY <3>1, EmptySeq
  <2> QED BY <2>1, <2>2, <2>3 DEF Range
<1> QED BY <1>2, <1>3 DEF Out

\* A step that leaves the flag, the messages and what is filled alone.
LEMMA SameBuffers ==
  ASSUME Owned, UNCHANGED <<busy, udpQ, udp>>, Filled' = Filled,
         push'.pc \in {"fill", "send"} => push'.pc = push.pc
  PROVE  Owned' /\ UNCHANGED Handover!vars
  BY DEF Owned, Handover!vars, Out

\* The push task: it begins to fill a buffer with the flag down, and hands it over.
LEMMA PushOwned ==
  ASSUME DataTypeOK, Owned, Push \/ SetMode
  PROVE  Owned' /\ [Handover!Next]_(Handover!vars)
<1>0. push \in PushState /\ push.buffer \in Buffers
  BY DEF DataTypeOK, PushState
<1> USE DEF sendVars, pushVars
<1>1. CASE PushReceive \/ PushReceived \/ PushToAlg \/ SetMode
  <2>1. /\ UNCHANGED <<busy, udpQ, udp>>
        /\ push' = push \/ (push.pc \notin {"fill", "send"} /\ push'.pc \notin {"fill", "send"})
    BY <1>0, <1>1 DEF PushReceive, PushReceived, PushToAlg, SetMode, PushState
  <2>2. Filled' = Filled
    BY <2>1 DEF Filled
  <2> QED BY <2>1, <2>2, SameBuffers
<1>2. CASE PushTest
  <2>1. UNCHANGED <<busy, udpQ, udp>> /\ push.pc = "test" /\ Filled = {}
    BY <1>2 DEF PushTest, Filled
  <2>2. CASE TestHolds(push.test) /\ push.test # 2
    <3>1. ~busy /\ push'.pc = "fill" /\ push'.buffer \in Buffers
      BY <1>0, <1>2, <2>2 DEF PushTest, TestHolds, PushState, Buffers
    <3>2. Out = {} /\ Out' = Out
      BY <2>1, <3>1, OutFacts DEF Owned, Out
    <3>3. Owned'
      BY <2>1, <3>1 DEF Owned
    <3>4. Handover!Fill(push'.buffer)
      BY <2>1, <3>1, <3>2 DEF Handover!Fill, Filled
    <3> QED BY <3>1, <3>3, <3>4 DEF Handover!Next
  <2>3. CASE ~(TestHolds(push.test) /\ push.test # 2)
    <3>1. push'.pc \in {"idle", "test"}
      BY <1>0, <1>2, <2>3 DEF PushTest, Idle, PushState
    <3>2. Filled' = Filled
      BY <2>1, <3>1 DEF Filled
    <3> QED BY <2>1, <3>1, <3>2, SameBuffers
  <2> QED BY <2>2, <2>3
<1>3. CASE PushFill
  <2>1. /\ push.pc = "fill" /\ push'.pc = "send" /\ push'.buffer = push.buffer
        /\ busy' = TRUE /\ UNCHANGED <<udpQ, udp>>
    BY <1>0, <1>3 DEF PushFill, PushState
  <2>2. Filled' = Filled /\ Out' = Out
    BY <2>1 DEF Filled, Out
  <2>3. Owned'
    BY <2>1 DEF Owned
  <2> QED BY <2>2, <2>3 DEF Handover!vars
<1>4. CASE PushSend
  <2>1. /\ push.pc = "send" /\ udpQ = <<>> /\ udp.buffer = Nothing /\ busy
        /\ UNCHANGED <<busy, udp>> /\ push'.pc \in {"spin", "idle"}
    BY <1>0, <1>4 DEF PushSend, Owned, AfterSend, Idle, PushState
  <2>2. udpQ' = <<push.buffer>>
    <3>1. Len(<<>>) < UdpLen
      OBVIOUS
    <3> QED BY <1>4, <2>1, <3>1 DEF PushSend
  <2>3. Owned'
    BY <2>1, <2>2 DEF Owned
  <2>4. Filled = {push.buffer} /\ Filled' = {} /\ Out' = {push.buffer}
    BY <2>1, <2>2 DEF Filled, Out, Range
  <2> QED BY <2>3, <2>4 DEF Handover!Hand, Handover!Next
<1>5. CASE PushSpin
  <2>1. /\ push.pc = "spin" /\ push'.pc = "fill" /\ push'.buffer = "rdmap" /\ ~busy
        /\ UNCHANGED <<busy, udpQ, udp>>
    BY <1>0, <1>5 DEF PushSpin, PushState
  <2>2. Out = {} /\ Out' = Out
    BY <2>1, OutFacts DEF Owned, Out
  <2>3. Owned'
    BY <2>1 DEF Owned
  <2>4. Handover!Fill("rdmap")
    BY <2>1, <2>2 DEF Handover!Fill, Filled
  <2> QED BY <2>3, <2>4 DEF Handover!Next, Buffers
<1> QED BY <1>1, <1>2, <1>3, <1>4, <1>5 DEF Push

\* The UDP thread: the callback returns what it has.
LEMMA UdpOwned ==
  ASSUME DataTypeOK, Owned, Udp
  PROVE  Owned' /\ [Handover!Next]_(Handover!vars)
<1>0. udp \in UdpState
  BY DEF DataTypeOK
<1> USE DEF pushVars
<1>1. CASE UdpReceive
  <2>1. /\ udp.buffer = Nothing /\ Out = {Head(udpQ)} /\ Head(udpQ) \in Buffers /\ udpQ' = <<>>
        /\ Head(udpQ) # Nothing
    BY <1>1, OutFacts DEF UdpReceive, Owned, Buffers, Nothing
  <2>2. udp'.buffer = Head(udpQ) /\ udp'.pc # "wait" /\ UNCHANGED <<push, busy>>
    BY <1>1 DEF UdpReceive
  <2>3. Out' = Out /\ Filled' = Filled
    BY <2>1, <2>2 DEF Out, Filled, Range
  <2>4. Owned'
    BY <1>1, <2>1, <2>2 DEF Owned, UdpReceive
  <2> QED BY <2>3, <2>4 DEF Handover!vars
<1>2. CASE UdpLock \/ UdpSend
  <2>1. /\ udp.pc # "wait" /\ udp'.pc # "wait" /\ udp'.buffer = udp.buffer
        /\ UNCHANGED <<push, busy, udpQ>>
    BY <1>0, <1>2 DEF UdpLock, UdpSend, UdpState
  <2>2. Out' = Out /\ Filled' = Filled
    BY <2>1 DEF Out, Filled
  <2>3. Owned'
    BY <2>1 DEF Owned
  <2> QED BY <2>2, <2>3 DEF Handover!vars
<1>3. CASE UdpCall
  <2>1. /\ udp.buffer # Nothing /\ udpQ = <<>> /\ Out # {}
        /\ udpQ' = udpQ /\ udp' = Waiting /\ UNCHANGED push
    BY <1>3, OutFacts DEF UdpCall, Owned
  <2>2. push.pc \notin {"fill", "send"}
    BY <1>0, <2>1 DEF Owned
  <2>3. Owned'
    BY <2>1, <2>2 DEF Owned, Waiting
  <2>4. Out' = {} /\ Filled' = Filled
    BY <2>1 DEF Out, Filled, Waiting, Range
  <2> QED BY <2>1, <2>3, <2>4 DEF Handover!Return, Handover!Next
<1> QED BY <1>1, <1>2, <1>3 DEF Udp

LEMMA NextOwned == DataTypeOK /\ Owned /\ [Next]_vars => Owned' /\ [Handover!Next]_(Handover!vars)
<1> SUFFICES ASSUME DataTypeOK, Owned, [Next]_vars
             PROVE  Owned' /\ [Handover!Next]_(Handover!vars)
  OBVIOUS
<1>1. CASE UNCHANGED vars \/ FrameDone \/ CpibHandler \/ Reader \/ Alg
  <2>1. UNCHANGED <<busy, udpQ, udp, push>>
    BY <1>1 DEF vars, sendVars, pushVars, FrameDone, CpibHandler, Reader, RdmapPoll, RdmapSkip,
                RdmapCopy, RdmapSend, Alg, AlgReceive, AlgStart, AlgSend, AlgEnd
  <2>2. Filled' = Filled
    BY <2>1 DEF Filled
  <2> QED BY <2>1, <2>2, SameBuffers
<1>2. CASE Push \/ SetMode
  BY <1>2, PushOwned
<1>3. CASE Udp
  BY <1>3, UdpOwned
<1> QED BY <1>1, <1>2, <1>3 DEF Next

\* Every step of the data path is one of SendBuffer or leaves the buffers alone: the
\* push task never touches a buffer the UDP thread has (data_path.c:497-671).
THEOREM HandoverSafe == Spec => Handover!Safety
  BY InitType, NextType, InitOwned, NextOwned, PTL DEF Spec, Handover!Safety
-----------------------------------------------------------------------------
(***************************************************************************)
(* The waits                                                               *)
(***************************************************************************)
\* The flag stands for a buffer on its way, the lock for a message being sent.
WaitInv ==
  /\ busy => push.pc = "send" \/ udpQ # <<>> \/ udp.buffer # Nothing
  /\ lock = "alg" <=> alg.pc = "send"
  /\ lock = "udp" <=> udp.pc = "send"

LEMMA InitWait == Init => WaitInv
  BY DEF Init, WaitInv, Idle, Waiting, AlgIdle, Nothing

\* A step of the push task: the flag goes up before the message is sent, and a message
\* always finds the queue empty.
LEMMA PushWait ==
  ASSUME DataTypeOK, Owned, WaitInv, Push \/ SetMode
  PROVE  WaitInv'
<1>0. push \in PushState
  BY DEF DataTypeOK
<1> USE DEF sendVars, algVars
<1>1. CASE PushReceive \/ PushReceived \/ PushToAlg \/ SetMode
  <2>1. UNCHANGED <<busy, udpQ, udp, lock, alg>> /\ (push.pc = "send" => push'.pc = "send")
    BY <1>0, <1>1 DEF PushReceive, PushReceived, PushToAlg, SetMode, pushVars, PushState
  <2> QED BY <2>1 DEF WaitInv
<1>2. CASE PushTest \/ PushSpin
  <2>1. UNCHANGED <<busy, udpQ, udp, lock, alg>> /\ push.pc # "send"
    BY <1>2 DEF PushTest, PushSpin
  <2> QED BY <2>1 DEF WaitInv
<1>3. CASE PushFill
  <2>1. UNCHANGED <<udpQ, udp, lock, alg>> /\ push'.pc = "send"
    BY <1>0, <1>3 DEF PushFill, PushState
  <2> QED BY <2>1 DEF WaitInv
<1>4. CASE PushSend
  <2>1. udpQ = <<>> /\ push.buffer \in Buffers
    BY <1>0, <1>4 DEF PushSend, Owned, PushState
  <2>2. udpQ' = Append(udpQ, push.buffer)
    BY <1>4, <2>1, DataAssumption DEF PushSend
  <2>3. udpQ' # <<>> /\ UNCHANGED <<busy, udp, lock, alg>>
    BY <1>4, <2>1, <2>2 DEF PushSend
  <2> QED BY <2>3 DEF WaitInv
<1> QED BY <1>1, <1>2, <1>3, <1>4 DEF Push

\* A step of the UDP thread: it keeps what it has received until the callback.
LEMMA UdpWait ==
  ASSUME DataTypeOK, Owned, WaitInv, Udp
  PROVE  WaitInv'
<1>0. udp \in UdpState /\ udpQ \in Seq(Buffers)
  BY DEF DataTypeOK
<1>1. CASE UdpReceive
  <2>1. Head(udpQ) \in Buffers
    BY <1>0, <1>1 DEF UdpReceive
  <2>2. /\ udp'.buffer # Nothing /\ udp.pc # "send" /\ udp'.pc # "send"
        /\ UNCHANGED <<busy, push, lock, alg>>
    BY <1>1, <2>1 DEF UdpReceive, Buffers, Nothing, pushVars, algVars
  <2> QED BY <2>2 DEF WaitInv
<1>2. CASE UdpLock
  <2>1. /\ lock = Nothing /\ lock' = "udp" /\ udp'.pc = "send" /\ udp'.buffer = udp.buffer
        /\ UNCHANGED <<busy, push, udpQ, alg>>
    BY <1>0, <1>2 DEF UdpLock, UdpState, pushVars, algVars
  <2> QED BY <2>1 DEF WaitInv, Nothing
<1>3. CASE UdpSend
  <2>1. /\ lock = "udp" /\ lock' = Nothing /\ udp'.pc = "call" /\ udp'.buffer = udp.buffer
        /\ UNCHANGED <<busy, push, udpQ, alg>>
    BY <1>0, <1>3 DEF UdpSend, UdpState, pushVars, algVars, WaitInv
  <2> QED BY <2>1 DEF WaitInv, Nothing
<1>4. CASE UdpCall
  <2>1. ~busy' /\ udp.pc # "send" /\ udp'.pc # "send" /\ UNCHANGED <<lock, alg>>
    BY <1>4 DEF UdpCall, Waiting, algVars
  <2> QED BY <2>1 DEF WaitInv
<1> QED BY <1>1, <1>2, <1>3, <1>4 DEF Udp

LEMMA NextWait == DataTypeOK /\ Owned /\ WaitInv /\ [Next]_vars => WaitInv'
<1> SUFFICES ASSUME DataTypeOK, Owned, WaitInv, [Next]_vars PROVE WaitInv'
  OBVIOUS
<1>1. CASE UNCHANGED vars \/ FrameDone \/ CpibHandler \/ Reader
  <2>1. UNCHANGED <<busy, udpQ, udp, push, lock, alg>>
    BY <1>1 DEF vars, sendVars, algVars, pushVars, FrameDone, CpibHandler, Reader, RdmapPoll,
                RdmapSkip, RdmapCopy, RdmapSend
  <2> QED BY <2>1 DEF WaitInv
<1>2. CASE Alg
  <2>1. UNCHANGED <<busy, udpQ, udp, push>>
    BY <1>2 DEF Alg, AlgReceive, AlgStart, AlgSend, AlgEnd, sendVars, pushVars
  <2>2. (lock' = "alg" <=> alg'.pc = "send") /\ (lock' = "udp" <=> udp.pc = "send")
    BY <1>2 DEF Alg, AlgReceive, AlgStart, AlgSend, AlgEnd, AlgIdle, AlgState, DataTypeOK, sendVars,
                WaitInv, Nothing
  <2> QED BY <2>1, <2>2 DEF WaitInv
<1>3. CASE Push \/ SetMode
  BY <1>3, PushWait
<1>4. CASE Udp
  BY <1>4, UdpWait
<1> QED BY <1>1, <1>2, <1>3, <1>4 DEF Next

\* No thread waits for something nobody will do: the flag the push task spins on is up
\* only while the UDP thread has or gets the buffer, no message is lost at a full queue,
\* and who has the lock does not wait itself (data_path.c:497-671).
THEOREM NobodyIsStuck == Spec => []WaitsHaveAnEnd
<1>1. DataTypeOK /\ Owned /\ WaitInv => WaitsHaveAnEnd
  <2> SUFFICES ASSUME DataTypeOK, Owned, WaitInv PROVE WaitsHaveAnEnd
    OBVIOUS
  <2>1. busy => push.pc = "send" \/ Out # {}
    BY OutFacts DEF WaitInv
  <2>2. push.pc = "send" => Len(udpQ) < UdpLen
    BY DataAssumption DEF Owned
  <2> QED BY <2>1, <2>2 DEF WaitInv, WaitsHaveAnEnd
<1> QED BY <1>1, InitType, NextType, InitOwned, NextOwned, InitWait, NextWait, PTL DEF Spec

-----------------------------------------------------------------------------
(***************************************************************************)
(* Every frame is worked off                                               *)
(***************************************************************************)
LEMMA StepCounts ==
  ASSUME DataTypeOK
  PROVE  /\ Len(pushQ) \in Nat /\ Len(udpQ) \in Nat /\ Len(algQ) \in Nat
         /\ PushSteps \in Nat /\ AlgSteps \in Nat /\ UdpSteps \in Nat
<1>1. /\ pushQ \in Seq(Positions) /\ udpQ \in Seq(Buffers) /\ push.test \in 1 .. 5
      /\ algQ \in Seq(Positions)
  BY DEF DataTypeOK, PushState
<1>2. Len(pushQ) \in Nat /\ Len(udpQ) \in Nat /\ Len(algQ) \in Nat
  BY <1>1, LenProperties
<1> QED
  BY <1>1, <1>2 DEF PushSteps, AlgSteps, UdpSteps

\* Each step of the push task is one of those counted, and what it passes on makes
\* four steps of another task.
LEMMA PushAdvances ==
  ASSUME DataTypeOK, Push
  PROVE  WorkLeft' < WorkLeft
<1>0. /\ push \in PushState /\ pushQ \in Seq(Positions) /\ udpQ \in Seq(Buffers)
      /\ push.test \in 1 .. 5 /\ algQ \in Seq(Positions)
  BY DEF DataTypeOK, PushState
<1>1. /\ Len(pushQ) \in Nat /\ Len(udpQ) \in Nat /\ Len(algQ) \in Nat
      /\ PushSteps \in Nat /\ AlgSteps \in Nat /\ UdpSteps \in Nat
  BY StepCounts
<1>2. CASE PushReceive
  <2>1. Len(pushQ') = Len(pushQ) - 1
    BY <1>0, <1>2, HeadTailProperties DEF PushReceive
  <2>2. PushSteps = 0 /\ PushSteps' = 24
    BY <1>0, <1>2 DEF PushReceive, PushSteps, PushState
  <2>3. UNCHANGED <<udpQ, algQ, AlgSteps, UdpSteps>>
    BY <1>2 DEF PushReceive, sendVars, algVars, AlgSteps, UdpSteps
  <2> QED
    BY <1>1, <2>1, <2>2, <2>3 DEF WorkLeft
<1>3. CASE PushReceived \/ PushTest \/ PushFill \/ PushSpin
  <2>1. PushSteps' \in Nat /\ PushSteps' < PushSteps
    <3>1. CASE PushReceived
      BY <1>0, <3>1 DEF PushReceived, PushSteps, PushState
    <3>2. CASE PushTest
      <4>0. push.pc = "test"
        BY <3>2 DEF PushTest
      <4>1. CASE push' = [push EXCEPT !.pc = "fill", !.buffer = IF push.test = 3 THEN "rdmap" ELSE "adc"]
        <5>1. push'.pc = "fill" /\ push'.test = push.test
          BY <1>0, <4>1 DEF PushState
        <5>2. PushSteps = 19 - push.test
          BY <4>0 DEF PushSteps
        <5>3. CASE push.test = 3
          <6>1. push'.buffer = "rdmap"
            BY <1>0, <4>1, <5>3 DEF PushState
          <6> QED
            BY <5>1, <5>2, <5>3, <6>1 DEF PushSteps
        <5>4. CASE push.test # 3
          <6>1. PushSteps' \in {6, 13} /\ (push.test # 5 => PushSteps' = 6)
            BY <5>1 DEF PushSteps
          <6> QED
            BY <1>0, <5>2, <6>1
        <5> QED
          BY <5>3, <5>4
      <4>2. CASE push' = Idle
        BY <1>0, <3>2, <4>2 DEF PushTest, PushSteps, PushState, Idle
      <4>3. CASE push.test # 5 /\ push' = [push EXCEPT !.test = push.test + 1]
        <5>1. push'.pc = "test" /\ push'.test = push.test + 1
          BY <1>0, <4>0, <4>3 DEF PushState
        <5>2. PushSteps = 19 - push.test
          BY <4>0 DEF PushSteps
        <5>3. PushSteps' = 19 - push'.test
          BY <5>1 DEF PushSteps
        <5>4. push.test \in 1 .. 4
          BY <1>0, <4>3
        <5> QED
          BY <5>1, <5>2, <5>3, <5>4
      <4> QED
        BY <3>2, <4>1, <4>2, <4>3 DEF PushTest
    <3>3. CASE PushFill
      BY <1>0, <3>3 DEF PushFill, PushSteps, PushState
    <3>4. CASE PushSpin
      BY <1>0, <3>4 DEF PushSpin, PushSteps, PushState
    <3> QED
      BY <1>3, <3>1, <3>2, <3>3, <3>4
  <2>2. UNCHANGED <<pushQ, udpQ, algQ, AlgSteps, UdpSteps>>
    BY <1>3 DEF PushReceived, PushTest, PushFill, PushSpin, sendVars, algVars, AlgSteps, UdpSteps
  <2> QED
    BY <1>1, <2>1, <2>2 DEF WorkLeft
<1>4. CASE PushToAlg
  <2>1. PushSteps = 23 /\ PushSteps' \in Nat /\ PushSteps' <= 18
    BY <1>0, <1>4 DEF PushToAlg, PushSteps, PushState
  <2>2. Len(algQ') = Len(algQ) + 1 /\ UNCHANGED <<pushQ, udpQ, AlgSteps, UdpSteps>>
    BY <1>0, <1>4, AppendProperties DEF PushToAlg, PushState, sendVars, AlgSteps, UdpSteps
  <2> QED
    BY <1>1, <2>1, <2>2 DEF WorkLeft
<1>5. CASE PushSend
  <2>1. PushSteps' = PushSteps - 5
    BY <1>0, <1>5 DEF PushSend, AfterSend, Idle, PushSteps, PushState
  <2>2. UNCHANGED <<pushQ, algQ, AlgSteps, UdpSteps>>
    BY <1>5 DEF PushSend, algVars, AlgSteps, UdpSteps
  <2>3. CASE udpQ' = udpQ
    BY <1>1, <2>1, <2>2, <2>3 DEF WorkLeft
  <2>4. CASE udpQ' = Append(udpQ, push.buffer)
    <3>1. Len(udpQ') = Len(udpQ) + 1
      BY <1>0, <2>4, AppendProperties DEF PushState
    <3> QED
      BY <1>1, <2>1, <2>2, <3>1 DEF WorkLeft
  <2> QED
    BY <1>5, <2>3, <2>4 DEF PushSend
<1> QED
  BY <1>2, <1>3, <1>4, <1>5 DEF Push

\* So is each step of the tasks that take what it has passed on.
LEMMA SenderAdvances ==
  ASSUME DataTypeOK, Alg \/ Udp
  PROVE  WorkLeft' < WorkLeft
<1>0. udp \in UdpState /\ udpQ \in Seq(Buffers) /\ algQ \in Seq(Positions) /\ alg \in AlgState
  BY DEF DataTypeOK
<1>1. /\ Len(pushQ) \in Nat /\ Len(udpQ) \in Nat /\ Len(algQ) \in Nat
      /\ PushSteps \in Nat /\ AlgSteps \in Nat /\ UdpSteps \in Nat
  BY StepCounts
<1>2. CASE Alg
  <2>1. UNCHANGED <<pushQ, udpQ, PushSteps, UdpSteps>>
    BY <1>2 DEF Alg, AlgReceive, AlgStart, AlgSend, AlgEnd, pushVars, sendVars, PushSteps, UdpSteps
  <2>2. CASE AlgReceive
    <3>1. Len(algQ') = Len(algQ) - 1 /\ AlgSteps = 0 /\ AlgSteps' = 3
      BY <1>0, <2>2, HeadTailProperties DEF AlgReceive, AlgSteps
    <3> QED
      BY <1>1, <2>1, <3>1 DEF WorkLeft
  <2>3. CASE AlgStart \/ AlgSend \/ AlgEnd
    <3>1. algQ' = algQ /\ AlgSteps' = AlgSteps - 1
      BY <1>0, <2>3 DEF AlgStart, AlgSend, AlgEnd, AlgIdle, AlgState, AlgSteps
    <3> QED
      BY <1>1, <2>1, <3>1 DEF WorkLeft
  <2> QED
    BY <1>2, <2>2, <2>3 DEF Alg
<1>3. CASE UdpReceive
  <2>1. UNCHANGED <<pushQ, algQ, PushSteps, AlgSteps>>
    BY <1>3 DEF UdpReceive, pushVars, algVars, PushSteps, AlgSteps
  <2>2. Len(udpQ') = Len(udpQ) - 1
    BY <1>0, <1>3, HeadTailProperties DEF UdpReceive
  <2>3. UdpSteps = 0 /\ UdpSteps' \in {1, 3}
    BY <1>3 DEF UdpReceive, UdpSteps
  <2> QED
    BY <1>1, <2>1, <2>2, <2>3 DEF WorkLeft
<1>4. CASE UdpLock \/ UdpSend \/ UdpCall
  <2>1. UNCHANGED <<pushQ, algQ, udpQ, PushSteps, AlgSteps>>
    BY <1>4 DEF UdpLock, UdpSend, UdpCall, pushVars, algVars, PushSteps, AlgSteps
  <2>2. UdpSteps' \in Nat /\ UdpSteps' < UdpSteps
    BY <1>0, <1>4 DEF UdpLock, UdpSend, UdpCall, Waiting, UdpSteps, UdpState
  <2> QED
    BY <1>1, <2>1, <2>2 DEF WorkLeft
<1> QED
  BY <1>2, <1>3, <1>4 DEF Udp

\* Whatever the mode is changed to, the push, algorithm and UDP tasks come to rest
\* unless the interrupt thread brings another frame: none keeps another busy.
THEOREM FramesWorkedOff == Spec => WorkAdvances
<1>1. ASSUME DataTypeOK, [Next]_vars,
             <<pushVars, sendVars, algVars>>' # <<pushVars, sendVars, algVars>>, reader' = reader
      PROVE  WorkLeft' < WorkLeft
  <2>1. reader \in ReaderState
    BY <1>1 DEF DataTypeOK
  <2>2. ~FrameDone /\ ~CpibHandler /\ ~SetMode /\ vars' # vars
    BY <1>1 DEF FrameDone, CpibHandler, SetMode, vars
  <2>3. ~Reader
    BY <1>1, <2>1 DEF Reader, RdmapPoll, RdmapSkip, RdmapCopy, RdmapSend, ReaderState
  <2> QED
    BY <1>1, <2>2, <2>3, PushAdvances, SenderAdvances DEF Next
<1>2. DataTypeOK /\ [Next]_vars
        => [<<pushVars, sendVars, algVars>>' # <<pushVars, sendVars, algVars>> /\ reader' = reader
              => WorkLeft' < WorkLeft]_vars
  BY <1>1
<1> QED
  BY <1>2, DataTypeCorrect, PTL DEF Spec, WorkAdvances
=============================================================================
