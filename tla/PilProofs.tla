----------------------------- MODULE PilProofs -----------------------------
(***************************************************************************)
(* What MCPil checks for three threads, four queues and two parts per      *)
(* frame, for any number of each: one frame is on its way, and a new one.  *)
(***************************************************************************)
EXTENDS Pil, FiniteSetTheorems, TLAPS

Sent == {"new", "wrong"}

\* While no frame is on its way, everything before the offset was sent since the last
\* start of a transfer; while one is, the buffer is full of such parts, and its size
\* is what the offset is set to when the frame has been reported.
FilledInv ==
  /\ ~inject => \A k \in Parts : k < offset => buffer[k] \in Sent
  /\ Queued \cup Holders # {} => size = FrameSize

\* A thread waits at a queue.
WaitInv == \A i \in Threads : thread[i].pc = "receive" => thread[i].on \in Queues

PilInv == PilTypeOK /\ WaitInv /\ OneFrame /\ FrameIsNew /\ FilledInv

ThreadState == [pc : {"none", "loop", "receive", "frame", "written", "leave", "closed", "gone"},
                on : Queues \cup {NoQueue}]

LEMMA InitPil == Init => PilInv
<1> SUFFICES ASSUME Init PROVE PilInv
  OBVIOUS
<1> USE PilAssumption DEF Init
<1>1. \A i \in Threads : thread[i].pc = "none" /\ thread[i].on = NoQueue
  BY DEF At
<1>2. thread \in [Threads -> ThreadState]
  BY DEF At, ThreadState
<1>3. Queued = {} /\ Holders = {}
  BY <1>1 DEF Queued, Holders
<1>4. PilTypeOK
  <2>1. offset \in 0 .. FrameSize /\ size \in 0 .. FrameSize
    OBVIOUS
  <2>2. buffer \in [Parts -> {"none", "old", "wrong", "new"}] /\ frames \in [Queues -> Nat]
    OBVIOUS
  <2> QED
    BY <1>2, <2>1, <2>2 DEF PilTypeOK, ThreadState
<1>5. WaitInv
  BY <1>1 DEF WaitInv
<1>6. OneFrame /\ FrameIsNew /\ FilledInv
  BY <1>3 DEF OneFrame, FrameIsNew, FilledInv, Parts
<1> QED
  BY <1>4, <1>5, <1>6 DEF PilInv

\* Every step keeps the types; the offset stays within the frame because a part that
\* would end behind it is refused.
LEMMA TypeStep == PilInv /\ [Next]_vars => PilTypeOK' /\ WaitInv'
<1> SUFFICES ASSUME PilInv, [Next]_vars PROVE PilTypeOK' /\ WaitInv'
  OBVIOUS
<1> USE PilAssumption
<1>0. /\ FrameSize \in Nat /\ Word \in Nat /\ offset \in 0 .. FrameSize /\ size \in 0 .. FrameSize
      /\ buffer \in [Parts -> {"none", "old", "wrong", "new"}]
      /\ mq \in Queues \cup {NoQueue} /\ named \in Queues \cup {NoQueue} /\ frames \in [Queues -> Nat]
      /\ thread \in [Threads -> ThreadState] /\ WaitInv /\ PilTypeOK
  BY DEF PilInv, PilTypeOK, ThreadState
<1>1. ASSUME NEW at \in Nat, NEW n \in Nat
      PROVE  /\ Stored(at, n, "new") \in [Parts -> {"none", "old", "wrong", "new"}]
             /\ Stored(at, n, "wrong") \in [Parts -> {"none", "old", "wrong", "new"}]
  BY <1>0 DEF Stored
<1>2. Outdated \in [Parts -> {"none", "old", "wrong", "new"}]
  BY <1>0 DEF Outdated
<1>3. ASSUME NEW i \in Threads, NEW e \in ThreadState, thread' = [thread EXCEPT ![i] = e],
             e.pc = "receive" => e.on \in Queues
      PROVE  thread' \in [Threads -> ThreadState] /\ WaitInv'
  BY <1>0, <1>3 DEF WaitInv
<1>4. ASSUME NEW pc \in {"loop", "frame", "written", "leave", "closed", "gone"}, NEW i \in Threads,
             thread' = [thread EXCEPT ![i] = At(pc, NoQueue)]
      PROVE  thread' \in [Threads -> ThreadState] /\ WaitInv'
  <2>1. At(pc, NoQueue) \in ThreadState /\ At(pc, NoQueue).pc # "receive"
    BY DEF At, ThreadState
  <2> QED
    BY <1>3, <1>4, <2>1
<1>5. ASSUME NEW i \in Threads, NEW q \in Queues, SetOpen(i, q) PROVE PilTypeOK' /\ WaitInv'
  BY <1>0, <1>4, <1>5 DEF SetOpen, PilTypeOK, ThreadState
<1>6. CASE SetClose \/ SetOpenFails
  <2>1. CASE SetClose \/ UNCHANGED <<named, thread>>
    BY <1>0, <1>6, <2>1 DEF SetClose, SetOpenFails, PilTypeOK, WaitInv
  <2>2. ASSUME NEW q \in Queues, NEW W \in SUBSET {i \in Threads : thread[i].pc = "loop"},
               SetOpenFails, named' = NoQueue,
               thread' = [i \in Threads |-> IF i \in W THEN At("receive", q) ELSE thread[i]]
        PROVE  PilTypeOK' /\ WaitInv'
    <3>1. At("receive", q) \in ThreadState /\ At("receive", q).on = q
      BY DEF At, ThreadState
    <3>2. thread' \in [Threads -> ThreadState] /\ WaitInv'
      BY <1>0, <2>2, <3>1 DEF WaitInv
    <3> QED
      BY <1>0, <2>2, <3>2 DEF SetOpenFails, PilTypeOK, ThreadState
  <2> QED
    BY <1>6, <2>1, <2>2 DEF SetOpenFails
<1>7. ASSUME NEW n \in 0 .. FrameSize, StartTransmit(n) PROVE PilTypeOK' /\ WaitInv'
  BY <1>0, <1>2, <1>7 DEF StartTransmit, taskVars, PilTypeOK, WaitInv
<1>8. ASSUME NEW at \in 0 .. Word - 1, NEW n \in 0 .. FrameSize, TransmitAgain(at, n)
      PROVE  PilTypeOK' /\ WaitInv'
  <2>1. buffer' \in [Parts -> {"none", "old", "wrong", "new"}]
    BY <1>0, <1>1, <1>8 DEF TransmitAgain
  <2> QED
    BY <1>0, <1>8, <2>1 DEF TransmitAgain, PlReady, taskVars, PilTypeOK, WaitInv
<1>9. ASSUME NEW at \in 0 .. Word - 1, NEW n \in 0 .. FrameSize, TransmitPart(at, n)
      PROVE  PilTypeOK' /\ WaitInv'
  <2>1. buffer' \in [Parts -> {"none", "old", "wrong", "new"}]
    BY <1>0, <1>1, <1>9 DEF TransmitPart, What
  <2>2. offset' \in 0 .. FrameSize
    BY <1>0, <1>9 DEF TransmitPart
  <2> QED
    BY <1>0, <1>9, <2>1, <2>2 DEF TransmitPart, PlReady, taskVars, PilTypeOK, WaitInv
<1>10. ASSUME NEW at \in 0 .. Word - 1, NEW n \in 0 .. FrameSize, TransmitLast(at, n)
       PROVE  PilTypeOK' /\ WaitInv'
  <2>1. buffer' \in [Parts -> {"none", "old", "wrong", "new"}]
    BY <1>0, <1>1, <1>10 DEF TransmitLast, What
  <2>2. frames' \in [Queues -> Nat]
    BY <1>0, <1>10 DEF TransmitLast
  <2> QED
    BY <1>0, <1>10, <2>1, <2>2 DEF TransmitLast, PilTypeOK, WaitInv
<1>11. CASE InjectData
  BY <1>0, <1>11 DEF InjectData, taskVars, PilTypeOK, WaitInv
<1>12. CASE RdmapDone
  BY <1>0, <1>12 DEF RdmapDone, infoVars, taskVars, PilTypeOK, WaitInv
<1>13. ASSUME NEW i \in Threads, Thread(i) PROVE PilTypeOK' /\ WaitInv'
  <2>1. CASE Loop(i)
    <3>1. CASE run /\ mq # NoQueue /\ thread' = [thread EXCEPT ![i] = At("receive", mq)]
      <4>1. At("receive", mq) \in ThreadState /\ At("receive", mq).on \in Queues
        BY <1>0, <3>1 DEF At, ThreadState
      <4> QED
        BY <1>0, <1>3, <2>1, <3>1, <4>1 DEF Loop, infoVars, PilTypeOK, ThreadState
    <3> QED
      BY <1>0, <1>4, <2>1, <3>1 DEF Loop, infoVars, PilTypeOK, ThreadState
  <2>2. CASE Receive(i)
    <3>1. thread[i].on \in Queues
      BY <1>0, <2>2 DEF Receive, WaitInv
    <3>2. frames' \in [Queues -> Nat]
      BY <1>0, <2>2, <3>1 DEF Receive
    <3> QED
      BY <1>0, <1>4, <2>2, <3>2 DEF Receive, infoVars, PilTypeOK, ThreadState
  <2>3. CASE WriteFails(i) \/ Write(i) \/ SetStatus(i)
    BY <1>0, <1>4, <2>3 DEF WriteFails, Write, SetStatus, infoVars, PilTypeOK, ThreadState
  <2>4. CASE Leave(i) \/ Left(i)
    BY <1>0, <1>4, <2>4 DEF Leave, Left, infoVars, PilTypeOK, ThreadState
  <2> QED
    BY <1>13, <2>1, <2>2, <2>3, <2>4 DEF Thread
<1>14. CASE UNCHANGED vars
  BY <1>0, <1>14 DEF vars, infoVars, taskVars, PilTypeOK, WaitInv
<1> QED
  BY <1>5, <1>6, <1>7, <1>8, <1>9, <1>10, <1>11, <1>12, <1>13, <1>14 DEF Next, Command

Frames == OneFrame /\ FrameIsNew /\ FilledInv

\* Nothing is on its way while the flag is down.
LEMMA NothingOnTheWay == OneFrame /\ ~inject => Queued = {} /\ Holders = {}
BY DEF OneFrame

\* A step that leaves the queues and the flag alone, and lets no thread take or report
\* a frame, keeps what is said of frames if the buffer still is as it should be.
LEMMA FramesStay ==
  ASSUME Frames, UNCHANGED <<Queued, Holders, inject, frames>>,
         inject => UNCHANGED <<buffer, size>>,
         ~inject => \A k \in Parts : k < offset' => buffer'[k] \in Sent
  PROVE  Frames'
<1>1. CASE inject
  BY <1>1 DEF Frames, OneFrame, FrameIsNew, FilledInv
<1>2. CASE ~inject
  <2>1. Queued' = {} /\ Holders' = {}
    BY <1>2, NothingOnTheWay DEF Frames
  <2> QED
    BY <1>2, <2>1 DEF Frames, OneFrame, FrameIsNew, FilledInv
<1> QED
  BY <1>1, <1>2

LEMMA FramesStep == PilInv /\ [Next]_vars => Frames'
<1> SUFFICES ASSUME PilInv, [Next]_vars PROVE Frames'
  OBVIOUS
<1> USE PilAssumption
<1>0. /\ FrameSize \in Nat \ {0} /\ offset \in 0 .. FrameSize /\ size \in 0 .. FrameSize
      /\ buffer \in [Parts -> {"none", "old", "wrong", "new"}] /\ inject \in BOOLEAN
      /\ mq \in Queues \cup {NoQueue} /\ frames \in [Queues -> Nat]
      /\ thread \in [Threads -> ThreadState] /\ WaitInv /\ Frames
  BY DEF PilInv, PilTypeOK, ThreadState, Frames
<1>1. ASSUME UNCHANGED <<frames, inject>>, Holders' = Holders,
             inject => UNCHANGED <<buffer, size>>,
             ~inject => \A k \in Parts : k < offset' => buffer'[k] \in Sent
      PROVE  Frames'
  BY <1>0, <1>1, FramesStay DEF Queued
<1>2. ~inject => \A k \in Parts : k < offset => buffer[k] \in Sent
  BY <1>0 DEF Frames, FilledInv
<1>3. ASSUME NEW i \in Threads, NEW e, thread' = [thread EXCEPT ![i] = e],
             thread[i].pc \notin {"frame", "written"}, e.pc \notin {"frame", "written"}
      PROVE  Holders' = Holders
  BY <1>0, <1>3 DEF Holders
<1>4. ASSUME NEW i \in Threads, NEW q \in Queues, SetOpen(i, q) PROVE Frames'
  <2>1. Holders' = Holders
    BY <1>3, <1>4 DEF SetOpen, At
  <2> QED
    BY <1>1, <1>2, <1>4, <2>1 DEF SetOpen
<1>5. CASE SetClose \/ SetOpenFails
  <2>1. Holders' = Holders
    BY <1>0, <1>5 DEF SetClose, SetOpenFails, Holders, At
  <2> QED
    BY <1>1, <1>2, <1>5, <2>1 DEF SetClose, SetOpenFails
<1>6. ASSUME NEW n \in 0 .. FrameSize, StartTransmit(n) PROVE Frames'
  BY <1>0, <1>1, <1>6 DEF StartTransmit, taskVars, Holders, Parts
<1>7. ASSUME NEW at \in 0 .. Word - 1, NEW n \in 0 .. FrameSize, TransmitAgain(at, n) PROVE Frames'
  <2>1. \A k \in Parts : k < offset => buffer'[k] \in Sent
    BY <1>0, <1>2, <1>7 DEF TransmitAgain, Stored, Sent
  <2> QED
    BY <1>1, <1>7, <2>1 DEF TransmitAgain, taskVars, Holders
<1>8. ASSUME NEW at \in 0 .. Word - 1, NEW n \in 0 .. FrameSize, ~inject,
             buffer' = Stored(offset, n, What(at))
      PROVE  \A k \in Parts : k < offset + n => buffer'[k] \in Sent
  <2>1. What(at) \in Sent
    BY DEF What, Sent
  <2> QED
    BY <1>0, <1>2, <1>8, <2>1 DEF Stored, Parts
<1>9. ASSUME NEW at \in 0 .. Word - 1, NEW n \in 0 .. FrameSize, TransmitPart(at, n) PROVE Frames'
  <2>1. ~inject /\ buffer' = Stored(offset, n, What(at)) /\ offset' = offset + n
    BY <1>9 DEF TransmitPart
  <2>2. \A k \in Parts : k < offset' => buffer'[k] \in Sent
    BY <1>8, <2>1
  <2> QED
    BY <1>1, <1>9, <2>1, <2>2 DEF TransmitPart, taskVars, Holders
<1>10. ASSUME NEW at \in 0 .. Word - 1, NEW n \in 0 .. FrameSize, TransmitLast(at, n) PROVE Frames'
  <2>1. ~inject /\ offset + n = FrameSize /\ buffer' = Stored(offset, n, What(at))
    BY <1>10 DEF TransmitLast
  <2>2. \A k \in Parts : buffer'[k] \in Sent
    <3>1. \A k \in Parts : k < offset + n
      BY <1>0, <2>1 DEF Parts
    <3> QED
      BY <1>8, <2>1, <3>1
  <2>3. Queued = {} /\ Holders = {}
    BY <1>0, <2>1, NothingOnTheWay DEF Frames
  <2>4. Holders' = {}
    BY <1>10, <2>3 DEF TransmitLast, Holders
  <2>5. \A q \in Queues : frames[q] = 0
    BY <1>0, <2>3 DEF Queued
  <2>6. inject' /\ size' = FrameSize
        /\ (frames' = frames \/ (mq # NoQueue /\ frames' = [frames EXCEPT ![mq] = @ + 1]))
    BY <1>10 DEF TransmitLast
  <2>7. \A q \in Queues : frames'[q] = 0 \/ (q = mq /\ frames'[q] = 1)
    <3>1. CASE frames' = frames
      BY <2>5, <3>1
    <3>2. CASE mq # NoQueue /\ frames' = [frames EXCEPT ![mq] = @ + 1]
      <4>1. mq \in Queues /\ frames[mq] = 0
        BY <1>0, <2>5, <3>2
      <4> QED
        BY <1>0, <2>5, <3>2, <4>1
    <3> QED
      BY <2>6, <3>1, <3>2
  <2>8. \A q \in Queued' : q = mq /\ frames'[q] = 1
    BY <2>7 DEF Queued
  <2>9. OneFrame'
    BY <2>4, <2>6, <2>8 DEF OneFrame
  <2> QED
    BY <2>2, <2>6, <2>9 DEF Frames, FrameIsNew, FilledInv, Sent
<1>11. CASE InjectData
  <2>1. Queued = {} /\ Holders = {}
    BY <1>0, <1>11, NothingOnTheWay DEF Frames, InjectData
  <2>2. Queued' = {} /\ Holders' = {} /\ inject'
    BY <1>11, <2>1 DEF InjectData, taskVars, Queued, Holders
  <2> QED
    BY <2>2 DEF Frames, OneFrame, FrameIsNew, FilledInv
<1>12. CASE RdmapDone
  BY <1>1, <1>2, <1>12 DEF RdmapDone, infoVars, taskVars, Holders
<1>13. ASSUME NEW i \in Threads, Loop(i) \/ Leave(i) \/ Left(i) PROVE Frames'
  <2>1. Holders' = Holders
    BY <1>3, <1>13 DEF Loop, Leave, Left, At
  <2> QED
    BY <1>1, <1>2, <1>13, <2>1 DEF Loop, Leave, Left, infoVars
<1>14. ASSUME NEW i \in Threads, Receive(i) PROVE Frames'
  <2> DEFINE q == thread[i].on
  <2>1. q \in Queued /\ thread' = [thread EXCEPT ![i] = At("frame", NoQueue)]
        /\ frames' = [frames EXCEPT ![q] = frames[q] - 1] /\ UNCHANGED infoVars
    BY <1>0, <1>14 DEF Receive, WaitInv, Queued
  <2> HIDE DEF q
  <2>2. inject /\ frames[q] = 1 /\ Holders = {} /\ \A r \in Queued : r = q
    BY <1>0, <2>1 DEF Frames, OneFrame
  <2>3. \A r \in Queues : frames'[r] = 0
    BY <1>0, <2>1, <2>2 DEF Queued
  <2>4. Queued' = {}
    BY <2>3 DEF Queued
  <2>5. Holders' = {i}
    BY <1>0, <2>1, <2>2 DEF Holders, At
  <2>6. (\A k \in Parts : buffer[k] \in {"new", "wrong"}) /\ size = FrameSize
    BY <1>0, <2>1 DEF Frames, FrameIsNew, FilledInv
  <2> QED
    BY <2>1, <2>2, <2>4, <2>5, <2>6 DEF Frames, OneFrame, FrameIsNew, FilledInv, infoVars
<1>15. ASSUME NEW i \in Threads, thread[i].pc \in {"frame", "written"}
       PROVE  /\ inject /\ Queued = {} /\ Holders = {i} /\ size = FrameSize
              /\ \A k \in Parts : buffer[k] \in {"new", "wrong"}
  <2>1. i \in Holders
    BY <1>15 DEF Holders
  <2> QED
    BY <1>0, <2>1 DEF Frames, OneFrame, FrameIsNew, FilledInv
<1>16. ASSUME NEW i \in Threads, Write(i) PROVE Frames'
  <2>1. Holders' = Holders
    BY <1>0, <1>16 DEF Write, Holders, At
  <2> QED
    BY <1>1, <1>2, <1>16, <2>1 DEF Write, infoVars
<1>17. ASSUME NEW i \in Threads, WriteFails(i) \/ SetStatus(i) PROVE Frames'
  <2>1. /\ thread[i].pc \in {"frame", "written"} /\ thread' = [thread EXCEPT ![i] = At("loop", NoQueue)]
        /\ UNCHANGED <<frames, buffer, size>>
    BY <1>17 DEF WriteFails, SetStatus, infoVars
  <2>2. inject /\ Queued = {} /\ Holders = {i} /\ \A k \in Parts : buffer[k] \in {"new", "wrong"}
    BY <1>15, <2>1
  <2>3. Holders' = {}
    BY <1>0, <2>1, <2>2 DEF Holders, At
  <2>4. Queued' = {}
    BY <2>1, <2>2 DEF Queued
  <2> QED
    BY <2>1, <2>2, <2>3, <2>4 DEF Frames, OneFrame, FrameIsNew, FilledInv, Sent
<1>18. CASE UNCHANGED vars
  BY <1>1, <1>2, <1>18 DEF vars, infoVars, taskVars, Holders
<1> QED
  BY <1>4, <1>5, <1>6, <1>7, <1>9, <1>10, <1>11, <1>12, <1>13, <1>14, <1>16, <1>17, <1>18
     DEF Next, Command, Thread

\* The inductive invariant of the injection, whatever is opened, closed and sent when.
THEOREM PilInvariant == Spec => []PilInv
<1>1. PilInv /\ [Next]_vars => PilInv'
  BY TypeStep, FramesStep DEF PilInv, Frames
<1> QED
  BY <1>1, InitPil, PTL DEF Spec

\* Every variable keeps its type, the offset the bound of the frame.
THEOREM PilTypeCorrect == Spec => []PilTypeOK
<1>1. PilInv => PilTypeOK
  BY DEF PilInv
<1> QED
  BY <1>1, PilInvariant, PTL

\* However often the task is closed and opened, with threads of every opening left
\* over, at most one frame is on its way.
THEOREM OneFrameOnly == Spec => []OneFrame
<1>1. PilInv => OneFrame
  BY DEF PilInv
<1> QED
  BY <1>1, PilInvariant, PTL

\* A frame on its way holds nothing that was sent before the last start of a transfer.
THEOREM FramesAreNew == Spec => []FrameIsNew
<1>1. PilInv => FrameIsNew
  BY DEF PilInv
<1> QED
  BY <1>1, PilInvariant, PTL
-----------------------------------------------------------------------------
(***************************************************************************)
(* No injection is without its frame                                       *)
(***************************************************************************)
\* As long as nothing has gone wrong, a task that runs has its queue and a thread
\* that serves it, and what is being injected is in that queue or with a thread.
ServeInv ==
  /\ run => open
  /\ inject => open
  /\ inject /\ ~lost => run
  /\ run /\ ~lost => mq # NoQueue /\ \E i \in Threads : Serving(i)
  /\ inject /\ ~lost => Holders # {} \/ Queued = {mq}

LEMMA InitServe == Init => ServeInv
BY DEF Init, ServeInv

\* A step that changes neither the queues nor the threads, nor opens or closes.
LEMMA ServeSame ==
  ASSUME ServeInv, UNCHANGED <<run, mq, frames, thread>>, open' = open, inject' = inject, lost' = lost
  PROVE  ServeInv'
BY DEF ServeInv, Holders, Queued, Serving

LEMMA ServeStep == PilInv /\ ServeInv /\ [Next]_vars => ServeInv'
<1> SUFFICES ASSUME PilInv, ServeInv, [Next]_vars PROVE ServeInv'
  OBVIOUS
<1> USE PilAssumption
<1>0. /\ thread \in [Threads -> ThreadState] /\ frames \in [Queues -> Nat]
      /\ mq \in Queues \cup {NoQueue} /\ WaitInv /\ OneFrame
      /\ open \in BOOLEAN /\ run \in BOOLEAN /\ inject \in BOOLEAN /\ lost \in BOOLEAN
  BY DEF PilInv, PilTypeOK, ThreadState
<1>1. ~inject => Queued = {} /\ Holders = {}
  BY <1>0 DEF OneFrame
<1>2. ASSUME NEW i \in Threads, NEW q \in Queues, SetOpen(i, q) PROVE ServeInv'
  <2>1. /\ open' /\ run' /\ mq' = q /\ ~inject' /\ q # NoQueue
        /\ thread' = [thread EXCEPT ![i] = At("loop", NoQueue)]
    BY <1>0, <1>2 DEF SetOpen
  <2>2. thread'[i].pc = "loop"
    BY <1>0, <2>1 DEF At
  <2> QED
    BY <2>1, <2>2 DEF ServeInv, Serving
<1>3. CASE SetClose \/ SetOpenFails
  BY <1>3 DEF SetClose, SetOpenFails, ServeInv
<1>4. ASSUME NEW n \in 0 .. FrameSize, StartTransmit(n) PROVE ServeInv'
  BY <1>4, ServeSame DEF StartTransmit, taskVars
<1>5. ASSUME NEW at \in 0 .. Word - 1, NEW n \in 0 .. FrameSize,
             TransmitAgain(at, n) \/ TransmitPart(at, n)
      PROVE  ServeInv'
  BY <1>5, ServeSame DEF TransmitAgain, TransmitPart, taskVars
<1>6. ASSUME NEW at \in 0 .. Word - 1, NEW n \in 0 .. FrameSize, TransmitLast(at, n)
      PROVE  ServeInv'
  <2>1. /\ open /\ ~inject /\ UNCHANGED <<open, run, mq, thread>>
        /\ lost' = (lost \/ ~run)
        /\ run /\ mq # NoQueue => frames' = [frames EXCEPT ![mq] = @ + 1]
    BY <1>6 DEF TransmitLast
  <2>2. run /\ ~lost => mq \in Queues /\ mq # NoQueue /\ \E i \in Threads : Serving(i)
    BY <1>0, <2>1 DEF ServeInv
  <2>3. run /\ ~lost => Queued' = {mq}
    <3>1. \A q \in Queues : frames[q] = 0
      BY <1>0, <1>1, <2>1 DEF Queued
    <3>2. run /\ ~lost => frames' = [frames EXCEPT ![mq] = @ + 1]
      BY <2>1, <2>2
    <3>3. run /\ ~lost => \A q \in Queues : frames'[q] = IF q = mq THEN 1 ELSE 0
      BY <1>0, <2>2, <3>1, <3>2
    <3> QED
      BY <2>2, <3>3 DEF Queued
  <2>4. \A i \in Threads : Serving(i)' <=> Serving(i)
    BY <2>1 DEF Serving
  <2> QED
    BY <1>0, <2>1, <2>2, <2>3, <2>4 DEF ServeInv
<1>7. CASE InjectData
  BY <1>7 DEF InjectData, taskVars, ServeInv
<1>8. CASE RdmapDone
  BY <1>8, ServeSame DEF RdmapDone, infoVars, taskVars
<1>9. ASSUME NEW i \in Threads, Loop(i) PROVE ServeInv'
  <2>1. UNCHANGED <<open, inject, run, mq, frames, lost>>
    BY <1>9 DEF Loop, infoVars
  <2>2. \A j \in Threads : j # i => thread'[j] = thread[j]
    BY <1>0, <1>9 DEF Loop
  <2>3. run => thread'[i] = At("receive", mq)
    BY <1>0, <1>9 DEF Loop
  <2>4. ~run => ~inject \/ lost
    BY <1>0 DEF ServeInv
  <2>5. run => (\A j \in Threads : Serving(j) => Serving(j)')
    BY <2>1, <2>2, <2>3 DEF Serving, At
  <2>6. Holders' = Holders /\ Queued' = Queued
    <3>1. thread[i].pc = "loop" /\ thread'[i].pc \in {"leave", "receive"}
      BY <1>0, <1>9 DEF Loop, At
    <3> QED
      BY <2>1, <2>2, <3>1 DEF Holders, Queued
  <2> QED
    BY <2>1, <2>4, <2>5, <2>6 DEF ServeInv
<1>10. ASSUME NEW i \in Threads, Receive(i) \/ Write(i) PROVE ServeInv'
  <2>1. UNCHANGED <<open, inject, run, mq, lost>>
    BY <1>10 DEF Receive, Write, infoVars
  <2>2. thread'[i].pc \in {"frame", "written"} /\ \A j \in Threads : j # i => thread'[j] = thread[j]
    BY <1>0, <1>10 DEF Receive, Write, At
  <2>3. Holders' # {} /\ \E j \in Threads : Serving(j)'
    BY <2>2 DEF Holders, Serving
  <2> QED
    BY <2>1, <2>3 DEF ServeInv
<1>11. ASSUME NEW i \in Threads, SetStatus(i) PROVE ServeInv'
  <2>1. UNCHANGED <<open, run, mq, lost>> /\ ~inject' /\ thread'[i].pc = "loop"
    BY <1>0, <1>11 DEF SetStatus, At
  <2> QED
    BY <2>1 DEF ServeInv, Serving
<1>12. ASSUME NEW i \in Threads, WriteFails(i) PROVE ServeInv'
  BY <1>12 DEF WriteFails, infoVars, ServeInv
<1>13. ASSUME NEW i \in Threads, Leave(i) \/ Left(i) PROVE ServeInv'
  BY <1>0, <1>13 DEF Leave, Left, infoVars, ServeInv
<1>14. CASE UNCHANGED vars
  BY <1>14, ServeSame DEF vars, infoVars, taskVars
<1> QED
  BY <1>2, <1>3, <1>4, <1>5, <1>6, <1>7, <1>8, <1>9, <1>10, <1>11, <1>12, <1>13, <1>14
     DEF Next, Command, Thread

\* An injection that is going on has its frame in the queue the task serves, with a
\* thread to take it, or in the hands of a thread, until one of the events of lost.
THEOREM InjectionHasItsFrame == Spec => []FrameOnItsWay
<1>1. PilInv /\ ServeInv /\ [Next]_vars => ServeInv'
  BY ServeStep
<1>2. ServeInv => FrameOnItsWay
  BY DEF ServeInv, FrameOnItsWay
<1> QED
  BY <1>1, <1>2, InitServe, PilInvariant, PTL DEF Spec

-----------------------------------------------------------------------------
\* How far the frame is, and the threads that have still to find the queue.
Stage  == IF Holders = {} THEN 3 ELSE IF \E i \in Holders : thread[i].pc = "frame" THEN 2 ELSE 1
Loopers == {i \in Threads : thread[i].pc = "loop"}

LEMMA LoopersFinite == IsFiniteSet(Loopers) /\ Cardinality(Loopers) \in Nat
<1>1. Loopers \in SUBSET Threads
  BY DEF Loopers
<1>2. IsFiniteSet(Loopers)
  BY <1>1, FS_Subset, PilAssumption
<1> QED
  BY <1>2, FS_CardinalityType

\* The steps of the threads are all there are of the task while a frame is being
\* injected: opening is refused.
LEMMA InjectStep ==
  PilInv /\ ServeInv /\ [Next]_vars /\ inject /\ inject' /\ ~lost' /\ taskVars' # taskVars
    => InjectLeft' < InjectLeft
<1> SUFFICES ASSUME PilInv, ServeInv, [Next]_vars, inject, inject', ~lost', taskVars' # taskVars
             PROVE  InjectLeft' < InjectLeft
  OBVIOUS
<1>0. /\ thread \in [Threads -> ThreadState] /\ OneFrame /\ WaitInv
      /\ frames \in [Queues -> Nat] /\ lost \in BOOLEAN
  BY DEF PilInv, PilTypeOK, ThreadState
<1>1. InjectLeft = Cardinality(Loopers) + Stage /\ InjectLeft' = Cardinality(Loopers') + Stage'
  BY DEF InjectLeft, Loopers, Stage
<1>2. Cardinality(Loopers) \in Nat /\ Stage \in Nat /\ Stage' \in Nat
  BY LoopersFinite DEF Stage
<1>3. ASSUME NEW i \in Threads, Loop(i) PROVE InjectLeft' < InjectLeft
  <2>1. run \/ lost
    BY DEF ServeInv
  <2>2. ~lost /\ run /\ thread' = [thread EXCEPT ![i] = At("receive", mq)] /\ thread[i].pc = "loop"
    BY <1>3, <2>1 DEF Loop
  <2>3. Loopers' = Loopers \ {i} /\ i \in Loopers
    BY <1>0, <2>2 DEF Loopers, At
  <2>4. Cardinality(Loopers') = Cardinality(Loopers) - 1
    BY <2>3, LoopersFinite, FS_RemoveElement
  <2>5. Holders' = Holders
    BY <1>0, <2>2 DEF Holders, At
  <2>6. \A j \in Holders : thread'[j] = thread[j]
    BY <1>0, <2>2 DEF Holders
  <2>7. Stage' = Stage
    BY <2>5, <2>6 DEF Stage
  <2> QED
    BY <1>1, <1>2, <2>4, <2>7
<1>4. ASSUME NEW i \in Threads, Receive(i) PROVE InjectLeft' < InjectLeft
  <2>1. thread' = [thread EXCEPT ![i] = At("frame", NoQueue)] /\ thread[i].pc = "receive"
    BY <1>4 DEF Receive
  <2>2. Loopers' = Loopers
    BY <1>0, <2>1 DEF Loopers, At
  <2>3. thread[i].on \in Queued
    BY <1>0, <1>4 DEF Receive, Queued, WaitInv
  <2>4. Holders = {}
    BY <1>0, <2>3 DEF OneFrame
  <2>5. i \in Holders' /\ thread'[i].pc = "frame"
    BY <1>0, <2>1 DEF Holders, At
  <2>6. Stage = 3 /\ Stage' = 2
    BY <2>4, <2>5 DEF Stage
  <2> QED
    BY <1>1, <1>2, <2>2, <2>6
<1>5. ASSUME NEW i \in Threads, Write(i) PROVE InjectLeft' < InjectLeft
  <2>1. thread' = [thread EXCEPT ![i] = At("written", NoQueue)] /\ thread[i].pc = "frame"
    BY <1>5 DEF Write
  <2>2. Loopers' = Loopers
    BY <1>0, <2>1 DEF Loopers, At
  <2>3. i \in Holders /\ \A j \in Holders : j = i
    BY <1>0, <2>1 DEF Holders, OneFrame
  <2>4. Holders' = Holders /\ thread'[i].pc = "written"
    BY <1>0, <2>1 DEF Holders, At
  <2>5. Stage = 2
    BY <2>1, <2>3 DEF Stage
  <2>6. Stage' = 1
    BY <2>3, <2>4 DEF Stage
  <2> QED
    BY <1>1, <1>2, <2>2, <2>5, <2>6
<1>6. \A i \in Threads : ~WriteFails(i) /\ ~SetStatus(i) /\ ~Leave(i) /\ ~Left(i)
  <2>1. run \/ lost
    BY DEF ServeInv
  <2> QED
    BY <2>1, <1>0 DEF WriteFails, SetStatus, Leave, Left
<1>7. ~Command
  BY <1>0 DEF Command, SetOpen, SetOpenFails, SetClose, StartTransmit, TransmitAgain, TransmitPart, TransmitLast,
              InjectData
<1>8. ~RdmapDone /\ vars' # vars
  BY DEF RdmapDone, vars
<1> QED
  BY <1>3, <1>4, <1>5, <1>6, <1>7, <1>8 DEF Next, Thread

\* An injection comes nearer to its end with every step of the task: no thread of an
\* earlier opening can turn in its loop and keep the frame from the one that takes it.
THEOREM InjectionAdvances == Spec => InjectAdvances
<1>1. PilInv /\ ServeInv /\ [Next]_vars => ServeInv'
  BY ServeStep
<1>2. PilInv /\ ServeInv /\ [Next]_vars
        => [inject /\ inject' /\ ~lost' /\ taskVars' # taskVars => InjectLeft' < InjectLeft]_vars
  BY InjectStep
<1> QED
  BY <1>1, <1>2, InitServe, PilInvariant, PTL DEF Spec, InjectAdvances
=============================================================================
