-------------------------------- MODULE Pil --------------------------------
(***************************************************************************)
(* Processor in the loop: recorded frames are sent to the device in parts  *)
(* (pil.c, alink_pil.c), and a task of data_path.c injects them into the   *)
(* programmable logic (PL) in place of the ADC data.                       *)
(*                                                                         *)
(* The commands come one at a time: the order mutex of alink_order.c is    *)
(* held over each.  The task runs beside them.  Closing only clears the    *)
(* task's eRunState; a thread that waits in mq_receive does not notice,    *)
(* and opening again starts another one on the same structure.             *)
(*                                                                         *)
(* Lengths are in parts of a frame.  Left out: the registers that carry    *)
(* the head of the frame to the PL, the trigger, and the answers.  The     *)
(* memcpy that writes outside the buffer ends the run (stray): what comes  *)
(* after is undefined.                                                     *)
(***************************************************************************)
EXTENDS Naturals, FiniteSets

CONSTANTS FrameSize, \* parts of a frame: PIL_PACKAGE_SIZE
          Word,      \* what a uint32_t holds, in parts
          Threads,   \* threads that can be started (bounds the number of openings)
          Queues,    \* queues that can be created
          NoQueue    \* no descriptor, no name

ASSUME PilAssumption ==
  /\ FrameSize \in Nat \ {0} /\ Word \in Nat /\ Word > 2 * FrameSize
  /\ IsFiniteSet(Threads) /\ NoQueue \notin Queues

VARIABLES
  open,     \* bFlagOpen
  inject,   \* bFlagInject
  offset,   \* uOffset
  size,     \* uSize
  buffer,   \* awBuffer: what is in each part
  stray,    \* a part was written outside awBuffer
  plStatus, \* data_path_pil_status
  run,      \* eRunState of sDataPathpilTask
  mq,       \* its descriptor: the queue behind it
  named,    \* the queue that has the name /data_path_pil_task
  frames,   \* number of frames in each queue
  thread,   \* progress of each thread, and the queue it waits at
  lost      \* an injection can not end (history)

infoVars == <<open, inject, offset, size, buffer, stray>>
taskVars == <<run, mq, named, frames, thread>>
vars == <<infoVars, plStatus, taskVars, lost>>

Parts == 0 .. FrameSize - 1
At(pc, q) == [pc |-> pc, on |-> q]

Init ==
  /\ open = FALSE /\ inject = FALSE
  /\ offset = 0 /\ size = 0
  /\ buffer = [k \in Parts |-> "none"]
  /\ stray = FALSE
  /\ plStatus = "done"
  /\ run = FALSE
  /\ mq = NoQueue /\ named = NoQueue
  /\ frames = [q \in Queues |-> 0]
  /\ thread = [i \in Threads |-> At("none", NoQueue)]
  /\ lost = FALSE

-----------------------------------------------------------------------------
(***************************************************************************)
(* Commands                                                                *)
(***************************************************************************)
\* A queue nobody has used, which mq_open creates when the name is free.
Fresh(q) == /\ q # mq /\ q # named /\ frames[q] = 0
            /\ \A i \in Threads : thread[i].on # q

\* What mq_open finds or creates.
Opened(q) == IF named = NoQueue THEN Fresh(q) ELSE q = named

\* pil_set_open, with data_path_pil_init and data_path_module_init.
SetOpen(i, q) ==
  /\ ~inject /\ ~open
  /\ ~run /\ thread[i].pc = "none"
  /\ Opened(q)
  /\ open' = TRUE /\ run' = TRUE
  /\ mq' = q /\ named' = q
  /\ thread' = [thread EXCEPT ![i] = At("loop", NoQueue)]
  /\ UNCHANGED <<inject, offset, size, buffer, stray, plStatus, frames, lost>>

\* data_path_pil_init fails, and pil_set_open only logs it: there is no queue, or no thread
\* for it and it is closed again.  Threads of earlier openings may have seen eRunState set
\* in between, and wait at it.
SetOpenFails ==
  /\ ~inject /\ ~open /\ ~run
  /\ open' = TRUE /\ mq' = NoQueue
  /\ \/ UNCHANGED <<named, thread>>
     \/ \E q \in Queues, W \in SUBSET {i \in Threads : thread[i].pc = "loop"} :
          /\ Opened(q)
          /\ named' = NoQueue
          /\ thread' = [i \in Threads |-> IF i \in W THEN At("receive", q) ELSE thread[i]]
  /\ UNCHANGED <<inject, offset, size, buffer, stray, plStatus, run, frames, lost>>

\* Mutant: a close while a frame is being injected is not refused.
SetCloseAlways ==
  /\ open
  /\ open' = FALSE /\ run' = FALSE
  /\ UNCHANGED <<inject, offset, size, buffer, stray, plStatus, mq, named, frames, thread, lost>>

\* pil_set_close, with data_path_pil_uinit.
SetClose ==
  /\ ~inject /\ open
  /\ open' = FALSE /\ run' = FALSE
  /\ UNCHANGED <<inject, offset, size, buffer, stray, plStatus, mq, named, frames, thread, lost>>

\* Everything that was sent before belongs to another frame now.
Outdated == [k \in Parts |-> IF buffer[k] = "none" THEN "none" ELSE "old"]

\* Mutant: the offset is not set back.
StartTransmitGoesOn(n) ==
  /\ open /\ ~inject
  /\ size' = n /\ buffer' = Outdated
  /\ UNCHANGED <<open, inject, offset, stray, plStatus, taskVars, lost>>

\* pil_start_transmit for n parts.
StartTransmit(n) ==
  /\ open /\ ~inject
  /\ offset' = 0 /\ size' = n /\ buffer' = Outdated
  /\ UNCHANGED <<open, inject, stray, plStatus, taskVars, lost>>

\* check_datapath_pil_status: a loaded frame counts as done after 8 ms.
PlReady ==
  \/ plStatus = "done" /\ UNCHANGED plStatus
  \/ plStatus = "loaded" /\ plStatus' = "done"

Stored(at, n, what) == [k \in Parts |-> IF at <= k /\ k < at + n THEN what ELSE buffer[k]]

\* pil_transmit_data with byStatus: n parts are sent again.  uOffset + uLength is a
\* uint32_t: from an offset near its end on, the test passes and memcpy misses the buffer.
TransmitAgain(at, n) ==
  /\ open /\ ~inject /\ PlReady
  /\ (at + n) % Word <= offset
  /\ IF at + n < Word THEN buffer' = Stored(at, n, "new") /\ UNCHANGED stray
                      ELSE stray' = TRUE /\ UNCHANGED buffer
  /\ UNCHANGED <<open, inject, offset, size, taskVars, lost>>

\* The next n parts, from offset at of the frame.  They are stored behind the
\* last ones whatever at is, and the answer says so.
What(at) == IF at = offset THEN "new" ELSE "wrong"

TransmitPart(at, n) ==
  /\ open /\ ~inject /\ PlReady
  /\ offset + n < FrameSize
  /\ buffer' = Stored(offset, n, What(at))
  /\ offset' = offset + n
  /\ UNCHANGED <<open, inject, size, stray, taskVars, lost>>

\* The frame is complete: it goes to the queue of the task.  It is not noticed that there
\* is no task, or that the queue cannot be used.
TransmitLast(at, n) ==
  /\ open /\ ~inject
  /\ plStatus \in {"done", "loaded"}
  /\ offset + n = FrameSize
  /\ buffer' = Stored(offset, n, What(at))
  /\ inject' = TRUE /\ size' = FrameSize /\ offset' = 0
  /\ plStatus' = "inform"
  /\ frames' = IF run /\ mq # NoQueue THEN [frames EXCEPT ![mq] = @ + 1] ELSE frames
  /\ lost' = (lost \/ ~run)
  /\ UNCHANGED <<open, stray, run, mq, named, thread>>

\* pil_inject_data: nothing follows that clears the flag.
InjectData ==
  /\ ~inject /\ size = offset /\ open
  /\ inject' = TRUE /\ offset' = 0
  /\ lost' = TRUE
  /\ UNCHANGED <<open, size, buffer, stray, plStatus, taskVars>>

-----------------------------------------------------------------------------
(***************************************************************************)
(* data_path_module_task with data_path_pil_set_data.                      *)
(***************************************************************************)
\* The test of eRunState, and the descriptor mq_receive is called with.  Without
\* one it fails and the loop spins.
Loop(i) ==
  /\ thread[i].pc = "loop"
  /\ \/ ~run /\ thread' = [thread EXCEPT ![i] = At("leave", NoQueue)]
     \/ run /\ mq # NoQueue /\ thread' = [thread EXCEPT ![i] = At("receive", mq)]
  /\ UNCHANGED <<infoVars, plStatus, run, mq, named, frames, lost>>

\* Mutant: the next frame is let in before this one is written.
ReceiveEarly(i) ==
  /\ thread[i].pc = "receive" /\ frames[thread[i].on] > 0
  /\ frames' = [frames EXCEPT ![thread[i].on] = @ - 1]
  /\ thread' = [thread EXCEPT ![i] = At("frame", NoQueue)]
  /\ offset' = size /\ inject' = FALSE
  /\ UNCHANGED <<open, size, buffer, stray, plStatus, run, mq, named, lost>>

Receive(i) ==
  /\ thread[i].pc = "receive" /\ frames[thread[i].on] > 0
  /\ frames' = [frames EXCEPT ![thread[i].on] = @ - 1]
  /\ thread' = [thread EXCEPT ![i] = At("frame", NoQueue)]
  /\ UNCHANGED <<infoVars, plStatus, run, mq, named, lost>>

\* lseek or write of the PL's memory fails: an early return.
WriteFails(i) ==
  /\ thread[i].pc = "frame"
  /\ thread' = [thread EXCEPT ![i] = At("loop", NoQueue)]
  /\ lost' = TRUE
  /\ UNCHANGED <<infoVars, plStatus, run, mq, named, frames>>

Write(i) ==
  /\ thread[i].pc = "frame"
  /\ plStatus' = "loaded"
  /\ thread' = [thread EXCEPT ![i] = At("written", NoQueue)]
  /\ UNCHANGED <<infoVars, run, mq, named, frames, lost>>

\* pil_set_status(false), which is set_pil_inject_status.
SetStatus(i) ==
  /\ thread[i].pc = "written"
  /\ offset' = size /\ inject' = FALSE
  /\ thread' = [thread EXCEPT ![i] = At("loop", NoQueue)]
  /\ UNCHANGED <<open, size, buffer, stray, plStatus, run, mq, named, frames, lost>>

\* mq_close and mq_unlink of whatever queue the structure holds by now.
Leave(i) ==
  /\ thread[i].pc = "leave"
  /\ mq' = NoQueue /\ named' = NoQueue
  /\ lost' = (lost \/ run)
  /\ thread' = [thread EXCEPT ![i] = At("closed", NoQueue)]
  /\ UNCHANGED <<infoVars, plStatus, run, frames>>

\* psModule->mq = -1.
Left(i) ==
  /\ thread[i].pc = "closed"
  /\ mq' = NoQueue
  /\ lost' = (lost \/ run)
  /\ thread' = [thread EXCEPT ![i] = At("gone", NoQueue)]
  /\ UNCHANGED <<infoVars, plStatus, run, named, frames>>

\* data_path_rdmap_handler: the PL has finished some frame.
RdmapDone ==
  /\ plStatus' = "done"
  /\ UNCHANGED <<infoVars, taskVars, lost>>

Thread(i) ==
  \/ Loop(i) \/ Receive(i) \/ WriteFails(i) \/ Write(i) \/ SetStatus(i) \/ Leave(i) \/ Left(i)

Command ==
  \/ \E i \in Threads, q \in Queues : SetOpen(i, q)
  \/ SetOpenFails \/ SetClose
  \/ \E n \in 0 .. FrameSize : StartTransmit(n)
  \/ \E at \in 0 .. Word - 1, n \in 0 .. FrameSize :
       TransmitAgain(at, n) \/ TransmitPart(at, n) \/ TransmitLast(at, n)
  \/ InjectData

Next == ~stray /\ (Command \/ RdmapDone \/ \E i \in Threads : Thread(i))

\* The threads run; clients may stay silent.
Spec == Init /\ [][Next]_vars /\ \A i \in Threads : WF_vars(~stray /\ Thread(i))

-----------------------------------------------------------------------------
\* Types of all variables (pil.c, data_path.c).
PilTypeOK ==
  /\ open \in BOOLEAN /\ inject \in BOOLEAN /\ run \in BOOLEAN /\ lost \in BOOLEAN
  /\ stray \in BOOLEAN
  /\ offset \in 0 .. FrameSize /\ size \in 0 .. FrameSize
  /\ buffer \in [Parts -> {"none", "old", "wrong", "new"}]
  /\ plStatus \in {"inform", "loaded", "done"}
  /\ mq \in Queues \cup {NoQueue} /\ named \in Queues \cup {NoQueue}
  /\ frames \in [Queues -> Nat]
  /\ thread \in [Threads -> [pc : {"none", "loop", "receive", "frame", "written", "leave",
                                   "closed", "gone"},
                             on : Queues \cup {NoQueue}]]

\* A frame is on its way: in a queue, or with a thread that has not reported it.
Queued  == {q \in Queues : frames[q] > 0}
Holders == {i \in Threads : thread[i].pc \in {"frame", "written"}}

\* However often the task has been opened, at most one frame is on its way, so the
\* command that sends it never waits at a full queue with the order mutex held, and
\* no other is accepted meanwhile (pil.c:116-275, data_path.c:201-215).
OneFrame ==
  /\ \A q \in Queued : inject /\ frames[q] = 1 /\ Holders = {} /\ \A r \in Queued : r = q
  /\ \A i \in Holders : inject /\ Queued = {} /\ \A j \in Holders : j = i

\* What is injected was sent since the last start of a transfer, all of it: nothing
\* of an older frame is left in it (pil.c:193, 252-270).
FrameIsNew == Queued \cup Holders # {} => \A k \in Parts : buffer[k] \in {"new", "wrong"}

\* An injection that is going on is never without its frame: it waits where the
\* task will look for it, or a thread of the task has it, unless one of the events
\* of lost has taken place (pil.c:116-305, data_path.c:143-224).
Serving(i) ==
  \/ thread[i].pc \in {"loop", "frame", "written"}
  \/ thread[i].pc = "receive" /\ thread[i].on = mq

FrameOnItsWay ==
  inject /\ ~lost =>
    \/ Holders # {}
    \/ Queued = {mq} /\ \E i \in Threads : Serving(i)

\* An injection ends, unless pil_inject_data started it, there was no task as opening had
\* failed, the PL's memory cannot be written, or an old thread has closed the new queue
\* (pil.c:128, 304, data_path.c:151-153, 799).
InjectEnds == inject ~> (~inject \/ lost)

\* What is left to do before an injection ends: the threads that have still to find
\* the queue, and how far the frame is.
InjectLeft ==
  Cardinality({i \in Threads : thread[i].pc = "loop"})
    + (IF Holders = {} THEN 3
       ELSE IF \E i \in Holders : thread[i].pc = "frame" THEN 2 ELSE 1)

\* While a frame is being injected the task, however many threads it has by then,
\* does nothing that does not bring the end nearer, unless it is an event of lost
\* (data_path.c:143-224).
InjectAdvances ==
  [][inject /\ inject' /\ ~lost' /\ taskVars' # taskVars => InjectLeft' < InjectLeft]_vars
=============================================================================
