------------------------------ MODULE DataPath ------------------------------
(***************************************************************************)
(* The way of a radar frame through data_path.c, from the interrupt of the *)
(* programmable logic (PL) to the UDP messages of protocol_common.c.       *)
(*                                                                         *)
(* Five threads of the program take part: the two that wait for an         *)
(* interrupt (cpib at the beginning of a frame, rdmap when its data is     *)
(* there), the push task, the algorithm task and the thread that sends UDP *)
(* messages.  A frame is copied to the slot of its wave position; after    *)
(* that only a command that points to the slot goes from queue to queue,   *)
(* here as the position.  Nothing keeps the slot while the command waits or *)
(* while a task works on what is in it.                                    *)
(***************************************************************************)
EXTENDS Naturals, Sequences, SequencesExt

CONSTANTS Slots,     \* frames that abyDataPl holds: 11
          QueueLen,  \* mq_maxmsg of the queue of a task: 10
          UdpLen,    \* mq_maxmsg of the queue of UDP messages: 20
          Modes      \* values that sDataPathOutEn takes

ASSUME DataAssumption ==
  /\ QueueLen \in Nat \ {0} /\ UdpLen \in Nat \ {0}
  /\ Slots = QueueLen + 1
  /\ Modes \subseteq 0 .. 5 /\ 0 \in Modes

VARIABLES
  cpibIrq,  \* irq_in of the cpib device
  rdmapIrq, \* irq_in of the rdmap device
  wave,     \* wave_pos, which is also the position the PL writes to
  donePos,  \* register 0x2058: position of the last frame that is done
  reader,   \* rdmap interrupt thread: progress, slot, frames it left out
  pushQ,    \* queue /data_path_push_adc
  push,     \* push task: progress, its command, the buffer it fills
  mode,     \* sDataPathOutEn
  busy,     \* adc_send_busy_flag
  algQ,     \* queue /data_path_alg
  alg,      \* algorithm task: progress and its command
  udpQ,     \* queue of UDP messages: the buffers they point to
  udp,      \* thread that sends them: progress and buffer
  lock,     \* udpMcb.lock: its owner
  overrun,  \* a thread fell behind the PL (history)
  late      \* the algorithm task still had a frame when the push task took its last one,
            \* and has not come to rest since (history)

plVars   == <<cpibIrq, rdmapIrq, wave, donePos>>
pushVars == <<pushQ, push>>
sendVars == <<busy, udpQ, udp, lock>>
algVars  == <<algQ, alg, late>>
vars == <<plVars, reader, pushVars, mode, sendVars, algVars, overrun>>

Positions == 0 .. Slots - 1
Buffers   == {"adc", "rdmap"}
Nothing   == "none"

\* Between two commands the push task holds none.
Idle == [pc |-> "idle", pos |-> 0, test |-> 1, buffer |-> "adc"]

AlgIdle == [pc |-> "idle", pos |-> 0]
Waiting == [pc |-> "wait", buffer |-> Nothing]

\* The slots the algorithm task needs: of its command and of those in its queue.
AlgNeeds == Range(algQ) \cup (IF alg.pc = "idle" THEN {} ELSE {alg.pos})

Init ==
  /\ cpibIrq = TRUE /\ rdmapIrq = FALSE
  /\ wave = 0 /\ donePos = 0
  /\ reader = [pc |-> "wait", pos |-> 0, count |-> 0]
  /\ pushQ = <<>> /\ push = Idle
  /\ mode = 0 /\ busy = FALSE
  /\ algQ = <<>> /\ alg = AlgIdle /\ late = FALSE
  /\ udpQ = <<>> /\ udp = Waiting
  /\ lock = Nothing
  /\ overrun = FALSE

-----------------------------------------------------------------------------
(***************************************************************************)
(* The PL ends a frame and begins the next.  pl-event keeps one pending    *)
(* bit per device.  The threads keep up when both are back in select.      *)
(***************************************************************************)
FrameDone ==
  /\ cpibIrq' = TRUE /\ rdmapIrq' = TRUE /\ donePos' = wave
  /\ overrun' = (overrun \/ cpibIrq \/ rdmapIrq \/ reader.pc # "wait")
  /\ UNCHANGED <<wave, reader, pushVars, mode, sendVars, algVars>>

\* Mutant: the position wraps one frame early.
WrapsEarly(w) == IF w >= Slots - 2 THEN 0 ELSE w + 1

NextWave(w) == IF w >= Slots - 1 THEN 0 ELSE w + 1

\* data_path_cpib_handler, once poll has taken the pending bit.
CpibHandler ==
  /\ cpibIrq
  /\ cpibIrq' = FALSE /\ wave' = NextWave(wave)
  /\ UNCHANGED <<rdmapIrq, donePos, reader, pushVars, mode, sendVars, algVars, overrun>>

\* poll clears the pending bit and select returns.
RdmapPoll ==
  /\ reader.pc = "wait" /\ rdmapIrq
  /\ rdmapIrq' = FALSE /\ reader' = [reader EXCEPT !.pc = "read"]
  /\ UNCHANGED <<cpibIrq, wave, donePos, pushVars, mode, sendVars, algVars, overrun>>

\* The handler leaves out the first two frames.
RdmapSkip ==
  /\ reader.pc = "read" /\ reader.count < 2
  /\ reader' = [reader EXCEPT !.pc = "wait", !.count = @ + 1]
  /\ UNCHANGED <<plVars, pushVars, mode, sendVars, algVars, overrun>>

\* It copies the frame to its slot, whoever may still need what is there.
RdmapCopy ==
  /\ reader.pc = "read" /\ reader.count = 2
  /\ reader' = [reader EXCEPT !.pc = "send", !.pos = donePos]
  /\ overrun' = (overrun \/ Len(pushQ) = QueueLen)
  /\ UNCHANGED <<plVars, pushVars, mode, sendVars, algVars>>

RdmapSend ==
  /\ reader.pc = "send" /\ Len(pushQ) < QueueLen
  /\ pushQ' = Append(pushQ, reader.pos)
  /\ reader' = [reader EXCEPT !.pc = "wait", !.pos = 0]
  /\ UNCHANGED <<plVars, push, mode, sendVars, algVars, overrun>>

-----------------------------------------------------------------------------
(***************************************************************************)
(* data_path_push_adc_cmd_task.  sDataPathOutEn is read again by every     *)
(* test, and other threads may change it in between.                       *)
(***************************************************************************)
PushReceive ==
  /\ push.pc = "idle" /\ pushQ # <<>>
  /\ push'  = [push EXCEPT !.pc = "received", !.pos = Head(pushQ)]
  /\ pushQ' = Tail(pushQ)
  /\ late'  = (AlgNeeds # {})
  /\ UNCHANGED <<plVars, reader, mode, sendVars, algQ, alg, overrun>>

AlgBusy == alg.pc \in {"work", "send"}

\* A frame goes to the algorithm unless that is busy: every mode is in 0 .. 5.
PushReceived ==
  /\ push.pc = "received"
  /\ push' = [push EXCEPT !.pc = IF AlgBusy THEN "test" ELSE "toAlg"]
  /\ UNCHANGED <<plVars, reader, pushQ, mode, sendVars, algVars, overrun>>

PushToAlg ==
  /\ push.pc = "toAlg" /\ Len(algQ) < QueueLen
  /\ algQ' = Append(algQ, push.pos)
  /\ push' = [push EXCEPT !.pc = "test"]
  /\ UNCHANGED <<plVars, reader, pushQ, mode, sendVars, alg, late, overrun>>

\* Mutant: the flag is not tested.
TestHoldsBusy(k) == mode = k

\* Mode 2 pushes nothing and needs no buffer.
TestHolds(k) == mode = k /\ (k # 2 => ~busy)

PushTest ==
  LET k == push.test
  IN  /\ push.pc = "test"
      /\ push' = IF TestHolds(k) /\ k # 2
                 THEN [push EXCEPT !.pc = "fill", !.buffer = IF k = 3 THEN "rdmap" ELSE "adc"]
                 ELSE IF k = 5 \/ TestHolds(k) THEN Idle
                 ELSE [push EXCEPT !.test = k + 1]
      /\ UNCHANGED <<plVars, reader, pushQ, mode, sendVars, algVars, overrun>>

\* memcpy from the slot, the head of the message, and the flag.
PushFill ==
  /\ push.pc = "fill"
  /\ busy' = TRUE
  /\ push' = [push EXCEPT !.pc = "send"]
  /\ UNCHANGED <<plVars, reader, pushQ, mode, udpQ, udp, lock, algVars, overrun>>

\* After a message the push task is through, but in mode 5 a second one follows.
AfterSend == IF push.test = 5 /\ push.buffer = "adc" THEN [push EXCEPT !.pc = "spin"] ELSE Idle

\* The result is not looked at: with a full queue the message is lost.
PushSend ==
  /\ push.pc = "send"
  /\ udpQ' = IF Len(udpQ) < UdpLen THEN Append(udpQ, push.buffer) ELSE udpQ
  /\ push' = AfterSend
  /\ UNCHANGED <<plVars, reader, pushQ, mode, busy, udp, lock, algVars, overrun>>

\* Mutant: no wait for the first message.
PushNoSpin ==
  /\ push.pc = "spin"
  /\ push' = [push EXCEPT !.pc = "fill", !.buffer = "rdmap"]
  /\ UNCHANGED <<plVars, reader, pushQ, mode, sendVars, algVars, overrun>>

\* while( adc_send_busy_flag ): then the rdmap part, copied from the slot only now.
PushSpin ==
  /\ push.pc = "spin" /\ ~busy
  /\ push' = [push EXCEPT !.pc = "fill", !.buffer = "rdmap"]
  /\ UNCHANGED <<plVars, reader, pushQ, mode, sendVars, algVars, overrun>>

SetMode ==
  /\ mode' \in Modes
  /\ UNCHANGED <<plVars, reader, pushVars, sendVars, algVars, overrun>>

-----------------------------------------------------------------------------
(***************************************************************************)
(* data_path_alg_cmd_task.  The busy flag goes up some time after the      *)
(* command has left the queue.  One message stands for all that the        *)
(* algorithms send, under the lock of the UDP socket.                      *)
(***************************************************************************)
AlgReceive ==
  /\ alg.pc = "idle" /\ algQ # <<>>
  /\ alg' = [pc |-> "taken", pos |-> Head(algQ)] /\ algQ' = Tail(algQ)
  /\ UNCHANGED <<plVars, reader, pushVars, mode, sendVars, late, overrun>>

AlgStart ==
  /\ alg.pc = "taken" /\ alg' = [alg EXCEPT !.pc = "work"]
  /\ UNCHANGED <<plVars, reader, pushVars, mode, sendVars, algQ, late, overrun>>

AlgSend ==
  /\ alg.pc = "work" /\ lock = Nothing
  /\ alg' = [alg EXCEPT !.pc = "send"] /\ lock' = "alg"
  /\ UNCHANGED <<plVars, reader, pushVars, mode, busy, udpQ, udp, algQ, late, overrun>>

AlgEnd ==
  /\ alg.pc = "send"
  /\ alg' = AlgIdle /\ lock' = Nothing /\ late' = (late /\ algQ # <<>>)
  /\ UNCHANGED <<plVars, reader, pushVars, mode, busy, udpQ, udp, algQ, overrun>>

-----------------------------------------------------------------------------
(***************************************************************************)
(* protocol_udp_send_thread.  Without a link the message is given up.      *)
(***************************************************************************)
\* Mutant: the callback is not called for a message that was given up.
UdpReceiveQuiet ==
  /\ udp.pc = "wait" /\ udpQ # <<>>
  /\ udp' \in {[pc |-> "lock", buffer |-> Head(udpQ)], Waiting}
  /\ udpQ' = Tail(udpQ)
  /\ UNCHANGED <<plVars, reader, pushVars, mode, busy, lock, algVars, overrun>>

UdpReceive ==
  /\ udp.pc = "wait" /\ udpQ # <<>>
  /\ \E pc \in {"lock", "call"} : udp' = [pc |-> pc, buffer |-> Head(udpQ)]
  /\ udpQ' = Tail(udpQ)
  /\ UNCHANGED <<plVars, reader, pushVars, mode, busy, lock, algVars, overrun>>

UdpLock ==
  /\ udp.pc = "lock" /\ lock = Nothing
  /\ udp' = [udp EXCEPT !.pc = "send"] /\ lock' = "udp"
  /\ UNCHANGED <<plVars, reader, pushVars, mode, busy, udpQ, algVars, overrun>>

\* All packets, each tried 10000 times at most.
UdpSend ==
  /\ udp.pc = "send"
  /\ udp' = [udp EXCEPT !.pc = "call"] /\ lock' = Nothing
  /\ UNCHANGED <<plVars, reader, pushVars, mode, busy, udpQ, algVars, overrun>>

\* data_path_adc_clear_busy, called with any result.
UdpCall ==
  /\ udp.pc = "call"
  /\ busy' = FALSE /\ udp' = Waiting
  /\ UNCHANGED <<plVars, reader, pushVars, mode, udpQ, lock, algVars, overrun>>

-----------------------------------------------------------------------------
Reader == RdmapPoll \/ RdmapSkip \/ RdmapCopy \/ RdmapSend
Push   == \/ PushReceive \/ PushReceived \/ PushToAlg \/ PushTest
          \/ PushFill \/ PushSend \/ PushSpin
Alg    == AlgReceive \/ AlgStart \/ AlgSend \/ AlgEnd
Udp    == UdpReceive \/ UdpLock \/ UdpSend \/ UdpCall

Next == FrameDone \/ CpibHandler \/ Reader \/ SetMode \/ Push \/ Alg \/ Udp

\* Every thread runs, and none is kept out of the lock for ever.
Fairness ==
  /\ WF_vars(CpibHandler) /\ WF_vars(Reader) /\ WF_vars(Push) /\ WF_vars(Alg) /\ WF_vars(Udp)
  /\ SF_vars(AlgSend) /\ SF_vars(UdpLock)

Spec == Init /\ [][Next]_vars /\ Fairness

-----------------------------------------------------------------------------
ReaderState == [pc : {"wait", "read", "send"}, pos : Positions, count : 0 .. 2]
PushState   == [pc : {"idle", "received", "toAlg", "test", "fill", "send", "spin"},
                pos : Positions, test : 1 .. 5, buffer : Buffers]
AlgState    == [pc : {"idle", "taken", "work", "send"}, pos : Positions]
UdpState    == [pc : {"wait", "lock", "send", "call"}, buffer : Buffers \cup {Nothing}]

\* Types of all variables (data_path.c, protocol_common.c).
DataTypeOK ==
  /\ cpibIrq \in BOOLEAN /\ rdmapIrq \in BOOLEAN /\ busy \in BOOLEAN /\ overrun \in BOOLEAN
  /\ wave \in Positions /\ donePos \in Positions
  /\ reader \in ReaderState
  /\ pushQ \in Seq(Positions) /\ Len(pushQ) <= QueueLen
  /\ push \in PushState
  /\ mode \in Modes
  /\ algQ \in Seq(Positions) /\ alg \in AlgState
  /\ late \in BOOLEAN
  /\ udpQ \in Seq(Buffers)
  /\ udp \in UdpState
  /\ lock \in {"alg", "udp", Nothing}

\* The slots somebody still needs: the push task, a command in its queue, or the algorithm
\* task, which got the command from the push task with the pointers it had.
Needed == Range(pushQ) \cup (IF push.pc = "idle" THEN {} ELSE {push.pos})
            \cup (IF late THEN {} ELSE AlgNeeds)

\* As long as the interrupt threads keep up and find room in the queue, 11 slots are
\* enough: no frame is copied over one that waits, that is being pushed, or that the
\* algorithm task has or will get.  The last holds while that task is through with a frame
\* before the push task takes the next; what it still needs after that may be copied over
\* ("alg timeover" is all the code does then; data_path.c:227-354, 456-490).
SlotsSuffice ==
  [][reader.pc = "read" /\ reader'.pc = "send" /\ ~overrun' => reader'.pos \notin Needed]_vars

\* The buffer that is filled, and those the UDP thread has or will get.
Filled == IF push.pc \in {"fill", "send"} THEN {push.buffer} ELSE {}
Out == Range(udpQ) \cup (IF udp.buffer = Nothing THEN {} ELSE {udp.buffer})

Handover == INSTANCE SendBuffer WITH filled <- Filled, out <- Out

\* The push task and the UDP thread keep the promise of SendBuffer: one flag for
\* two buffers is enough, whatever sDataPathOutEn changes to, and every buffer
\* comes back (data_path.c:497-671, protocol_common.c:243-271).
HandoverSpec == Handover!Spec

\* Whoever waits can be waked: the flag is up only while a buffer is on its way to the
\* callback that clears it, the message that carries the buffer finds room in the
\* queue, and who has the lock of the socket is about to give it back
\* (data_path.c:497-671, protocol_common.c:179-271).
WaitsHaveAnEnd ==
  /\ busy => push.pc = "send" \/ Out # {}
  /\ push.pc = "send" => Len(udpQ) < UdpLen
  /\ lock = "alg" <=> alg.pc = "send"
  /\ lock = "udp" <=> udp.pc = "send"

\* No wait of a thread is for ever: the frame the interrupt thread has copied
\* gets into the queue (data_path.c:211, 334, 651).
FrameGetsIn == reader.pc = "send" ~> reader.pc = "wait"

\* The most steps that can follow from what the push task has in its hands: its tests,
\* then one message or, in mode 5, two.  What it passes on is counted in, four steps each.
PushSteps ==
  LET last == ~(push.test = 5 /\ push.buffer = "adc")
  IN  CASE push.pc = "received" -> 24
        [] push.pc = "toAlg"    -> 23
        [] push.pc = "test"     -> 19 - push.test
        [] push.pc = "fill"     -> IF last THEN 6 ELSE 13
        [] push.pc = "send"     -> IF last THEN 5 ELSE 12
        [] push.pc = "spin"     -> 7
        [] OTHER                -> 0

AlgSteps == CASE alg.pc = "taken" -> 3 [] alg.pc = "work" -> 2 [] alg.pc = "send" -> 1 [] OTHER -> 0
UdpSteps == CASE udp.pc = "lock" -> 3 [] udp.pc = "send" -> 2 [] udp.pc = "call" -> 1 [] OTHER -> 0

WorkLeft == 25 * Len(pushQ) + PushSteps + 4 * Len(algQ) + AlgSteps + 4 * Len(udpQ) + UdpSteps

\* Every frame is worked off: between two frames of the interrupt thread each step of
\* the push, algorithm and UDP tasks leaves less to do, whatever the mode changes to,
\* so they cannot keep each other busy (data_path.c:497-671, protocol_common.c:179-271).
WorkAdvances ==
  [][<<pushVars, sendVars, algVars>>' # <<pushVars, sendVars, algVars>> /\ reader' = reader
       => WorkLeft' < WorkLeft]_vars
=============================================================================
