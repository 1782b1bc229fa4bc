----------------------------- MODULE SendBuffer -----------------------------
(***************************************************************************)
(* What the push task and the thread that sends UDP messages promise each  *)
(* other about the buffers they share (sAdcSendBuf and sRdmapSendBuf of    *)
(* data_path.c): the task starts to fill a buffer only when it has all of  *)
(* them, fills one at a time and hands it over.  The sender returns every  *)
(* buffer.                                                                 *)
(***************************************************************************)
CONSTANT Buffers  \* the buffers they share

VARIABLES filled, \* the buffer the task fills: a set of at most one
          out     \* the buffers the sender has

vars == <<filled, out>>

Init == filled = {} /\ out = {}

Fill(b) == filled = {} /\ out = {} /\ filled' = {b} /\ UNCHANGED out

Hand == filled # {} /\ out' = filled /\ filled' = {}

Return == out # {} /\ out' = {} /\ UNCHANGED filled

Next == (\E b \in Buffers : Fill(b)) \/ Hand \/ Return

Safety == Init /\ [][Next]_vars
Spec == Safety /\ WF_vars(Hand) /\ WF_vars(Return)
=============================================================================
