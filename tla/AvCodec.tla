------------------------------ MODULE AvCodec ------------------------------
(***************************************************************************)
(* The send/receive contract of an opened AVCodecContext, as the programs  *)
(* in share/ffmpeg/examples see it: what avcodec_send_packet,              *)
(* avcodec_receive_frame, avcodec_send_frame and avcodec_receive_packet    *)
(* answer, and what they keep.                                             *)
(*                                                                         *)
(* A codec gives one output per input, in order, and holds back up to      *)
(* "delay" inputs until it is told that no more will come. Inputs and      *)
(* outputs are the same value here: what happens to the signal is left     *)
(* out.                                                                    *)
(***************************************************************************)
EXTENDS Naturals, Sequences

Codec(Inputs) == [held : Seq(Inputs), draining : BOOLEAN]

Fresh == [held |-> <<>>, draining |-> FALSE]

\* An output can be had now.
Ready(c, delay) == c.held # <<>> /\ (c.draining \/ Len(c.held) > delay)

(* A decoder takes a packet while one decoded frame and one undecoded       *)
(* packet wait at most; no packet any more once it is draining.             *)
SendPacketRet(c, delay) ==
  IF c.draining THEN "EOF"
  ELSE IF Len(c.held) > delay + 1 THEN "EAGAIN" ELSE "ok"

(* An encoder has room for one packet that nobody has received yet.         *)
SendFrameRet(c, delay) ==
  IF c.draining THEN "EOF"
  ELSE IF Len(c.held) > delay THEN "EAGAIN" ELSE "ok"

ReceiveRet(c, delay) ==
  IF Ready(c, delay) THEN "ok" ELSE IF c.draining THEN "EOF" ELSE "EAGAIN"

Accept(c, input) == [c EXCEPT !.held = Append(@, input)]
Drain(c) == [c EXCEPT !.draining = TRUE]
Output(c) == Head(c.held)
AfterOutput(c) == [c EXCEPT !.held = Tail(@)]

=============================================================================
