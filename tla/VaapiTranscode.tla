---------------------------- MODULE VaapiTranscode ----------------------------
(***************************************************************************)
(* share/ffmpeg/examples/vaapi_transcode.c: the video stream of a file is  *)
(* decoded and encoded by hardware. The encoder and the output stream are  *)
(* set up when the first frame arrives, since they need its surfaces.      *)
(*                                                                         *)
(* A packet and its frame are named by their place in the file. Any call   *)
(* may fail.                                                               *)
(***************************************************************************)
EXTENDS AvCodec, SequencesExt, FiniteSetsExt

CONSTANTS
  MaxPackets,   \* bound: packets of the input
  DecoderDelay, \* packets the decoder holds back
  EncoderDelay  \* frames the encoder holds back

ASSUME VaapiTranscodeAssumption ==
  MaxPackets \in Nat /\ DecoderDelay \in Nat /\ EncoderDelay \in Nat

VARIABLES
  streams,      \* the stream of each packet, never changed
  position,     \* packets read
  decoder, encoder,
  cur,          \* the frame that dec_enc has received, 0 for none
  stage,        \* dec_enc was called from the loop of main or to drain
  opened,       \* the encoder is open
  initialized,  \* the static flag
  attempts,     \* references taken to the decoder's surfaces (history)
  ostreams,     \* streams of the output
  header,       \* avformat_write_header succeeded
  trailer,      \* "none", "written", or "early" when there was no header
  out,          \* frames written
  failed,       \* what has failed (history)
  ret,
  pc

vars == <<streams, position, decoder, encoder, cur, stage, opened, initialized, attempts,
          ostreams, header, trailer, out, failed, ret, pc>>
initVars == <<opened, initialized, attempts, ostreams, header>>

TypeOK ==
  /\ position \in 0 .. Len(streams)
  /\ decoder \in [held : Seq(DOMAIN streams), draining : BOOLEAN]
  /\ encoder \in [held : Seq(DOMAIN streams), draining : BOOLEAN]
  /\ cur \in 0 .. Len(streams)
  /\ stage \in {"loop", "drain"}
  /\ trailer \in {"none", "written", "early"}
  /\ failed \subseteq {"setup", "read", "decode", "init", "encode"}
  /\ ret \in {"ok", "error"}
  /\ pc \in {"setup", "loop", "drain", "receive", "init", "encode", "flush", "trailer", "end"}
  /\ encoder.held # <<>> => opened
  /\ pc = "encode" => cur > 0 /\ opened

Init ==
  /\ streams \in UNION {[1 .. n -> {"video", "other"}] : n \in 0 .. MaxPackets}
  /\ position = 0 /\ decoder = Fresh /\ encoder = Fresh
  /\ cur = 0 /\ stage = "loop"
  /\ opened = FALSE /\ initialized = FALSE /\ attempts = 0 /\ ostreams = 0
  /\ header = FALSE /\ trailer = "none" /\ out = <<>>
  /\ failed = {} /\ ret = "ok"
  /\ pc = "setup"

-----------------------------------------------------------------------------

\* Device, input, decoder and output: each failure goes to the end.
Setup ==
  /\ pc = "setup"
  /\ \/ pc' = "loop" /\ UNCHANGED <<failed, ret>>
     \/ pc' = "end" /\ ret' = "error" /\ failed' = {"setup"}
  /\ UNCHANGED <<streams, position, decoder, encoder, cur, stage, initVars, trailer, out>>

\* A mutant: main goes on reading after a failure.
LoopGoesOn(ok) == IF stage = "drain" THEN "flush" ELSE "loop"

\* Where dec_enc returns to with its result.
Return(ok) == IF stage = "drain" THEN "flush" ELSE IF ok THEN "loop" ELSE "drain"

ReadPacket ==
  /\ pc = "loop" /\ position < Len(streams)
  /\ position' = position + 1
  /\ IF streams[position'] = "other"
     THEN UNCHANGED <<decoder, pc>>
     ELSE decoder' = Accept(decoder, position') /\ pc' = "receive"
  /\ UNCHANGED <<streams, encoder, cur, stage, initVars, trailer, out, failed, ret>>

\* A packet of the stream, or the empty packet, cannot be sent.
SendFails ==
  /\ \/ pc = "loop" /\ position < Len(streams) /\ streams[position + 1] = "video"
        /\ position' = position + 1 /\ UNCHANGED stage
     \/ pc = "drain" /\ stage' = "drain" /\ UNCHANGED position
  /\ failed' = failed \cup {"decode"}
  /\ ret' = "error" /\ pc' = IF pc = "drain" THEN "flush" ELSE Return(FALSE)
  /\ UNCHANGED <<streams, decoder, encoder, cur, initVars, trailer, out>>

LoopEnds ==
  /\ pc = "loop"
  /\ \/ position = Len(streams) /\ UNCHANGED failed
     \/ failed' = failed \cup {"read"}
  /\ ret' = "error" /\ pc' = "drain"
  /\ UNCHANGED <<streams, position, decoder, encoder, cur, stage, initVars, trailer, out>>

DrainDecoder ==
  /\ pc = "drain"
  /\ stage' = "drain"
  /\ decoder' = Drain(decoder)
  /\ pc' = "receive"
  /\ UNCHANGED <<streams, position, encoder, cur, initVars, trailer, out, failed, ret>>

(* The loop of dec_enc.                                                     *)
Receive ==
  /\ pc = "receive"
  /\ IF Ready(decoder, DecoderDelay)
     THEN /\ cur' = Output(decoder) /\ decoder' = AfterOutput(decoder)
          /\ pc' = IF initialized THEN "encode" ELSE "init"
          /\ UNCHANGED ret
     ELSE pc' = Return(TRUE) /\ ret' = "ok" /\ UNCHANGED <<cur, decoder>>
  /\ UNCHANGED <<streams, position, encoder, stage, initVars, trailer, out, failed>>

ReceiveFails ==
  /\ pc = "receive"
  /\ \/ UNCHANGED decoder
     \/ Ready(decoder, DecoderDelay) /\ decoder' = AfterOutput(decoder)
  /\ failed' = failed \cup {"decode"}
  /\ ret' = "error" /\ pc' = Return(FALSE)
  /\ UNCHANGED <<streams, position, encoder, cur, stage, initVars, trailer, out>>

\* A mutant: the flag is set before the header is written.
FlagFirst ==
  /\ opened' = TRUE /\ ostreams' = ostreams + 1 /\ initialized' = TRUE
  /\ header' \in BOOLEAN
  /\ pc' = "encode" /\ UNCHANGED <<cur, failed, ret>>

(* From the reference to the surfaces to the header. Opening an encoder     *)
(* that is open already does nothing.                                       *)
Initialize ==
  /\ opened' = TRUE /\ ostreams' = ostreams + 1 /\ initialized' = TRUE
  /\ header' = TRUE
  /\ pc' = "encode" /\ UNCHANGED <<cur, failed, ret>>

InitializeFails ==
  /\ \/ opened' = opened /\ ostreams' = ostreams          \* no reference, or not opened
     \/ opened' = TRUE /\ ostreams' = ostreams             \* no stream
     \/ opened' = TRUE /\ ostreams' = ostreams + 1         \* no parameters or header
  /\ UNCHANGED <<initialized, header>>
  /\ cur' = 0 /\ failed' = failed \cup {"init"}
  /\ ret' = "error" /\ pc' = Return(FALSE)

InitEncoder ==
  /\ pc = "init"
  /\ attempts' = attempts + 1
  /\ Initialize \/ InitializeFails
  /\ UNCHANGED <<streams, position, decoder, encoder, stage, trailer, out>>

\* The loop of encode_write.
WriteAll(c) ==
  LET n == IF c.draining THEN Len(c.held) ELSE Max({0, Len(c.held) - EncoderDelay})
  IN /\ encoder' = [c EXCEPT !.held = SubSeq(@, n + 1, Len(@))]
     /\ out' = out \o SubSeq(c.held, 1, n)

(* It fails: nothing was sent, or a packet after n others is lost.          *)
WriteFails(unsent, c) ==
  \/ encoder' = unsent /\ UNCHANGED out
  \/ LET most == IF c.draining THEN Len(c.held) ELSE Max({0, Len(c.held) - EncoderDelay})
     IN \E n \in 0 .. most - 1 :
          /\ encoder' = [c EXCEPT !.held = SubSeq(@, n + 2, Len(@))]
          /\ out' = out \o SubSeq(c.held, 1, n)

EncodeWrite ==
  /\ pc = "encode"
  /\ cur' = 0
  /\ \/ WriteAll(Accept(encoder, cur)) /\ ret' = "ok" /\ pc' = "receive" /\ UNCHANGED failed
     \/ /\ WriteFails(encoder, Accept(encoder, cur))
        /\ failed' = failed \cup {"encode"}
        /\ ret' = "error" /\ pc' = Return(FALSE)
  /\ UNCHANGED <<streams, position, decoder, stage, initVars, trailer>>

\* A mutant: the encoder is not flushed.
FlushesNothing == UNCHANGED <<encoder, out>>

FlushAll == WriteAll(Drain(encoder))

\* encode_write(NULL): an encoder that was never opened refuses it.
FlushEncoder ==
  /\ pc = "flush"
  /\ IF ~opened
     THEN ret' = "error" /\ UNCHANGED <<encoder, out, failed>>
     ELSE \/ FlushAll /\ ret' = "ok" /\ UNCHANGED failed
          \/ /\ WriteFails(Drain(encoder), Drain(encoder))
             /\ ret' = "error" /\ failed' = failed \cup {"encode"}
  /\ pc' = "trailer"
  /\ UNCHANGED <<streams, position, decoder, cur, stage, initVars, trailer>>

WriteTrailer ==
  /\ pc = "trailer"
  /\ trailer' = IF header THEN "written" ELSE "early"
  /\ pc' = "end"
  /\ UNCHANGED <<streams, position, decoder, encoder, cur, stage, initVars, out, failed, ret>>

End == pc = "end" /\ UNCHANGED vars

Next ==
  \/ Setup \/ ReadPacket \/ SendFails \/ LoopEnds \/ DrainDecoder
  \/ Receive \/ ReceiveFails \/ InitEncoder \/ EncodeWrite
  \/ FlushEncoder \/ WriteTrailer \/ End

Spec == Init /\ [][Next]_vars

-----------------------------------------------------------------------------
(* Properties *)

VideoPackets == {i \in DOMAIN streams : streams[i] = "video"}

(* Frames pass through both codecs at most once and in order, whatever      *)
(* fails, and also when both are drained (238-301); none reaches the        *)
(* encoder or the muxer before the header is written, although both are fed *)
(* from inside the decoding loop (170-217).                                 *)
OutputWellFormed ==
  /\ TypeOK
  /\ LET seen == out \o encoder.held \o (IF cur > 0 THEN <<cur>> ELSE <<>>) \o decoder.held
     IN \A i, j \in DOMAIN seen : i < j => seen[i] < seen[j]
  /\ out # <<>> \/ encoder.held # <<>> => header

(* When nothing fails, all frames of the stream are written, in order, and  *)
(* if there is one, between header and trailer, and the program returns 0.  *)
CleanRunTranscodesAll ==
  pc = "end" /\ failed = {} =>
    /\ ToSet(out) = VideoPackets
    /\ \A i, j \in DOMAIN out : i < j => out[i] < out[j]
    /\ out # <<>> => trailer = "written" /\ ret = "ok"

(* A set-up of the encoder that failed is tried again only once, by the     *)
(* drain of the decoder, and then the file may get a second stream and a    *)
(* reference to the surfaces is lost; never more.                           *)
RetriedOnlyByDrain ==
  /\ attempts <= 2 /\ ostreams <= attempts
  /\ attempts = 2 => stage = "drain" /\ "init" \in failed

=============================================================================
