----------------------------- MODULE DemuxDecode -----------------------------
(***************************************************************************)
(* Programs of share/ffmpeg/examples that decode a stream of a file, or    *)
(* two: extract_mvs.c, hw_decode.c, qsvdec.c, filtering_video.c and        *)
(* filtering_audio.c ("filtering"), and demuxing_decoding.c ("demuxing").  *)
(*                                                                         *)
(* They share their loop and differ in how they set up, when they go on    *)
(* after a failure, which decoder they flush, what becomes of a result,    *)
(* and what they free. Any call may fail. A packet is named by its place   *)
(* in the file; "video" is the stream that a program with one decodes.     *)
(***************************************************************************)
EXTENDS AvCodec, SequencesExt, FiniteSetsExt

CONSTANTS
  Programs,     \* those considered
  MaxPackets,   \* bound: packets of the file
  DecoderDelay  \* packets a decoder holds back

ASSUME DemuxAssumption ==
  /\ Programs \subseteq {"extract_mvs", "hw_decode", "qsvdec", "filtering", "demuxing"}
  /\ MaxPackets \in Nat /\ DecoderDelay \in Nat

VARIABLES
  program,
  streams,   \* the stream of each packet of the file, never changed
  first,     \* the stream with index 0, never changed
  position,  \* packets read
  active,    \* streams that are decoded
  decoder,   \* the decoder of each stream
  out,       \* frames written
  step,      \* set-up steps done
  open,      \* what is allocated
  failed,    \* what has failed (history)
  ret,       \* the variable ret: negative, zero or positive
  status,    \* the program's exit status
  pc

given == <<program, streams, first>>
vars == <<given, position, active, decoder, out, step, open, failed, ret, status, pc>>

Decoded == {"video", "audio"}

\* "lost" is a decoder, or the options for one, that nothing points to any more,
\* "packet" the data of the packet that the loop was left with.
Resources == {"infmt", "decoder", "audio decoder", "device", "graph", "output", "audio output",
              "image", "frame", "packet", "lost"}

Eof == -2

TypeOK ==
  /\ program \in Programs
  /\ position \in 0 .. Len(streams)
  /\ active \subseteq Decoded
  /\ decoder \in [Decoded -> [held : Seq(DOMAIN streams), draining : BOOLEAN]]
  /\ out \in Seq(DOMAIN streams)
  /\ open \subseteq Resources
  /\ failed \subseteq {"setup", "read", "decode", "flush"}
  /\ ret \in {Eof, -1, 0, 1} /\ status \in {"none", "ok", "error"}
  /\ pc \in {"setup", "loop", "flush", "cleanup", "exit", "crash"}
  /\ pc \in {"loop", "flush"} => active # {} /\ {"infmt", "frame"} \cap open # {}

Init ==
  /\ program \in Programs
  /\ streams \in UNION {[1 .. n -> {"video", "audio", "other"}] : n \in 0 .. MaxPackets}
  /\ first \in IF program = "demuxing" THEN {"video", "audio", "other"} ELSE {"video"}
  /\ active = IF program = "demuxing" THEN {} ELSE {"video"}
  /\ position = 0
  /\ decoder = [s \in Decoded |-> Fresh] /\ out = <<>>
  /\ step = 0 /\ open = {} /\ failed = {}
  /\ ret = 0 /\ status = "none"
  /\ pc = "setup"

-----------------------------------------------------------------------------

(* A step of the set-up: what it allocates, what a failing one may leave    *)
(* allocated besides nothing, where main goes then and with which ret.      *)
Step(allocates, leaves, goto, value) ==
  [allocates |-> allocates, leaves |-> leaves, goto |-> goto, ret |-> value,
   opens |-> {}, skips |-> 0]

(* A stream is opened, or else main goes on without it and skips the steps  *)
(* for what it would have written; a decoder may stay, and is not used. Its *)
(* options stay, too, and nothing frees them, when avcodec_open2 fails      *)
(* before it has taken them over (libavcodec/utils.c 560-573).              *)
Stream(s, allocated, skipped) ==
  [allocates |-> {allocated}, leaves |-> {{}, {allocated}, {allocated, "lost"}},
   goto |-> "setup", ret |-> 0, opens |-> {s}, skips |-> skipped]

\* open_codec_context forgets a decoder that it cannot open, and perhaps its options.
MvsSetup ==
  <<Step({"infmt"}, {{}}, "exit", -1),
    Step({}, {{}}, "exit", -1),
    Step({"decoder"}, {{}, {"lost"}}, "cleanup", 1),
    Step({"frame"}, {{}}, "cleanup", -1)>>

\* The result of fopen is not tested.
HwSetup ==
  <<Step({"infmt"}, {{}}, "exit", -1),
    Step({}, {{}}, "exit", -1),
    Step({"decoder"}, {{}}, "exit", -1),
    Step({"device"}, {{}, {"device"}}, "exit", -1),
    Step({"output"}, {{}}, "loop", 0)>>

\* Without an H.264 stream, and without the decoder, ret is still 0.
QsvSetup ==
  <<Step({"infmt"}, {{}}, "cleanup", -1),
    Step({}, {{}}, "cleanup", 0),
    Step({"device"}, {{}}, "cleanup", -1),
    Step({}, {{}}, "cleanup", 0),
    Step({"decoder"}, {{}, {"decoder"}}, "cleanup", -1),
    Step({"output"}, {{}}, "cleanup", -1),
    Step({"frame"}, {{}, {"frame"}}, "cleanup", -1)>>

FilteringSetup ==
  <<Step({"frame"}, {{}}, "exit", -1),
    Step({"infmt"}, {{}}, "cleanup", -1),
    Step({}, {{}}, "cleanup", -1),
    Step({"decoder"}, {{}, {"decoder"}}, "cleanup", -1),
    Step({"graph"}, {{}, {"graph"}}, "cleanup", -1)>>

\* A file that cannot be opened leaves ret positive.
DemuxingSetup ==
  <<Step({"infmt"}, {{}}, "exit", -1),
    Step({}, {{}}, "exit", -1),
    Stream("video", "decoder", 2),
    Step({"output"}, {{}}, "cleanup", 1),
    Step({"image"}, {{}}, "cleanup", -1),
    Stream("audio", "audio decoder", 1),
    Step({"audio output"}, {{}}, "cleanup", 1),
    Step({"frame"}, {{}}, "cleanup", -1)>>

SetupOf == [extract_mvs |-> MvsSetup, hw_decode |-> HwSetup, qsvdec |-> QsvSetup,
            filtering |-> FilteringSetup, demuxing |-> DemuxingSetup]

LastStep == Len(SetupOf[program])

\* The last step comes after a test that there is something to decode.
Setup ==
  /\ pc = "setup"
  /\ step' = step + 1
  /\ active' = active \cup SetupOf[program][step'].opens
  /\ step' = LastStep => active # {}
  /\ open' = open \cup SetupOf[program][step'].allocates
  /\ pc' = IF step' = LastStep THEN "loop" ELSE "setup"
  /\ UNCHANGED <<given, position, decoder, out, failed, ret, status>>

SetupFails ==
  /\ pc = "setup"
  /\ LET s == SetupOf[program][step + 1]
     IN /\ s.goto # "setup"
        /\ \E left \in s.leaves : open' = open \cup left
        /\ ret' = IF active = {} /\ step + 1 = LastStep THEN 1 ELSE s.ret
        /\ pc' = s.goto
        /\ status' = IF s.goto = "exit" THEN "error" ELSE status
  /\ failed' = failed \cup {"setup"}
  /\ UNCHANGED <<given, position, active, decoder, out, step>>

SkipStream ==
  /\ pc = "setup"
  /\ LET s == SetupOf[program][step + 1]
     IN /\ s.goto = "setup"
        /\ \E left \in s.leaves : open' = open \cup left
        /\ step' = step + 1 + s.skips
  /\ UNCHANGED <<given, position, active, decoder, out, failed, ret, status, pc>>

-----------------------------------------------------------------------------

\* Frames that a decoder gives before it answers EAGAIN or EOF.
Available(c) ==
  IF c.draining THEN Len(c.held) ELSE Max({0, Len(c.held) - DecoderDelay})

Give(s, c, n) ==
  /\ decoder' = [decoder EXCEPT ![s] = [c EXCEPT !.held = SubSeq(@, n + 1, Len(@))]]
  /\ out' = out \o SubSeq(c.held, 1, n)

\* A mutant: one frame is received for a packet and for the flush.
ReceiveOne(s, c) == Give(s, c, Min({1, Available(c)}))

(* The decoding of a program succeeds with all frames there are; that of    *)
(* filtering stops at the first one, the answer of the filter being EAGAIN. *)
Receive(s, c) == Give(s, c, IF program = "filtering" THEN Min({1, Available(c)}) ELSE Available(c))

\* A mutant: what was received before the failure is received again.
ReceiveFailsAgain(s, unsent, c) ==
  \E n \in 0 .. Available(c) - 1 :
    decoder' = [decoder EXCEPT ![s] = c] /\ out' = out \o SubSeq(c.held, 1, n)

(* It fails: the packet is not sent, or a frame cannot be received or       *)
(* written and is lost after n others.                                      *)
ReceiveFails(s, unsent, c) ==
  \/ decoder' = [decoder EXCEPT ![s] = unsent] /\ UNCHANGED out
  \/ \E n \in 0 .. Available(c) - 1 :
       /\ decoder' = [decoder EXCEPT ![s] = [c EXCEPT !.held = SubSeq(@, n + 2, Len(@))]]
       /\ out' = out \o SubSeq(c.held, 1, n)

NextPacket(s) == position < Len(streams) /\ position' = position + 1 /\ streams[position'] = s

\* decode_packet of demuxing succeeds for a packet of no stream of its own.
ReadOther ==
  /\ pc = "loop"
  /\ \E s \in (Decoded \cup {"other"}) \ active : NextPacket(s)
  /\ ret' = IF program = "demuxing" THEN 0 ELSE ret
  /\ UNCHANGED <<given, active, decoder, out, step, open, failed, status, pc>>

\* hw_decode writes to a NULL file when it could not open one.
Writable == program = "hw_decode" => "output" \in open

DecodePacket ==
  /\ pc = "loop"
  /\ \E s \in active :
       /\ NextPacket(s)
       /\ Writable \/ Available(Accept(decoder[s], position')) = 0
       /\ Receive(s, Accept(decoder[s], position'))
  /\ ret' = 0
  /\ UNCHANGED <<given, active, step, open, failed, status, pc>>

(* demuxing goes on with the next packet. filtering ends without a flush,   *)
(* and without the av_packet_unref at the end of its loop.                  *)
DecodePacketFails ==
  /\ pc = "loop"
  /\ \E s \in active :
       /\ NextPacket(s)
       /\ ReceiveFails(s, decoder[s], Accept(decoder[s], position'))
  /\ Writable \/ UNCHANGED out
  /\ ret' = -1
  /\ pc' = CASE program = "demuxing" -> "loop"
             [] program = "filtering" -> "cleanup"
             [] OTHER -> "flush"
  /\ failed' = failed \cup {"decode"}
  /\ open' = IF program = "filtering" THEN open \cup {"packet"} ELSE open
  /\ UNCHANGED <<given, active, step, status>>

\* A frame that the filter does not take is dropped, and filtering goes on.
FeedFails ==
  /\ pc = "loop" /\ program = "filtering"
  /\ NextPacket("video")
  /\ LET c == Accept(decoder["video"], position')
     IN Available(c) > 0 /\ decoder' = [decoder EXCEPT !["video"] = AfterOutput(c)]
  /\ ret' = 0
  /\ failed' = failed \cup {"decode"}
  /\ UNCHANGED <<given, active, out, step, open, status, pc>>

WriteToNull ==
  /\ pc \in {"loop", "flush"} /\ ~Writable
  /\ IF pc = "flush"
     THEN decoder["video"].held # <<>> /\ UNCHANGED position
     ELSE NextPacket("video") /\ Available(Accept(decoder["video"], position')) > 0
  /\ pc' = "crash"
  /\ UNCHANGED <<given, active, decoder, out, step, open, failed, ret, status>>

\* extract_mvs and demuxing do not keep the result of av_read_frame.
LoopEnds ==
  /\ pc = "loop"
  /\ \E result \in {Eof, -1} :
       /\ IF result = Eof THEN position = Len(streams) /\ UNCHANGED failed
          ELSE failed' = failed \cup {"read"}
       /\ ret' = IF program \in {"extract_mvs", "demuxing"} THEN ret ELSE result
  /\ pc' = IF program = "filtering" THEN "cleanup" ELSE "flush"
  /\ UNCHANGED <<given, position, active, decoder, out, step, open, status>>

(* The stream that is flushed. That of demuxing is the one with index 0:    *)
(* av_read_frame resets the packet's stream_index when the file ends.       *)
Flushed == (IF program = "demuxing" THEN {first} ELSE {"video"}) \cap active

\* What the flush, and demuxing's look at the sample format, make of ret.
AfterFlush(flushed) ==
  CASE program = "extract_mvs" -> ret
    [] program = "demuxing" -> IF "audio" \in active THEN 0 ELSE ret
    [] OTHER -> flushed

Flush ==
  /\ pc = "flush"
  /\ \/ \E s \in Flushed : /\ Writable \/ decoder[s].held = <<>>
                           /\ Receive(s, Drain(decoder[s]))
     \/ Flushed = {} /\ UNCHANGED <<decoder, out>>
  /\ ret' = AfterFlush(0) /\ pc' = "cleanup"
  /\ UNCHANGED <<given, position, active, step, open, failed, status>>

FlushFails ==
  /\ pc = "flush"
  /\ \E s \in Flushed : ReceiveFails(s, Drain(decoder[s]), Drain(decoder[s]))
  /\ Writable \/ UNCHANGED out
  /\ ret' = AfterFlush(-1) /\ pc' = "cleanup"
  /\ failed' = failed \cup {"flush"}
  /\ UNCHANGED <<given, position, active, step, open, status>>

\* The samples are in a format that demuxing has no name for.
FormatFails ==
  /\ pc = "flush" /\ program = "demuxing" /\ "audio" \in active
  /\ \/ \E s \in Flushed : Receive(s, Drain(decoder[s]))
     \/ Flushed = {} /\ UNCHANGED <<decoder, out>>
  /\ ret' = -1 /\ pc' = "cleanup"
  /\ failed' = failed \cup {"flush"}
  /\ UNCHANGED <<given, position, active, step, open, status>>

ExitStatus ==
  CASE program = "hw_decode" -> "ok"
    [] program = "qsvdec" -> IF ret = 0 THEN "ok" ELSE "error"
    [] OTHER -> IF ret < 0 /\ ~(program = "filtering" /\ ret = Eof) THEN "error" ELSE "ok"

\* A mutant: the decoder is freed, but not the device it was opened on.
FreedWithoutDevice == Resources \ {"device", "packet", "lost"}

\* What cleanup frees: all that its program still points to but the packet.
Freed == Resources \ {"packet", "lost"}

Cleanup ==
  /\ pc = "cleanup"
  /\ open' = open \ Freed
  /\ status' = ExitStatus
  /\ pc' = "exit"
  /\ UNCHANGED <<given, position, active, decoder, out, step, failed, ret>>

Exit == pc \in {"exit", "crash"} /\ UNCHANGED vars

Next ==
  \/ Setup \/ SetupFails \/ SkipStream
  \/ ReadOther \/ DecodePacket \/ DecodePacketFails \/ FeedFails \/ WriteToNull \/ LoopEnds
  \/ Flush \/ FlushFails \/ FormatFails \/ Cleanup \/ Exit

Spec == Init /\ [][Next]_vars

-----------------------------------------------------------------------------
(* Properties *)

(* A run without failure succeeds and writes the frame of every packet of   *)
(* its streams (in which order, says OutputIncreasing), those the decoder   *)
(* held back included: only frames held by a decoder that is not flushed    *)
(* are missing, that is filtering's and, of demuxing, the one whose stream  *)
(* has not index 0 (demuxing_decoding.c 340-344).                           *)
CleanRunDecodesAll ==
  pc = "exit" /\ failed = {} =>
    /\ status = "ok"
    /\ \A s \in active :
         LET written == {p \in ToSet(out) : streams[p] = s}
             missing == IF program = "filtering" \/ s \notin Flushed
                        THEN ToSet(decoder[s].held) ELSE {}
         IN written \cup missing = {p \in DOMAIN streams : streams[p] = s}

(* Whatever fails, the frames of a stream are written at most once and in   *)
(* order: the flush after a failure (extract_mvs.c 171, hw_decode.c         *)
(* 238-241, qsvdec.c 247-250) and the packets after one (demuxing_decoding  *)
(* 329-337) give only what was not written yet.                             *)
OutputIncreasing ==
  /\ TypeOK
  /\ \A s \in Decoded :
       LET held == decoder[s].held
           written == {i \in DOMAIN out : streams[out[i]] = s}
       IN /\ \A i, j \in written : i < j => out[i] < out[j]
          /\ \A i \in written, j \in DOMAIN held : out[i] < held[j]
          /\ \A i, j \in DOMAIN held : i < j => held[i] < held[j]

(* After an exit through the cleanup at the end of main (extract_mvs.c      *)
(* 173-176, hw_decode.c 244-248, qsvdec.c 259-268, and the ends of the      *)
(* others) exactly this is still allocated: what open_codec_context forgot  *)
(* when a decoder could not be opened (extract_mvs.c 99-111, of             *)
(* demuxing_decoding.c 186-192 the options), and the packet that filtering  *)
(* was at when it left its loop because decoding or filtering failed        *)
(* (filtering_video.c 236-240, 247-248, 265-266 go past line 274;           *)
(* filtering_audio.c 242-246, 252-254, 269-270 past 278).                   *)
ReleasedAtExit ==
  pc = "exit" /\ (failed = {"setup"} => SetupOf[program][step + 1].goto # "exit") =>
    /\ open \subseteq {"lost", "packet"}
    /\ "lost" \in open => \/ program = "extract_mvs" /\ failed = {"setup"}
                          \/ program = "demuxing" /\ active # Decoded
    /\ "packet" \in open <=> program = "filtering" /\ failed = {"decode"} /\ ret = -1

=============================================================================
