----------------------------- MODULE ParseDecode -----------------------------
(***************************************************************************)
(* share/ffmpeg/examples/decode_audio.c and decode_video.c: a raw stream   *)
(* is read into a buffer, cut into packets by a parser and decoded.        *)
(*                                                                         *)
(* The two differ in how they refill the buffer and in their parsers: the  *)
(* one of MPEG audio knows the length of a frame, the one of MPEG video    *)
(* ends a picture where the next one starts. A byte stands for a unit in   *)
(* which sizes are measured; any call may fail, which ends the program.    *)
(***************************************************************************)
EXTENDS AvCodec, SequencesExt, FiniteSetsExt

CONSTANTS
  Programs,      \* those considered, of "audio" and "video"
  InbufSize,     \* AUDIO_INBUF_SIZE, INBUF_SIZE
  RefillThresh,  \* AUDIO_REFILL_THRESH
  MaxFrameSize,  \* bound: bytes of a frame
  MaxFrames,     \* bound: frames of the file
  DecoderDelay   \* packets the decoder holds back

ASSUME ParseAssumption ==
  /\ Programs \subseteq {"audio", "video"}
  /\ InbufSize \in Nat \ {0} /\ RefillThresh \in 1 .. InbufSize
  /\ MaxFrameSize \in Nat \ {0} /\ MaxFrames \in Nat /\ DecoderDelay \in Nat

VARIABLES
  program,   \* never changed
  file,      \* the bytes of the input, never changed
  read,      \* how many fread has given
  feof,      \* the end-of-file indicator of the input
  inbuf,     \* the buffer
  data,      \* bytes of inbuf before the pointer data
  dataSize,  \* data_size
  pending,   \* bytes the parser keeps for a frame that is not complete
  decoder,
  frame,     \* decoded_frame or frame is allocated
  out,       \* frames written
  pc

parseVars == <<program, file, read, feof, inbuf, data, dataSize, pending, decoder, frame, out, pc>>
bufferVars == <<read, feof, inbuf, data, dataSize>>

FrameBytes(k, size) ==
  [i \in 1 .. size |-> [frame |-> k, start |-> i = 1, end |-> i = size]]

\* Files of whole frames, the last of which may be cut short.
Files ==
  UNION {{SubSeq(bytes, 1, n) : n \in 0 .. Len(bytes)} :
          bytes \in {FlattenSeq([k \in DOMAIN sizes |-> FrameBytes(k, sizes[k])]) :
                      sizes \in UNION {[1 .. n -> 1 .. MaxFrameSize] : n \in 0 .. MaxFrames}}}

Junk == [frame |-> 0, start |-> FALSE, end |-> FALSE]
Window == SubSeq(inbuf, data + 1, data + dataSize)

ParseTypeOK ==
  /\ program \in Programs
  /\ file \in Files
  /\ read \in 0 .. Len(file) /\ feof \in BOOLEAN
  /\ DOMAIN inbuf = 1 .. InbufSize
  /\ data \in Nat /\ dataSize \in Nat /\ data + dataSize <= InbufSize
  /\ decoder.draining \in BOOLEAN /\ frame \in BOOLEAN
  /\ pc \in {"fill", "parse", "refill", "flush", "done", "failed", "crash"}

ParseInit ==
  /\ program \in Programs
  /\ file \in Files
  /\ read = 0 /\ feof = FALSE
  /\ inbuf = [i \in 1 .. InbufSize |-> Junk]
  /\ data = 0 /\ dataSize = 0
  /\ pending = <<>> /\ decoder = Fresh
  /\ frame = (program = "video")
  /\ out = <<>>
  /\ pc = "fill"

-----------------------------------------------------------------------------

\* fread of n bytes to inbuf[at + 1 ..] in buffer; short only at the end.
Given(n) == Min({n, Len(file) - read})
Fread(buffer, at, n) ==
  /\ inbuf' = [i \in 1 .. InbufSize |->
                 IF i \in at + 1 .. at + Given(n) THEN file[read + i - at] ELSE buffer[i]]
  /\ read' = read + Given(n)
  /\ feof' = (feof \/ Given(n) < n)

\* A mutant: data_size is unsigned and never below 0.
RemainsUnsigned(size) == size >= 0

\* The condition of the loops over the buffer.
Remains(size) == size > 0

FillAudio ==
  /\ program = "audio" /\ pc = "fill"
  /\ Fread(inbuf, 0, InbufSize)
  /\ dataSize' = Given(InbufSize) /\ data' = 0
  /\ pc' = IF Remains(dataSize') THEN "parse" ELSE "flush"
  /\ UNCHANGED <<program, file, pending, decoder, frame, out>>

FillVideo ==
  /\ program = "video" /\ pc = "fill"
  /\ IF feof
     THEN pc' = "flush" /\ UNCHANGED bufferVars
     ELSE /\ Fread(inbuf, 0, InbufSize)
          /\ dataSize' = Given(InbufSize) /\ data' = 0
          /\ pc' = IF Remains(dataSize') THEN "parse" ELSE "flush"
  /\ UNCHANGED <<program, file, pending, decoder, frame, out>>

\* Where the parser cuts the window: a whole number of bytes, or none.
Cuts ==
  IF program = "audio"
  THEN {i \in 1 .. dataSize : Window[i].end}
  ELSE {i \in 0 .. dataSize - 1 : Window[i + 1].start /\ (i > 0 \/ pending # <<>>)}

\* What av_parser_parse2 consumes, gives and keeps.
Consumed == IF Cuts = {} THEN dataSize ELSE Min(Cuts)
Parsed == pending \o SubSeq(Window, 1, Consumed)
Packet == IF Cuts = {} THEN <<>> ELSE Parsed

\* A mutant: one frame is received per packet, also at the end.
ReceiveOnce(c) ==
  /\ out' = IF Ready(c, DecoderDelay) THEN Append(out, Output(c)) ELSE out
  /\ decoder' = IF Ready(c, DecoderDelay) THEN AfterOutput(c) ELSE c

\* The loop of decode: frames are received until there are none.
ReceiveAll(c) ==
  LET given == IF c.draining THEN Len(c.held)
               ELSE IF Len(c.held) > DecoderDelay THEN Len(c.held) - DecoderDelay ELSE 0
  IN /\ out' = out \o SubSeq(c.held, 1, given)
     /\ decoder' = [c EXCEPT !.held = SubSeq(@, given + 1, Len(@))]

\* The frame is allocated in the first turn of the loop at the latest.
FrameInLoop == TRUE

Parse ==
  /\ pc = "parse"
  /\ frame' = FrameInLoop
  /\ data' = data + Consumed
  /\ dataSize' = dataSize - Consumed
  /\ pending' = IF Cuts = {} THEN Parsed ELSE <<>>
  /\ IF Packet # <<>>
     THEN SendPacketRet(decoder, DecoderDelay) = "ok" /\ ReceiveAll(Accept(decoder, Packet))
     ELSE UNCHANGED <<decoder, out>>
  /\ pc' = CASE program = "audio" -> "refill"
             [] program = "video" /\ Remains(dataSize') -> "parse"
             [] OTHER -> "fill"
  /\ UNCHANGED <<program, file, read, feof, inbuf>>

\* A mutant: the bytes that are left are not moved.
Unmoved == inbuf

\* memmove(inbuf, data, data_size)
Moved == [i \in 1 .. InbufSize |-> IF i <= dataSize THEN inbuf[data + i] ELSE inbuf[i]]

Room == InbufSize - dataSize

RefillAudio ==
  /\ pc = "refill"
  /\ IF dataSize < RefillThresh
     THEN /\ Fread(Moved, dataSize, Room)
          /\ data' = 0
          /\ dataSize' = dataSize + Given(Room)
     ELSE UNCHANGED bufferVars
  /\ pc' = IF Remains(dataSize') THEN "parse" ELSE "flush"
  /\ UNCHANGED <<program, file, pending, decoder, frame, out>>

\* decode(NULL) drains; without a frame to receive into it dereferences NULL.
FlushDecoder ==
  /\ pc = "flush"
  /\ IF frame
     THEN ReceiveAll(Drain(decoder)) /\ pc' = "done"
     ELSE decoder' = Drain(decoder) /\ pc' = "crash" /\ UNCHANGED out
  /\ UNCHANGED <<program, file, bufferVars, pending, frame>>

\* Every failure is an exit(1).
Fail ==
  /\ pc \in {"fill", "parse", "flush"}
  /\ pc' = "failed"
  /\ UNCHANGED <<program, file, bufferVars, pending, decoder, frame, out>>

Ended == pc \in {"done", "failed", "crash"} /\ UNCHANGED parseVars

Advance == FillAudio \/ FillVideo \/ Parse \/ RefillAudio \/ FlushDecoder

ParseNext == Advance \/ Fail \/ Ended

ParseSpec == ParseInit /\ [][ParseNext]_parseVars
ParseFairSpec == ParseSpec /\ WF_parseVars(Advance)

-----------------------------------------------------------------------------
(* Properties *)

(* Wherever the refills fall, what was decoded, what the decoder and the    *)
(* parser hold and what the buffer still has are together, in this order,   *)
(* the bytes read so far (decode_audio.c 154-166, decode_video.c 152-172):  *)
(* no byte is skipped, repeated or overwritten before it was parsed, and    *)
(* the window never leaves the buffer.                                      *)
BytesInOrder ==
  /\ ParseTypeOK
  /\ pc \in {"parse", "refill", "fill"} =>
       FlattenSeq(out) \o FlattenSeq(decoder.held) \o pending \o Window = SubSeq(file, 1, read)

\* The bytes of frame k, from the one that starts it to the one that ends it.
BytesOf(k) ==
  SubSeq(file, CHOOSE i \in DOMAIN file : file[i].frame = k /\ file[i].start,
               CHOOSE i \in DOMAIN file : file[i].frame = k /\ file[i].end)

\* The frames of the file that are complete, as packets.
WholeFrames ==
  LET Ends == {i \in DOMAIN file : file[i].end}
  IN [k \in 1 .. (IF Ends = {} THEN 0 ELSE file[Max(Ends)].frame) |-> BytesOf(k)]

(* A run that ends well has decoded every complete frame of an audio file,  *)
(* whose parser gives a frame with its last byte, and of a video file all   *)
(* but the last: decode_video does not tell its parser of the end of the    *)
(* file, as avcodec.h (5242) demands. The audio decoder's flush runs into a *)
(* frame that was never allocated (173) only when the file is empty.        *)
OnlyLastFrameLost ==
  /\ pc = "done" /\ program = "audio" => out = WholeFrames
  /\ pc = "done" /\ program = "video" =>
       /\ IsPrefix(out, WholeFrames)
       /\ file # <<>> => Len(out) >= Last(file).frame - 1
  /\ pc = "crash" => file = <<>>

(* Every run ends, also where the parser consumes nothing because a frame   *)
(* ends exactly at the start of the window (decode_video.c 160-172).        *)
Terminates == <>(pc \in {"done", "failed", "crash"})

=============================================================================
