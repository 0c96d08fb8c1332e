---------------------------- MODULE TranscodeAac ----------------------------
(***************************************************************************)
(* share/ffmpeg/examples/transcode_aac.c: one audio stream is decoded,     *)
(* converted, cut into frames of the encoder's size through a FIFO, and    *)
(* encoded to AAC.                                                         *)
(*                                                                         *)
(* Samples are numbered in the order of the input. Every call that can     *)
(* fail may fail.                                                          *)
(***************************************************************************)
EXTENDS AvCodec, SequencesExt, FiniteSets

CONSTANTS
  FrameSize,     \* the encoder's frame_size
  MaxInput,      \* bound: samples in a frame of the input
  MaxPackets,    \* bound: packets of the input
  MaxDelay       \* bound: packets or frames a codec holds back

ASSUME TranscodeAssumption ==
  /\ FrameSize \in Nat \ {0} /\ MaxInput \in Nat \ {0}
  /\ MaxPackets \in Nat /\ MaxDelay \in Nat

VARIABLES
  delay,     \* what decoder and encoder hold back, never changed
  input,     \* the samples of each packet of the input file, never changed
  position,  \* packets read
  decoder, encoder,
  decoded,   \* samples that left the decoder (history)
  fifo,      \* samples waiting for the encoder
  pts,       \* the static counter of samples sent
  file,      \* the output file: [header, frames, trailer]
  open,      \* what is allocated
  finished,  \* the flag of main's loop
  pc, ret    \* where main is, and what it returns

vars == <<delay, input, position, decoder, encoder, decoded, fifo, pts, file, open, finished, pc, ret>>

Samples(n, first) == [i \in 1 .. n |-> first + i - 1]
Inputs == {[k \in 1 .. Len(sizes) |-> Samples(sizes[k], 1 + FoldLeft(+, 0, SubSeq(sizes, 1, k - 1)))]
             : sizes \in UNION {[1 .. n -> 1 .. MaxInput] : n \in 0 .. MaxPackets}}

Steps == {"input", "output", "resampler", "fifo", "header"}

TypeOK ==
  /\ delay \in [decoder : 0 .. MaxDelay, encoder : 0 .. MaxDelay]
  /\ input \in Inputs
  /\ position \in 0 .. Len(input)
  /\ decoder \in Codec(Range(input)) /\ encoder.draining \in BOOLEAN
  /\ finished \in BOOLEAN
  /\ open \subseteq {"infmt", "decoder", "io", "outfmt", "encoder", "resampler", "fifo", "packet"}
  /\ pc \in Steps \cup {"fill", "encode", "flush", "trailer", "cleanup", "exit", "aborted"}
  /\ ret \in {"ok", "error"}
  /\ pc \in {"fill", "encode", "flush", "trailer"} =>
       {"infmt", "decoder", "io", "outfmt", "encoder", "resampler", "fifo"} \subseteq open
  /\ Len(fifo) < FrameSize + MaxInput

Init ==
  /\ delay \in [decoder : 0 .. MaxDelay, encoder : 0 .. MaxDelay]
  /\ input \in Inputs
  /\ position = 0
  /\ decoder = Fresh /\ encoder = Fresh
  /\ decoded = <<>> /\ fifo = <<>> /\ pts = 0
  /\ file = [header |-> FALSE, frames |-> <<>>, trailer |-> FALSE]
  /\ open = {}
  /\ finished = FALSE
  /\ pc = "input" /\ ret = "error"

loopVars == <<position, decoder, encoder, decoded, fifo, pts, finished>>

(* A step of main before its loop allocates "opened", or fails and leaves   *)
(* one of "left" allocated.                                                 *)
Prepare(step, opened, left, next) ==
  /\ pc = step
  /\ \/ open' = open \cup opened /\ pc' = next
     \/ \E rest \in left : open' = open \cup rest /\ pc' = "cleanup"
  /\ UNCHANGED <<delay, input, loopVars, ret>>

OpenInputFile == Prepare("input", {"infmt", "decoder"}, {{}}, "output") /\ UNCHANGED file

\* The I/O context is forgotten when there is no format context to hold it.
OpenOutputFile ==
  Prepare("output", {"io", "outfmt", "encoder"}, {{}, {"io"}}, "resampler") /\ UNCHANGED file

InitResampler == Prepare("resampler", {"resampler"}, {{}}, "fifo") /\ UNCHANGED file

InitFifo == Prepare("fifo", {"fifo"}, {{}}, "header") /\ UNCHANGED file

WriteOutputFileHeader ==
  /\ Prepare("header", {}, {{}}, "fill")
  /\ file' = [file EXCEPT !.header = (pc' = "fill")]

-----------------------------------------------------------------------------

\* The condition of the loop that fills the FIFO.
Wanting == Len(fifo) < FrameSize

\* decode_audio_frame after the packet was sent: at most one frame comes back.
DecodeAudioFrame(sent) ==
  IF Ready(sent, delay.decoder)
  THEN decoder' = AfterOutput(sent) /\ decoded' = decoded \o Output(sent)
  ELSE decoder' = sent /\ UNCHANGED decoded

FrameOf(sent) == IF Ready(sent, delay.decoder) THEN Output(sent) ELSE <<>>

(* read_decode_convert_and_store for a packet: its frame is converted, a    *)
(* sample for a sample since the rates are equal (311), and stored.         *)
ReadDecodeStore ==
  /\ pc = "fill" /\ Wanting
  /\ position < Len(input)
  /\ position' = position + 1
  /\ SendPacketRet(decoder, delay.decoder) = "ok"
  /\ LET sent == Accept(decoder, input[position + 1])
     IN DecodeAudioFrame(sent) /\ fifo' = fifo \o FrameOf(sent)
  /\ UNCHANGED <<delay, input, encoder, pts, file, open, finished, pc, ret>>

(* What converted_input_samples is for the cleanup (594-597) after the call *)
(* that failed: init_converted_samples frees the array when it cannot fill  *)
(* it (462-463) and leaves its caller the pointer.                          *)
Converted ==
  [calloc |-> "null", av_samples_alloc |-> "freed",
   convert_samples |-> "allocated", add_samples_to_fifo |-> "allocated"]

(* The cleanup reads the array and frees it, unless the pointer is NULL. If *)
(* it was freed before, the process is killed here, or main never notices.  *)
FreeConverted(array) ==
  IF array = "freed" THEN pc' \in {"aborted", "cleanup"} ELSE pc' = "cleanup"

\* The same, but the frame cannot be converted or does not fit the FIFO.
ConvertOrStoreFails ==
  /\ pc = "fill" /\ Wanting
  /\ position < Len(input)
  /\ position' = position + 1
  /\ LET sent == Accept(decoder, input[position + 1])
     IN FrameOf(sent) # <<>> /\ DecodeAudioFrame(sent)
  /\ \E call \in DOMAIN Converted : FreeConverted(Converted[call])
  /\ UNCHANGED <<delay, input, encoder, fifo, pts, file, open, finished, ret>>

\* A packet that cannot be sent is not unreferenced.
SendPacketFails ==
  /\ pc = "fill" /\ Wanting
  /\ position < Len(input)
  /\ position' = position + 1
  /\ open' = open \cup {"packet"}
  /\ pc' = "cleanup"
  /\ UNCHANGED <<delay, input, decoder, encoder, decoded, fifo, pts, file, finished, ret>>

(* At the end of the file the decoder is told to drain, one frame is        *)
(* received and, because finished is set, not stored.                       *)
ReadEof ==
  /\ pc = "fill" /\ Wanting
  /\ position = Len(input)
  /\ finished' = TRUE
  /\ DecodeAudioFrame(Drain(decoder))
  /\ pc' = "encode"
  /\ UNCHANGED <<delay, input, position, encoder, fifo, pts, file, open, ret>>

\* Allocating a frame, reading or decoding fails.
ReadFails ==
  /\ pc = "fill" /\ Wanting
  /\ pc' = "cleanup"
  /\ UNCHANGED <<delay, input, loopVars, file, open, ret>>

FifoFilled ==
  /\ pc = "fill" /\ ~Wanting
  /\ pc' = "encode"
  /\ UNCHANGED <<delay, input, loopVars, file, open, ret>>

-----------------------------------------------------------------------------

\* A mutant: whatever is in the FIFO is encoded at once.
EnoughForAnything == fifo # <<>>

\* A mutant: the rest at the end of the input is left in the FIFO.
EnoughForWholeFrame == Len(fifo) >= FrameSize

\* A mutant: a FIFO that holds exactly one frame is not enough.
EnoughBeyondFrame == Len(fifo) > FrameSize \/ (finished /\ fifo # <<>>)

\* The condition of the loop that empties the FIFO.
Enough == Len(fifo) >= FrameSize \/ (finished /\ fifo # <<>>)

Frame(samples) == [pts |-> pts, samples |-> samples]

Take == IF Len(fifo) < FrameSize THEN Len(fifo) ELSE FrameSize

\* A mutant: the packet is written before the frame's delay has passed.
WritesFrameSent(sent) ==
  IF Ready(sent, delay.encoder)
  THEN encoder' = AfterOutput(sent) /\ file' = [file EXCEPT !.frames = Append(@, Last(sent.held))]
  ELSE encoder' = sent /\ UNCHANGED file

(* encode_audio_frame, after the frame was sent: one packet is received, if *)
(* there is one, and written.                                               *)
EncodeAudioFrame(sent) ==
  IF Ready(sent, delay.encoder)
  THEN encoder' = AfterOutput(sent) /\ file' = [file EXCEPT !.frames = Append(@, Output(sent))]
  ELSE encoder' = sent /\ UNCHANGED file

(* load_encode_and_write: a frame of the encoder's size, or the rest at the *)
(* end of the input.                                                        *)
LoadEncodeWrite ==
  /\ pc = "encode" /\ Enough
  /\ fifo' = SubSeq(fifo, Take + 1, Len(fifo))
  /\ pts' = pts + Take
  /\ SendFrameRet(encoder, delay.encoder) = "ok"
  /\ EncodeAudioFrame(Accept(encoder, Frame(SubSeq(fifo, 1, Take))))
  /\ UNCHANGED <<delay, input, position, decoder, decoded, open, finished, pc, ret>>

(* Allocating, sending, receiving or writing fails. The samples are gone    *)
(* from the FIFO by then, or not; what the encoder kept is freed with it.   *)
LoadEncodeFails ==
  /\ pc = "encode" /\ Enough
  /\ fifo' \in {fifo, SubSeq(fifo, Take + 1, Len(fifo))}
  /\ pc' = "cleanup"
  /\ pts' \in {pts, pts + Take}
  /\ UNCHANGED <<delay, input, position, decoder, encoder, decoded, file, open, finished, ret>>

FifoEmptied ==
  /\ pc = "encode" /\ ~Enough
  /\ pc' = IF finished THEN "flush" ELSE "fill"
  /\ UNCHANGED <<delay, input, loopVars, file, open, ret>>

(* One turn of the loop that flushes the encoder: encode_audio_frame(NULL). *)
(* From the second turn on the encoder answers AVERROR_EOF to the NULL      *)
(* frame, data_written stays 0 and the loop is left.                        *)
FlushEncoder ==
  /\ pc = "flush"
  /\ LET written == SendFrameRet(encoder, delay.encoder) # "EOF" /\ encoder.held # <<>>
     IN /\ IF written THEN EncodeAudioFrame(Drain(encoder))
                      ELSE encoder' = Drain(encoder) /\ UNCHANGED file
        /\ pc' = IF written THEN "flush" ELSE "trailer"
  /\ UNCHANGED <<delay, input, position, decoder, decoded, fifo, pts, open, finished, ret>>

FlushFails ==
  /\ pc = "flush"
  /\ encoder' = Drain(encoder)
  /\ pc' = "cleanup"
  /\ UNCHANGED <<delay, input, position, decoder, decoded, fifo, pts, file, open, finished, ret>>

WriteTrailer ==
  /\ pc = "trailer"
  /\ \/ file' = [file EXCEPT !.trailer = TRUE] /\ ret' = "ok"
     \/ UNCHANGED <<file, ret>>
  /\ pc' = "cleanup"
  /\ UNCHANGED <<delay, input, loopVars, open>>

\* A mutant: the I/O context is left to avformat_free_context.
KeepsIo == {"infmt", "decoder", "outfmt", "encoder", "resampler", "fifo"}

\* What the cleanup of main frees; "io" through the format context only.
Freed == {"infmt", "decoder", "outfmt", "encoder", "resampler", "fifo"}
         \cup IF "outfmt" \in open THEN {"io"} ELSE {}

Cleanup ==
  /\ pc = "cleanup"
  /\ open' = open \ Freed
  /\ pc' = "exit"
  /\ UNCHANGED <<delay, input, loopVars, file, ret>>

Exit == pc \in {"exit", "aborted"} /\ UNCHANGED vars

Failure ==
  \/ ConvertOrStoreFails \/ SendPacketFails \/ ReadFails \/ LoadEncodeFails \/ FlushFails

Advance ==
  \/ OpenInputFile \/ OpenOutputFile \/ InitResampler \/ InitFifo \/ WriteOutputFileHeader
  \/ ReadDecodeStore \/ ReadEof \/ FifoFilled
  \/ LoadEncodeWrite \/ FifoEmptied
  \/ FlushEncoder \/ WriteTrailer \/ Cleanup

Next == Advance \/ Failure \/ Exit

Spec == Init /\ [][Next]_vars
FairSpec == Spec /\ WF_vars(Advance)

-----------------------------------------------------------------------------
(* Properties *)

Content(frames) == FlattenSeq([i \in DOMAIN frames |-> frames[i].samples])

(* The samples in the output file, in the encoder and in the FIFO are, in   *)
(* this order and without gap or repetition, those that the decoder gave    *)
(* (545-602, 658-761), until the first error or the end of the input: the   *)
(* different frame sizes of decoder and encoder neither lose nor reorder    *)
(* anything.                                                                *)
SamplesConserved ==
  /\ TypeOK
  /\ pc \in {"fill", "encode"} /\ ~finished =>
       Content(file.frames) \o Content(encoder.held) \o fifo = decoded

(* avcodec.h requires of an encoder's input that each frame except the last *)
(* has exactly frame_size samples: main's two inner loops (819-847) give    *)
(* that for any frame sizes of the input. Each packet is timed where the    *)
(* samples of the packets before it end (669-672), also across delays.      *)
FramesFullAndTimed ==
  LET sent == file.frames \o encoder.held
  IN \A i \in DOMAIN sent :
       /\ i < Len(sent) => Len(sent[i].samples) = FrameSize
       /\ sent[i].pts = Len(Content(SubSeq(sent, 1, i - 1)))

(* A program that succeeds has written the input from its start, before the *)
(* trailer: all of it when the decoder gives a frame per packet and the     *)
(* encoder holds one at most (main, 812-867). What it may lose otherwise is *)
(* at the end: frames that come with the drain of the decoder, which are    *)
(* dropped (569-572), and all packets but one that the encoder still holds  *)
(* at the flush, for the second NULL frame is refused (678).                *)
WholeInputWritten ==
  ret = "ok" =>
    /\ IsPrefix(Content(file.frames), FlattenSeq(input))
    /\ delay.decoder = 0 /\ delay.encoder <= 1 => Content(file.frames) = FlattenSeq(input)

(* A main that gets to its end (869-884) leaves one of two things           *)
(* allocated, and never both: the packet that could not be sent (392-396),  *)
(* or an I/O context without a format context (159-162), and then there is  *)
(* no output. It does not get there when the array of converted samples is  *)
(* freed twice (462-463, 595-597): then nothing of what was prepared is     *)
(* freed, and the output has a header and no trailer.                       *)
ReleasedAtExit ==
  /\ pc = "exit" => /\ open \subseteq {"packet", "io"} /\ ~({"packet", "io"} \subseteq open)
                    /\ "io" \in open => file.header = FALSE
  /\ pc = "aborted" => file.header /\ ~file.trailer

(* Every run ends: neither the inner loops over the FIFO nor the flush can  *)
(* go on for ever once the input has an end. The end is that of main or,    *)
(* after the double free of 462-463 and 595-597, possibly an earlier one.   *)
Terminates == <>(pc \in {"exit", "aborted"})

=============================================================================
