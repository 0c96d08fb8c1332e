----------------------------- MODULE EncodeFrames -----------------------------
(***************************************************************************)
(* share/ffmpeg/examples/encode_audio.c, encode_video.c, vaapi_encode.c:   *)
(* frame after frame is filled and sent to an encoder that may keep        *)
(* references to its buffer. The encoder reads a buffer when it encodes    *)
(* it, which for an encoder that delays is some turns later.               *)
(*                                                                         *)
(* The first two fill one AVFrame again and again; vaapi_encode takes a    *)
(* surface of a pool in every turn and gives it up. Content is the number  *)
(* of the turn that wrote it; 0 is what a new buffer holds. Any call may   *)
(* fail.                                                                   *)
(***************************************************************************)
EXTENDS AvCodec, Integers, SequencesExt, FiniteSetsExt

CONSTANTS
  Programs,   \* those considered, of "audio", "video" and "vaapi"
  Turns,      \* turns of the loop: 200 and 25; bound: pictures of vaapi_encode
  MaxDelay,   \* bound: frames the encoder holds back
  PoolSize,   \* surfaces: initial_pool_size, 20 in the code
  Rates,      \* sample rates an encoder may support
  Layouts,    \* channel counts of layouts an encoder may support
  MaxListed   \* bound: entries in a list of an encoder

ASSUME EncodeAssumption ==
  /\ Programs \subseteq {"audio", "video", "vaapi"}
  /\ {Turns, MaxDelay, MaxListed} \subseteq Nat /\ PoolSize \in 1 .. MaxDelay + 2
  /\ Rates \subseteq Nat \ {0} /\ Layouts \subseteq Nat \ {0}

Buffers == 1 .. MaxDelay + 2

VARIABLES
  program, delay,    \* never changed
  turns,             \* turns to come when all goes well, never changed
  supported,         \* the encoder's lists of rates and layouts, never changed
  chosen,            \* what main took from them
  turn,              \* i of main's loop, or pictures read
  content, refs,     \* of each buffer
  frame,             \* the buffer of the frame, 0 for none
  encoder,           \* its buffers, in the order they were sent
  out,               \* the contents encoded
  open,              \* what vaapi_encode has allocated besides
  err,               \* err of vaapi_encode
  failed,            \* a call has failed (history)
  pc

given == <<program, delay, turns, supported>>
vars == <<given, chosen, turn, content, refs, frame, encoder, out, open, err, failed, pc>>

Lists(S) == UNION {[1 .. n -> S] : n \in 0 .. MaxListed}
SetUp == <<"fin", "fout", "device", "codec", "frames">>

TypeOK ==
  /\ program \in Programs /\ delay \in 0 .. MaxDelay
  /\ turn \in 0 .. turns
  /\ content \in [Buffers -> 0 .. Turns] /\ refs \in [Buffers -> Nat]
  /\ frame \in Buffers \cup {0}
  /\ encoder \in Codec(Buffers)
  /\ open \subseteq ToSet(SetUp) \cup {"sw_frame", "hw_frame"}
  /\ err \in {-1, 0, 1} /\ failed \in BOOLEAN
  /\ pc \in ToSet(SetUp) \cup {"open", "read", "fill", "fillSurface", "encode", "flush", "close", "exit"}

Init ==
  /\ program \in Programs /\ delay \in 0 .. MaxDelay
  /\ turns \in (IF program = "vaapi" THEN 0 .. Turns ELSE {Turns})
  /\ supported \in (IF program = "audio"
                    THEN [rates : Lists(Rates), layouts : Lists(Layouts)]
                    ELSE [rates : {<<>>}, layouts : {<<>>}])
  /\ chosen = [rate |-> 0, layout |-> 0]
  /\ turn = 0
  /\ content = [b \in Buffers |-> 0] /\ refs = [b \in Buffers |-> 0]
  /\ frame = 0 /\ encoder = Fresh /\ out = <<>>
  /\ open = {} /\ err = 0 /\ failed = FALSE
  /\ pc = IF program = "vaapi" THEN "fin" ELSE "open"

-----------------------------------------------------------------------------

Distance(rate) == IF rate > 44100 THEN rate - 44100 ELSE 44100 - rate

Nearer(best, rate) == best = 0 \/ Distance(rate) < Distance(best)

\* An empty list stands for the NULL of an encoder that supports any.
SelectSampleRate(rates) ==
  IF rates = <<>> THEN 44100
  ELSE FoldLeft(LAMBDA best, rate : IF Nearer(best, rate) THEN rate ELSE best, 0, rates)

SelectChannelLayout(layouts) ==
  IF layouts = <<>> THEN 2
  ELSE FoldLeft(LAMBDA best, n : IF n > best THEN n ELSE best, 0, layouts)

\* The condition of main's loop.
MoreTurns == turn < turns

Open ==
  /\ pc = "open"
  /\ chosen' = IF program = "audio"
               THEN [rate |-> SelectSampleRate(supported.rates),
                     layout |-> SelectChannelLayout(supported.layouts)]
               ELSE chosen
  /\ frame' = 1 /\ refs' = [refs EXCEPT ![1] = 1]
  /\ pc' = IF MoreTurns THEN "fill" ELSE "flush"
  /\ UNCHANGED <<given, turn, content, encoder, out, open, err, failed>>

\* vaapi_encode: the device, the encoder and its pool.
Prepare ==
  /\ \E i \in DOMAIN SetUp :
       pc = SetUp[i] /\ pc' = IF i < Len(SetUp) THEN SetUp[i + 1] ELSE "read"
  /\ open' = open \cup {pc}
  /\ UNCHANGED <<given, chosen, turn, content, refs, frame, encoder, out, err, failed>>

\* The first failure returns, the later ones go to close.
PrepareFails ==
  /\ pc \in ToSet(SetUp)
  /\ failed' = TRUE /\ err' = -1
  /\ pc' = IF pc = "fin" THEN "exit" ELSE "close"
  /\ UNCHANGED <<given, chosen, turn, content, refs, frame, encoder, out, open>>

FreeBuffer == CHOOSE b \in Buffers : refs[b] = 0

\* A mutant: the frame is written to as it is.
WriteInPlace == UNCHANGED <<frame, refs>>

(* av_frame_make_writable: a buffer that somebody else refers to is left to *)
(* them, and the frame gets a copy.                                         *)
MakeWritable ==
  IF refs[frame] = 1
  THEN UNCHANGED <<frame, refs>>
  ELSE /\ frame' = FreeBuffer
       /\ refs' = [refs EXCEPT ![frame] = @ - 1, ![FreeBuffer] = 1]

FillFrame ==
  /\ pc = "fill"
  /\ MakeWritable
  /\ turn' = turn + 1
  /\ content' = [content EXCEPT ![frame'] = turn']
  /\ pc' = "encode"
  /\ UNCHANGED <<given, chosen, encoder, out, open, err, failed>>

\* A picture and the pixels after it, which may end within a picture.
ReadPicture ==
  /\ pc = "read"
  /\ IF MoreTurns THEN err' = 1 /\ pc' = "fillSurface" ELSE err' = 0 /\ pc' = "flush"
  /\ open' = open \cup {"sw_frame"}
  /\ UNCHANGED <<given, chosen, turn, content, refs, frame, encoder, out, failed>>

\* A mutant: initial_pool_size is one less.
SurfacesOneShort == 1 .. PoolSize - 1

Surfaces == 1 .. PoolSize
InPool == {b \in Surfaces : refs[b] = 0}

\* av_hwframe_get_buffer and av_hwframe_transfer_data.
Upload ==
  /\ pc = "fillSurface"
  /\ frame' \in InPool
  /\ refs' = [refs EXCEPT ![frame'] = 1]
  /\ turn' = turn + 1
  /\ content' = [content EXCEPT ![frame'] = turn']
  /\ open' = open \cup {"hw_frame"}
  /\ err' = 0 /\ pc' = "encode"
  /\ UNCHANGED <<given, chosen, encoder, out, failed>>

\* How often a sequence of buffers refers to b.
Uses(buffers, b) == Cardinality({i \in DOMAIN buffers : buffers[i] = b})

\* The references left when the encoder is done with its first n frames.
Released(counted, c, n) == [b \in Buffers |-> counted[b] - Uses(SubSeq(c.held, 1, n), b)]

(* encode and encode_write, after the frame was sent: packets are received  *)
(* until there are none, and written.                                       *)
ReceiveAll(counted, c) ==
  LET n == IF c.draining THEN Len(c.held) ELSE Max({0, Len(c.held) - delay})
  IN /\ out' = out \o [i \in 1 .. n |-> content[c.held[i]]]
     /\ encoder' = [c EXCEPT !.held = SubSeq(@, n + 1, Len(@))]
     /\ refs' = Released(counted, c, n)

Encode ==
  /\ pc = "encode" /\ program # "vaapi"
  /\ SendFrameRet(encoder, delay) = "ok"
  /\ ReceiveAll([refs EXCEPT ![frame] = @ + 1], Accept(encoder, frame))
  /\ pc' = IF MoreTurns THEN "fill" ELSE "flush"
  /\ UNCHANGED <<given, chosen, turn, content, frame, open, err, failed>>

\* A mutant: the end of a turn forgets its surface and does not free it.
ForgetsSurface(counted) ==
  /\ frame' = 0 /\ open' = open \ {"hw_frame", "sw_frame"}
  /\ ReceiveAll(counted, Accept(encoder, frame))

\* At the end of a turn main gives its frames up; the encoder has its reference.
EndTurn(counted) ==
  /\ frame' = 0 /\ open' = open \ {"hw_frame", "sw_frame"}
  /\ ReceiveAll([counted EXCEPT ![frame] = @ - 1], Accept(encoder, frame))

EncodeSurface ==
  /\ pc = "encode" /\ program = "vaapi"
  /\ EndTurn([refs EXCEPT ![frame] = @ + 1])
  /\ pc' = "read"
  /\ UNCHANGED <<given, chosen, turn, content, err, failed>>

\* Also when the pool is empty.
TurnFails ==
  /\ pc \in {"read", "fillSurface", "encode"} /\ program = "vaapi"
  /\ failed' = TRUE /\ err' = -1
  /\ open' \in {open, open \cup (IF pc = "fillSurface" THEN {"hw_frame"} ELSE {})}
  /\ pc' = "close"
  /\ UNCHANGED <<given, chosen, turn, content, refs, frame, encoder, out>>

(* encode_write answers 0 only to AVERROR(EAGAIN); a drained encoder ends   *)
(* with AVERROR_EOF, which becomes -1 before main can compare it.           *)
Flush ==
  /\ pc = "flush"
  /\ ReceiveAll(refs, Drain(encoder))
  /\ err' = IF program = "vaapi" THEN -1 ELSE err
  /\ pc' = "close"
  /\ UNCHANGED <<given, chosen, turn, content, frame, open, failed>>

FlushFails ==
  /\ pc = "flush" /\ program = "vaapi"
  /\ encoder' = Drain(encoder)
  /\ failed' = TRUE /\ err' = -1 /\ pc' = "close"
  /\ UNCHANGED <<given, chosen, turn, content, refs, frame, out, open>>

Close ==
  /\ pc = "close" /\ program # "vaapi"
  /\ refs' = [refs EXCEPT ![frame] = @ - 1]
  /\ frame' = 0
  /\ pc' = "exit"
  /\ UNCHANGED <<given, chosen, turn, content, encoder, out, open, err, failed>>

\* What main frees under close.
Freed == ToSet(SetUp) \cup {"sw_frame", "hw_frame"}

\* Freeing the codec context gives the encoder's references up.
CloseSurfaces ==
  /\ pc = "close" /\ program = "vaapi"
  /\ open' = open \ Freed
  /\ frame' = IF "hw_frame" \in Freed THEN 0 ELSE frame
  /\ encoder' = [encoder EXCEPT !.held = <<>>]
  /\ refs' = [b \in Buffers |-> IF b = frame' THEN 1 ELSE 0]
  /\ pc' = "exit"
  /\ UNCHANGED <<given, chosen, turn, content, out, err, failed>>

\* Every failure of encode_audio and encode_video is an exit(1).
Fail ==
  /\ pc \in {"open", "fill", "encode", "flush"} /\ program # "vaapi"
  /\ failed' = TRUE /\ pc' = "exit"
  /\ UNCHANGED <<given, chosen, turn, content, refs, frame, encoder, out, open, err>>

Ended == pc = "exit" /\ UNCHANGED vars

Next ==
  \/ Open \/ FillFrame \/ Encode \/ Close \/ Fail
  \/ Prepare \/ PrepareFails \/ ReadPicture \/ Upload \/ EncodeSurface \/ TurnFails
  \/ FlushFails \/ CloseSurfaces
  \/ Flush \/ Ended

Spec == Init /\ [][Next]_vars

-----------------------------------------------------------------------------
(* Properties *)

(* The encoder encodes what was in the frame when it was sent, each turn    *)
(* once and in order, although main writes into the frame, or takes another *)
(* surface, before the encoder is done (encode_audio.c 211-225,             *)
(* encode_video.c 158-182, vaapi_encode.c 164-204); a run in which nothing  *)
(* fails has encoded every turn.                                            *)
EncodedAsSent ==
  /\ out = [i \in DOMAIN out |-> i]
  /\ pc = "exit" /\ ~failed => Len(out) = turns

(* A buffer has as many references as there are users of it, main's frame   *)
(* and the encoder, through every copy that make_writable makes and every   *)
(* surface that is given up. At the end of a run that is not cut short by   *)
(* exit(1) there are none, and vaapi_encode has freed all else (211-219),   *)
(* wherever it failed.                                                      *)
ReferencesCounted ==
  /\ TypeOK
  /\ \A b \in Buffers : refs[b] = Uses(encoder.held, b) + (IF frame = b THEN 1 ELSE 0)
  /\ pc = "exit" /\ (program = "vaapi" \/ ~failed) =>
       open = {} /\ \A b \in Buffers : refs[b] = 0

(* main gives its surface up in every turn (202): the encoder's delay is    *)
(* all that the pool has to cover, however long the input is, so a pool of  *)
(* one more than the delay never runs out.                                  *)
PoolSuffices == pc = "fillSurface" /\ delay < PoolSize => InPool # {}

(* The comment at select_sample_rate (encode_audio.c 54) says that it takes *)
(* the highest supported rate; the comparison (65) picks the nearest to     *)
(* 44100.                                                                   *)
HighestRate ==
  chosen.rate # 0 => \A i \in DOMAIN supported.rates : supported.rates[i] <= chosen.rate

=============================================================================
