------------------------ MODULE TranscodeAac_proofs ------------------------
(***************************************************************************)
(* What is proved of transcode_aac.c (TranscodeAac): its four safety       *)
(* properties, for any size of frames, any input and any delay of the      *)
(* codecs. Frames that were sent, whether they are still in the encoder or *)
(* in the file, are looked at as one sequence, which only grows.           *)
(***************************************************************************)
EXTENDS TranscodeAac, Libav_proofs

-----------------------------------------------------------------------------
(* Codecs.                                                                  *)

(* A codec that was given something.                                        *)
LEMMA Accepted ==
  ASSUME NEW S, NEW c \in Codec(S), NEW x \in S
  PROVE  /\ Accept(c, x) \in Codec(S)
         /\ Accept(c, x).held = Append(c.held, x) /\ Accept(c, x).draining = c.draining
<1>1. Accept(c, x) = [held |-> Append(c.held, x), draining |-> c.draining]
  BY HeldReplaced, Zenon DEF Accept
<1>2. c.held \in Seq(S) /\ c.draining \in BOOLEAN
  BY DEF Codec
<1>3. Append(c.held, x) \in Seq(S)
  BY <1>2
<1> QED
  BY <1>1, <1>2, <1>3 DEF Codec

(* One that was told to drain.                                              *)
LEMMA Drained ==
  ASSUME NEW S, NEW c \in Codec(S)
  PROVE  Drain(c) \in Codec(S) /\ Drain(c).held = c.held /\ Drain(c).draining = TRUE
<1>1. Drain(c) = [held |-> c.held, draining |-> TRUE]
  BY DrainingReplaced, Zenon DEF Drain
<1> QED
  BY <1>1 DEF Codec

(* One that gave something.                                                 *)
LEMMA Given ==
  ASSUME NEW S, NEW c \in Codec(S), c.held # <<>>
  PROVE  /\ AfterOutput(c) \in Codec(S) /\ AfterOutput(c).draining = c.draining
         /\ AfterOutput(c).held = Tail(c.held) /\ Output(c) = Head(c.held) /\ Output(c) \in S
         /\ Len(Tail(c.held)) = Len(c.held) - 1
<1>1. AfterOutput(c) = [held |-> Tail(c.held), draining |-> c.draining]
  BY HeldReplaced, Zenon DEF AfterOutput
<1>2. c.held \in Seq(S) /\ c.draining \in BOOLEAN
  BY DEF Codec
<1>3. Tail(c.held) \in Seq(S) /\ Head(c.held) \in S /\ Len(Tail(c.held)) = Len(c.held) - 1
  BY <1>2
<1> QED
  BY <1>1, <1>2, <1>3 DEF Codec, Output

-----------------------------------------------------------------------------
(* Samples in sequences of frames.                                          *)

(* An element of the first of two sequences in both together.               *)
LEMMA CatFirst ==
  ASSUME NEW S, NEW s \in Seq(S), NEW t \in Seq(S), NEW i \in 1 .. Len(s)
  PROVE  i \in DOMAIN s /\ i \in DOMAIN (s \o t) /\ (s \o t)[i] = s[i]
  OBVIOUS

(* An element of the second.                                                *)
LEMMA CatSecond ==
  ASSUME NEW S, NEW s \in Seq(S), NEW t \in Seq(S), NEW i \in 1 .. Len(t)
  PROVE  i \in DOMAIN t /\ Len(s) + i \in DOMAIN (s \o t) /\ (s \o t)[Len(s) + i] = t[i]
  OBVIOUS

\* Frames of elements of S.
FramesOf(S) == [pts : Nat, samples : Seq(S)]

SamplesOf(frames) == [i \in DOMAIN frames |-> frames[i].samples]

(* The samples of frames are a sequence of sequences.                       *)
LEMMA SamplesType ==
  ASSUME NEW S, NEW frames \in Seq(FramesOf(S))
  PROVE  /\ SamplesOf(frames) \in Seq(Seq(S)) /\ Len(SamplesOf(frames)) = Len(frames)
         /\ \A i \in DOMAIN frames : SamplesOf(frames)[i] = frames[i].samples
<1>1. DOMAIN frames = 1 .. Len(frames) /\ Len(frames) \in Nat
  OBVIOUS
<1>2. \A i \in 1 .. Len(frames) : frames[i].samples \in Seq(S)
  <2>1. \A i \in 1 .. Len(frames) : frames[i] \in FramesOf(S)
    OBVIOUS
  <2>2. \A f \in FramesOf(S) : f.samples \in Seq(S)
    BY DEF FramesOf
  <2> QED
    BY <2>1, <2>2, Zenon
<1>3. SamplesOf(frames) = [i \in 1 .. Len(frames) |-> frames[i].samples]
  BY <1>1 DEF SamplesOf
<1> HIDE DEF FramesOf
<1> QED
  BY <1>1, <1>2, <1>3

(* The content of no frame.                                                 *)
LEMMA ContentEmpty ==
  Content(<<>>) = <<>>
<1>1. [i \in DOMAIN <<>> |-> <<>>[i].samples] = <<>>
  OBVIOUS
<1> QED
  BY <1>1, FlattenEmpty, Zenon DEF Content

(* Content gives a sequence of samples.                                     *)
LEMMA ContentType ==
  ASSUME NEW S, NEW frames \in Seq(FramesOf(S))
  PROVE  Content(frames) \in Seq(S)
<1>1. Content(frames) = FlattenSeq(SamplesOf(frames))
  BY DEF Content, SamplesOf
<1> QED
  BY <1>1, SamplesType, FlattenType

(* The content of two sequences of frames, one after the other.             *)
LEMMA ContentCat ==
  ASSUME NEW S, NEW s \in Seq(FramesOf(S)), NEW t \in Seq(FramesOf(S))
  PROVE  Content(s \o t) = Content(s) \o Content(t)
<1>1. /\ Content(s \o t) = FlattenSeq(SamplesOf(s \o t))
      /\ Content(s) = FlattenSeq(SamplesOf(s)) /\ Content(t) = FlattenSeq(SamplesOf(t))
  BY DEF Content, SamplesOf
<1>2. s \o t \in Seq(FramesOf(S))
  OBVIOUS
<1> DEFINE a == SamplesOf(s)
           b == SamplesOf(t)
           c == SamplesOf(s \o t)
<1>3. /\ a \in Seq(Seq(S)) /\ Len(a) = Len(s) /\ \A i \in DOMAIN s : a[i] = s[i].samples
      /\ b \in Seq(Seq(S)) /\ Len(b) = Len(t) /\ \A i \in DOMAIN t : b[i] = t[i].samples
  BY SamplesType
<1>4. c \in Seq(Seq(S)) /\ Len(c) = Len(s \o t) /\ \A i \in DOMAIN (s \o t) : c[i] = (s \o t)[i].samples
  BY <1>2, SamplesType
<1>5. c = a \o b
  <2> HIDE DEF a, b, c
  <2>1. Len(c) = Len(a \o b) /\ a \o b \in Seq(Seq(S)) /\ Len(c) = Len(s) + Len(t)
    <3>1. Len(s \o t) = Len(s) + Len(t)
      BY ConcatProperties
    <3>2. Len(a \o b) = Len(a) + Len(b) /\ a \o b \in Seq(Seq(S))
      BY <1>3, ConcatProperties
    <3> QED
      BY <1>3, <1>4, <3>1, <3>2
  <2>2. ASSUME NEW i \in 1 .. Len(c)
        PROVE  c[i] = (a \o b)[i]
    <3>1. CASE i <= Len(s)
      <4>1. i \in 1 .. Len(s) /\ i \in 1 .. Len(a)
        BY <1>3, <3>1
      <4>2. i \in DOMAIN (s \o t) /\ (s \o t)[i] = s[i] /\ i \in DOMAIN s
        BY <4>1, CatFirst
      <4>3. (a \o b)[i] = a[i]
        BY <1>3, <4>1, CatFirst
      <4> QED
        BY <1>3, <1>4, <4>2, <4>3, Zenon
    <3>2. CASE i > Len(s)
      <4> DEFINE j == i - Len(s)
      <4>1. j \in 1 .. Len(t) /\ j \in 1 .. Len(b) /\ i = Len(s) + j /\ i = Len(a) + j
        BY <1>3, <2>1, <3>2
      <4> HIDE DEF j
      <4>2. i \in DOMAIN (s \o t) /\ (s \o t)[i] = t[j] /\ j \in DOMAIN t
        BY <4>1, CatSecond
      <4>3. (a \o b)[i] = b[j]
        <5>1. a \in Seq(Seq(S)) /\ b \in Seq(Seq(S)) /\ j \in 1 .. Len(b)
          BY <1>3, <4>1
        <5>2. (a \o b)[Len(a) + j] = b[j]
          BY ONLY <5>1, CatSecond, SMTT(20)
        <5> QED
          BY <4>1, <5>2
      <4> QED
        BY <1>3, <1>4, <4>2, <4>3, Zenon
    <3> QED
      BY <3>1, <3>2, <2>1, <1>3
  <2> QED
    BY <1>4, <2>1, <2>2, SeqEqual
<1> HIDE DEF a, b, c
<1>6. FlattenSeq(a \o b) = FlattenSeq(a) \o FlattenSeq(b)
  BY <1>3, FlattenCat
<1> QED
  BY <1>1, <1>5, <1>6 DEF a, b, c

(* The content with one more frame.                                         *)
LEMMA ContentAppend ==
  ASSUME NEW S, NEW s \in Seq(FramesOf(S)), NEW f \in FramesOf(S)
  PROVE  Content(Append(s, f)) = Content(s) \o f.samples
<1>1. <<f>> \in Seq(FramesOf(S)) /\ Append(s, f) = s \o <<f>>
  OBVIOUS
<1>2. f.samples \in Seq(S)
  BY DEF FramesOf
<1>3. [i \in DOMAIN <<f>> |-> <<f>>[i].samples] = Append(<<>>, f.samples)
  <2>1. DOMAIN <<f>> = {1} /\ <<f>>[1] = f
    OBVIOUS
  <2> QED
    BY <2>1
<1>4. FlattenSeq(Append(<<>>, f.samples)) = f.samples
  <2>1. <<>> \in Seq(Seq(S)) /\ <<>> \o f.samples = f.samples
    BY <1>2
  <2> QED
    BY <1>2, <2>1, FlattenAppend, FlattenEmpty
<1>5. Content(<<f>>) = f.samples
  BY <1>3, <1>4, Zenon DEF Content
<1> QED
  BY <1>1, <1>5, ContentCat

-----------------------------------------------------------------------------
(* The invariant.                                                           *)

\* The samples of the input.
Sample == UNION {Range(input[k]) : k \in DOMAIN input}

Frames == FramesOf(Sample)

\* Every frame that was given to the encoder and that it did not lose.
Sent == file.frames \o encoder.held

TypeInv ==
  /\ TypeOK
  /\ input \in Seq(Seq(Sample)) /\ \A k \in DOMAIN input : Len(input[k]) \in 1 .. MaxInput
  /\ encoder \in Codec(Frames)
  /\ file \in [header : BOOLEAN, frames : Seq(Frames), trailer : BOOLEAN]
  /\ fifo \in Seq(Sample) /\ decoded \in Seq(Sample) /\ pts \in Nat

\* What is allocated where main is.
OpenInv ==
  /\ pc = "output" => {"infmt", "decoder"} \subseteq open
  /\ pc = "resampler" => {"infmt", "decoder", "io", "outfmt", "encoder"} \subseteq open
  /\ pc = "fifo" => {"infmt", "decoder", "io", "outfmt", "encoder", "resampler"} \subseteq open
  /\ pc = "header" => {"infmt", "decoder", "io", "outfmt", "encoder", "resampler", "fifo"} \subseteq open
  /\ pc \in Steps => ~file.header
  /\ pc \notin Steps \cup {"cleanup", "exit"} => file.header
  /\ file.trailer => pc \in {"cleanup", "exit"}
  /\ pc \notin {"cleanup", "exit"} => "packet" \notin open
  /\ pc = "cleanup" => "outfmt" \in open \/ (~file.header /\ "packet" \notin open)
  /\ ReleasedAtExit

\* How many packets or frames the codecs hold, and when the FIFO is empty.
HeldInv ==
  /\ pc \in Steps \cup {"fill", "encode"} =>
       /\ ~finished => Len(decoder.held) <= delay.decoder
       /\ Len(encoder.held) <= delay.encoder /\ ~encoder.draining
  /\ pc \in Steps \cup {"fill"} => ~finished
  /\ pc \in {"flush", "trailer"} => finished /\ fifo = <<>> /\ Len(encoder.held) <= delay.encoder
  /\ finished => position = Len(input)
  /\ ret = "ok" => finished /\ fifo = <<>> /\ pc \in {"cleanup", "exit"}
  /\ (pc = "flush" /\ encoder.draining) \/ pc = "trailer" \/ ret = "ok" =>
       (delay.encoder <= 1 => encoder.held = <<>>)

\* Where the samples of the packets that were read are.
SampleInv ==
  /\ pc \in Steps => position = 0 /\ Sent = <<>> /\ fifo = <<>> /\ decoded = <<>> /\ decoder.held = <<>>
  /\ pc \in Steps \cup {"fill", "encode"} /\ ~finished =>
       /\ Content(Sent) \o fifo = decoded
       /\ decoded \o FlattenSeq(decoder.held) = FlattenSeq(SubSeq(input, 1, position))
  /\ (finished /\ pc \in {"encode", "flush", "trailer"}) \/ ret = "ok" =>
       \E rest \in Seq(Sample) :
         /\ (Content(Sent) \o fifo) \o rest = FlattenSeq(input)
         /\ delay.decoder = 0 => rest = <<>>

\* Frame i of those that were sent is timed where the samples before it end.
Timed(sent, i) == sent[i].pts = Len(Content(SubSeq(sent, 1, i - 1)))

FrameInv ==
  /\ \A i \in DOMAIN Sent : Timed(Sent, i) /\ (i < Len(Sent) => Len(Sent[i].samples) = FrameSize)
  /\ pc \in Steps \cup {"fill", "encode"} => pts = Len(Content(Sent))
  /\ pc \in Steps \cup {"fill", "encode"} /\ (~finished \/ fifo # <<>>) =>
       \A i \in DOMAIN Sent : Len(Sent[i].samples) = FrameSize

Inv == TypeInv /\ OpenInv /\ HeldInv /\ SampleInv /\ FrameInv

(* The samples of the input are Sample, and its packets hold some.          *)
LEMMA InputFacts ==
  ASSUME input \in Inputs
  PROVE  input \in Seq(Seq(Sample)) /\ \A k \in DOMAIN input : Len(input[k]) \in 1 .. MaxInput
<1>1. MaxPackets \in Nat /\ MaxInput \in Nat
  BY TranscodeAssumption
<1>2. PICK sizes \in UNION {[1 .. n -> 1 .. MaxInput] : n \in 0 .. MaxPackets} :
        input = [k \in 1 .. Len(sizes) |->
                   Samples(sizes[k], 1 + FoldLeft(+, 0, SubSeq(sizes, 1, k - 1)))]
  BY Zenon DEF Inputs
<1>3. PICK n \in 0 .. MaxPackets : sizes \in [1 .. n -> 1 .. MaxInput]
  OBVIOUS
<1>4. n \in Nat /\ Len(sizes) = n
  BY <1>1, <1>3
<1> DEFINE First(k) == 1 + FoldLeft(+, 0, SubSeq(sizes, 1, k - 1))
<1>5. input = [k \in 1 .. n |-> Samples(sizes[k], First(k))]
  BY <1>2, <1>4
<1> HIDE DEF First
<1>6. DOMAIN input = 1 .. n /\ \A k \in 1 .. n : input[k] = Samples(sizes[k], First(k))
  BY <1>5
<1>7. \A k \in 1 .. n : input[k] \in Seq(Sample) /\ Len(input[k]) \in 1 .. MaxInput
  <2> SUFFICES ASSUME NEW k \in 1 .. n
               PROVE  input[k] \in Seq(Sample) /\ Len(input[k]) \in 1 .. MaxInput
    OBVIOUS
  <2>1. sizes[k] \in Nat /\ sizes[k] \in 1 .. MaxInput
    BY <1>1, <1>3
  <2>2. input[k] = [i \in 1 .. sizes[k] |-> First(k) + i - 1]
    BY <1>6 DEF Samples
  <2>3. \A i \in 1 .. sizes[k] : input[k][i] \in Sample
    <3>1. Range(input[k]) \subseteq Sample
      BY <1>6 DEF Sample
    <3>2. \A i \in 1 .. sizes[k] : input[k][i] \in Range(input[k])
      BY <2>2 DEF Range
    <3> QED
      BY <3>1, <3>2
  <2>4. input[k] = [i \in 1 .. sizes[k] |-> input[k][i]]
    BY <2>2
  <2>5. input[k] \in [1 .. sizes[k] -> Sample]
    BY <2>3, <2>4, Zenon
  <2>6. input[k] \in Seq(Sample) /\ Len(input[k]) = sizes[k]
    BY <2>1, <2>5
  <2> QED
    BY <2>1, <2>6
<1>8. input \in [1 .. n -> Seq(Sample)]
  <2>1. input = [k \in 1 .. n |-> input[k]]
    BY <1>5
  <2> QED
    BY <1>7, <2>1, Zenon
<1> QED
  BY <1>4, <1>6, <1>7, <1>8

(* The initial states satisfy the invariant.                                *)
LEMMA InitInv == Init => Inv
<1> SUFFICES ASSUME Init PROVE Inv
  OBVIOUS
<1>1. /\ encoder.held = <<>> /\ decoder.held = <<>> /\ ~encoder.draining /\ ~decoder.draining
      /\ \A S : Fresh \in Codec(S)
  BY DEF Init, Fresh, Codec
<1>2. input \in Seq(Seq(Sample)) /\ \A k \in DOMAIN input : Len(input[k]) \in 1 .. MaxInput
  BY InputFacts DEF Init
<1>3. /\ delay.encoder \in Nat /\ delay.decoder \in Nat /\ 0 \in 0 .. Len(input)
      /\ FrameSize \in Nat \ {0} /\ MaxInput \in Nat \ {0}
  BY <1>2, TranscodeAssumption DEF Init
<1>4. /\ file.frames = <<>> /\ ~file.header /\ ~file.trailer /\ Sent = <<>> /\ Content(Sent) = <<>>
      /\ file \in [header : BOOLEAN, frames : Seq(Frames), trailer : BOOLEAN]
  <2>1. file.frames = <<>> /\ ~file.header /\ ~file.trailer
    BY DEF Init
  <2>2. Sent = <<>>
    BY <1>1, <2>1 DEF Sent
  <2>3. file \in [header : BOOLEAN, frames : Seq(Frames), trailer : BOOLEAN]
    BY DEF Init
  <2> QED
    BY <2>1, <2>2, <2>3, ContentEmpty
<1>5. TypeInv
  <2>1. Len(fifo) < FrameSize + MaxInput /\ Len(fifo) = 0
    BY <1>3 DEF Init
  <2>2. TypeOK
    <3>1. /\ delay \in [decoder : 0 .. MaxDelay, encoder : 0 .. MaxDelay]
          /\ input \in Inputs /\ position \in 0 .. Len(input) /\ finished \in BOOLEAN
          /\ open = {} /\ pc = "input" /\ ret = "error"
      BY <1>3 DEF Init
    <3>2. decoder \in Codec(Range(input)) /\ encoder.draining \in BOOLEAN
      <4>1. decoder = Fresh
        BY DEF Init
      <4>2. Fresh \in Codec(Range(input))
        BY DEF Fresh, Codec
      <4>3. encoder.draining \in BOOLEAN
        BY DEF Init, Fresh
      <4> QED
        BY <4>1, <4>2, <4>3, Zenon
    <3> QED
      BY <2>1, <3>1, <3>2, Zenon DEF TypeOK, Steps
  <2> QED
    BY <1>1, <1>2, <1>4, <2>2 DEF TypeInv, Init
<1>6. OpenInv
  BY <1>4 DEF OpenInv, ReleasedAtExit, Steps, Init
<1>7. HeldInv
  BY <1>1, <1>3 DEF HeldInv, Init
<1>8. SampleInv
  <2>1. <<>> \o <<>> = <<>> /\ SubSeq(input, 1, 0) = <<>>
    BY <1>2
  <2> QED
    BY <1>1, <1>4, <2>1, FlattenEmpty DEF SampleInv, Init
<1>9. FrameInv
  BY <1>4 DEF FrameInv, Init
<1> QED
  BY <1>5, <1>6, <1>7, <1>8, <1>9 DEF Inv

\* The types that the steps need.
LEMMA Types ==
  ASSUME TypeInv
  PROVE  /\ delay.encoder \in Nat /\ delay.decoder \in Nat
         /\ FrameSize \in Nat \ {0} /\ MaxInput \in Nat \ {0}
         /\ input \in Seq(Seq(Sample)) /\ Len(input) \in Nat
         /\ position \in Nat /\ position <= Len(input)
         /\ encoder \in Codec(Frames) /\ encoder.held \in Seq(Frames) /\ Len(encoder.held) \in Nat
         /\ file.frames \in Seq(Frames) /\ Sent \in Seq(Frames)
         /\ fifo \in Seq(Sample) /\ Len(fifo) \in Nat
<1>1. delay.encoder \in Nat /\ delay.decoder \in Nat
  BY TranscodeAssumption DEF TypeInv, TypeOK
<1>2. encoder \in Codec(Frames) /\ encoder.held \in Seq(Frames) /\ file.frames \in Seq(Frames)
  BY DEF TypeInv, Codec
<1>3. Sent \in Seq(Frames) /\ Len(encoder.held) \in Nat
  BY <1>2 DEF Sent
<1>4. input \in Seq(Seq(Sample)) /\ position \in 0 .. Len(input)
  BY DEF TypeInv, TypeOK
<1>5. fifo \in Seq(Sample) /\ Len(fifo) \in Nat
  BY DEF TypeInv
<1>6. Len(input) \in Nat /\ position \in Nat /\ position <= Len(input)
  BY <1>4
<1> QED
  BY <1>1, <1>2, <1>3, <1>4, <1>5, <1>6, TranscodeAssumption

\* What the decoder holds.
LEMMA DecoderTypes ==
  ASSUME TypeInv
  PROVE  /\ Range(input) \subseteq Seq(Sample) /\ decoder \in Codec(Range(input))
         /\ decoder.held \in Seq(Range(input)) /\ decoder.held \in Seq(Seq(Sample))
         /\ Len(decoder.held) \in Nat
         /\ \A p \in Range(input) : Len(p) \in 1 .. MaxInput
<1>1. decoder \in Codec(Range(input)) /\ decoder.held \in Seq(Range(input))
  BY DEF TypeInv, TypeOK, Codec
<1>2. \A p \in Range(input) : Len(p) \in 1 .. MaxInput
  BY DEF TypeInv, Range
<1>3. Range(input) \subseteq Seq(Sample)
  <2>1. input \in Seq(Seq(Sample))
    BY DEF TypeInv
  <2>2. \A k \in DOMAIN input : input[k] \in Seq(Sample)
    BY <2>1
  <2> QED
    BY <2>2 DEF Range
<1>4. decoder.held \in Seq(Seq(Sample))
  BY <1>1, <1>3, SeqMonotonic
<1> QED
  BY <1>1, <1>2, <1>3, <1>4

-----------------------------------------------------------------------------
(* What is allocated.                                                       *)

(* Every step of main keeps OpenInv.                                        *)
LEMMA OpenStep == Inv /\ [Next]_vars => OpenInv'
<1> SUFFICES ASSUME Inv, [Next]_vars PROVE OpenInv'
  OBVIOUS
<1> USE DEF OpenInv, ReleasedAtExit
<1>1. OpenInv /\ DOMAIN file = {"header", "frames", "trailer"} /\ TypeOK
  BY DEF Inv, TypeInv
<1>0. ASSUME NEW sent, EncodeAudioFrame(sent)
      PROVE  file'.header = file.header /\ file'.trailer = file.trailer
  BY <1>1, <1>0 DEF EncodeAudioFrame
<1>2. CASE UNCHANGED vars
  BY <1>1, <1>2 DEF vars
<1>3. CASE OpenInputFile \/ OpenOutputFile
  BY <1>1, <1>3 DEF OpenInputFile, OpenOutputFile, Prepare, Steps
<1>4. CASE InitResampler \/ InitFifo
  BY <1>1, <1>4 DEF InitResampler, InitFifo, Prepare, Steps
<1>5. CASE WriteOutputFileHeader
  <2>1. file'.header = (pc' = "fill")
    BY <1>1, <1>5 DEF WriteOutputFileHeader
  <2> QED
    BY <1>1, <1>5, <2>1 DEF WriteOutputFileHeader, Prepare, Steps
<1>6. CASE ReadDecodeStore \/ ReadEof \/ ReadFails \/ FifoFilled
  BY <1>1, <1>6 DEF ReadDecodeStore, ReadEof, ReadFails, FifoFilled, TypeOK, Steps
<1>14. CASE ConvertOrStoreFails
  <2>1. pc = "fill" /\ pc' \in {"cleanup", "aborted"} /\ UNCHANGED <<file, open>>
    BY <1>14 DEF ConvertOrStoreFails, FreeConverted
  <2> QED
    BY <1>1, <2>1 DEF TypeOK, Steps
<1>7. CASE SendPacketFails
  BY <1>1, <1>7 DEF SendPacketFails, TypeOK, Steps
<1>8. CASE LoadEncodeWrite
  BY <1>0, <1>1, <1>8 DEF LoadEncodeWrite, Steps
<1>9. CASE LoadEncodeFails \/ FifoEmptied
  BY <1>1, <1>9 DEF LoadEncodeFails, FifoEmptied, TypeOK, Steps
<1>10. CASE FlushEncoder \/ FlushFails
  <2>1. file'.header = file.header /\ file'.trailer = file.trailer
    BY <1>0, <1>10 DEF FlushEncoder, FlushFails
  <2> QED
    BY <1>1, <1>10, <2>1 DEF FlushEncoder, FlushFails, TypeOK, Steps
<1>11. CASE WriteTrailer
  BY <1>1, <1>11 DEF WriteTrailer, TypeOK, Steps
<1>12. CASE Cleanup
  BY <1>1, <1>12 DEF Cleanup, Freed, TypeOK, Steps
<1>13. CASE Exit
  BY <1>2, <1>13 DEF Exit
<1> QED
  BY <1>2, <1>3, <1>4, <1>5, <1>6, <1>7, <1>8, <1>9, <1>10, <1>11, <1>12, <1>13, <1>14 DEF Next, Advance, Failure

-----------------------------------------------------------------------------
(* Steps that leave the samples where they are.                             *)

Allocated == {"infmt", "decoder", "io", "outfmt", "encoder", "resampler", "fifo"}

(* What has to be shown of a step for the types.                            *)
LEMMA TypesKept ==
  ASSUME TypeInv, UNCHANGED <<delay, input>>, position' \in 0 .. Len(input),
         decoder' \in Codec(Range(input)), encoder' \in Codec(Frames),
         file' \in [header : BOOLEAN, frames : Seq(Frames), trailer : BOOLEAN],
         fifo' \in Seq(Sample), decoded' \in Seq(Sample), pts' \in Nat,
         Len(fifo') < FrameSize + MaxInput, open' \subseteq Allocated \cup {"packet"},
         finished' \in BOOLEAN, ret' \in {"ok", "error"},
         pc' \in Steps \cup {"fill", "encode", "flush", "trailer", "cleanup", "exit", "aborted"},
         pc' \in {"fill", "encode", "flush", "trailer"} => Allocated \subseteq open'
  PROVE  TypeInv'
<1>1. Sample' = Sample /\ Frames' = Frames
  BY DEF Sample, Frames
<1>2. encoder'.draining \in BOOLEAN
  BY DEF Codec
<1>3. TypeOK'
  BY <1>2, Zenon DEF TypeInv, TypeOK, Allocated
<1> QED
  BY <1>1, <1>3 DEF TypeInv

\* What such a step is: nothing but pc, open, and the header or trailer of the file.
Still ==
  /\ UNCHANGED <<delay, input, loopVars>>
  /\ file'.frames = file.frames
  /\ file' \in [header : BOOLEAN, frames : Seq(Frames), trailer : BOOLEAN]
  /\ ret' \in {"ok", "error"} /\ open' \subseteq Allocated \cup {"packet"}
  /\ pc' \in {"fill", "encode", "flush", "trailer"} => Allocated \subseteq open'
  /\ \/ pc \in Steps /\ pc' \in Steps \cup {"fill"} /\ ret' = ret
     \/ pc = "fill" /\ pc' = "encode" /\ ret' = ret
     \/ pc = "encode" /\ pc' = (IF finished THEN "flush" ELSE "fill") /\ ret' = ret /\ ~Enough
     \/ pc' \in {"cleanup", "exit"} /\ (ret' = ret \/ pc = "trailer")

(* They keep the invariant, but for what is allocated.                      *)
LEMMA StillInv ==
  ASSUME Inv, Still
  PROVE  TypeInv' /\ HeldInv' /\ SampleInv' /\ FrameInv'
<1>1. /\ TypeInv /\ HeldInv /\ SampleInv /\ FrameInv
      /\ UNCHANGED <<delay, input, position, decoder, encoder, decoded, fifo, pts, finished>>
      /\ file'.frames = file.frames
  BY DEF Inv, Still, loopVars
<1>2. Sent' = Sent /\ Sample' = Sample
  BY <1>1 DEF Sent, Sample
<1>3. TypeInv'
  <2>1. pc' \in Steps \cup {"fill", "encode", "flush", "trailer", "cleanup", "exit", "aborted"}
    BY DEF Still
  <2>2. /\ position \in 0 .. Len(input) /\ decoder \in Codec(Range(input)) /\ encoder \in Codec(Frames)
        /\ fifo \in Seq(Sample) /\ decoded \in Seq(Sample) /\ pts \in Nat /\ finished \in BOOLEAN
        /\ Len(fifo) < FrameSize + MaxInput
    BY <1>1 DEF TypeInv, TypeOK
  <2> QED
    BY <1>1, <2>1, <2>2, TypesKept, Zenon DEF Still
<1>4. pc = "encode" /\ pc' = "flush" => finished /\ fifo = <<>> /\ Len(encoder.held) <= delay.encoder
  <2>1. ~Enough /\ finished => fifo = <<>>
    BY DEF Enough
  <2> QED
    BY <1>1, <2>1 DEF Still, HeldInv, Steps
<1>5. HeldInv'
  BY <1>1, <1>4 DEF HeldInv, Still, Steps
<1>6. SampleInv'
  <2> DEFINE S == Content(Sent)
             D == FlattenSeq(decoder.held)
  <2>1. S' = S /\ D' = D /\ (delay.decoder)' = delay.decoder
    BY <1>1, <1>2
  <2>2. pc = "trailer" \/ ret = "ok" =>
       \E rest \in Seq(Sample) :
         /\ (S \o fifo) \o rest = FlattenSeq(input)
         /\ delay.decoder = 0 => rest = <<>>
    BY <1>1 DEF SampleInv, HeldInv
  <2> QED
    BY <1>1, <1>2, <2>2 DEF SampleInv, Still, HeldInv, Steps
<1>7. FrameInv'
  BY <1>1, <1>2 DEF FrameInv, Still, Steps, Timed
<1> QED
  BY <1>3, <1>5, <1>6, <1>7

(* Which steps are such.                                                    *)
LEMMA StillSteps ==
  ASSUME Inv,
         \/ OpenInputFile \/ OpenOutputFile \/ InitResampler \/ InitFifo \/ WriteOutputFileHeader
         \/ ReadFails \/ FifoFilled \/ FifoEmptied \/ WriteTrailer \/ Cleanup
  PROVE  Still
<1>1. /\ TypeOK /\ OpenInv
      /\ file \in [header : BOOLEAN, frames : Seq(Frames), trailer : BOOLEAN]
      /\ open \subseteq Allocated \cup {"packet"} /\ ret \in {"ok", "error"}
      /\ pc \in {"fill", "encode", "flush", "trailer"} => Allocated \subseteq open
  BY DEF Inv, TypeInv, TypeOK, Allocated
<1>2. CASE OpenInputFile
  BY <1>1, <1>2 DEF OpenInputFile, Prepare, Still, Steps, Allocated
<1>3. CASE OpenOutputFile
  BY <1>1, <1>3 DEF OpenOutputFile, Prepare, Still, Steps, Allocated
<1>4. CASE InitResampler
  BY <1>1, <1>4 DEF InitResampler, Prepare, Still, Steps, Allocated
<1>5. CASE InitFifo
  BY <1>1, <1>5 DEF InitFifo, Prepare, Still, Steps, Allocated
<1>6. CASE WriteOutputFileHeader
  <2>1. file'.frames = file.frames /\ file' \in [header : BOOLEAN, frames : Seq(Frames), trailer : BOOLEAN]
    <3> DEFINE h == pc' = "fill"
    <3>1. file' = [file EXCEPT !.header = h] /\ h \in BOOLEAN
      BY <1>6 DEF WriteOutputFileHeader
    <3> HIDE DEF h
    <3> QED
      BY <1>1, <3>1
  <2>2. /\ pc = "header" /\ pc' \in {"fill", "cleanup"} /\ open' = open
        /\ UNCHANGED <<delay, input, loopVars, ret>>
    BY <1>6 DEF WriteOutputFileHeader, Prepare
  <2> QED
    BY <1>1, <2>1, <2>2 DEF OpenInv, Still, Steps, Allocated
<1>7. CASE ReadFails
  BY <1>1, <1>7 DEF ReadFails, Still
<1>8. CASE FifoFilled
  BY <1>1, <1>8 DEF FifoFilled, Still
<1>9. CASE FifoEmptied
  BY <1>1, <1>9 DEF FifoEmptied, Still
<1>10. CASE WriteTrailer
  BY <1>1, <1>10 DEF WriteTrailer, Still
<1>11. CASE Cleanup
  BY <1>1, <1>11 DEF Cleanup, Still
<1> QED
  BY <1>2, <1>3, <1>4, <1>5, <1>6, <1>7, <1>8, <1>9, <1>10, <1>11

-----------------------------------------------------------------------------
(* Steps of the decoder.                                                    *)

(* One frame at most comes out of the decoder, the first that it holds.     *)
LEMMA Decoded ==
  ASSUME TypeInv, NEW sent \in Codec(Range(input)), DecodeAudioFrame(sent)
  PROVE  /\ decoder' \in Codec(Range(input)) /\ decoded' \in Seq(Sample)
         /\ decoded' = decoded \o FrameOf(sent)
         /\ FrameOf(sent) \in Seq(Sample) /\ Len(FrameOf(sent)) <= MaxInput
         /\ decoded' \o FlattenSeq(decoder'.held) = decoded \o FlattenSeq(sent.held)
         /\ Len(decoder'.held) \in Nat
         /\ Len(decoder'.held) = IF Ready(sent, delay.decoder) THEN Len(sent.held) - 1 ELSE Len(sent.held)
<1>1. sent.held \in Seq(Range(input)) /\ sent.held \in Seq(Seq(Sample)) /\ decoded \in Seq(Sample)
  <2>1. Range(input) \subseteq Seq(Sample)
    BY DecoderTypes
  <2> QED
    BY <2>1, SeqMonotonic DEF Codec, TypeInv
<1>2. CASE Ready(sent, delay.decoder)
  <2>1. sent.held # <<>>
    BY <1>2 DEF Ready
  <2>2. /\ decoder' \in Codec(Range(input)) /\ decoder'.held = Tail(sent.held)
        /\ FrameOf(sent) = Head(sent.held) /\ FrameOf(sent) \in Range(input)
        /\ decoded' = decoded \o Head(sent.held)
        /\ Len(decoder'.held) = Len(sent.held) - 1
    BY <1>2, <2>1, Given DEF DecodeAudioFrame, FrameOf
  <2>3. Head(sent.held) \in Seq(Sample) /\ Len(Head(sent.held)) <= MaxInput
    BY <2>2, DecoderTypes, TranscodeAssumption
  <2>4. FlattenSeq(sent.held) = Head(sent.held) \o FlattenSeq(Tail(sent.held))
        /\ FlattenSeq(Tail(sent.held)) \in Seq(Sample)
    <3> DEFINE h == sent.held
    <3>1. h \in Seq(Seq(Sample)) /\ h # <<>>
      BY <1>1, <2>1
    <3> HIDE DEF h
    <3>2. FlattenSeq(h) = Head(h) \o FlattenSeq(Tail(h)) /\ Tail(h) \in Seq(Seq(Sample))
      BY <3>1, FlattenHead
    <3>3. FlattenSeq(Tail(h)) \in Seq(Sample)
      BY <3>2, FlattenType
    <3> QED
      BY <3>2, <3>3 DEF h
  <2>5. (decoded \o Head(sent.held)) \o FlattenSeq(Tail(sent.held))
          = decoded \o (Head(sent.held) \o FlattenSeq(Tail(sent.held)))
    <3> DEFINE h == Head(sent.held)
               t == FlattenSeq(Tail(sent.held))
    <3>1. h \in Seq(Sample) /\ t \in Seq(Sample) /\ decoded \in Seq(Sample)
      BY <1>1, <2>3, <2>4
    <3> HIDE DEF h, t
    <3>2. (decoded \o h) \o t = decoded \o (h \o t)
      BY <3>1, CatAssoc
    <3> QED
      BY <3>2 DEF h, t
  <2>6. decoded' \in Seq(Sample)
    BY <1>1, <2>2, <2>3
  <2>7. Len(decoder'.held) \in Nat
    BY <1>1, <2>1, <2>2
  <2> QED
    BY <1>2, <2>2, <2>3, <2>4, <2>5, <2>6, <2>7
<1>3. CASE ~Ready(sent, delay.decoder)
  <2>1. decoder' = sent /\ decoded' = decoded /\ FrameOf(sent) = <<>>
    BY <1>3 DEF DecodeAudioFrame, FrameOf
  <2>2. decoded \o <<>> = decoded /\ <<>> \in Seq(Sample) /\ Len(<<>>) = 0 /\ Len(sent.held) \in Nat
    BY <1>1
  <2> QED
    BY <1>1, <1>3, <2>1, <2>2, TranscodeAssumption
<1> QED
  BY <1>2, <1>3

(* The next packet, as the decoder takes it.                                *)
LEMMA PacketTaken ==
  ASSUME TypeInv, position < Len(input)
  PROVE  /\ input[position + 1] \in Range(input) /\ position + 1 \in 0 .. Len(input)
         /\ Accept(decoder, input[position + 1]) \in Codec(Range(input))
         /\ Accept(decoder, input[position + 1]).held = Append(decoder.held, input[position + 1])
         /\ Len(Append(decoder.held, input[position + 1])) = Len(decoder.held) + 1
         /\ Accept(decoder, input[position + 1]).draining = decoder.draining
         /\ FlattenSeq(Append(decoder.held, input[position + 1]))
              = FlattenSeq(decoder.held) \o input[position + 1]
         /\ FlattenSeq(SubSeq(input, 1, position + 1))
              = FlattenSeq(SubSeq(input, 1, position)) \o input[position + 1]
<1> DEFINE p == input[position + 1]
<1>1. position + 1 \in 1 .. Len(input) /\ position + 1 \in 0 .. Len(input) /\ position \in Nat
      /\ input \in Seq(Seq(Sample)) /\ DOMAIN input = 1 .. Len(input)
  <2>1. position \in Nat /\ Len(input) \in Nat /\ input \in Seq(Seq(Sample))
    BY Types
  <2>2. position + 1 \in 1 .. Len(input) /\ position + 1 \in 0 .. Len(input)
    BY ONLY <2>1, position < Len(input)
  <2> QED
    BY <2>1, <2>2
<1>2. p \in Range(input) /\ p \in Seq(Sample)
  BY <1>1 DEF Range
<1>3. SubSeq(input, 1, position) \in Seq(Seq(Sample))
      /\ SubSeq(input, 1, position + 1) = Append(SubSeq(input, 1, position), p)
  BY <1>1
<1> HIDE DEF p
<1>4. FlattenSeq(Append(SubSeq(input, 1, position), p)) = FlattenSeq(SubSeq(input, 1, position)) \o p
  BY <1>2, <1>3, FlattenAppend
<1>5. FlattenSeq(Append(decoder.held, p)) = FlattenSeq(decoder.held) \o p
  BY <1>2, DecoderTypes, FlattenAppend
<1>6. /\ Accept(decoder, p) \in Codec(Range(input)) /\ Accept(decoder, p).held = Append(decoder.held, p)
      /\ Accept(decoder, p).draining = decoder.draining
  BY <1>2, DecoderTypes, Accepted
<1>7. Len(Append(decoder.held, p)) = Len(decoder.held) + 1
  BY <1>2, DecoderTypes
<1> QED
  BY <1>1, <1>2, <1>3, <1>4, <1>5, <1>6, <1>7 DEF p

(* A packet is read, and what the decoder gives is stored (545-602).        *)
LEMMA ReadDecodeStoreInv == ASSUME Inv, ReadDecodeStore PROVE TypeInv' /\ HeldInv' /\ SampleInv' /\ FrameInv'
<1> DEFINE p == input[position + 1]
           sent == Accept(decoder, p)
           g == FrameOf(sent)
<1>1. /\ TypeInv /\ HeldInv /\ SampleInv /\ FrameInv
      /\ pc = "fill" /\ ~finished /\ position < Len(input) /\ position' = position + 1 /\ Len(fifo) < FrameSize
      /\ DecodeAudioFrame(sent) /\ fifo' = fifo \o g
      /\ UNCHANGED <<delay, input, encoder, pts, file, open, finished, pc, ret>>
  BY DEF Inv, HeldInv, ReadDecodeStore, Wanting
<1>2. /\ sent \in Codec(Range(input)) /\ sent.held = Append(decoder.held, p) /\ position + 1 \in 0 .. Len(input)
      /\ Len(sent.held) = Len(decoder.held) + 1 /\ p \in Range(input)
      /\ FlattenSeq(sent.held) = FlattenSeq(decoder.held) \o p
      /\ FlattenSeq(SubSeq(input, 1, position + 1)) = FlattenSeq(SubSeq(input, 1, position)) \o p
  BY <1>1, PacketTaken
<1> HIDE DEF sent, g
<1>3. /\ decoder' \in Codec(Range(input)) /\ decoded' \in Seq(Sample)
      /\ decoded' = decoded \o g /\ g \in Seq(Sample) /\ Len(g) <= MaxInput
      /\ decoded' \o FlattenSeq(decoder'.held) = decoded \o FlattenSeq(sent.held)
      /\ Len(decoder'.held) = IF Ready(sent, delay.decoder) THEN Len(sent.held) - 1 ELSE Len(sent.held)
  BY <1>1, <1>2, Decoded DEF g
<1>4. Sent' = Sent /\ Sample' = Sample
  BY <1>1 DEF Sent, Sample
<1>5. Len(fifo') < FrameSize + MaxInput /\ fifo' \in Seq(Sample)
  <2>1. Len(fifo \o g) = Len(fifo) + Len(g) /\ fifo \o g \in Seq(Sample) /\ Len(g) \in Nat
    BY <1>1, <1>3, Types
  <2> QED
    BY <1>1, <1>3, <2>1, Types
<1>6. TypeInv'
  <2>1. /\ encoder \in Codec(Frames) /\ pts \in Nat /\ finished \in BOOLEAN
        /\ file \in [header : BOOLEAN, frames : Seq(Frames), trailer : BOOLEAN]
        /\ open \subseteq Allocated \cup {"packet"} /\ Allocated \subseteq open /\ ret \in {"ok", "error"}
    BY <1>1 DEF TypeInv, TypeOK, Allocated
  <2> QED
    BY <1>1, <1>2, <1>3, <1>5, <2>1, TypesKept
<1>7. HeldInv'
  <2>1. Len(decoder.held) <= delay.decoder
    BY <1>1 DEF HeldInv
  <2>2. Len(decoder'.held) <= delay.decoder
    <3>1. Len(decoder.held) \in Nat /\ delay.decoder \in Nat
      BY <1>1, Types, DecoderTypes
    <3>2. sent.held # <<>>
      <4>1. Len(sent.held) = Len(decoder.held) + 1
        BY <1>2, Zenon
      <4>2. Len(sent.held) # 0
        BY <3>1, <4>1
      <4>3. Len(<<>>) = 0
        OBVIOUS
      <4> QED
        BY <4>2, <4>3, Zenon
    <3>3. Len(sent.held) > delay.decoder => Ready(sent, delay.decoder)
      BY <3>2 DEF Ready
    <3>4. Len(decoder'.held) = Len(sent.held) - 1 \/ (Len(decoder'.held) = Len(sent.held) /\ ~Ready(sent, delay.decoder))
      BY <1>3
    <3> QED
      BY <1>2, <2>1, <3>1, <3>3, <3>4
  <2> QED
    BY <1>1, <2>2 DEF HeldInv
<1>8. SampleInv'
  <2>1. /\ Content(Sent) \o fifo = decoded
        /\ decoded \o FlattenSeq(decoder.held) = FlattenSeq(SubSeq(input, 1, position))
    BY <1>1 DEF SampleInv
  <2>2. /\ Content(Sent) \in Seq(Sample) /\ fifo \in Seq(Sample) /\ decoded \in Seq(Sample)
        /\ FlattenSeq(decoder.held) \in Seq(Sample) /\ p \in Seq(Sample)
    BY <1>1, <1>2, Types, DecoderTypes, ContentType, FlattenType DEF Frames, TypeInv
  <2> DEFINE c == Content(Sent)
             h == FlattenSeq(decoder.held)
  <2>3. c \o (fifo \o g) = (c \o fifo) \o g
    <3>1. c \in Seq(Sample) /\ fifo \in Seq(Sample) /\ g \in Seq(Sample)
      BY <1>3, <2>2
    <3> HIDE DEF c, g
    <3> QED
      BY ONLY <3>1, CatAssoc, SMTT(20)
  <2>4. decoded \o (h \o p) = (decoded \o h) \o p
    <3>1. h \in Seq(Sample) /\ p \in Seq(Sample) /\ decoded \in Seq(Sample)
      BY <2>2
    <3> HIDE DEF h, p
    <3> QED
      BY ONLY <3>1, CatAssoc, SMTT(20)
  <2>5. Content(Sent') \o fifo' = decoded'
    BY <1>1, <1>3, <1>4, <2>1, <2>3
  <2>6. decoded' \o FlattenSeq(decoder'.held) = FlattenSeq(SubSeq(input, 1, position + 1))
    BY <1>2, <1>3, <2>1, <2>4
  <2>7. ret # "ok"
    BY <1>1 DEF HeldInv
  <2> QED
    BY <1>1, <2>5, <2>6, <2>7 DEF SampleInv, Steps
<1>9. FrameInv'
  BY <1>1, <1>4 DEF FrameInv, Timed, Steps
<1> QED
  BY <1>6, <1>7, <1>8, <1>9

(* What the decoder gave is lost with an error, or with the process.        *)
LEMMA ConvertOrStoreFailsInv ==
  ASSUME Inv, ConvertOrStoreFails
  PROVE  TypeInv' /\ HeldInv' /\ SampleInv' /\ FrameInv'
<1> DEFINE sent == Accept(decoder, input[position + 1])
<1>1. /\ TypeInv /\ HeldInv /\ SampleInv /\ FrameInv
      /\ pc = "fill" /\ ~finished /\ position < Len(input) /\ position' = position + 1
      /\ DecodeAudioFrame(sent) /\ pc' \in {"cleanup", "aborted"}
      /\ UNCHANGED <<delay, input, encoder, fifo, pts, file, open, finished, ret>>
  BY DEF Inv, HeldInv, ConvertOrStoreFails, FreeConverted
<1>2. sent \in Codec(Range(input)) /\ position + 1 \in 0 .. Len(input)
  BY <1>1, PacketTaken
<1> HIDE DEF sent
<1>3. decoder' \in Codec(Range(input)) /\ decoded' \in Seq(Sample)
  BY <1>1, <1>2, Decoded
<1>4. Sent' = Sent
  BY <1>1 DEF Sent
<1>5. TypeInv'
  <2>1. /\ encoder \in Codec(Frames) /\ pts \in Nat /\ finished \in BOOLEAN
        /\ file \in [header : BOOLEAN, frames : Seq(Frames), trailer : BOOLEAN]
        /\ open \subseteq Allocated \cup {"packet"} /\ ret \in {"ok", "error"}
        /\ fifo \in Seq(Sample) /\ Len(fifo) < FrameSize + MaxInput
    BY <1>1 DEF TypeInv, TypeOK, Allocated
  <2> QED
    BY <1>1, <1>2, <1>3, <2>1, TypesKept
<1>6. ret' # "ok" /\ ~finished'
  BY <1>1 DEF HeldInv
<1> QED
  BY <1>1, <1>4, <1>5, <1>6 DEF HeldInv, SampleInv, FrameInv, Timed, Steps

(* A packet that could not be sent is kept allocated.                       *)
LEMMA SendPacketFailsInv ==
  ASSUME Inv, SendPacketFails
  PROVE  TypeInv' /\ HeldInv' /\ SampleInv' /\ FrameInv'
<1>1. /\ TypeInv /\ HeldInv /\ SampleInv /\ FrameInv
      /\ pc = "fill" /\ ~finished /\ position < Len(input) /\ position' = position + 1
      /\ pc' = "cleanup" /\ open' = open \cup {"packet"}
      /\ UNCHANGED <<delay, input, decoder, encoder, decoded, fifo, pts, file, finished, ret>>
  BY DEF Inv, HeldInv, SendPacketFails
<1>2. position + 1 \in 0 .. Len(input)
  BY <1>1, PacketTaken
<1>3. Sent' = Sent
  BY <1>1 DEF Sent
<1>4. TypeInv'
  <2>1. /\ encoder \in Codec(Frames) /\ pts \in Nat /\ finished \in BOOLEAN
        /\ file \in [header : BOOLEAN, frames : Seq(Frames), trailer : BOOLEAN]
        /\ open' \subseteq Allocated \cup {"packet"} /\ ret \in {"ok", "error"}
        /\ fifo \in Seq(Sample) /\ decoded \in Seq(Sample) /\ Len(fifo) < FrameSize + MaxInput
        /\ decoder \in Codec(Range(input))
    BY <1>1 DEF TypeInv, TypeOK, Allocated
  <2> QED
    BY <1>1, <1>2, <2>1, TypesKept
<1>5. ret' # "ok" /\ ~finished'
  BY <1>1 DEF HeldInv
<1> QED
  BY <1>1, <1>3, <1>4, <1>5 DEF HeldInv, SampleInv, FrameInv, Timed, Steps

(* The end of the input: what the drained decoder gives is dropped.         *)
LEMMA ReadEofInv == ASSUME Inv, ReadEof PROVE TypeInv' /\ HeldInv' /\ SampleInv' /\ FrameInv'
<1> DEFINE sent == Drain(decoder)
<1>1. /\ TypeInv /\ HeldInv /\ SampleInv /\ FrameInv
      /\ pc = "fill" /\ ~finished /\ position = Len(input) /\ finished' = TRUE
      /\ DecodeAudioFrame(sent) /\ pc' = "encode"
      /\ UNCHANGED <<delay, input, position, encoder, fifo, pts, file, open, ret>>
  BY DEF Inv, HeldInv, ReadEof
<1>2. sent \in Codec(Range(input)) /\ sent.held = decoder.held
  BY <1>1, DecoderTypes, Drained
<1> HIDE DEF sent
<1>3. decoder' \in Codec(Range(input)) /\ decoded' \in Seq(Sample)
  BY <1>1, <1>2, Decoded
<1>4. Sent' = Sent /\ Sample' = Sample /\ ret # "ok"
  BY <1>1 DEF Sent, Sample, HeldInv
<1>5. TypeInv'
  <2>1. /\ encoder \in Codec(Frames) /\ pts \in Nat /\ finished' \in BOOLEAN
        /\ file \in [header : BOOLEAN, frames : Seq(Frames), trailer : BOOLEAN]
        /\ open \subseteq Allocated \cup {"packet"} /\ ret \in {"ok", "error"} /\ Allocated \subseteq open
        /\ fifo \in Seq(Sample) /\ Len(fifo) < FrameSize + MaxInput /\ position \in 0 .. Len(input)
    BY <1>1 DEF TypeInv, TypeOK, Allocated
  <2> QED
    BY <1>1, <1>3, <2>1, TypesKept
<1>6. HeldInv'
  BY <1>1, <1>4 DEF HeldInv, Steps
<1>7. SampleInv'
  <2> DEFINE rest == FlattenSeq(decoder.held)
  <2>1. Content(Sent) \o fifo = decoded /\ decoded \o rest = FlattenSeq(SubSeq(input, 1, position))
    BY <1>1 DEF SampleInv
  <2>2. SubSeq(input, 1, position) = input
    BY <1>1, Types
  <2>3. rest \in Seq(Sample)
    BY <1>1, DecoderTypes, FlattenType
  <2>4. delay.decoder = 0 => rest = <<>>
    <3>1. Len(decoder.held) <= delay.decoder
      BY <1>1 DEF HeldInv
    <3>2. delay.decoder = 0 => decoder.held = <<>>
      BY <1>1, <3>1, DecoderTypes
    <3> QED
      BY <3>2, FlattenEmpty
  <2> HIDE DEF rest
  <2>5. (Content(Sent) \o fifo) \o rest = FlattenSeq(input)
    BY <2>1, <2>2
  <2> QED
    BY <1>1, <1>4, <2>3, <2>4, <2>5 DEF SampleInv, Steps
<1>8. FrameInv'
  BY <1>1, <1>4 DEF FrameInv, Timed, Steps
<1> QED
  BY <1>5, <1>6, <1>7, <1>8

-----------------------------------------------------------------------------
(* Steps of the encoder.                                                    *)

(* The first of a sequence, moved to the end of what was before it.         *)
LEMMA FirstMoves ==
  ASSUME NEW S, NEW a \in Seq(S), NEW h \in Seq(S), h # <<>>
  PROVE  Append(a, Head(h)) \in Seq(S) /\ Append(a, Head(h)) \o Tail(h) = a \o h
<1>1. Head(h) \in S /\ Tail(h) \in Seq(S) /\ <<Head(h)>> \in Seq(S) /\ <<Head(h)>> \o Tail(h) = h
  OBVIOUS
<1>2. Append(a, Head(h)) \in Seq(S) /\ Append(a, Head(h)) = a \o <<Head(h)>>
  BY <1>1
<1>3. (a \o <<Head(h)>>) \o Tail(h) = a \o (<<Head(h)>> \o Tail(h))
  BY <1>1, CatAssoc
<1> QED
  BY <1>1, <1>2, <1>3

(* A packet goes from the encoder to the file, and none is lost.            *)
LEMMA Encoded ==
  ASSUME TypeInv, NEW sent \in Codec(Frames), EncodeAudioFrame(sent)
  PROVE  /\ encoder' \in Codec(Frames) /\ encoder'.draining = sent.draining
         /\ file' \in [header : BOOLEAN, frames : Seq(Frames), trailer : BOOLEAN]
         /\ file'.frames \o encoder'.held = file.frames \o sent.held
         /\ Len(encoder'.held) = IF Ready(sent, delay.encoder) THEN Len(sent.held) - 1 ELSE Len(sent.held)
<1>1. /\ sent.held \in Seq(Frames) /\ file.frames \in Seq(Frames)
      /\ file \in [header : BOOLEAN, frames : Seq(Frames), trailer : BOOLEAN]
  BY DEF Codec, TypeInv
<1>2. CASE Ready(sent, delay.encoder)
  <2>1. sent.held # <<>>
    BY <1>2 DEF Ready
  <2>2. encoder' = AfterOutput(sent) /\ file' = [file EXCEPT !.frames = Append(file.frames, Output(sent))]
    BY <1>2 DEF EncodeAudioFrame
  <2>3. /\ encoder' \in Codec(Frames) /\ encoder'.draining = sent.draining
        /\ encoder'.held = Tail(sent.held) /\ Output(sent) = Head(sent.held)
        /\ Len(Tail(sent.held)) = Len(sent.held) - 1
    BY <2>1, <2>2, Given
  <2>4. /\ Append(file.frames, Head(sent.held)) \in Seq(Frames)
        /\ Append(file.frames, Head(sent.held)) \o Tail(sent.held) = file.frames \o sent.held
    BY <1>1, <2>1, FirstMoves
  <2> DEFINE new == Append(file.frames, Head(sent.held))
  <2>5. file' = [file EXCEPT !.frames = new] /\ new \in Seq(Frames)
    BY <2>2, <2>3, <2>4
  <2> HIDE DEF new
  <2>6. /\ file'.frames = new
        /\ file' \in [header : BOOLEAN, frames : Seq(Frames), trailer : BOOLEAN]
    BY <1>1, <2>5
  <2> QED
    BY <1>2, <2>3, <2>4, <2>6 DEF new
<1>3. CASE ~Ready(sent, delay.encoder)
  BY <1>1, <1>3 DEF EncodeAudioFrame
<1> QED
  BY <1>2, <1>3

(* A sequence of frames does not change where it was when one is added.     *)
LEMMA EarlierStay ==
  ASSUME NEW S, NEW s \in Seq(S), NEW f \in S
  PROVE  /\ Len(Append(s, f)) = Len(s) + 1 /\ Append(s, f)[Len(s) + 1] = f
         /\ SubSeq(Append(s, f), 1, Len(s)) = s
         /\ \A i \in 1 .. Len(s) :
              Append(s, f)[i] = s[i] /\ SubSeq(Append(s, f), 1, i - 1) = SubSeq(s, 1, i - 1)
<1>1. /\ Len(Append(s, f)) = Len(s) + 1 /\ Append(s, f)[Len(s) + 1] = f
      /\ \A i \in 1 .. Len(s) : Append(s, f)[i] = s[i]
  OBVIOUS
<1>2. SubSeq(Append(s, f), 1, Len(s)) = s
  OBVIOUS
<1>3. ASSUME NEW i \in 1 .. Len(s)
      PROVE  SubSeq(Append(s, f), 1, i - 1) = SubSeq(s, 1, i - 1)
  OBVIOUS
<1> QED
  BY <1>1, <1>2, <1>3

(* Frames that are timed right stay so when one is added.                   *)
LEMMA StillTimed ==
  ASSUME NEW s \in Seq(Frames), NEW f \in Frames, NEW i \in 1 .. Len(s), Timed(s, i)
  PROVE  Timed(Append(s, f), i)
<1>1. Append(s, f)[i] = s[i] /\ SubSeq(Append(s, f), 1, i - 1) = SubSeq(s, 1, i - 1)
  BY EarlierStay
<1> QED
  BY <1>1 DEF Timed

(* The frame that load_encode_and_write makes.                              *)
LEMMA FrameTaken ==
  ASSUME TypeInv, Enough
  PROVE  /\ Take \in 1 .. FrameSize /\ Take <= Len(fifo) /\ Frame(SubSeq(fifo, 1, Take)) \in Frames
         /\ Frame(SubSeq(fifo, 1, Take)).pts = pts
         /\ Frame(SubSeq(fifo, 1, Take)).samples = SubSeq(fifo, 1, Take)
         /\ Len(SubSeq(fifo, 1, Take)) = Take
         /\ SubSeq(fifo, 1, Take) \in Seq(Sample)
         /\ SubSeq(fifo, Take + 1, Len(fifo)) \in Seq(Sample)
         /\ Len(SubSeq(fifo, Take + 1, Len(fifo))) = Len(fifo) - Take
         /\ SubSeq(fifo, 1, Take) \o SubSeq(fifo, Take + 1, Len(fifo)) = fifo
<1>1. fifo \in Seq(Sample) /\ Len(fifo) \in Nat /\ FrameSize \in Nat \ {0} /\ pts \in Nat
  BY Types DEF TypeInv
<1>2. fifo # <<>>
  BY <1>1 DEF Enough
<1>3. Len(fifo) > 0
  BY <1>1, <1>2
<1>4. Take \in 1 .. FrameSize /\ Take <= Len(fifo)
  BY <1>1, <1>3 DEF Take
<1> DEFINE n == Take
<1>5. n \in Nat /\ n <= Len(fifo) /\ n > 0
  BY <1>1, <1>4
<1> HIDE DEF n
<1>6. /\ SubSeq(fifo, 1, n) \in Seq(Sample) /\ Len(SubSeq(fifo, 1, n)) = n
      /\ SubSeq(fifo, n + 1, Len(fifo)) \in Seq(Sample)
      /\ Len(SubSeq(fifo, n + 1, Len(fifo))) = Len(fifo) - n
  BY <1>1, <1>5
<1>7. SubSeq(fifo, 1, n) \o SubSeq(fifo, n + 1, Len(fifo)) = fifo
  <2>1. n \in 0 .. Len(fifo)
    BY <1>1, <1>5
  <2> QED
    BY <1>1, <2>1, CutTogether
<1>8. /\ Frame(SubSeq(fifo, 1, n)) \in Frames /\ Frame(SubSeq(fifo, 1, n)).pts = pts
      /\ Frame(SubSeq(fifo, 1, n)).samples = SubSeq(fifo, 1, n)
  BY <1>1, <1>6 DEF Frame, Frames, FramesOf
<1> QED
  BY <1>4, <1>6, <1>7, <1>8 DEF n

(* An element appended to the second of two sequences is the last of both.  *)
LEMMA CatAppend ==
  ASSUME NEW S, NEW s \in Seq(S), NEW t \in Seq(S), NEW e \in S
  PROVE  s \o Append(t, e) = Append(s \o t, e)
<1>1. Append(t, e) \in Seq(S) /\ s \o t \in Seq(S)
  OBVIOUS
<1>2. /\ Len(s \o Append(t, e)) = Len(s) + Len(t) + 1
      /\ Len(Append(s \o t, e)) = Len(s) + Len(t) + 1
      /\ Len(s) \in Nat /\ Len(t) \in Nat
  OBVIOUS
<1>3. ASSUME NEW i \in 1 .. Len(s) + Len(t) + 1
      PROVE  (s \o Append(t, e))[i] = Append(s \o t, e)[i]
  OBVIOUS
<1> QED
  BY <1>1, <1>2, <1>3

(* Two sequences together are as long as both.                              *)
LEMMA LenOfCat ==
  ASSUME NEW S, NEW s \in Seq(S), NEW t \in Seq(S)
  PROVE  Len(s \o t) = Len(s) + Len(t)
  OBVIOUS

(* The FIFO's first samples become a frame, the last one of those sent.     *)
LEMMA LoadEncodeWriteInv ==
  ASSUME Inv, LoadEncodeWrite
  PROVE  TypeInv' /\ HeldInv' /\ SampleInv' /\ FrameInv'
<1> DEFINE taken == SubSeq(fifo, 1, Take)
           left == SubSeq(fifo, Take + 1, Len(fifo))
           f == Frame(taken)
           sent == Accept(encoder, f)
<1>1. /\ TypeInv /\ HeldInv /\ SampleInv /\ FrameInv
      /\ pc = "encode" /\ Enough /\ fifo' = left /\ pts' = pts + Take
      /\ EncodeAudioFrame(sent)
      /\ UNCHANGED <<delay, input, position, decoder, decoded, open, finished, pc, ret>>
  BY DEF Inv, LoadEncodeWrite
<1>2. /\ Take \in 1 .. FrameSize /\ Take <= Len(fifo) /\ f \in Frames /\ f.pts = pts
      /\ f.samples = taken /\ Len(taken) = Take /\ taken \in Seq(Sample)
      /\ left \in Seq(Sample) /\ Len(left) = Len(fifo) - Take /\ taken \o left = fifo
  BY <1>1, FrameTaken
<1>3. sent \in Codec(Frames) /\ sent.held = Append(encoder.held, f) /\ sent.draining = encoder.draining
  BY <1>1, <1>2, Types, Accepted
<1>4. /\ Sent \in Seq(Frames) /\ encoder.held \in Seq(Frames) /\ file.frames \in Seq(Frames)
      /\ Len(encoder.held) \in Nat /\ Len(sent.held) = Len(encoder.held) + 1
      /\ delay.encoder \in Nat /\ FrameSize \in Nat \ {0} /\ Len(fifo) \in Nat /\ pts \in Nat
  <2>1. /\ Sent \in Seq(Frames) /\ encoder.held \in Seq(Frames) /\ file.frames \in Seq(Frames)
        /\ delay.encoder \in Nat /\ FrameSize \in Nat \ {0}
    BY <1>1, Types
  <2>2. fifo \in Seq(Sample) /\ pts \in Nat
    BY <1>1 DEF TypeInv
  <2> HIDE DEF f, sent, taken, left
  <2>3. Len(encoder.held) \in Nat /\ Len(fifo) \in Nat
    BY <2>1, <2>2
  <2>4. Len(sent.held) = Len(encoder.held) + 1
    BY <1>2, <1>3, <2>1
  <2> QED
    BY <2>1, <2>2, <2>3, <2>4
<1>5. (Take = FrameSize \/ Take = Len(fifo)) /\ (~finished => Take = FrameSize) /\ fifo # <<>>
  BY <1>1, <1>4 DEF Take, Enough
<1> HIDE DEF taken, left, f, sent
<1>6. /\ encoder' \in Codec(Frames) /\ encoder'.draining = sent.draining
      /\ file' \in [header : BOOLEAN, frames : Seq(Frames), trailer : BOOLEAN]
      /\ file'.frames \o encoder'.held = file.frames \o sent.held
      /\ Len(encoder'.held) = IF Ready(sent, delay.encoder) THEN Len(sent.held) - 1 ELSE Len(sent.held)
  BY <1>1, <1>3, Encoded
<1>7. Sent' = Append(Sent, f) /\ Sample' = Sample
  <2>1. Sent' = file.frames \o Append(encoder.held, f)
    BY <1>3, <1>6 DEF Sent
  <2>2. file.frames \o Append(encoder.held, f) = Append(file.frames \o encoder.held, f)
    <3> DEFINE w == file.frames
               h == encoder.held
               F == Frames
    <3>1. w \in Seq(F) /\ h \in Seq(F) /\ f \in F
      BY <1>2, <1>4
    <3> HIDE DEF w, h, F
    <3>2. w \o Append(h, f) = Append(w \o h, f)
      BY <3>1, CatAppend
    <3> QED
      BY <3>2 DEF w, h
  <2> QED
    BY <1>1, <2>1, <2>2 DEF Sent, Sample
<1>8. Content(Sent') = Content(Sent) \o taken /\ Content(Sent) \in Seq(Sample)
  BY <1>2, <1>4, <1>7, ContentAppend, ContentType DEF Frames
<1>9. ret # "ok"
  BY <1>1 DEF HeldInv
<1>10. TypeInv'
  <2>1. /\ finished \in BOOLEAN /\ position \in 0 .. Len(input) /\ decoder \in Codec(Range(input))
        /\ open \subseteq Allocated \cup {"packet"} /\ ret \in {"ok", "error"} /\ Allocated \subseteq open
        /\ decoded \in Seq(Sample) /\ Len(fifo) < FrameSize + MaxInput
    BY <1>1 DEF TypeInv, TypeOK, Allocated
  <2>2. Len(fifo') < FrameSize + MaxInput /\ pts' \in Nat /\ fifo' \in Seq(Sample)
    BY <1>1, <1>2, <1>4, <2>1, TranscodeAssumption
  <2> QED
    BY <1>1, <1>6, <2>1, <2>2, TypesKept
<1>11. HeldInv'
  <2>1. Len(encoder.held) <= delay.encoder /\ ~encoder.draining
    BY <1>1 DEF HeldInv, Steps
  <2>2. Len(sent.held) > delay.encoder => Ready(sent, delay.encoder)
    <3>1. Len(sent.held) # 0
      BY <1>4
    <3>2. Len(<<>>) = 0
      OBVIOUS
    <3>3. sent.held # <<>>
      BY <3>1, <3>2, Zenon
    <3> QED
      BY <3>3 DEF Ready
  <2>3. Len(encoder'.held) = Len(sent.held) - 1 \/ (Len(encoder'.held) = Len(sent.held) /\ ~Ready(sent, delay.encoder))
    BY <1>6
  <2>4. Len(encoder'.held) <= delay.encoder
    BY <1>4, <2>1, <2>2, <2>3
  <2>5. ~encoder'.draining
    BY <1>3, <1>6, <2>1
  <2> QED
    BY <1>1, <1>9, <2>4, <2>5 DEF HeldInv, Steps
<1>12. Content(Sent') \o fifo' = Content(Sent) \o fifo
  <2> DEFINE c == Content(Sent)
  <2>1. c \in Seq(Sample) /\ taken \in Seq(Sample) /\ left \in Seq(Sample)
    BY <1>2, <1>8
  <2> HIDE DEF c
  <2>2. (c \o taken) \o left = c \o (taken \o left)
    BY <2>1, CatAssoc
  <2> QED
    BY <1>1, <1>2, <1>8, <2>2 DEF c
<1>13. SampleInv'
  BY <1>1, <1>7, <1>9, <1>12 DEF SampleInv, Steps
<1>14. FrameInv'
  <2>1. /\ \A i \in DOMAIN Sent : Timed(Sent, i) /\ Len(Sent[i].samples) = FrameSize
        /\ pts = Len(Content(Sent))
    BY <1>1, <1>5 DEF FrameInv
  <2>2. DOMAIN Sent = 1 .. Len(Sent) /\ Len(Sent) \in Nat /\ Len(Sent') = Len(Sent) + 1
        /\ DOMAIN Sent' = 1 .. Len(Sent) + 1
    BY <1>2, <1>4, <1>7
  <2>3. /\ Sent'[Len(Sent) + 1] = f /\ SubSeq(Sent', 1, Len(Sent)) = Sent
        /\ \A i \in 1 .. Len(Sent) : Sent'[i] = Sent[i]
    BY <1>2, <1>4, <1>7, EarlierStay
  <2>4. ASSUME NEW i \in DOMAIN Sent'
        PROVE  /\ Timed(Sent', i)
               /\ i <= Len(Sent) => Len(Sent'[i].samples) = FrameSize
               /\ i = Len(Sent) + 1 => Len(Sent'[i].samples) = Take
    <3>1. CASE i \in 1 .. Len(Sent)
      <4>1. Timed(Append(Sent, f), i)
        BY <1>2, <1>4, <2>1, <2>2, <3>1, StillTimed
      <4> QED
        BY <1>7, <2>1, <2>2, <2>3, <3>1, <4>1
    <3>2. CASE i = Len(Sent) + 1
      <4>1. i - 1 = Len(Sent) /\ Sent'[i] = f /\ SubSeq(Sent', 1, i - 1) = Sent
        BY <2>2, <2>3, <3>2
      <4>2. f.pts = Len(Content(SubSeq(Sent', 1, i - 1)))
        BY <1>2, <2>1, <4>1
      <4> QED
        BY <1>2, <2>2, <3>2, <4>1, <4>2 DEF Timed
    <3> QED
      BY <2>2, <3>1, <3>2
  <2>5. \A i \in DOMAIN Sent' : Timed(Sent', i) /\ (i < Len(Sent') => Len(Sent'[i].samples) = FrameSize)
    BY <2>2, <2>4
  <2>6. pts' = Len(Content(Sent'))
    <3> DEFINE c == Content(Sent)
    <3>1. c \in Seq(Sample) /\ Content(Sent') = c \o taken /\ pts = Len(c)
      BY <1>8, <2>1
    <3> HIDE DEF c
    <3>2. Len(c \o taken) = Len(c) + Len(taken)
      BY <1>2, <3>1, LenOfCat
    <3> QED
      BY <1>1, <1>2, <3>1, <3>2
  <2>7. ~finished' \/ fifo' # <<>> => Take = FrameSize
    <3>1. Take = Len(fifo) => Len(left) = 0
      BY <1>2, <1>4
    <3>2. Len(left) = 0 => left = <<>>
      BY <1>2
    <3> QED
      BY <1>1, <1>5, <3>1, <3>2
  <2>8. ~finished' \/ fifo' # <<>> => \A i \in DOMAIN Sent' : Len(Sent'[i].samples) = FrameSize
    <3>1. \A i \in DOMAIN Sent' : i <= Len(Sent) \/ i = Len(Sent) + 1
      BY <2>2
    <3> QED
      BY <2>4, <2>7, <3>1, Zenon
  <2> QED
    BY <2>5, <2>6, <2>8 DEF FrameInv
<1> QED
  BY <1>10, <1>11, <1>13, <1>14

(* An error while a frame is encoded.                                       *)
LEMMA LoadEncodeFailsInv ==
  ASSUME Inv, LoadEncodeFails
  PROVE  TypeInv' /\ HeldInv' /\ SampleInv' /\ FrameInv'
<1>1. /\ TypeInv /\ HeldInv /\ SampleInv /\ FrameInv
      /\ pc = "encode" /\ Enough /\ pc' = "cleanup"
      /\ fifo' \in {fifo, SubSeq(fifo, Take + 1, Len(fifo))} /\ pts' \in {pts, pts + Take}
      /\ UNCHANGED <<delay, input, position, decoder, encoder, decoded, file, open, finished, ret>>
  BY DEF Inv, LoadEncodeFails
<1>2. Sent' = Sent
  BY <1>1 DEF Sent
<1>3. TypeInv'
  <2>1. /\ finished \in BOOLEAN /\ position \in 0 .. Len(input) /\ decoder \in Codec(Range(input))
        /\ open \subseteq Allocated \cup {"packet"} /\ ret \in {"ok", "error"} /\ pts \in Nat
        /\ decoded \in Seq(Sample) /\ Len(fifo) < FrameSize + MaxInput /\ fifo \in Seq(Sample)
        /\ encoder \in Codec(Frames)
        /\ file \in [header : BOOLEAN, frames : Seq(Frames), trailer : BOOLEAN]
    BY <1>1 DEF TypeInv, TypeOK, Allocated
  <2> DEFINE rest == SubSeq(fifo, Take + 1, Len(fifo))
             taken == SubSeq(fifo, 1, Take)
  <2>2. /\ Take \in Nat /\ rest \in Seq(Sample)
        /\ Len(rest) = Len(fifo) - Take /\ Len(fifo) \in Nat
    <3>1. Take \in 1 .. FrameSize /\ FrameSize \in Nat
      BY <1>1, FrameTaken, TranscodeAssumption
    <3>2. rest \in Seq(Sample) /\ Len(rest) = Len(fifo) - Take
      BY <1>1, FrameTaken
    <3>3. Len(fifo) \in Nat
      BY <2>1
    <3> QED
      BY <3>1, <3>2, <3>3
  <2> HIDE DEF rest
  <2>5. pts' \in {pts, pts + Take} /\ fifo' \in {fifo, rest}
    BY <1>1 DEF rest
  <2>6. pts' \in Nat
    BY <2>1, <2>2, <2>5
  <2>7. fifo' \in Seq(Sample)
    BY <2>1, <2>2, <2>5
  <2>3. pts' \in Nat /\ fifo' \in Seq(Sample)
    BY <2>6, <2>7
  <2>4. Len(fifo') < FrameSize + MaxInput
    <3>1. Len(fifo) - Take < FrameSize + MaxInput
      BY <2>1, <2>2, TranscodeAssumption
    <3> QED
      BY <2>1, <2>2, <2>5, <3>1
  <2> QED
    BY <1>1, <2>1, <2>3, <2>4, TypesKept
<1>4. ret # "ok"
  BY <1>1 DEF HeldInv
<1> QED
  BY <1>1, <1>2, <1>3, <1>4 DEF HeldInv, SampleInv, FrameInv, Timed, Steps

(* A turn of the flush: what leaves the encoder is written.                 *)
LEMMA FlushEncoderInv ==
  ASSUME Inv, FlushEncoder
  PROVE  TypeInv' /\ HeldInv' /\ SampleInv' /\ FrameInv'
<1> DEFINE sent == Drain(encoder)
           written == SendFrameRet(encoder, delay.encoder) # "EOF" /\ encoder.held # <<>>
<1>1. /\ TypeInv /\ HeldInv /\ SampleInv /\ FrameInv
      /\ pc = "flush" /\ pc' = (IF written THEN "flush" ELSE "trailer")
      /\ IF written THEN EncodeAudioFrame(sent) ELSE encoder' = sent /\ UNCHANGED file
      /\ UNCHANGED <<delay, input, position, decoder, decoded, fifo, pts, open, finished, ret>>
  BY DEF Inv, FlushEncoder
<1>2. sent \in Codec(Frames) /\ sent.held = encoder.held /\ sent.draining = TRUE
  BY <1>1, Types, Drained
<1>3. encoder.held \in Seq(Frames) /\ Len(encoder.held) \in Nat /\ delay.encoder \in Nat
  BY <1>1, Types
<1>4. written <=> ~encoder.draining /\ encoder.held # <<>>
  <2>1. SendFrameRet(encoder, delay.encoder) # "EOF" <=> ~encoder.draining
    BY DEF SendFrameRet
  <2> QED
    BY <2>1
<1>5. /\ finished /\ fifo = <<>> /\ Len(encoder.held) <= delay.encoder /\ ret # "ok"
      /\ encoder.draining => (delay.encoder <= 1 => encoder.held = <<>>)
  BY <1>1 DEF HeldInv
<1> HIDE DEF sent, written
<1>6. /\ encoder' \in Codec(Frames)
      /\ file' \in [header : BOOLEAN, frames : Seq(Frames), trailer : BOOLEAN]
      /\ file'.frames \o encoder'.held = file.frames \o encoder.held
      /\ Len(encoder'.held) <= delay.encoder
      /\ delay.encoder <= 1 => encoder'.held = <<>>
  <2>1. CASE written
    <3>1. /\ encoder' \in Codec(Frames)
          /\ file' \in [header : BOOLEAN, frames : Seq(Frames), trailer : BOOLEAN]
          /\ file'.frames \o encoder'.held = file.frames \o sent.held
          /\ Len(encoder'.held) = IF Ready(sent, delay.encoder) THEN Len(sent.held) - 1 ELSE Len(sent.held)
      BY <1>1, <1>2, <2>1, Encoded
    <3>2. Ready(sent, delay.encoder)
      BY <1>2, <1>4, <2>1 DEF Ready
    <3>3. Len(encoder'.held) = Len(encoder.held) - 1
      BY <1>2, <3>1, <3>2
    <3>4. encoder'.held \in Seq(Frames)
      BY <3>1 DEF Codec
    <3>5. Len(encoder'.held) = 0 => encoder'.held = <<>>
      BY <3>4
    <3>6. Len(encoder'.held) \in Nat
      BY <3>4
    <3>7. delay.encoder <= 1 => Len(encoder'.held) = 0
      <4> DEFINE n == Len(encoder.held)
                 m == Len(encoder'.held)
      <4>1. m = n - 1 /\ m \in Nat /\ n \in Nat /\ n <= delay.encoder /\ delay.encoder \in Nat
        BY <1>3, <1>5, <3>3, <3>6
      <4> HIDE DEF n, m
      <4>2. delay.encoder <= 1 => m = 0
        BY <4>1
      <4> QED
        BY <4>2 DEF m
    <3>8. Len(encoder'.held) <= delay.encoder
      BY <1>3, <1>5, <3>3
    <3> QED
      BY <1>2, <3>1, <3>5, <3>7, <3>8
  <2>2. CASE ~written
    <3>1. encoder' = sent /\ file' = file
      BY <1>1, <2>2
    <3> QED
      BY <1>1, <1>2, <1>4, <1>5, <2>2, <3>1 DEF TypeInv
  <2> QED
    BY <2>1, <2>2
<1>7. Sent' = Sent /\ Sample' = Sample /\ pc' \in {"flush", "trailer"}
  BY <1>1, <1>6 DEF Sent, Sample
<1>8. TypeInv'
  <2>1. /\ finished \in BOOLEAN /\ position \in 0 .. Len(input) /\ decoder \in Codec(Range(input))
        /\ open \subseteq Allocated \cup {"packet"} /\ ret \in {"ok", "error"} /\ Allocated \subseteq open
        /\ decoded \in Seq(Sample) /\ Len(fifo) < FrameSize + MaxInput /\ fifo \in Seq(Sample) /\ pts \in Nat
    BY <1>1 DEF TypeInv, TypeOK, Allocated
  <2> QED
    BY <1>1, <1>6, <1>7, <2>1, TypesKept
<1>9. HeldInv'
  BY <1>1, <1>5, <1>6, <1>7 DEF HeldInv, Steps
<1>10. SampleInv'
  BY <1>1, <1>5, <1>7 DEF SampleInv, Steps
<1>11. FrameInv'
  BY <1>1, <1>7 DEF FrameInv, Timed, Steps
<1> QED
  BY <1>8, <1>9, <1>10, <1>11

(* An error while the encoder is flushed.                                   *)
LEMMA FlushFailsInv ==
  ASSUME Inv, FlushFails
  PROVE  TypeInv' /\ HeldInv' /\ SampleInv' /\ FrameInv'
<1>1. /\ TypeInv /\ HeldInv /\ SampleInv /\ FrameInv
      /\ pc = "flush" /\ pc' = "cleanup" /\ encoder' = Drain(encoder)
      /\ UNCHANGED <<delay, input, position, decoder, decoded, fifo, pts, file, open, finished, ret>>
  BY DEF Inv, FlushFails
<1>2. encoder' \in Codec(Frames) /\ encoder'.held = encoder.held
  BY <1>1, Types, Drained
<1>3. Sent' = Sent
  BY <1>1, <1>2 DEF Sent
<1>4. TypeInv'
  <2>1. /\ finished \in BOOLEAN /\ position \in 0 .. Len(input) /\ decoder \in Codec(Range(input))
        /\ open \subseteq Allocated \cup {"packet"} /\ ret \in {"ok", "error"} /\ pts \in Nat
        /\ decoded \in Seq(Sample) /\ Len(fifo) < FrameSize + MaxInput /\ fifo \in Seq(Sample)
        /\ file \in [header : BOOLEAN, frames : Seq(Frames), trailer : BOOLEAN]
    BY <1>1 DEF TypeInv, TypeOK, Allocated
  <2> QED
    BY <1>1, <1>2, <2>1, TypesKept
<1>5. ret # "ok"
  BY <1>1 DEF HeldInv
<1>6. position = Len(input)
  BY <1>1 DEF HeldInv
<1>7. HeldInv'
  BY <1>1, <1>5, <1>6 DEF HeldInv, Steps
<1>8. SampleInv'
  BY <1>1, <1>3, <1>5 DEF SampleInv, Steps
<1>9. FrameInv'
  BY <1>1, <1>3 DEF FrameInv, Timed, Steps
<1> QED
  BY <1>4, <1>7, <1>8, <1>9

-----------------------------------------------------------------------------
(* The theorems.                                                            *)

(* Every step of main keeps the invariant.                                  *)
LEMMA StepInv == Inv /\ [Next]_vars => Inv'
<1> SUFFICES ASSUME Inv, [Next]_vars PROVE TypeInv' /\ HeldInv' /\ SampleInv' /\ FrameInv'
  BY OpenStep DEF Inv
<1>1. CASE UNCHANGED vars
  <2>1. /\ UNCHANGED <<delay, input, position, decoder, encoder, decoded, fifo, pts, file>>
        /\ UNCHANGED <<open, finished, pc, ret>>
    BY <1>1 DEF vars
  <2>2. Sample' = Sample /\ Frames' = Frames /\ Sent' = Sent
    BY <2>1 DEF Sample, Frames, Sent
  <2>3. TypeInv'
    BY <2>1, <2>2 DEF Inv, TypeInv, TypeOK
  <2>4. HeldInv'
    BY <2>1 DEF Inv, HeldInv
  <2>5. SampleInv'
    BY <2>1, <2>2 DEF Inv, SampleInv
  <2>6. FrameInv'
    BY <2>1, <2>2 DEF Inv, FrameInv, Timed
  <2> QED
    BY <2>3, <2>4, <2>5, <2>6
<1>2. CASE \/ OpenInputFile \/ OpenOutputFile \/ InitResampler \/ InitFifo \/ WriteOutputFileHeader
           \/ ReadFails \/ FifoFilled \/ FifoEmptied \/ WriteTrailer \/ Cleanup
  BY <1>2, StillSteps, StillInv
<1>3. CASE \/ ReadDecodeStore \/ ConvertOrStoreFails \/ SendPacketFails \/ ReadEof
  BY <1>3, ReadDecodeStoreInv, ConvertOrStoreFailsInv, SendPacketFailsInv, ReadEofInv
<1>4. CASE LoadEncodeWrite \/ LoadEncodeFails \/ FlushEncoder \/ FlushFails
  BY <1>4, LoadEncodeWriteInv, LoadEncodeFailsInv, FlushEncoderInv, FlushFailsInv
<1>5. CASE Exit
  BY <1>1, <1>5 DEF Exit
<1> QED
  BY <1>1, <1>2, <1>3, <1>4, <1>5 DEF Next, Advance, Failure

\* The inductive invariant holds in every state of transcode_aac.
THEOREM InvHolds == Spec => []Inv
  BY InitInv, StepInv, PTL DEF Spec

(* Until the first error or the end of the input no sample is lost, doubled *)
(* or reordered between the decoder and the encoder (545-602, 658-761), for *)
(* any two frame sizes and any delays.                                      *)
THEOREM SamplesAreConserved == Spec => []SamplesConserved
<1>1. Inv => SamplesConserved
  <2> SUFFICES ASSUME Inv PROVE SamplesConserved
    OBVIOUS
  <2>1. TypeInv /\ SampleInv
    BY DEF Inv
  <2>2. Content(Sent) = Content(file.frames) \o Content(encoder.held)
    BY <2>1, Types, ContentCat DEF Sent, Frames
  <2> QED
    BY <2>1, <2>2 DEF SamplesConserved, SampleInv, TypeInv
<1> QED
  BY <1>1, InvHolds, PTL

(* The encoder is given full frames but for the last, each of them timed    *)
(* where the samples before it end, for any sizes of the input's frames.    *)
THEOREM FramesAreFullAndTimed == Spec => []FramesFullAndTimed
<1>1. Inv => FramesFullAndTimed
  BY DEF Inv, FrameInv, FramesFullAndTimed, Sent, Timed
<1> QED
  BY <1>1, InvHolds, PTL

(* The first of two sequences is a prefix of both together.                 *)
LEMMA PrefixOfCat ==
  ASSUME NEW S, NEW s \in Seq(S), NEW t \in Seq(S)
  PROVE  IsPrefix(s, s \o t)
<1>1. Len(s \o t) = Len(s) + Len(t) /\ Len(s) \in Nat /\ Len(t) \in Nat
  OBVIOUS
<1>2. SubSeq(s, 1, Len(s)) = s /\ SubSeq(s \o t, 1, Len(s)) = s
  OBVIOUS
<1> QED
  BY <1>1, <1>2 DEF IsPrefix

(* A program that succeeds has written a prefix of its input, and the whole *)
(* of it where the decoder does not delay and the encoder by one frame at   *)
(* most (812-867), whatever the input.                                      *)
THEOREM WholeInputIsWritten == Spec => []WholeInputWritten
<1>1. Inv => WholeInputWritten
  <2> SUFFICES ASSUME Inv, ret = "ok"
               PROVE  /\ IsPrefix(Content(file.frames), FlattenSeq(input))
                      /\ delay.decoder = 0 /\ delay.encoder <= 1 =>
                           Content(file.frames) = FlattenSeq(input)
    BY DEF WholeInputWritten
  <2> DEFINE w == Content(file.frames)
             h == Content(encoder.held)
  <2>1. TypeInv /\ fifo = <<>> /\ (delay.encoder <= 1 => encoder.held = <<>>)
    BY DEF Inv, HeldInv
  <2>2. PICK rest \in Seq(Sample) :
          (Content(Sent) \o fifo) \o rest = FlattenSeq(input) /\ (delay.decoder = 0 => rest = <<>>)
    BY DEF Inv, SampleInv
  <2>3. w \in Seq(Sample) /\ h \in Seq(Sample) /\ Content(Sent) = w \o h
    BY <2>1, Types, ContentCat, ContentType DEF Sent, Frames
  <2>4. delay.encoder <= 1 => h = <<>>
    BY <2>1, ContentEmpty
  <2> HIDE DEF w, h
  <2>5. w \o h \in Seq(Sample) /\ (w \o h) \o <<>> = w \o h /\ h \o rest \in Seq(Sample)
    BY <2>3
  <2>6. (w \o h) \o rest = w \o (h \o rest)
    BY <2>3, CatAssoc
  <2>7. FlattenSeq(input) = w \o (h \o rest)
    BY <2>1, <2>2, <2>3, <2>5, <2>6
  <2>8. IsPrefix(w, FlattenSeq(input))
    BY <2>3, <2>5, <2>7, PrefixOfCat
  <2>9. ASSUME delay.decoder = 0, delay.encoder <= 1
        PROVE  w = FlattenSeq(input)
    <3>1. h = <<>> /\ rest = <<>> /\ <<>> \o <<>> = <<>> /\ w \o <<>> = w
      BY <2>2, <2>3, <2>4, <2>9
    <3> QED
      BY <2>7, <3>1
  <2> QED
    BY <2>8, <2>9 DEF w
<1> QED
  BY <1>1, InvHolds, PTL

(* Wherever main fails and still reaches its cleanup (869-884), that frees  *)
(* all it has but for one packet or an I/O context, never both; where it    *)
(* may not reach it, the file was begun and not finished.                   *)
THEOREM CleanupReleases == Spec => []ReleasedAtExit
<1>1. Inv => ReleasedAtExit
  BY DEF Inv, OpenInv
<1> QED
  BY <1>1, InvHolds, PTL

=============================================================================
