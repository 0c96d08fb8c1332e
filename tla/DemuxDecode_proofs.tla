------------------------- MODULE DemuxDecode_proofs -------------------------
(***************************************************************************)
(* For any file and any delay of the decoders: the frames of a stream are  *)
(* written at most once and in order whatever fails, a run without failure *)
(* misses only what a decoder that is not flushed holds, and an exit       *)
(* through the cleanup leaves exactly what the programs forget.            *)
(***************************************************************************)
EXTENDS DemuxDecode, Libav_proofs

-----------------------------------------------------------------------------
(* What Receive and ReceiveFails do to the frames of a stream.              *)

\* Of the frames that c, the decoder of s, holds, n are written and m leave it.
Gives(s, c, n, m) ==
  /\ decoder' = [decoder EXCEPT ![s] = [c EXCEPT !.held = SubSeq(c.held, m + 1, Len(c.held))]]
  /\ out' = out \o SubSeq(c.held, 1, n)

LEMMA AvailableFrames ==
  ASSUME NEW S, NEW c \in Codec(S)
  PROVE  Available(c) \in 0 .. Len(c.held) /\ Min({1, Available(c)}) \in 0 .. Len(c.held)
<1>1. Len(c.held) \in Nat /\ DecoderDelay \in Nat
  BY DemuxAssumption DEF Codec
<1> DEFINE d == Len(c.held) - DecoderDelay
<1>2. d \in Int /\ d <= Len(c.held)
  BY <1>1
<1> HIDE DEF d
<1>3. Max({0, d}) \in {0, d} /\ Max({0, d}) >= 0
  <2>1. \E x \in {0, d} : \A y \in {0, d} : x >= y
    BY <1>2
  <2> QED
    BY <2>1 DEF Max
<1>4. Available(c) \in 0 .. Len(c.held)
  BY <1>1, <1>2, <1>3 DEF d, Available
<1> DEFINE a == Available(c)
<1> HIDE DEF a
<1>5. Min({1, a}) \in {1, a} /\ Min({1, a}) <= a
  <2>1. \E x \in {1, a} : \A y \in {1, a} : x <= y
    BY <1>1, <1>4 DEF a
  <2> QED
    BY <2>1 DEF Min
<1> QED
  BY <1>1, <1>4, <1>5 DEF a

LEMMA ReceiveGives ==
  ASSUME NEW S, NEW c \in Codec(S), NEW s, Receive(s, c)
  PROVE  \E n \in 0 .. Len(c.held) : Gives(s, c, n, n)
  BY AvailableFrames DEF Receive, Give, Gives

LEMMA ReceiveFailsGives ==
  ASSUME NEW S, NEW c \in Codec(S), NEW s, NEW unsent, ReceiveFails(s, unsent, c)
  PROVE  \/ decoder' = [decoder EXCEPT ![s] = unsent] /\ out' = out
         \/ \E n \in 0 .. Len(c.held) : \E m \in n .. Len(c.held) : Gives(s, c, n, m)
<1>1. CASE decoder' = [decoder EXCEPT ![s] = unsent] /\ out' = out
  BY <1>1
<1>2. CASE ~(decoder' = [decoder EXCEPT ![s] = unsent] /\ out' = out)
  <2>0. Available(c) \in 0 .. Len(c.held)
    BY AvailableFrames
  <2>1. Len(c.held) \in Nat
    BY DEF Codec
  <2>2. PICK n \in 0 .. Available(c) - 1 :
          /\ decoder' = [decoder EXCEPT ![s] = [c EXCEPT !.held = SubSeq(c.held, n + 2, Len(c.held))]]
          /\ out' = out \o SubSeq(c.held, 1, n)
    BY <1>2 DEF ReceiveFails
  <2>3. n \in 0 .. Len(c.held) /\ n + 1 \in n .. Len(c.held) /\ (n + 1) + 1 = n + 2
    BY ONLY <2>0, <2>1, n \in 0 .. Available(c) - 1
  <2>4. Gives(s, c, n, n + 1)
    BY <2>2, <2>3 DEF Gives
  <2> QED
    BY <2>3, <2>4
<1> QED
  BY <1>1, <1>2

-----------------------------------------------------------------------------
(* The inductive invariant: the way of the frames.                          *)

FileInv == streams \in Seq({"video", "audio", "other"})

FlowInv ==
  /\ position \in 0 .. Len(streams)
  /\ decoder \in [Decoded -> Codec(1 .. position)] /\ out \in Seq(1 .. position)
  /\ \A s \in Decoded : Behind(streams, s, out, decoder[s].held)

\* Frames of s go from c to the output; c is its decoder, fed or drained.
LEMMA GivesKeeps ==
  ASSUME FileInv, FlowInv, NEW s \in Decoded, position' \in {position, position + 1},
         position' \in 0 .. Len(streams), streams' = streams,
         NEW c \in Codec(1 .. position'), Behind(streams, s, out, c.held),
         NEW n \in 0 .. Len(c.held), NEW m \in n .. Len(c.held), Gives(s, c, n, m)
  PROVE  FlowInv'
<1>1. /\ position \in Nat /\ position' \in Nat
      /\ decoder \in [Decoded -> Codec(1 .. position)] /\ out \in Seq(1 .. position)
      /\ c.held \in Seq(1 .. position')
  BY DEF FlowInv, FileInv, Codec
<1>2. Codec(1 .. position) \subseteq Codec(1 .. position') /\ out \in Seq(1 .. position')
  <2>1. 1 .. position \subseteq 1 .. position'
    BY <1>1
  <2> QED
    BY <1>1, <2>1, SeqMonotonic DEF Codec
<1> DEFINE d == [c EXCEPT !.held = SubSeq(c.held, m + 1, Len(c.held))]
<1>3. d = [held |-> SubSeq(c.held, m + 1, Len(c.held)), draining |-> c.draining]
  BY HeldReplaced
<1>4. decoder' = [decoder EXCEPT ![s] = d] /\ out' = out \o SubSeq(c.held, 1, n)
  BY DEF Gives
<1>5. out' \in Seq(1 .. position') /\ Behind(streams, s, out', d.held)
  BY <1>1, <1>2, <1>3, <1>4, FramesMove
<1>6. d \in Codec(1 .. position')
  <2>1. SubSeq(c.held, m + 1, Len(c.held)) \in Seq(1 .. position')
    BY <1>1, CutElements
  <2> QED
    BY <1>3, <2>1 DEF Codec
<1> HIDE DEF d
<1>7. decoder' \in [Decoded -> Codec(1 .. position')]
  BY <1>1, <1>2, <1>4, <1>6
<1>8. decoder'[s] = d /\ \A t \in Decoded \ {s} : decoder'[t] = decoder[t]
  BY <1>1, <1>4
<1>9. ASSUME NEW t \in Decoded PROVE Behind(streams, t, out', decoder'[t].held)
  <2>1. CASE t = s
    BY <1>5, <1>8, <2>1
  <2>2. CASE t # s
    <3>1. decoder'[t] = decoder[t] /\ decoder[t].held \in Seq(1 .. position')
      BY <1>1, <1>2, <1>8, <2>2 DEF Codec
    <3>2. Behind(streams, t, out, decoder[t].held)
      BY DEF FlowInv
    <3> QED
      BY <1>1, <1>2, <1>4, <2>2, <3>1, <3>2, OthersMove
  <2> QED
    BY <2>1, <2>2
<1> QED
  BY <1>5, <1>7, <1>9 DEF FlowInv

\* A decoder is replaced by one that holds the same.
LEMMA SameHeldKeeps ==
  ASSUME FileInv, FlowInv, NEW s \in Decoded, position' \in {position, position + 1},
         position' \in 0 .. Len(streams), streams' = streams, out' = out,
         NEW c \in Codec(1 .. position), c.held = decoder[s].held,
         decoder' = [decoder EXCEPT ![s] = c]
  PROVE  FlowInv'
<1>1. /\ position \in Nat /\ position' \in Nat
      /\ decoder \in [Decoded -> Codec(1 .. position)] /\ out \in Seq(1 .. position)
  BY DEF FlowInv, FileInv
<1>2. Codec(1 .. position) \subseteq Codec(1 .. position') /\ out' \in Seq(1 .. position')
  <2>1. 1 .. position \subseteq 1 .. position'
    BY <1>1
  <2> QED
    BY <1>1, <2>1, SeqMonotonic DEF Codec
<1>3. decoder' \in [Decoded -> Codec(1 .. position')]
  BY <1>1, <1>2
<1>4. \A t \in Decoded : decoder'[t].held = decoder[t].held
  BY <1>1
<1>5. \A t \in Decoded : Behind(streams, t, out', decoder'[t].held)
  BY <1>4 DEF FlowInv
<1> QED
  BY <1>2, <1>3, <1>5 DEF FlowInv

\* The decoder of s fed with its next packet.
LEMMA Fed ==
  ASSUME FileInv, FlowInv, NEW s, s \in Decoded, NextPacket(s)
  PROVE  /\ position' = position + 1 /\ position' \in 0 .. Len(streams)
         /\ Accept(decoder[s], position') \in Codec(1 .. position')
         /\ Behind(streams, s, out, Accept(decoder[s], position').held)
<1>1. /\ position \in Nat /\ position' = position + 1 /\ position' \in 0 .. Len(streams)
      /\ streams[position + 1] = s
  BY DEF FlowInv, FileInv, NextPacket
<1>2. /\ decoder[s] \in Codec(1 .. position) /\ out \in Seq(1 .. position)
      /\ Behind(streams, s, out, decoder[s].held)
  BY DEF FlowInv
<1>3. decoder[s].held \in Seq(1 .. position)
  BY <1>2 DEF Codec
<1>4. /\ Accept(decoder[s], position + 1).held = Append(decoder[s].held, position + 1)
      /\ Accept(decoder[s], position + 1) \in Codec(1 .. position + 1)
  BY <1>1, <1>2, DecoderForms
<1>5. Behind(streams, s, out, Append(decoder[s].held, position + 1))
  BY <1>1, <1>2, <1>3, FramesGrow
<1> QED
  BY <1>1, <1>4, <1>5

\* The decoder of s about to be drained.
LEMMA Drained ==
  ASSUME FileInv, FlowInv, NEW s, s \in Decoded
  PROVE  /\ position \in 0 .. Len(streams)
         /\ Drain(decoder[s]) \in Codec(1 .. position)
         /\ Drain(decoder[s]).held = decoder[s].held
         /\ Behind(streams, s, out, Drain(decoder[s]).held)
<1>1. /\ position \in Nat /\ position \in 0 .. Len(streams)
      /\ decoder[s] \in Codec(1 .. position) /\ Behind(streams, s, out, decoder[s].held)
  BY DEF FlowInv, FileInv
<1>2. Drain(decoder[s]) \in Codec(1 .. position) /\ Drain(decoder[s]).held = decoder[s].held
  BY <1>1, DecoderForms
<1> QED
  BY <1>1, <1>2

LEMMA FlowNext == FileInv /\ FlowInv /\ active \subseteq Decoded /\ [Next]_vars => FlowInv'
<1> SUFFICES ASSUME FileInv, FlowInv, active \subseteq Decoded, [Next]_vars PROVE FlowInv'
  OBVIOUS
<1> USE DEF given
<1>0. /\ position \in Nat /\ decoder \in [Decoded -> Codec(1 .. position)]
      /\ position \in 0 .. Len(streams)
  BY DEF FlowInv, FileInv
<1>a. CASE UNCHANGED <<streams, position, decoder, out>>
  BY <1>a DEF FlowInv
<1>b. ASSUME UNCHANGED <<streams, decoder, out>>, position' = position + 1,
             position' \in 0 .. Len(streams)
      PROVE  FlowInv'
  <2>1. "video" \in Decoded /\ decoder["video"] \in Codec(1 .. position)
    BY <1>0 DEF Decoded
  <2>2. decoder' = [decoder EXCEPT !["video"] = decoder["video"]]
    BY <1>0, <1>b
  <2> QED
    BY <1>b, <2>1, <2>2, SameHeldKeeps
<1>c. ASSUME NEW s \in Decoded, Flush \/ FormatFails, Receive(s, Drain(decoder[s]))
      PROVE  FlowInv'
  <2>1. streams' = streams /\ position' = position
    BY <1>c DEF Flush, FormatFails
  <2> DEFINE c == Drain(decoder[s])
  <2>2. /\ position \in 0 .. Len(streams) /\ c \in Codec(1 .. position)
        /\ Behind(streams, s, out, c.held)
    BY Drained
  <2>3. PICK n \in 0 .. Len(c.held) : Gives(s, c, n, n)
    BY <1>c, <2>2, ReceiveGives
  <2>4. n \in n .. Len(c.held)
    BY <2>2, <2>3 DEF Codec
  <2> HIDE DEF c
  <2> QED
    BY <2>1, <2>2, <2>3, <2>4, GivesKeeps
<1>1. CASE Setup
  BY <1>a, <1>1 DEF Setup
<1>2. CASE SetupFails
  BY <1>a, <1>2 DEF SetupFails
<1>3. CASE SkipStream
  BY <1>a, <1>3 DEF SkipStream
<1>4. CASE ReadOther
  <2>1. position < Len(streams) /\ position' = position + 1 /\ UNCHANGED <<streams, decoder, out>>
    BY <1>4 DEF ReadOther, NextPacket
  <2>2. position' \in 0 .. Len(streams)
    BY <1>0, <2>1 DEF FileInv
  <2> QED
    BY <1>b, <2>1, <2>2
<1>5. CASE DecodePacket
  <2>1. PICK s \in active : NextPacket(s) /\ Receive(s, Accept(decoder[s], position'))
    BY <1>5 DEF DecodePacket
  <2>2. s \in Decoded /\ streams' = streams
    BY <1>5 DEF DecodePacket
  <2> DEFINE c == Accept(decoder[s], position')
  <2>3. /\ position' = position + 1 /\ position' \in 0 .. Len(streams)
        /\ c \in Codec(1 .. position') /\ Behind(streams, s, out, c.held)
    BY <2>1, <2>2, Fed
  <2>4. PICK n \in 0 .. Len(c.held) : Gives(s, c, n, n)
    BY <2>1, <2>3, ReceiveGives
  <2>5. n \in n .. Len(c.held)
    BY <2>3, <2>4 DEF Codec
  <2> HIDE DEF c
  <2> QED
    BY <2>2, <2>3, <2>4, <2>5, GivesKeeps
<1>6. CASE DecodePacketFails
  <2>1. PICK s \in active : /\ NextPacket(s)
                            /\ ReceiveFails(s, decoder[s], Accept(decoder[s], position'))
    BY <1>6 DEF DecodePacketFails
  <2>2. s \in Decoded /\ streams' = streams
    BY <1>6 DEF DecodePacketFails
  <2> DEFINE c == Accept(decoder[s], position')
  <2>3. /\ position' = position + 1 /\ position' \in 0 .. Len(streams)
        /\ c \in Codec(1 .. position') /\ Behind(streams, s, out, c.held)
    BY <2>1, <2>2, Fed
  <2>4. CASE decoder' = [decoder EXCEPT ![s] = decoder[s]] /\ out' = out
    <3>1. decoder' = decoder
      BY <1>0, <2>4
    <3> QED
      BY <1>b, <2>2, <2>3, <2>4, <3>1
  <2>5. CASE \E n \in 0 .. Len(c.held) : \E m \in n .. Len(c.held) : Gives(s, c, n, m)
    <3>1. PICK n \in 0 .. Len(c.held) : \E m \in n .. Len(c.held) : Gives(s, c, n, m)
      BY <2>5
    <3>2. PICK m \in n .. Len(c.held) : Gives(s, c, n, m)
      BY <3>1
    <3> HIDE DEF c
    <3> QED
      BY <2>2, <2>3, <3>2, GivesKeeps
  <2> QED
    BY <2>1, <2>3, <2>4, <2>5, ReceiveFailsGives
<1>7. CASE FeedFails
  <2>1. /\ NextPacket("video") /\ UNCHANGED <<streams, out>>
        /\ LET c == Accept(decoder["video"], position')
           IN Available(c) > 0 /\ decoder' = [decoder EXCEPT !["video"] = AfterOutput(c)]
    BY <1>7 DEF FeedFails
  <2> DEFINE c == Accept(decoder["video"], position')
  <2>2. /\ position' = position + 1 /\ position' \in 0 .. Len(streams)
        /\ c \in Codec(1 .. position') /\ Behind(streams, "video", out, c.held)
        /\ "video" \in Decoded
    BY <2>1, Fed DEF Decoded
  <2>3. Available(c) > 0 /\ decoder' = [decoder EXCEPT !["video"] = AfterOutput(c)]
    BY <2>1
  <2> HIDE DEF c
  <2>4. c.held \in Seq(1 .. position') /\ Len(c.held) \in Nat /\ position' \in Nat
    BY <1>0, <2>2 DEF Codec
  <2>5. Available(c) \in 0 .. Len(c.held)
    BY <2>2, AvailableFrames
  <2>6. Len(c.held) > 0 /\ c.held # <<>>
    BY <2>3, <2>4, <2>5
  <2>7. Tail(c.held) = SubSeq(c.held, 2, Len(c.held))
    BY <2>4, <2>6, TailIsSubSeq
  <2>8. AfterOutput(c) = [c EXCEPT !.held = SubSeq(c.held, 1 + 1, Len(c.held))]
    <3>1. SubSeq(c.held, 1 + 1, Len(c.held)) = Tail(c.held)
      BY <2>7
    <3> QED
      BY <3>1, Zenon DEF AfterOutput
  <2>9. SubSeq(c.held, 1, 0) = <<>> /\ out \in Seq(1 .. position)
    BY SubSeqEmpty DEF FlowInv
  <2>10. out' = out \o SubSeq(c.held, 1, 0)
    BY <2>1, <2>9
  <2>11. Gives("video", c, 0, 1)
    BY <2>3, <2>8, <2>10 DEF Gives
  <2>12. 0 \in 0 .. Len(c.held) /\ 1 \in 0 .. Len(c.held)
    BY <2>4, <2>6
  <2> QED
    BY <2>1, <2>2, <2>11, <2>12, GivesKeeps
<1>8. CASE WriteToNull
  <2>1. CASE position' = position
    BY <1>a, <1>8, <2>1 DEF WriteToNull
  <2>2. CASE position' # position
    <3>1. position < Len(streams) /\ position' = position + 1 /\ UNCHANGED <<streams, decoder, out>>
      BY <1>8, <2>2 DEF WriteToNull, NextPacket
    <3>2. position' \in 0 .. Len(streams)
      BY <1>0, <3>1 DEF FileInv
    <3> QED
      BY <1>b, <3>1, <3>2
  <2> QED
    BY <2>1, <2>2
<1>9. CASE LoopEnds
  BY <1>a, <1>9 DEF LoopEnds
<1>10. CASE Flush
  <2>1. CASE \E s \in Flushed : Receive(s, Drain(decoder[s]))
    BY <1>c, <1>10, <2>1 DEF Flushed
  <2>2. CASE UNCHANGED <<decoder, out>>
    BY <1>a, <1>10, <2>2 DEF Flush
  <2> QED
    BY <1>10, <2>1, <2>2 DEF Flush
<1>11. CASE FlushFails
  <2>1. PICK s \in Flushed : ReceiveFails(s, Drain(decoder[s]), Drain(decoder[s]))
    BY <1>11 DEF FlushFails
  <2>2. s \in Decoded /\ streams' = streams /\ position' = position
    BY <1>11 DEF FlushFails, Flushed
  <2> DEFINE c == Drain(decoder[s])
  <2>3. /\ position' \in 0 .. Len(streams) /\ c \in Codec(1 .. position)
        /\ Behind(streams, s, out, c.held) /\ c.held = decoder[s].held
    BY <2>2, Drained
  <2> HIDE DEF c
  <2>4. CASE decoder' = [decoder EXCEPT ![s] = c] /\ out' = out
    BY <2>2, <2>3, <2>4, SameHeldKeeps
  <2>5. CASE \E n \in 0 .. Len(c.held) : \E m \in n .. Len(c.held) : Gives(s, c, n, m)
    <3>1. PICK n \in 0 .. Len(c.held) : \E m \in n .. Len(c.held) : Gives(s, c, n, m)
      BY <2>5
    <3>2. PICK m \in n .. Len(c.held) : Gives(s, c, n, m)
      BY <3>1
    <3> QED
      BY <2>2, <2>3, <3>2, GivesKeeps
  <2> QED
    BY <2>1, <2>3, <2>4, <2>5, ReceiveFailsGives DEF c
<1>12. CASE FormatFails
  <2>1. CASE \E s \in Flushed : Receive(s, Drain(decoder[s]))
    BY <1>c, <1>12, <2>1 DEF Flushed
  <2>2. CASE UNCHANGED <<decoder, out>>
    BY <1>a, <1>12, <2>2 DEF FormatFails
  <2> QED
    BY <1>12, <2>1, <2>2 DEF FormatFails
<1>13. CASE Cleanup
  BY <1>a, <1>13 DEF Cleanup
<1>14. CASE Exit
  BY <1>a, <1>14 DEF Exit, vars
<1>15. CASE UNCHANGED vars
  BY <1>a, <1>15 DEF vars
<1> QED
  BY <1>1, <1>2, <1>3, <1>4, <1>5, <1>6, <1>7, <1>8, <1>9, <1>10, <1>11, <1>12, <1>13, <1>14, <1>15
     DEF Next

-----------------------------------------------------------------------------
(* The set-up: what its steps allocate, and where their failures go.        *)

SetupSteps ==
  [allocates : SUBSET Resources, leaves : SUBSET SUBSET Resources,
   goto : {"setup", "exit", "cleanup", "loop"}, ret : {-1, 0, 1},
   opens : SUBSET Decoded, skips : Nat]

\* The steps of demuxing that open a stream.
StreamStep == [video |-> 3, audio |-> 6]

\* Step i of the n steps of program p.
Regular(p, s, i, n) ==
  /\ s \in SetupSteps
  /\ "lost" \notin s.allocates /\ "packet" \notin s.allocates
  /\ \A l \in s.leaves :
       /\ "packet" \notin l
       /\ "lost" \in l => s.goto = "setup" \/ (s.goto = "cleanup" /\ p = "extract_mvs")
  /\ i = 1 => {"infmt", "frame"} \cap s.allocates # {} /\ s.goto \in {"exit", "cleanup"}
  /\ s.goto = "loop" => p = "hw_decode"
  /\ s.goto = "setup" => p = "demuxing" /\ i + s.skips < n /\ s.opens # {}
  /\ \A x \in s.opens : i = StreamStep[x]

\* What each program's table of steps satisfies.
LEMMA MvsSetupRegular == Len(MvsSetup) = 4 /\ \A i \in 1 .. 4 : Regular("extract_mvs", MvsSetup[i], i, 4)
<1>1. Regular("extract_mvs", Step({"infmt"}, {{}}, "exit", -1), 1, 4)
  BY DEF Regular, Step, SetupSteps, Resources
<1>2. Regular("extract_mvs", Step({}, {{}}, "exit", -1), 2, 4)
  BY DEF Regular, Step, SetupSteps, Resources
<1>3. Regular("extract_mvs", Step({"decoder"}, {{}, {"lost"}}, "cleanup", 1), 3, 4)
  BY DEF Regular, Step, SetupSteps, Resources
<1>4. Regular("extract_mvs", Step({"frame"}, {{}}, "cleanup", -1), 4, 4)
  BY DEF Regular, Step, SetupSteps, Resources
<1> QED
  BY <1>1, <1>2, <1>3, <1>4 DEF MvsSetup

LEMMA HwSetupRegular == Len(HwSetup) = 5 /\ \A i \in 1 .. 5 : Regular("hw_decode", HwSetup[i], i, 5)
<1>1. Regular("hw_decode", Step({"infmt"}, {{}}, "exit", -1), 1, 5)
  BY DEF Regular, Step, SetupSteps, Resources
<1>2. Regular("hw_decode", Step({}, {{}}, "exit", -1), 2, 5)
  BY DEF Regular, Step, SetupSteps, Resources
<1>3. Regular("hw_decode", Step({"decoder"}, {{}}, "exit", -1), 3, 5)
  BY DEF Regular, Step, SetupSteps, Resources
<1>4. Regular("hw_decode", Step({"device"}, {{}, {"device"}}, "exit", -1), 4, 5)
  BY DEF Regular, Step, SetupSteps, Resources
<1>5. Regular("hw_decode", Step({"output"}, {{}}, "loop", 0), 5, 5)
  BY DEF Regular, Step, SetupSteps, Resources
<1> QED
  BY <1>1, <1>2, <1>3, <1>4, <1>5 DEF HwSetup

LEMMA QsvSetupRegular == Len(QsvSetup) = 7 /\ \A i \in 1 .. 7 : Regular("qsvdec", QsvSetup[i], i, 7)
<1>1. Regular("qsvdec", Step({"infmt"}, {{}}, "cleanup", -1), 1, 7)
  BY DEF Regular, Step, SetupSteps, Resources
<1>2. Regular("qsvdec", Step({}, {{}}, "cleanup", 0), 2, 7)
  BY DEF Regular, Step, SetupSteps, Resources
<1>3. Regular("qsvdec", Step({"device"}, {{}}, "cleanup", -1), 3, 7)
  BY DEF Regular, Step, SetupSteps, Resources
<1>4. Regular("qsvdec", Step({}, {{}}, "cleanup", 0), 4, 7)
  BY DEF Regular, Step, SetupSteps, Resources
<1>5. Regular("qsvdec", Step({"decoder"}, {{}, {"decoder"}}, "cleanup", -1), 5, 7)
  BY DEF Regular, Step, SetupSteps, Resources
<1>6. Regular("qsvdec", Step({"output"}, {{}}, "cleanup", -1), 6, 7)
  BY DEF Regular, Step, SetupSteps, Resources
<1>7. Regular("qsvdec", Step({"frame"}, {{}, {"frame"}}, "cleanup", -1), 7, 7)
  BY DEF Regular, Step, SetupSteps, Resources
<1> QED
  BY <1>1, <1>2, <1>3, <1>4, <1>5, <1>6, <1>7 DEF QsvSetup

LEMMA FilteringSetupRegular ==
  Len(FilteringSetup) = 5 /\ \A i \in 1 .. 5 : Regular("filtering", FilteringSetup[i], i, 5)
<1>1. Regular("filtering", Step({"frame"}, {{}}, "exit", -1), 1, 5)
  BY DEF Regular, Step, SetupSteps, Resources
<1>2. Regular("filtering", Step({"infmt"}, {{}}, "cleanup", -1), 2, 5)
  BY DEF Regular, Step, SetupSteps, Resources
<1>3. Regular("filtering", Step({}, {{}}, "cleanup", -1), 3, 5)
  BY DEF Regular, Step, SetupSteps, Resources
<1>4. Regular("filtering", Step({"decoder"}, {{}, {"decoder"}}, "cleanup", -1), 4, 5)
  BY DEF Regular, Step, SetupSteps, Resources
<1>5. Regular("filtering", Step({"graph"}, {{}, {"graph"}}, "cleanup", -1), 5, 5)
  BY DEF Regular, Step, SetupSteps, Resources
<1> QED
  BY <1>1, <1>2, <1>3, <1>4, <1>5 DEF FilteringSetup

\* What a step that opens stream x has to be.
OpensStream(r, x, k) ==
  /\ r \in SetupSteps /\ r.goto = "setup" /\ r.opens = {x} /\ r.skips = k
  /\ "lost" \notin r.allocates /\ "packet" \notin r.allocates
  /\ \A l \in r.leaves : "packet" \notin l

\* A stream that is not opened leaves its decoder, and perhaps its options.
LEMMA StreamRegular ==
  /\ Regular("demuxing", Stream("video", "decoder", 2), 3, 8)
  /\ Regular("demuxing", Stream("audio", "audio decoder", 1), 6, 8)
<1>1. ASSUME NEW d \in {"decoder", "audio decoder"}, NEW x \in Decoded, NEW k \in Nat
      PROVE  OpensStream(Stream(x, d, k), x, k)
  <2>1. d \in Resources /\ "lost" \in Resources /\ d # "lost" /\ d # "packet"
    BY DEF Resources
  <2> DEFINE A == {d}
             L == {{}, {d}, {d, "lost"}}
             O == {x}
  <2>2. A \in SUBSET Resources /\ L \in SUBSET SUBSET Resources /\ O \in SUBSET Decoded
    BY <2>1
  <2>3. "lost" \notin A /\ "packet" \notin A /\ \A l \in L : "packet" \notin l
    BY <2>1
  <2>4. O = {x}
    OBVIOUS
  <2>5. Stream(x, d, k) = [allocates |-> A, leaves |-> L, goto |-> "setup", ret |-> 0, opens |-> O,
                           skips |-> k]
    BY Zenon DEF Stream
  <2> DEFINE r == Stream(x, d, k)
  <2> HIDE DEF A, L, O, r
  <2>6. r = [allocates |-> A, leaves |-> L, goto |-> "setup", ret |-> 0, opens |-> O, skips |-> k]
    BY <2>5 DEF r
  <2>7. /\ r \in SetupSteps /\ r.allocates = A /\ r.leaves = L /\ r.opens = O
        /\ r.goto = "setup" /\ r.skips = k
    BY <2>2, <2>6 DEF SetupSteps
  <2>8. OpensStream(r, x, k)
    BY <2>3, <2>4, <2>7, Zenon DEF OpensStream
  <2> QED
    BY <2>8 DEF r
<1>2. ASSUME NEW r, NEW x, NEW i, NEW k, OpensStream(r, x, k), i = StreamStep[x],
             i # 1, i + k < 8
      PROVE  Regular("demuxing", r, i, 8)
  BY <1>2 DEF OpensStream, Regular
<1>3. /\ StreamStep["video"] = 3 /\ StreamStep["audio"] = 6
      /\ "video" \in Decoded /\ "audio" \in Decoded
  BY DEF StreamStep, Decoded
<1>4. 1 \in Nat /\ 2 \in Nat
  OBVIOUS
<1>5. /\ OpensStream(Stream("video", "decoder", 2), "video", 2)
      /\ OpensStream(Stream("audio", "audio decoder", 1), "audio", 1)
  BY <1>1, <1>3, <1>4, Zenon
<1>6. 3 # 1 /\ 6 # 1 /\ 3 + 2 < 8 /\ 6 + 1 < 8
  OBVIOUS
<1> QED
  BY <1>2, <1>3, <1>5, <1>6, Zenon

LEMMA DemuxingSetupRegular ==
  Len(DemuxingSetup) = 8 /\ \A i \in 1 .. 8 : Regular("demuxing", DemuxingSetup[i], i, 8)
<1>1. Regular("demuxing", Step({"infmt"}, {{}}, "exit", -1), 1, 8)
  BY DEF Regular, Step, SetupSteps, Resources
<1>2. Regular("demuxing", Step({}, {{}}, "exit", -1), 2, 8)
  BY DEF Regular, Step, SetupSteps, Resources
<1>3. Regular("demuxing", Stream("video", "decoder", 2), 3, 8)
  BY StreamRegular
<1>4. Regular("demuxing", Step({"output"}, {{}}, "cleanup", 1), 4, 8)
  BY DEF Regular, Step, SetupSteps, Resources
<1>5. Regular("demuxing", Step({"image"}, {{}}, "cleanup", -1), 5, 8)
  BY DEF Regular, Step, SetupSteps, Resources
<1>6. Regular("demuxing", Stream("audio", "audio decoder", 1), 6, 8)
  BY StreamRegular
<1>7. Regular("demuxing", Step({"audio output"}, {{}}, "cleanup", 1), 7, 8)
  BY DEF Regular, Step, SetupSteps, Resources
<1>8. Regular("demuxing", Step({"frame"}, {{}}, "cleanup", -1), 8, 8)
  BY DEF Regular, Step, SetupSteps, Resources
<1> QED
  <2>1. /\ Len(DemuxingSetup) = 8
        /\ DemuxingSetup[1] = Step({"infmt"}, {{}}, "exit", -1)
        /\ DemuxingSetup[2] = Step({}, {{}}, "exit", -1)
        /\ DemuxingSetup[3] = Stream("video", "decoder", 2)
        /\ DemuxingSetup[4] = Step({"output"}, {{}}, "cleanup", 1)
        /\ DemuxingSetup[5] = Step({"image"}, {{}}, "cleanup", -1)
        /\ DemuxingSetup[6] = Stream("audio", "audio decoder", 1)
        /\ DemuxingSetup[7] = Step({"audio output"}, {{}}, "cleanup", 1)
        /\ DemuxingSetup[8] = Step({"frame"}, {{}}, "cleanup", -1)
    BY DEF DemuxingSetup
  <2>2. \A i \in 1 .. 8 : i \in {1, 2, 3, 4, 5, 6, 7, 8}
    OBVIOUS
  <2> QED
    BY <1>1, <1>2, <1>3, <1>4, <1>5, <1>6, <1>7, <1>8, <2>1, <2>2

LEMMA SetupRegular ==
  ASSUME NEW p \in {"extract_mvs", "hw_decode", "qsvdec", "filtering", "demuxing"}
  PROVE  /\ Len(SetupOf[p]) \in Nat /\ Len(SetupOf[p]) > 0
         /\ \A i \in 1 .. Len(SetupOf[p]) : Regular(p, SetupOf[p][i], i, Len(SetupOf[p]))
<1>1. CASE p = "extract_mvs"
  <2>1. SetupOf[p] = MvsSetup
    BY <1>1 DEF SetupOf
  <2> QED
    BY <1>1, <2>1, MvsSetupRegular
<1>2. CASE p = "hw_decode"
  <2>1. SetupOf[p] = HwSetup
    BY <1>2 DEF SetupOf
  <2> QED
    BY <1>2, <2>1, HwSetupRegular
<1>3. CASE p = "qsvdec"
  <2>1. SetupOf[p] = QsvSetup
    BY <1>3 DEF SetupOf
  <2> QED
    BY <1>3, <2>1, QsvSetupRegular
<1>4. CASE p = "filtering"
  <2>1. SetupOf[p] = FilteringSetup
    BY <1>4 DEF SetupOf
  <2> QED
    BY <1>4, <2>1, FilteringSetupRegular
<1>5. CASE p = "demuxing"
  <2>1. SetupOf[p] = DemuxingSetup
    BY <1>5 DEF SetupOf
  <2> QED
    BY <1>5, <2>1, DemuxingSetupRegular
<1> QED
  BY <1>1, <1>2, <1>3, <1>4, <1>5

-----------------------------------------------------------------------------
(* The inductive invariant: what is allocated where main stands.            *)

SetupInv ==
  /\ program \in Programs /\ step \in Nat
  /\ active \subseteq Decoded /\ open \subseteq Resources
  /\ program # "demuxing" => active # {}
  /\ pc = "setup" => step < LastStep /\ failed = {}
  /\ pc \in {"loop", "flush"} => step > 0 /\ active # {}
  /\ step > 0 /\ pc \in {"setup", "loop", "flush"} => {"infmt", "frame"} \cap open # {}
  /\ program = "demuxing" => \A x \in active : StreamStep[x] <= step
  /\ "lost" \in open => \/ program = "extract_mvs" /\ pc \in {"cleanup", "exit"} /\ failed = {"setup"}
                        \/ program = "demuxing" /\ \E x \in Decoded \ active : StreamStep[x] <= step
  /\ pc = "exit" =>
       \/ open \subseteq {"lost", "packet"}
       \/ failed = {"setup"} /\ SetupOf[program][step + 1].goto = "exit"

\* The step of the set-up that comes next.
LEMMA NextStep ==
  ASSUME program \in Programs, step \in Nat, step < LastStep
  PROVE  /\ Regular(program, SetupOf[program][step + 1], step + 1, LastStep)
         /\ LastStep \in Nat
<1>1. program \in {"extract_mvs", "hw_decode", "qsvdec", "filtering", "demuxing"}
  BY DemuxAssumption
<1>2. /\ Len(SetupOf[program]) \in Nat
      /\ \A i \in 1 .. Len(SetupOf[program]) :
           Regular(program, SetupOf[program][i], i, Len(SetupOf[program]))
  BY <1>1, SetupRegular
<1>3. step + 1 \in 1 .. Len(SetupOf[program])
  BY <1>2 DEF LastStep
<1> QED
  BY <1>2, <1>3 DEF LastStep

LEMMA SetupNext == SetupInv /\ [Next]_vars => SetupInv'
<1> SUFFICES ASSUME SetupInv, [Next]_vars PROVE SetupInv'
  OBVIOUS
<1> USE DEF given
<1>0. /\ program \in Programs /\ step \in Nat
      /\ active \subseteq Decoded /\ open \subseteq Resources
      /\ \A x \in Decoded : StreamStep[x] \in Nat
  BY DEF SetupInv, StreamStep, Decoded
<1>a. ASSUME pc = "setup"
      PROVE  /\ step < LastStep /\ failed = {} /\ LastStep \in Nat
             /\ Regular(program, SetupOf[program][step + 1], step + 1, LastStep)
             /\ step > 0 => {"infmt", "frame"} \cap open # {}
             /\ program = "demuxing" => \A x \in active : StreamStep[x] <= step
             /\ "lost" \in open =>
                  program = "demuxing" /\ \E x \in Decoded \ active : StreamStep[x] <= step
  BY <1>a, NextStep DEF SetupInv
<1>1. CASE Setup
  <2> DEFINE s == SetupOf[program][step + 1]
  <2>1. /\ pc = "setup" /\ step' = step + 1 /\ program' = program /\ failed' = failed
        /\ active' = active \cup s.opens /\ (step' = LastStep => active # {})
        /\ open' = open \cup s.allocates
        /\ pc' = IF step' = LastStep THEN "loop" ELSE "setup"
    BY <1>1 DEF Setup
  <2>2. /\ step < LastStep /\ failed = {} /\ LastStep \in Nat
        /\ Regular(program, s, step + 1, LastStep)
        /\ step > 0 => {"infmt", "frame"} \cap open # {}
        /\ program = "demuxing" => \A x \in active : StreamStep[x] <= step
        /\ "lost" \in open =>
             program = "demuxing" /\ \E x \in Decoded \ active : StreamStep[x] <= step
    BY <1>a, <2>1
  <2> HIDE DEF s
  <2>3. /\ s.allocates \subseteq Resources /\ s.opens \subseteq Decoded /\ "lost" \notin s.allocates
        /\ step = 0 => {"infmt", "frame"} \cap s.allocates # {}
        /\ \A x \in s.opens : step + 1 = StreamStep[x]
    BY <1>0, <2>2 DEF Regular, SetupSteps
  <2>4. LastStep' = LastStep
    BY <2>1 DEF LastStep
  <2>5. active' \subseteq Decoded /\ open' \subseteq Resources /\ {"infmt", "frame"} \cap open' # {}
    BY <1>0, <2>1, <2>2, <2>3
  <2>6. program' # "demuxing" => active' # {}
    BY <2>1 DEF SetupInv
  <2>7. step' \in Nat /\ step' > 0 /\ (pc' = "setup" => step' < LastStep')
    BY <1>0, <2>1, <2>2, <2>4
  <2>8. pc' \in {"loop", "setup"} /\ (pc' = "loop" => active' # {})
    BY <2>1
  <2>9. program' = "demuxing" => \A x \in active' : StreamStep[x] <= step'
    BY <1>0, <2>1, <2>2, <2>3
  <2>10. "lost" \in open' =>
           program' = "demuxing" /\ \E x \in Decoded \ active' : StreamStep[x] <= step'
    BY <1>0, <2>1, <2>2, <2>3
  <2> QED
    BY <1>0, <2>1, <2>2, <2>5, <2>6, <2>7, <2>8, <2>9, <2>10 DEF SetupInv
<1>2. CASE SetupFails
  <2> DEFINE s == SetupOf[program][step + 1]
  <2>1. /\ pc = "setup" /\ step' = step /\ program' = program /\ active' = active
        /\ failed' = failed \cup {"setup"}
        /\ s.goto # "setup" /\ pc' = s.goto
        /\ \E left \in s.leaves : open' = open \cup left
    BY <1>2 DEF SetupFails
  <2>2. /\ step < LastStep /\ failed = {}
        /\ Regular(program, s, step + 1, LastStep)
        /\ step > 0 => {"infmt", "frame"} \cap open # {}
        /\ program = "demuxing" => \A x \in active : StreamStep[x] <= step
        /\ "lost" \in open =>
             program = "demuxing" /\ \E x \in Decoded \ active : StreamStep[x] <= step
    BY <1>a, <2>1
  <2>3. SetupOf[program'][step' + 1].goto = s.goto
    BY <2>1
  <2> HIDE DEF s
  <2>4. PICK left \in s.leaves : open' = open \cup left
    BY <2>1
  <2>5. /\ s.goto \in {"exit", "cleanup", "loop"} /\ left \subseteq Resources
        /\ "lost" \in left => s.goto = "cleanup" /\ program = "extract_mvs"
        /\ s.goto = "loop" => program = "hw_decode" /\ step > 0
    BY <1>0, <2>1, <2>2 DEF Regular, SetupSteps
  <2>6. failed' = {"setup"}
    BY <2>1, <2>2
  <2>7. /\ open' \subseteq Resources
        /\ "lost" \in open' =>
             \/ program' = "extract_mvs" /\ pc' \in {"cleanup", "exit"} /\ failed' = {"setup"}
             \/ program' = "demuxing" /\ \E x \in Decoded \ active' : StreamStep[x] <= step'
    BY <1>0, <2>1, <2>2, <2>4, <2>5, <2>6
  <2>8. pc' = "loop" => step' > 0 /\ active' # {} /\ {"infmt", "frame"} \cap open' # {}
    BY <2>1, <2>2, <2>4, <2>5 DEF SetupInv
  <2> QED
    BY <1>0, <2>1, <2>2, <2>3, <2>5, <2>6, <2>7, <2>8 DEF SetupInv
<1>3. CASE SkipStream
  <2> DEFINE s == SetupOf[program][step + 1]
  <2>1. /\ pc = "setup" /\ pc' = pc /\ step' = step + 1 + s.skips /\ program' = program
        /\ active' = active /\ failed' = failed /\ s.goto = "setup"
        /\ \E left \in s.leaves : open' = open \cup left
    BY <1>3 DEF SkipStream
  <2>2. /\ step < LastStep /\ failed = {} /\ LastStep \in Nat
        /\ Regular(program, s, step + 1, LastStep)
        /\ step > 0 => {"infmt", "frame"} \cap open # {}
        /\ program = "demuxing" => \A x \in active : StreamStep[x] <= step
    BY <1>a, <2>1
  <2>3. LastStep' = LastStep
    BY <2>1 DEF LastStep
  <2> HIDE DEF s
  <2>4. PICK left \in s.leaves : open' = open \cup left
    BY <2>1
  <2>5. /\ left \subseteq Resources /\ s.opens \subseteq Decoded /\ s.opens # {}
        /\ program = "demuxing" /\ \A x \in s.opens : step + 1 = StreamStep[x]
        /\ s.skips \in Nat /\ step + 1 + s.skips < LastStep /\ step # 0
    BY <1>0, <2>1, <2>2 DEF Regular, SetupSteps
  <2>6. open' \subseteq Resources /\ {"infmt", "frame"} \cap open' # {}
    BY <1>0, <2>2, <2>4, <2>5
  <2>7. step' \in Nat /\ step' < LastStep' /\ step + 1 <= step'
    BY <1>0, <2>1, <2>3, <2>5
  <2>8. \E x \in Decoded \ active' : StreamStep[x] <= step'
    <3>1. PICK x \in s.opens : x \in Decoded /\ step + 1 = StreamStep[x]
      BY <2>5
    <3>2. x \notin active
      <4>1. ~(StreamStep[x] <= step)
        BY <1>0, <3>1
      <4> QED
        BY <2>2, <2>5, <4>1
    <3> QED
      BY <2>1, <2>7, <3>1, <3>2
  <2>9. \A x \in active' : StreamStep[x] <= step'
    BY <1>0, <2>1, <2>2, <2>5, <2>7
  <2> QED
    BY <1>0, <2>1, <2>2, <2>5, <2>6, <2>7, <2>8, <2>9 DEF SetupInv
<1>b. ASSUME UNCHANGED <<program, active, step>>, open' \in {open, open \cup {"packet"}},
             pc \in {"loop", "flush"}, pc' \in {"loop", "flush", "cleanup", "crash"}
      PROVE  SetupInv'
  BY <1>b DEF SetupInv, Resources
<1>4. CASE ReadOther
  BY <1>b, <1>4 DEF ReadOther
<1>5. CASE DecodePacket
  BY <1>b, <1>5 DEF DecodePacket
<1>6. CASE DecodePacketFails
  BY <1>b, <1>6 DEF DecodePacketFails
<1>7. CASE FeedFails
  BY <1>b, <1>7 DEF FeedFails
<1>8. CASE WriteToNull
  BY <1>b, <1>8 DEF WriteToNull
<1>9. CASE LoopEnds
  BY <1>b, <1>9 DEF LoopEnds
<1>10. CASE Flush
  BY <1>b, <1>10 DEF Flush
<1>11. CASE FlushFails
  BY <1>b, <1>11 DEF FlushFails
<1>12. CASE FormatFails
  BY <1>b, <1>12 DEF FormatFails
<1>13. CASE Cleanup
  <2>1. /\ pc = "cleanup" /\ pc' = "exit" /\ UNCHANGED <<program, active, step, failed>>
        /\ open' = open \ (Resources \ {"packet", "lost"})
    BY <1>13 DEF Cleanup, Freed
  <2>2. open' \subseteq {"lost", "packet"} /\ open' \subseteq open
    BY <1>0, <2>1
  <2> QED
    BY <1>0, <2>1, <2>2 DEF SetupInv, Resources
<1>14. CASE UNCHANGED vars
  BY <1>14 DEF vars, SetupInv, LastStep
<1>15. CASE Exit
  BY <1>14, <1>15 DEF Exit
<1> QED
  BY <1>1, <1>2, <1>3, <1>4, <1>5, <1>6, <1>7, <1>8, <1>9, <1>10, <1>11, <1>12, <1>13, <1>14, <1>15
     DEF Next

\* The packet is allocated where filtering left its loop because of a failure.
PacketInv ==
  /\ program # "filtering" \/ pc \notin {"cleanup", "exit"} => "packet" \notin open
  /\ program = "filtering" =>
       /\ pc \in {"setup", "loop", "cleanup", "exit"}
       /\ pc \in {"setup", "loop"} => ret = 0 /\ failed \subseteq {"decode"}
       /\ pc \in {"cleanup", "exit"} => ("packet" \in open <=> failed = {"decode"} /\ ret = -1)

LEMMA PacketNext == SetupInv /\ PacketInv /\ [Next]_vars => PacketInv'
<1> SUFFICES ASSUME SetupInv, PacketInv, [Next]_vars PROVE PacketInv'
  OBVIOUS
<1> USE DEF given
<1>1. ASSUME pc = "setup"
      PROVE  /\ failed = {} /\ "packet" \notin open
             /\ Regular(program, SetupOf[program][step + 1], step + 1, LastStep)
  BY <1>1, NextStep DEF SetupInv, PacketInv
<1>2. CASE Setup
  <2> DEFINE s == SetupOf[program][step + 1]
  <2>1. /\ pc = "setup" /\ pc' \in {"loop", "setup"} /\ UNCHANGED <<program, failed, ret>>
        /\ open' = open \cup s.allocates
    BY <1>2 DEF Setup
  <2>2. failed = {} /\ "packet" \notin open /\ "packet" \notin s.allocates
    BY <1>1, <2>1 DEF Regular
  <2> HIDE DEF s
  <2> QED
    BY <2>1, <2>2 DEF PacketInv
<1>3. CASE SetupFails
  <2> DEFINE s == SetupOf[program][step + 1]
  <2>1. /\ pc = "setup" /\ pc' = s.goto /\ program' = program /\ failed' = failed \cup {"setup"}
        /\ s.goto # "setup" /\ \E left \in s.leaves : open' = open \cup left
    BY <1>3 DEF SetupFails
  <2>2. failed = {} /\ "packet" \notin open /\ Regular(program, s, step + 1, LastStep)
    BY <1>1, <2>1
  <2> HIDE DEF s
  <2>3. /\ \A left \in s.leaves : "packet" \notin left
        /\ program = "filtering" => s.goto \in {"exit", "cleanup"}
    BY <2>1, <2>2 DEF Regular, SetupSteps
  <2>4. "packet" \notin open' /\ failed' # {"decode"}
    BY <2>1, <2>2, <2>3
  <2> QED
    BY <2>1, <2>3, <2>4 DEF PacketInv
<1>4. CASE SkipStream
  <2> DEFINE s == SetupOf[program][step + 1]
  <2>1. /\ pc = "setup" /\ UNCHANGED <<program, failed, ret, pc>>
        /\ \E left \in s.leaves : open' = open \cup left
    BY <1>4 DEF SkipStream
  <2>2. "packet" \notin open /\ \A left \in s.leaves : "packet" \notin left
    BY <1>1, <2>1 DEF Regular
  <2> HIDE DEF s
  <2> QED
    BY <2>1, <2>2 DEF PacketInv
<1>5. CASE ReadOther \/ DecodePacket
  BY <1>5 DEF PacketInv, ReadOther, DecodePacket
<1>6. CASE DecodePacketFails
  BY <1>6 DEF PacketInv, DecodePacketFails
<1>7. CASE FeedFails
  BY <1>7 DEF PacketInv, FeedFails
<1>8. CASE WriteToNull
  BY <1>8 DEF PacketInv, WriteToNull, Writable
<1>9. CASE LoopEnds
  BY <1>9 DEF PacketInv, LoopEnds, Eof
<1>10. CASE Flush \/ FlushFails \/ FormatFails
  BY <1>10 DEF PacketInv, Flush, FlushFails, FormatFails
<1>11. CASE Cleanup
  <2>1. "packet" \in open' <=> "packet" \in open
    BY <1>11 DEF Cleanup, Freed
  <2> QED
    BY <1>11, <2>1 DEF PacketInv, Cleanup
<1>12. CASE Exit \/ UNCHANGED vars
  BY <1>12 DEF PacketInv, Exit, vars
<1> QED
  BY <1>2, <1>3, <1>4, <1>5, <1>6, <1>7, <1>8, <1>9, <1>10, <1>11, <1>12 DEF Next

\* The other variables keep to their values.
RestInv ==
  /\ failed \subseteq {"setup", "read", "decode", "flush"}
  /\ ret \in {Eof, -1, 0, 1} /\ status \in {"none", "ok", "error"}
  /\ pc \in {"setup", "loop", "flush", "cleanup", "exit", "crash"}

LEMMA RestNext == SetupInv /\ RestInv /\ [Next]_vars => RestInv'
<1> SUFFICES ASSUME SetupInv, RestInv, [Next]_vars PROVE RestInv'
  OBVIOUS
<1>1. CASE SetupFails
  <2> DEFINE s == SetupOf[program][step + 1]
  <2>1. /\ pc = "setup" /\ failed' = failed \cup {"setup"} /\ pc' = s.goto
        /\ ret' \in {1, s.ret} /\ status' \in {"error", status}
    BY <1>1 DEF SetupFails
  <2>2. s \in SetupSteps
    BY <2>1, NextStep DEF SetupInv, Regular
  <2> HIDE DEF s
  <2>3. s.goto \in {"setup", "exit", "cleanup", "loop"} /\ s.ret \in {-1, 0, 1}
    BY <2>2 DEF SetupSteps
  <2> QED
    BY <2>1, <2>3 DEF RestInv
<1>2. CASE Setup \/ SkipStream \/ ReadOther \/ DecodePacket \/ DecodePacketFails \/ FeedFails
  BY <1>2 DEF RestInv, Setup, SkipStream, ReadOther, DecodePacket, DecodePacketFails, FeedFails
<1>3. CASE WriteToNull \/ LoopEnds \/ Flush \/ FlushFails \/ FormatFails
  BY <1>3 DEF RestInv, WriteToNull, LoopEnds, Flush, FlushFails, FormatFails, AfterFlush
<1>4. CASE Cleanup \/ Exit \/ UNCHANGED vars
  BY <1>4 DEF RestInv, Cleanup, ExitStatus, Exit, vars
<1> QED
  BY <1>1, <1>2, <1>3, <1>4 DEF Next

Inv == FileInv /\ FlowInv /\ SetupInv /\ PacketInv /\ RestInv

LEMMA InvTypes == Inv => TypeOK
<1> SUFFICES ASSUME Inv PROVE TypeOK
  OBVIOUS
<1>1. position \in 0 .. Len(streams) /\ DOMAIN streams = 1 .. Len(streams) /\ Len(streams) \in Nat
  BY DEF Inv, FileInv, FlowInv
<1>2. Seq(1 .. position) \subseteq Seq(DOMAIN streams)
  <2>1. 1 .. position \subseteq DOMAIN streams
    BY <1>1
  <2> QED
    BY <2>1, SeqMonotonic
<1>3. decoder \in [Decoded -> Codec(DOMAIN streams)] /\ out \in Seq(DOMAIN streams)
  <2>1. Codec(1 .. position) \subseteq Codec(DOMAIN streams)
    BY <1>2 DEF Codec
  <2> QED
    BY <1>2, <2>1 DEF Inv, FlowInv
<1>4. pc \in {"loop", "flush"} => active # {} /\ {"infmt", "frame"} \cap open # {}
  BY DEF Inv, SetupInv
<1> QED
  BY <1>1, <1>3, <1>4 DEF Inv, SetupInv, RestInv, TypeOK, Codec

LEMMA InitInv == Init => Inv
<1> SUFFICES ASSUME Init PROVE Inv
  OBVIOUS
<1>1. FileInv
  <2>1. PICK n \in 0 .. MaxPackets : streams \in [1 .. n -> {"video", "audio", "other"}]
    BY DEF Init
  <2> QED
    BY <2>1, DemuxAssumption DEF FileInv
<1>2. FlowInv
  <2>1. Fresh \in Codec(1 .. 0) /\ Fresh.held = <<>>
    BY DEF Fresh, Codec
  <2>2. position = 0 /\ out = <<>> /\ decoder = [s \in Decoded |-> Fresh]
    BY DEF Init
  <2>3. position \in 0 .. Len(streams)
    BY <1>1, <2>2 DEF FileInv
  <2>4. decoder \in [Decoded -> Codec(1 .. position)]
    BY <2>1, <2>2
  <2>5. out \in Seq(1 .. position) /\ DOMAIN out = {}
    BY <2>2
  <2>6. \A s \in Decoded : DOMAIN decoder[s].held = {}
    BY <2>1, <2>2
  <2> QED
    BY <2>3, <2>4, <2>5, <2>6 DEF FlowInv, Behind
<1>3. SetupInv
  <2>1. /\ program \in Programs /\ step = 0 /\ open = {} /\ failed = {} /\ pc = "setup"
        /\ active \subseteq Decoded /\ (program # "demuxing" => active # {})
        /\ program = "demuxing" => active = {}
    BY DEF Init, Decoded
  <2>2. LastStep > 0
    BY <2>1, DemuxAssumption, SetupRegular DEF LastStep
  <2> QED
    BY <2>1, <2>2 DEF SetupInv
<1>4. RestInv
  BY DEF Init, RestInv
<1>5. PacketInv
  BY DEF Init, PacketInv
<1> QED
  BY <1>1, <1>2, <1>3, <1>4, <1>5 DEF Inv

LEMMA NextInv == Inv /\ [Next]_vars => Inv'
<1> SUFFICES ASSUME Inv, [Next]_vars PROVE Inv'
  OBVIOUS
<1>1. streams' = streams
  BY DEF Next, vars, given, Setup, SetupFails, SkipStream, ReadOther, DecodePacket,
     DecodePacketFails, FeedFails, WriteToNull, LoopEnds, Flush, FlushFails, FormatFails, Cleanup,
     Exit
<1>2. FileInv'
  BY <1>1 DEF Inv, FileInv
<1>3. FlowInv'
  BY FlowNext DEF Inv, SetupInv
<1>4. SetupInv' /\ PacketInv' /\ RestInv'
  BY SetupNext, PacketNext, RestNext DEF Inv
<1> QED
  BY <1>2, <1>3, <1>4 DEF Inv

-----------------------------------------------------------------------------
(* A run without failure: where the frames are, and what the flush leaves.  *)

\* By st, the packets of stream s up to p are those of o and h.
Covered(st, s, o, h, p) ==
  {q \in ToSet(o) : st[q] = s} \cup ToSet(h) = {q \in 1 .. p : st[q] = s}

\* Nothing is decoded before the set-up is done.
StartInv ==
  pc = "setup" => /\ position = 0 /\ out = <<>>
                  /\ \A s \in Decoded : decoder[s].held = <<>>

\* The frames of all packets read are somewhere.
CoverInv ==
  failed = {} /\ pc # "crash" =>
    \A s \in active : Covered(streams, s, out, decoder[s].held, position)

\* How far reading and the flush are, and what main has in ret.
EndInv ==
  failed = {} =>
    /\ pc \in {"setup", "loop"} => ret = 0
    /\ pc \in {"flush", "cleanup", "exit"} => position = Len(streams)
    /\ pc = "flush" => program # "filtering"
    /\ pc = "flush" /\ program \in {"extract_mvs", "demuxing"} => ret = 0
    /\ pc \in {"cleanup", "exit"} =>
         IF program = "filtering" THEN ret = Eof
         ELSE /\ program # "hw_decode" => ret = 0
              /\ \A s \in Flushed : decoder[s].held = <<>>
    /\ pc = "exit" => status = "ok"

CleanInv == Inv /\ StartInv /\ CoverInv /\ EndInv

LEMMA StartNext == StartInv /\ Inv /\ [Next]_vars => StartInv'
<1> SUFFICES ASSUME StartInv, Inv, [Next]_vars, pc' = "setup"
             PROVE  /\ position' = 0 /\ out' = <<>>
                    /\ \A s \in Decoded : decoder'[s].held = <<>>
  BY DEF StartInv
<1>1. pc = "setup" /\ UNCHANGED <<position, out, decoder>>
  BY DEF Next, vars, given, Setup, SetupFails, SkipStream, ReadOther, DecodePacket,
     DecodePacketFails, FeedFails, WriteToNull, LoopEnds, Flush, FlushFails, FormatFails, Cleanup,
     Exit
<1> QED
  BY <1>1 DEF StartInv

\* A packet of another stream is read.
LEMMA PassedCovers ==
  ASSUME FileInv, FlowInv, NEW t, streams[position + 1] # t,
         Covered(streams, t, out, decoder[t].held, position)
  PROVE  Covered(streams, t, out, decoder[t].held, position + 1)
<1>1. position \in Nat
  BY DEF FlowInv, FileInv
<1>2. {q \in 1 .. position + 1 : streams[q] = t} = {q \in 1 .. position : streams[q] = t}
  BY <1>1
<1> QED
  BY <1>2 DEF Covered

\* The decoder of s takes its next packet.
LEMMA FedCovers ==
  ASSUME FileInv, FlowInv, NEW s \in Decoded, NextPacket(s),
         Covered(streams, s, out, decoder[s].held, position)
  PROVE  Covered(streams, s, out, Accept(decoder[s], position').held, position')
<1>1. position \in Nat /\ position' = position + 1 /\ streams[position + 1] = s
  BY DEF FlowInv, FileInv, NextPacket
<1>2. decoder[s] \in Codec(1 .. position) /\ decoder[s].held \in Seq(1 .. position)
  BY DEF FlowInv, Codec
<1>3. Accept(decoder[s], position + 1).held = Append(decoder[s].held, position + 1)
  BY <1>1, <1>2, DecoderForms
<1>4. ToSet(Append(decoder[s].held, position + 1)) = ToSet(decoder[s].held) \cup {position + 1}
  BY <1>2, SetOfAppend
<1>5. {q \in 1 .. position + 1 : streams[q] = s} =
        {q \in 1 .. position : streams[q] = s} \cup {position + 1}
  BY <1>1
<1> QED
  BY <1>1, <1>3, <1>4, <1>5 DEF Covered

\* Frames of s are written and none is lost; t is any stream.
LEMMA GivesCovers ==
  ASSUME FileInv, FlowInv, NEW s \in Decoded, position' \in {position, position + 1},
         streams' = streams,
         NEW c \in Codec(1 .. position'), Behind(streams, s, out, c.held),
         NEW n \in 0 .. Len(c.held), Gives(s, c, n, n), NEW t \in Decoded,
         IF t = s THEN Covered(streams, s, out, c.held, position')
                  ELSE Covered(streams, t, out, decoder[t].held, position')
  PROVE  Covered(streams', t, out', decoder'[t].held, position')
<1> DEFINE u == SubSeq(c.held, 1, n)
           v == SubSeq(c.held, n + 1, Len(c.held))
<1>1. /\ position \in Nat /\ position' \in Nat /\ c.held \in Seq(1 .. position')
      /\ decoder \in [Decoded -> Codec(1 .. position)]
  BY DEF FlowInv, FileInv, Codec
<1>2. out \in Seq(1 .. position')
  <2>1. 1 .. position \subseteq 1 .. position'
    BY <1>1
  <2> QED
    BY <2>1, SeqMonotonic DEF FlowInv
<1>3. n \in n .. Len(c.held)
  BY <1>1
<1>4. u \in Seq(1 .. position') /\ \A i \in DOMAIN u : i \in DOMAIN c.held /\ u[i] = c.held[i]
  BY <1>1, <1>3, CutElements
<1>5. ToSet(u) \cup ToSet(v) = ToSet(c.held)
  BY <1>1, SetOfCut
<1>6. ToSet(out \o u) = ToSet(out) \cup ToSet(u)
  <2> DEFINE S == 1 .. position'
  <2>1. out \in Seq(S) /\ u \in Seq(S)
    BY <1>2, <1>4
  <2> HIDE DEF S, u
  <2> QED
    BY <2>1, SetOfCat
<1>7. \A q \in ToSet(u) : streams[q] = s
  BY <1>4 DEF Behind, ToSet
<1>8. out' = out \o u
  BY DEF Gives
<1>9. /\ decoder'[s] = [held |-> v, draining |-> c.draining]
      /\ t # s => decoder'[t] = decoder[t]
  <2>1. [c EXCEPT !.held = v] = [held |-> v, draining |-> c.draining]
    BY HeldReplaced
  <2>2. decoder' = [decoder EXCEPT ![s] = [c EXCEPT !.held = v]]
    BY DEF Gives
  <2> HIDE DEF v
  <2> QED
    BY <1>1, <2>1, <2>2
<1> HIDE DEF u, v
<1>10. decoder'[s].held = v
  BY <1>9
<1>11. CASE t = s
  BY <1>5, <1>6, <1>7, <1>8, <1>10, <1>11 DEF Covered
<1>12. CASE t # s
  BY <1>6, <1>7, <1>8, <1>9, <1>12 DEF Covered
<1> QED
  BY <1>11, <1>12

LEMMA CoverNext == CleanInv /\ [Next]_vars => CoverInv'
<1> SUFFICES ASSUME CleanInv, [Next]_vars, failed' = {}, pc' # "crash", NEW t \in active'
             PROVE  Covered(streams', t, out', decoder'[t].held, position')
  BY DEF CoverInv
<1> USE DEF given
<1>0. /\ FileInv /\ FlowInv /\ active \subseteq Decoded
      /\ position \in Nat /\ decoder \in [Decoded -> Codec(1 .. position)]
      /\ position \in 0 .. Len(streams)
  BY DEF CleanInv, Inv, FlowInv, FileInv, SetupInv
<1>00. failed = {} /\ pc # "crash" =>
         \A s \in active : Covered(streams, s, out, decoder[s].held, position)
  BY DEF CleanInv, CoverInv
<1>a. ASSUME UNCHANGED <<streams, position, decoder, out, active, failed>>, pc # "crash"
      PROVE  Covered(streams', t, out', decoder'[t].held, position')
  BY <1>00, <1>a
<1>1. CASE Setup
  <2>1. pc = "setup" /\ UNCHANGED <<streams, position, decoder, out>>
    BY <1>1 DEF Setup
  <2>2. t \in Decoded
    BY <1>1, SetupNext DEF CleanInv, Inv, SetupInv
  <2>3. position = 0 /\ out = <<>> /\ decoder[t].held = <<>>
    BY <2>1, <2>2 DEF CleanInv, StartInv
  <2>4. ToSet(<<>>) = {} /\ 1 .. 0 = {}
    BY DEF ToSet
  <2> QED
    BY <2>1, <2>3, <2>4 DEF Covered
<1>2. CASE SetupFails
  BY <1>2 DEF SetupFails
<1>3. CASE SkipStream
  BY <1>a, <1>3 DEF SkipStream
<1>4. CASE ReadOther
  <2>1. /\ position' = position + 1 /\ streams[position + 1] # t /\ t \in active /\ pc = "loop"
        /\ UNCHANGED <<streams, decoder, out, failed>>
    BY <1>4 DEF ReadOther, NextPacket
  <2> QED
    BY <1>0, <1>00, <2>1, PassedCovers
<1>5. CASE DecodePacket
  <2>1. PICK s \in active : NextPacket(s) /\ Receive(s, Accept(decoder[s], position'))
    BY <1>5 DEF DecodePacket
  <2>2. /\ s \in Decoded /\ t \in Decoded /\ t \in active /\ streams' = streams
        /\ failed = {} /\ pc = "loop"
    BY <1>0, <1>5 DEF DecodePacket
  <2> DEFINE c == Accept(decoder[s], position')
  <2>3. /\ position' = position + 1 /\ c \in Codec(1 .. position')
        /\ Behind(streams, s, out, c.held)
    BY <1>0, <2>1, <2>2, Fed
  <2>4. PICK n \in 0 .. Len(c.held) : Gives(s, c, n, n)
    BY <2>1, <2>3, ReceiveGives
  <2>5. Covered(streams, s, out, c.held, position')
    BY <1>0, <1>00, <2>1, <2>2, FedCovers
  <2>6. t # s => Covered(streams, t, out, decoder[t].held, position')
    <3>1. streams[position + 1] = s
      BY <2>1, <2>3 DEF NextPacket
    <3> QED
      BY <1>0, <1>00, <2>2, <2>3, <3>1, PassedCovers
  <2> HIDE DEF c
  <2> QED
    BY <1>0, <2>2, <2>3, <2>4, <2>5, <2>6, GivesCovers
<1>6. CASE DecodePacketFails
  BY <1>6 DEF DecodePacketFails
<1>7. CASE FeedFails
  BY <1>7 DEF FeedFails
<1>8. CASE WriteToNull
  BY <1>8 DEF WriteToNull
<1>9. CASE LoopEnds
  <2>1. failed' = failed
    BY <1>9 DEF LoopEnds
  <2> QED
    BY <1>a, <1>9, <2>1 DEF LoopEnds
<1>10. CASE Flush
  <2>1. CASE \E s \in Flushed : Receive(s, Drain(decoder[s]))
    <3>1. PICK s \in Flushed : Receive(s, Drain(decoder[s]))
      BY <2>1
    <3>2. /\ s \in active /\ s \in Decoded /\ t \in active /\ t \in Decoded /\ failed = {}
          /\ streams' = streams /\ position' = position /\ pc = "flush"
      BY <1>0, <1>10 DEF Flush, Flushed
    <3> DEFINE c == Drain(decoder[s])
    <3>3. /\ c \in Codec(1 .. position) /\ c.held = decoder[s].held
          /\ Behind(streams, s, out, c.held)
      BY <1>0, <3>2, Drained
    <3>4. PICK n \in 0 .. Len(c.held) : Gives(s, c, n, n)
      BY <3>1, <3>3, ReceiveGives
    <3> HIDE DEF c
    <3>5. Covered(streams, s, out, c.held, position)
      BY <1>00, <3>2, <3>3
    <3>6. Covered(streams, t, out, decoder[t].held, position)
      BY <1>00, <3>2
    <3> QED
      BY <1>0, <3>2, <3>3, <3>4, <3>5, <3>6, GivesCovers
  <2>2. CASE UNCHANGED <<decoder, out>>
    BY <1>a, <1>10, <2>2 DEF Flush
  <2> QED
    BY <1>10, <2>1, <2>2 DEF Flush
<1>11. CASE FlushFails
  BY <1>11 DEF FlushFails
<1>12. CASE FormatFails
  BY <1>12 DEF FormatFails
<1>13. CASE Cleanup
  BY <1>a, <1>13 DEF Cleanup
<1>14. CASE UNCHANGED vars
  BY <1>a, <1>14 DEF vars
<1>15. CASE Exit
  BY <1>14, <1>15 DEF Exit
<1> QED
  BY <1>1, <1>2, <1>3, <1>4, <1>5, <1>6, <1>7, <1>8, <1>9, <1>10, <1>11, <1>12, <1>13, <1>14, <1>15
     DEF Next

LEMMA EndNext == CleanInv /\ [Next]_vars => EndInv'
<1> SUFFICES ASSUME CleanInv, [Next]_vars, failed' = {} PROVE EndInv'
  BY DEF EndInv
<1> USE DEF given
<1>0. /\ program' = program /\ first' = first
      /\ program \in {"extract_mvs", "hw_decode", "qsvdec", "filtering", "demuxing"}
      /\ FileInv /\ FlowInv /\ active \subseteq Decoded
      /\ decoder \in [Decoded -> Codec(1 .. position)]
      /\ streams' = streams
  BY DemuxAssumption DEF CleanInv, Inv, FlowInv, SetupInv, Next, vars, Setup, SetupFails, SkipStream,
     ReadOther, DecodePacket, DecodePacketFails, FeedFails, WriteToNull, LoopEnds, Flush, FlushFails,
     FormatFails, Cleanup, Exit
<1>1. CASE Setup
  BY <1>1 DEF Setup, CleanInv, EndInv
<1>2. CASE SetupFails
  BY <1>2 DEF SetupFails
<1>3. CASE SkipStream
  BY <1>3 DEF SkipStream, CleanInv, EndInv
<1>4. CASE ReadOther
  BY <1>4 DEF ReadOther, CleanInv, EndInv
<1>5. CASE DecodePacket
  BY <1>5 DEF DecodePacket, EndInv
<1>6. CASE DecodePacketFails
  BY <1>6 DEF DecodePacketFails
<1>7. CASE FeedFails
  BY <1>7 DEF FeedFails
<1>8. CASE WriteToNull
  BY <1>8 DEF WriteToNull, EndInv
<1>9. CASE LoopEnds
  <2>1. /\ pc = "loop" /\ failed = {} /\ position = Len(streams) /\ UNCHANGED position
        /\ ret' = IF program \in {"extract_mvs", "demuxing"} THEN ret ELSE Eof
        /\ pc' = IF program = "filtering" THEN "cleanup" ELSE "flush"
    BY <1>9 DEF LoopEnds, Eof
  <2>2. ret = 0
    BY <2>1 DEF CleanInv, EndInv
  <2> QED
    BY <1>0, <2>1, <2>2 DEF EndInv
<1>10. CASE Flush
  <2>1. /\ pc = "flush" /\ pc' = "cleanup" /\ failed = {} /\ UNCHANGED <<position, active>>
        /\ ret' = AfterFlush(0)
    BY <1>10 DEF Flush
  <2>2. /\ position = Len(streams) /\ program # "filtering"
        /\ program \in {"extract_mvs", "demuxing"} => ret = 0
    BY <2>1 DEF CleanInv, EndInv
  <2>3. ret' = 0
    BY <1>0, <2>1, <2>2 DEF AfterFlush
  <2>4. Flushed' = Flushed
    BY <1>0, <2>1 DEF Flushed
  <2>5. ASSUME NEW s \in Flushed, Receive(s, Drain(decoder[s])) PROVE decoder'[s].held = <<>>
    <3>1. s \in Decoded /\ decoder[s] \in Codec(1 .. position)
      BY <1>0 DEF Flushed
    <3> DEFINE c == Drain(decoder[s])
               n == Len(c.held)
               rest == SubSeq(c.held, n + 1, n)
    <3>2. c = [held |-> decoder[s].held, draining |-> TRUE]
      BY <3>1, DrainingReplaced, Zenon DEF Drain
    <3>3. c \in Codec(1 .. position) /\ c.held \in Seq(1 .. position) /\ c.draining
      BY <3>1, <3>2 DEF Codec
    <3> HIDE DEF c
    <3>4. Available(c) = n
      BY <3>3 DEF Available
    <3>5. Give(s, c, n)
      BY <2>2, <2>5, <3>4 DEF Receive, c
    <3>6. rest = <<>>
      BY <3>3, SubSeqEmpty
    <3>7. decoder' = [decoder EXCEPT ![s] = [c EXCEPT !.held = rest]]
      BY <3>5 DEF Give
    <3>8. [c EXCEPT !.held = rest] = [held |-> <<>>, draining |-> c.draining]
      BY <3>3, <3>6, HeldReplaced
    <3> HIDE DEF rest
    <3>9. decoder'[s] = [held |-> <<>>, draining |-> c.draining]
      BY <1>0, <3>1, <3>7, <3>8
    <3> QED
      BY <3>9
  <2>6. \A s \in Flushed, u \in Flushed : s = u
    BY DEF Flushed
  <2>7. \A s \in Flushed : decoder'[s].held = <<>>
    BY <1>10, <2>5, <2>6 DEF Flush
  <2> QED
    BY <1>0, <2>1, <2>2, <2>3, <2>4, <2>7 DEF EndInv
<1>11. CASE FlushFails
  BY <1>11 DEF FlushFails
<1>12. CASE FormatFails
  BY <1>12 DEF FormatFails
<1>13. CASE Cleanup
  <2>1. /\ pc = "cleanup" /\ pc' = "exit" /\ failed = {} /\ status' = ExitStatus
        /\ UNCHANGED <<position, active, decoder, ret>>
    BY <1>13 DEF Cleanup
  <2>2. /\ position = Len(streams)
        /\ IF program = "filtering" THEN ret = Eof
           ELSE /\ program # "hw_decode" => ret = 0
                /\ \A s \in Flushed : decoder[s].held = <<>>
    BY <2>1 DEF CleanInv, EndInv
  <2>3. status' = "ok"
    BY <1>0, <2>1, <2>2 DEF ExitStatus, Eof
  <2>4. Flushed' = Flushed
    BY <1>0, <2>1 DEF Flushed
  <2> QED
    BY <1>0, <2>1, <2>2, <2>3, <2>4 DEF EndInv
<1>14. CASE UNCHANGED vars
  BY <1>14 DEF vars, CleanInv, EndInv, Flushed
<1>15. CASE Exit
  BY <1>14, <1>15 DEF Exit
<1> QED
  BY <1>1, <1>2, <1>3, <1>4, <1>5, <1>6, <1>7, <1>8, <1>9, <1>10, <1>11, <1>12, <1>13, <1>14, <1>15
     DEF Next

LEMMA InitCleanInv == Init => CleanInv
<1> SUFFICES ASSUME Init PROVE CleanInv
  OBVIOUS
<1>1. /\ position = 0 /\ out = <<>> /\ decoder = [s \in Decoded |-> Fresh] /\ ret = 0
      /\ pc = "setup" /\ active \subseteq Decoded
  BY DEF Init, Decoded
<1>2. \A s \in Decoded : decoder[s].held = <<>>
  BY <1>1 DEF Fresh
<1>3. ToSet(<<>>) = {} /\ 1 .. 0 = {}
  BY DEF ToSet
<1>4. StartInv /\ CoverInv /\ EndInv
  BY <1>1, <1>2, <1>3 DEF StartInv, CoverInv, Covered, EndInv
<1> QED
  BY <1>4, InitInv DEF CleanInv

LEMMA NextCleanInv == CleanInv /\ [Next]_vars => CleanInv'
<1> SUFFICES ASSUME CleanInv, [Next]_vars PROVE CleanInv'
  OBVIOUS
<1>1. CoverInv' /\ EndInv'
  BY CoverNext, EndNext
<1>2. Inv' /\ StartInv'
  BY NextInv, StartNext DEF CleanInv
<1> QED
  BY <1>1, <1>2 DEF CleanInv

-----------------------------------------------------------------------------
(* The theorems.                                                            *)

\* The frames of a stream are written at most once and in order, by each of the
\* programs and whatever fails: what a decoder still holds comes after what was
\* written.
THEOREM OutputInOrder == Spec => []OutputIncreasing
<1>1. Inv => OutputIncreasing
  BY InvTypes DEF Inv, FlowInv, Behind, OutputIncreasing
<1> QED
  BY <1>1, InitInv, NextInv, PTL DEF Spec

\* After an exit through the cleanup at the end of main nothing is allocated but
\* a decoder or its options, when extract_mvs or a stream of demuxing could not be
\* set up, and filtering's packet, which is left whenever decoding or filtering ends
\* the loop (filtering_video.c 274, filtering_audio.c 278 are passed by).
THEOREM CleanupReleasesAll == Spec => []ReleasedAtExit
<1>1. Inv => ReleasedAtExit
  <2> SUFFICES ASSUME Inv, pc = "exit", failed = {"setup"} => SetupOf[program][step + 1].goto # "exit"
               PROVE  ReleasedAtExit
    BY DEF ReleasedAtExit
  <2>1. open \subseteq {"lost", "packet"}
    BY DEF Inv, SetupInv
  <2>2. "lost" \in open => \/ program = "extract_mvs" /\ failed = {"setup"}
                           \/ program = "demuxing" /\ active # Decoded
    <3>1. (\E x \in Decoded \ active : StreamStep[x] <= step) => active # Decoded
      OBVIOUS
    <3>2. "lost" \in open =>
            \/ program = "extract_mvs" /\ pc \in {"cleanup", "exit"} /\ failed = {"setup"}
            \/ program = "demuxing" /\ \E x \in Decoded \ active : StreamStep[x] <= step
      BY DEF Inv, SetupInv
    <3> QED
      BY <3>1, <3>2, Zenon
  <2>3. "packet" \in open <=> program = "filtering" /\ failed = {"decode"} /\ ret = -1
    BY DEF Inv, PacketInv
  <2> QED
    BY <2>1, <2>2, <2>3 DEF ReleasedAtExit
<1> QED
  BY <1>1, InitInv, NextInv, PTL DEF Spec

\* A run in which nothing fails succeeds, and only frames held by a decoder that
\* its program does not flush are missing from what it wrote.
THEOREM CleanRunsComplete == Spec => []CleanRunDecodesAll
<1>1. CleanInv => CleanRunDecodesAll
  <2> SUFFICES ASSUME CleanInv, pc = "exit", failed = {} PROVE CleanRunDecodesAll
    BY DEF CleanRunDecodesAll
  <2>1. /\ position = Len(streams) /\ status = "ok"
        /\ program # "filtering" => \A s \in Flushed : decoder[s].held = <<>>
    BY DEF CleanInv, EndInv
  <2>2. \A s \in active : Covered(streams, s, out, decoder[s].held, position)
    BY DEF CleanInv, CoverInv
  <2>3. ToSet(<<>>) = {} /\ DOMAIN streams = 1 .. Len(streams)
    BY DEF ToSet, CleanInv, Inv, FileInv
  <2> QED
    BY <2>1, <2>2, <2>3 DEF CleanRunDecodesAll, Covered
<1> QED
  BY <1>1, InitCleanInv, NextCleanInv, PTL DEF Spec

=============================================================================
