----------------------------- MODULE Transcoding -----------------------------
(***************************************************************************)
(* share/ffmpeg/examples/transcoding.c: audio and video streams of a file  *)
(* are decoded, filtered and encoded, other streams are copied.            *)
(*                                                                         *)
(* A packet and its frame are named by their place in the file; the        *)
(* filters ("null", "anull") pass every frame on. Any call may fail, and   *)
(* the cleanup at the end of main meets what the failure left.             *)
(***************************************************************************)
EXTENDS AvCodec, SequencesExt, FiniteSetsExt

CONSTANTS
  MaxStreams,   \* bound: streams of the input
  MaxPackets,   \* bound: packets of the input
  MaxDelay      \* bound: packets a decoder, frames an encoder holds back

ASSUME TranscodingAssumption == {MaxStreams, MaxPackets, MaxDelay} \subseteq Nat

VARIABLES
  kinds,     \* the kind of each stream, never changed
  packets,   \* the stream of each packet, never changed
  delay,     \* what the codecs hold back, never changed
  input,     \* how far ifmt_ctx and stream_ctx are set
  decoders,  \* streams with a dec_ctx
  encoders,  \* streams with an enc_ctx
  nbOut,     \* streams of ofmt_ctx, 0 while there is none
  graph,     \* filter_graph of each stream, <<>> while filter_ctx is NULL
  lost,      \* contexts and graphs that nothing points to any more
  position,  \* packets read
  decoder, encoder, \* the state of each stream's codecs
  cur,       \* the frame to be filtered and encoded
  flushing,  \* the stream being flushed
  out,       \* packets written
  trailer, failed, ret, status, pc

given == <<kinds, packets, delay>>
setUpVars == <<input, decoders, encoders, nbOut, graph, lost>>
vars == <<given, setUpVars, position, decoder, encoder, cur, flushing, out,
          trailer, failed, ret, status, pc>>

Streams == DOMAIN kinds
Filtered(s) == kinds[s] = "av"

Init ==
  /\ kinds \in UNION {[1 .. n -> {"av", "other"}] : n \in 0 .. MaxStreams}
  /\ packets \in UNION {[1 .. n -> DOMAIN kinds] : n \in 0 .. MaxPackets}
  /\ delay \in [decoder : 0 .. MaxDelay, encoder : 0 .. MaxDelay]
  /\ input = "none" /\ decoders = {} /\ encoders = {} /\ nbOut = 0 /\ graph = <<>> /\ lost = 0
  /\ position = 0
  /\ decoder = [s \in DOMAIN kinds |-> Fresh] /\ encoder = decoder
  /\ cur = 0 /\ flushing = 0
  /\ out = <<>> /\ trailer = FALSE /\ failed = {}
  /\ ret = "ok" /\ status = "none"
  /\ pc = "input"

Fail(what) == failed' = failed \cup {what} /\ ret' = "error" /\ pc' = "cleanup"

-----------------------------------------------------------------------------
(* The set-up.                                                              *)

OpenInput ==
  /\ pc = "input"
  /\ input' = "contexts" /\ decoders' = Streams
  /\ pc' = "output"
  /\ UNCHANGED <<given, encoders, nbOut, graph, lost, position, decoder, encoder, cur, flushing,
                 out, trailer, failed, ret, status>>

\* The decoder of stream s is lost when it was allocated but not opened.
OpenInputFails ==
  /\ pc = "input"
  /\ \/ Fail("open") /\ UNCHANGED <<input, decoders, lost>>
     \/ Fail("info") /\ input' = "opened" /\ UNCHANGED <<decoders, lost>>
     \/ \E s \in Streams :
          /\ Fail("decoder")
          /\ input' = "contexts" /\ decoders' = 1 .. s - 1 /\ lost' \in {0, 1}
  /\ UNCHANGED <<given, encoders, nbOut, graph, position, decoder, encoder, cur, flushing,
                 out, trailer, status>>

OpenOutput ==
  /\ pc = "output"
  /\ encoders' = {s \in Streams : Filtered(s)} /\ nbOut' = Len(kinds)
  /\ pc' = "filters"
  /\ UNCHANGED <<given, input, decoders, graph, lost, position, decoder, encoder, cur, flushing,
                 out, trailer, failed, ret, status>>

(* No output context; stream n cannot be added, or is added and fails, with *)
(* an encoder that is lost; or, after all streams, no file or no header.    *)
OpenOutputFails ==
  /\ pc = "output"
  /\ Fail("output")
  /\ nbOut' \in 0 .. Len(kinds)
  /\ \/ /\ encoders' = {s \in 1 .. nbOut' : Filtered(s)} /\ UNCHANGED lost
     \/ /\ nbOut' > 0
        /\ encoders' = {s \in 1 .. nbOut' - 1 : Filtered(s)}
        /\ lost' \in IF Filtered(nbOut') THEN {0, 1} ELSE {0}
  /\ UNCHANGED <<given, input, decoders, graph, position, decoder, encoder, cur, flushing, out,
                 trailer, status>>

\* A mutant: the entries of streams without filter are not set to NULL.
NullIfFiltered(n) ==
  [s \in Streams |-> IF s > n \/ ~Filtered(s) THEN "unset" ELSE "set"]

\* filter_ctx after the first n streams: the array is not zeroed when allocated.
FilledUpTo(n) ==
  [s \in Streams |-> IF s > n THEN "unset" ELSE IF Filtered(s) THEN "set" ELSE "null"]

InitFilters ==
  /\ pc = "filters"
  /\ graph' = FilledUpTo(Len(kinds))
  /\ pc' = "loop"
  /\ UNCHANGED <<given, input, decoders, encoders, nbOut, lost, position, decoder, encoder, cur,
                 flushing, out, trailer, failed, ret, status>>

\* init_filter fills its FilteringContext last: a graph that fails is lost.
InitFiltersFails ==
  /\ pc = "filters"
  /\ Fail("filter")
  /\ \/ UNCHANGED <<graph, lost>>
     \/ \E s \in Streams :
          /\ Filtered(s)
          /\ graph' = [FilledUpTo(s) EXCEPT ![s] = "null"]
          /\ lost' \in {0, 1}
  /\ UNCHANGED <<given, input, decoders, encoders, nbOut, position, decoder, encoder, cur,
                 flushing, out, trailer, status>>

-----------------------------------------------------------------------------
(* The loop of main.                                                        *)

HasGraph(s) == graph[s] = "set"

NextPacket == position < Len(packets) /\ position' = position + 1

Remux ==
  /\ pc = "loop" /\ NextPacket /\ ~HasGraph(packets[position'])
  /\ \/ out' = Append(out, position') /\ ret' = "ok" /\ UNCHANGED <<failed, pc>>
     \/ Fail("encode") /\ UNCHANGED out
  /\ UNCHANGED <<given, setUpVars, decoder, encoder, cur, flushing, trailer, status>>

Decode ==
  /\ pc = "loop" /\ NextPacket
  /\ LET s == packets[position']
         c == Accept(decoder[s], position')
     IN /\ HasGraph(s)
        /\ IF Ready(c, delay.decoder)
           THEN decoder' = [decoder EXCEPT ![s] = AfterOutput(c)] /\ cur' = Output(c) /\ pc' = "frame"
           ELSE decoder' = [decoder EXCEPT ![s] = c] /\ UNCHANGED <<cur, pc>>
  /\ ret' = "ok"
  /\ UNCHANGED <<given, setUpVars, encoder, flushing, out, trailer, failed, status>>

\* The loop ends as at the end of the file, and the flush sets ret again.
DecodeFails ==
  /\ pc = "loop" /\ NextPacket
  /\ HasGraph(packets[position'])
  /\ failed' = failed \cup {"decode"}
  /\ ret' = "error" /\ pc' = "flush" /\ flushing' = 1
  /\ UNCHANGED <<given, setUpVars, decoder, encoder, cur, out, trailer, status>>

LoopEnds ==
  /\ pc = "loop"
  /\ \/ position = Len(packets) /\ UNCHANGED failed
     \/ failed' = failed \cup {"read"}
  /\ ret' = "error" /\ pc' = "flush" /\ flushing' = 1
  /\ UNCHANGED <<given, setUpVars, position, decoder, encoder, cur, out, trailer, status>>

(* The filter takes the frame and gives it back at once; the encoder gives  *)
(* a packet when it holds enough.                                           *)
FilterEncodeWrite ==
  /\ pc = "frame"
  /\ LET s == packets[cur]
         c == Accept(encoder[s], cur)
     IN IF Ready(c, delay.encoder)
        THEN encoder' = [encoder EXCEPT ![s] = AfterOutput(c)] /\ out' = Append(out, Output(c))
        ELSE encoder' = [encoder EXCEPT ![s] = c] /\ UNCHANGED out
  /\ cur' = 0 /\ ret' = "ok" /\ pc' = "loop"
  /\ UNCHANGED <<given, setUpVars, position, decoder, flushing, trailer, failed, status>>

\* Filter, encoder or muxer fail: the frame, or the packet for it, is gone.
FilterEncodeWriteFails ==
  /\ pc = "frame"
  /\ Fail("encode")
  /\ LET s == packets[cur]
         c == Accept(encoder[s], cur)
     IN \/ UNCHANGED encoder
        \/ Ready(c, delay.encoder) /\ encoder' = [encoder EXCEPT ![s] = AfterOutput(c)]
  /\ cur' = 0
  /\ UNCHANGED <<given, setUpVars, position, decoder, flushing, out, trailer, status>>

\* A mutant: the flush keeps its results to itself.
FlushLeavesRet(before) == before

\* ret once a stream is flushed; the filter's EOF, too, is rewritten to 0.
FlushResult(before) == "ok"

\* A mutant: the test is inverted.
CapNoDelay == delay.encoder = 0

\* An encoder without AV_CODEC_CAP_DELAY is not asked.
CapDelay == delay.encoder > 0

\* What flush_encoder brings out.
FlushEncoder(c) == IF CapDelay THEN c.held ELSE <<>>

FlushStream ==
  /\ pc = "flush" /\ flushing <= Len(kinds) /\ HasGraph(flushing)
  /\ out' = out \o FlushEncoder(encoder[flushing])
  /\ encoder' = IF CapDelay
                THEN [encoder EXCEPT ![flushing] = [held |-> <<>>, draining |-> TRUE]]
                ELSE encoder
  /\ flushing' = flushing + 1 /\ ret' = FlushResult(ret)
  /\ UNCHANGED <<given, setUpVars, position, decoder, cur, trailer, failed, status, pc>>

SkipStream ==
  /\ pc = "flush" /\ flushing <= Len(kinds) /\ ~HasGraph(flushing)
  /\ flushing' = flushing + 1
  /\ UNCHANGED <<given, setUpVars, position, decoder, encoder, cur, out, trailer, failed, ret,
                 status, pc>>

\* The filter fails, or the encoder or the muxer after n packets.
FlushStreamFails ==
  /\ pc = "flush" /\ flushing <= Len(kinds) /\ HasGraph(flushing)
  /\ LET held == encoder[flushing].held
     IN \E n \in 0 .. Len(FlushEncoder(encoder[flushing])) :
          /\ out' = out \o SubSeq(held, 1, n)
          /\ encoder' = [encoder EXCEPT ![flushing].held = SubSeq(held, n + 1, Len(held))]
  /\ Fail("encode")
  /\ UNCHANGED <<given, setUpVars, position, decoder, cur, flushing, trailer, status>>

\* The result of av_write_trailer is not looked at.
WriteTrailer ==
  /\ pc = "flush" /\ flushing > Len(kinds)
  /\ \/ trailer' = TRUE /\ UNCHANGED failed
     \/ failed' = failed \cup {"trailer"} /\ UNCHANGED trailer
  /\ pc' = "cleanup"
  /\ UNCHANGED <<given, setUpVars, position, decoder, encoder, cur, flushing, out, ret, status>>

-----------------------------------------------------------------------------
(* The end of main.                                                         *)

(* Without ifmt_ctx its streams cannot be counted, and without stream_ctx   *)
(* the first one cannot be freed.                                           *)
NullDereferenced == input = "none" \/ (input = "opened" /\ kinds # <<>>)

\* The encoders that stay: those of streams the output does not have.
Kept == {s \in encoders : s > nbOut}

Cleanup ==
  /\ pc = "cleanup" /\ ~NullDereferenced
  /\ decoders' = {} /\ encoders' = Kept /\ graph' = <<>> /\ nbOut' = 0 /\ input' = "none"
  /\ status' = ret /\ pc' = "exit"
  /\ UNCHANGED <<given, lost, position, decoder, encoder, cur, flushing, out, trailer, failed, ret>>

\* An entry of filter_ctx that was never set may hold anything but a graph.
CleanupCrashes ==
  /\ pc = "cleanup"
  /\ NullDereferenced \/ \E s \in DOMAIN graph : graph[s] = "unset"
  /\ pc' = "crash"
  /\ UNCHANGED <<given, setUpVars, position, decoder, encoder, cur, flushing, out, trailer, failed,
                 ret, status>>

Exit == pc \in {"exit", "crash"} /\ UNCHANGED vars

Next ==
  \/ OpenInput \/ OpenInputFails \/ OpenOutput \/ OpenOutputFails
  \/ InitFilters \/ InitFiltersFails
  \/ Remux \/ Decode \/ DecodeFails \/ LoopEnds
  \/ FilterEncodeWrite \/ FilterEncodeWriteFails
  \/ FlushStream \/ SkipStream \/ FlushStreamFails \/ WriteTrailer
  \/ Cleanup \/ CleanupCrashes \/ Exit

Spec == Init /\ [][Next]_vars

-----------------------------------------------------------------------------
(* Properties.                                                              *)

TypeOK ==
  /\ input \in {"none", "opened", "contexts"}
  /\ decoders \subseteq Streams /\ encoders \subseteq {s \in Streams : Filtered(s)}
  /\ nbOut \in 0 .. Len(kinds)
  /\ graph = <<>> \/ graph \in [Streams -> {"unset", "null", "set"}]
  /\ lost \in 0 .. 1
  /\ position \in 0 .. Len(packets)
  /\ \A c \in {decoder, encoder} : \A s \in Streams : c[s] \in Codec(DOMAIN packets)
  /\ cur \in 0 .. Len(packets) /\ flushing \in 0 .. Len(kinds) + 1
  /\ failed \subseteq {"open", "info", "decoder", "output", "filter", "read", "decode", "encode",
                      "trailer"}
  /\ ret \in {"ok", "error"} /\ status \in {"none", "ok", "error"}
  /\ pc \in {"input", "output", "filters", "loop", "frame", "flush", "cleanup", "exit", "crash"}

\* The packet that could not be decoded.
Undecodable == IF "decode" \in failed THEN {position} ELSE {}

(* Every stream is written in its own order, from its first packet and      *)
(* without a gap. When main returns 0, all that was read has been written   *)
(* but what the stream's decoder still holds (decoders are never drained)   *)
(* and the packet at which decoding failed: the encoders are empty.         *)
WrittenAsRead ==
  /\ TypeOK
  /\ ToSet(out) \subseteq 1 .. position
  /\ \A s \in Streams :
       LET written == {i \in DOMAIN out : packets[out[i]] = s}
           left == {p \in 1 .. position : packets[p] = s} \ ToSet(out)
       IN /\ \A i, j \in written : i < j => out[i] < out[j]
          /\ \A i \in written, p \in left : out[i] < p
          /\ status = "ok" =>
               left = ToSet(decoder[s].held) \cup {p \in Undecodable : packets[p] = s}

(* The status of main: an error of the set-up, of filters, encoders or the  *)
(* muxer is always reported; one of the demuxer or a decoder only when      *)
(* there is nothing to flush, the flush setting ret again; and a file       *)
(* without audio and video never succeeds.                                  *)
StatusTellsEncoding ==
  pc = "exit" =>
    /\ status = "ok" <=> /\ failed \subseteq {"read", "decode", "trailer"}
                         /\ \E s \in Streams : Filtered(s)
    /\ failed \subseteq {"read", "decode"} => trailer

(* The cleanup, which runs over every stream whatever was set up, follows   *)
(* no pointer that is not there, except after three failures that leave an  *)
(* array missing or half filled; it leaves no encoder behind, and the one   *)
(* context or graph that can be lost is that of the call that failed.       *)
CleanupMeetsSetUp ==
  /\ pc = "crash" => failed \in {{"open"}, {"info"}, {"filter"}}
  /\ pc = "exit" => encoders = {} /\ (lost = 0 \/ failed \in {{"decoder"}, {"output"}, {"filter"}})

=============================================================================
