------------------------- MODULE Transcoding_proofs -------------------------
(***************************************************************************)
(* For any number of streams and packets and any delays: what the cleanup  *)
(* of transcoding.c meets after each failure of the set-up, what the exit  *)
(* status of a run tells, and that streams are written in order and        *)
(* without a gap.                                                          *)
(***************************************************************************)
EXTENDS Transcoding, Libav_proofs

(* The packets of stream s up to p: those written, h on their way to the    *)
(* encoder's output, d held by the decoder, and u, which could not be       *)
(* decoded.                                                                 *)
Tracked(st, s, p, o, h, d, u) ==
  /\ Behind(st, s, o, h) /\ Behind(st, s, o, d) /\ Before(h, d)
  /\ {q \in ToSet(o) : st[q] = s} \cup ToSet(h) \cup ToSet(d) \cup {q \in u : st[q] = s} =
       {q \in 1 .. p : st[q] = s}
  /\ u \subseteq {p} /\ \A q \in u : q \notin ToSet(o) /\ q \notin ToSet(h)

\* Of a stream, what is not written comes after what is.
InOrder(st, s, p, o) ==
  /\ \A i, j \in DOMAIN o : st[o[i]] = s /\ st[o[j]] = s /\ i < j => o[i] < o[j]
  /\ \A i \in DOMAIN o, q \in 1 .. p : st[o[i]] = s /\ st[q] = s /\ q \notin ToSet(o) => o[i] < q

-----------------------------------------------------------------------------
(* What the calls do to the packets of a stream.                            *)

\* One more packet is read.
LEMMA OneMore ==
  ASSUME NEW p \in Nat
  PROVE  1 .. p + 1 = 1 .. p \cup {p + 1}
  OBVIOUS

\* The elements of sequences of packets.
LEMMA SeqElements ==
  ASSUME NEW p \in Nat, NEW o \in Seq(1 .. p)
  PROVE  /\ ToSet(o) \subseteq 1 .. p /\ o \in Seq(1 .. p + 1)
         /\ \A i \in DOMAIN o : o[i] \in Nat /\ o[i] <= p /\ o[i] \in ToSet(o)
<1>1. 1 .. p \subseteq 1 .. p + 1
  OBVIOUS
<1>2. o \in Seq(1 .. p + 1)
  BY <1>1, SeqMonotonic
<1>3. \A i \in DOMAIN o : o[i] \in 1 .. p
  OBVIOUS
<1> QED
  BY <1>2, <1>3 DEF ToSet

\* Packets tracked are written in order.
LEMMA TrackedInOrder ==
  ASSUME NEW st, NEW s, NEW p \in Nat, NEW o \in Seq(1 .. p), NEW h, NEW d, NEW u,
         Tracked(st, s, p, o, h, d, u)
  PROVE  InOrder(st, s, p, o)
<1>1. ASSUME NEW i \in DOMAIN o, NEW q \in 1 .. p, st[o[i]] = s, st[q] = s, q \notin ToSet(o)
      PROVE  o[i] < q
  <2>1. CASE q \in ToSet(h)
    BY <1>1, <2>1 DEF Tracked, Behind, ToSet
  <2>2. CASE q \in ToSet(d)
    BY <1>1, <2>2 DEF Tracked, Behind, ToSet
  <2>3. CASE q \in u
    <3>1. q = p /\ o[i] # q /\ o[i] \in Nat /\ o[i] <= p
      BY <1>1, <2>3, SeqElements DEF Tracked
    <3> QED
      BY <3>1
  <2> QED
    BY <1>1, <2>1, <2>2, <2>3 DEF Tracked
<1> QED
  BY <1>1 DEF InOrder, Tracked, Behind

\* A packet that is not written comes after those that are.
LEMMA InOrderNext ==
  ASSUME NEW st, NEW s, NEW p \in Nat, NEW o \in Seq(1 .. p), InOrder(st, s, p, o)
  PROVE  InOrder(st, s, p + 1, o)
<1>1. ASSUME NEW i \in DOMAIN o, NEW q \in 1 .. p + 1, st[o[i]] = s, st[q] = s, q \notin ToSet(o)
      PROVE  o[i] < q
  <2>1. CASE q \in 1 .. p
    BY <1>1, <2>1 DEF InOrder
  <2>2. CASE q = p + 1
    BY <2>2, SeqElements
  <2> QED
    BY <2>1, <2>2
<1> QED
  BY <1>1 DEF InOrder

\* A packet is read that cannot be decoded, or one of another stream.
LEMMA PacketMissed ==
  ASSUME NEW st, NEW s, NEW p \in Nat, NEW o \in Seq(1 .. p), NEW h \in Seq(1 .. p), NEW d,
         Tracked(st, s, p, o, h, d, {}), NEW u \in SUBSET {p + 1}, st[p + 1] = s => u # {}
  PROVE  Tracked(st, s, p + 1, o, h, d, u)
<1>1. p + 1 \notin ToSet(o) /\ p + 1 \notin ToSet(h)
  <2>1. p + 1 \notin 1 .. p
    OBVIOUS
  <2> QED
    BY <2>1, SeqElements
<1>2. {q \in 1 .. p + 1 : st[q] = s} = {q \in 1 .. p : st[q] = s} \cup {q \in u : st[q] = s}
  <2>1. 1 .. p + 1 = 1 .. p \cup {p + 1}
    BY OneMore
  <2> QED
    BY <2>1
<1>3. {q \in ToSet(o) : st[q] = s} \cup ToSet(h) \cup ToSet(d) = {q \in 1 .. p : st[q] = s}
  BY DEF Tracked
<1> QED
  BY <1>1, <1>2, <1>3 DEF Tracked

\* The decoder of the stream takes the packet.
LEMMA PacketTaken ==
  ASSUME NEW st, NEW s, NEW p \in Nat, NEW o \in Seq(1 .. p), NEW h \in Seq(1 .. p),
         NEW d \in Seq(1 .. p), Tracked(st, s, p, o, h, d, {}), st[p + 1] = s
  PROVE  Tracked(st, s, p + 1, o, h, Append(d, p + 1), {})
<1> DEFINE e == Append(d, p + 1)
<1>1. Behind(st, s, o, e)
  BY FramesGrow DEF Tracked
<1>2. Before(h, e)
  <2>1. \A j \in DOMAIN e : (j \in DOMAIN d /\ e[j] = d[j]) \/ e[j] = p + 1
    OBVIOUS
  <2> HIDE DEF e
  <2>2. \A i \in DOMAIN h : h[i] < p + 1
    BY SeqElements
  <2> QED
    BY <2>1, <2>2 DEF Tracked, Before
<1>3. ToSet(e) = ToSet(d) \cup {p + 1}
  BY SetOfAppend
<1>4. {q \in 1 .. p + 1 : st[q] = s} = {q \in 1 .. p : st[q] = s} \cup {p + 1}
  <2>1. 1 .. p + 1 = 1 .. p \cup {p + 1}
    BY OneMore
  <2> QED
    BY <2>1
<1>5. {q \in ToSet(o) : st[q] = s} \cup ToSet(h) \cup ToSet(d) = {q \in 1 .. p : st[q] = s}
  BY DEF Tracked
<1> HIDE DEF e
<1>6. Tracked(st, s, p + 1, o, h, e, {})
  BY <1>1, <1>2, <1>3, <1>4, <1>5 DEF Tracked
<1> QED
  BY <1>6 DEF e

\* The decoder gives its first frame.
LEMMA FrameDecoded ==
  ASSUME NEW st, NEW s, NEW p \in Nat, NEW o \in Seq(1 .. p), NEW h \in Seq(1 .. p),
         NEW d \in Seq(1 .. p), Tracked(st, s, p, o, h, d, {}), d # <<>>
  PROVE  Tracked(st, s, p, o, Append(h, Head(d)), Tail(d), {})
<1> DEFINE g == Append(h, Head(d))
           e == Tail(d)
<1>1. /\ Len(h) \in Nat /\ DOMAIN h = 1 .. Len(h) /\ DOMAIN g = 1 .. Len(h) + 1
      /\ \A i \in DOMAIN g : (i \in DOMAIN h /\ g[i] = h[i]) \/ (i = Len(h) + 1 /\ g[i] = d[1])
  OBVIOUS
<1>2. /\ 1 \in DOMAIN d
      /\ \A i \in DOMAIN e : i + 1 \in DOMAIN d /\ i + 1 > 1 /\ i \in Nat /\ e[i] = d[i + 1]
  <2>1. Len(d) \in Nat /\ Len(d) > 0 /\ DOMAIN d = 1 .. Len(d) /\ DOMAIN e = 1 .. Len(d) - 1
    OBVIOUS
  <2> QED
    BY <2>1
<1>3. ToSet(g) = ToSet(h) \cup {Head(d)} /\ ToSet(d) = {Head(d)} \cup ToSet(e)
  <2>1. ToSet(g) = ToSet(h) \cup {Head(d)}
    BY SetOfAppend
  <2> QED
    BY <2>1, SetOfTail
<1> HIDE DEF g, e
<1>4. Behind(st, s, o, g)
  <2>1. ASSUME NEW j \in DOMAIN g PROVE st[g[j]] = s
    <3>1. CASE j \in DOMAIN h /\ g[j] = h[j]
      BY <3>1 DEF Tracked, Behind
    <3>2. CASE g[j] = d[1]
      BY <1>2, <3>2 DEF Tracked, Behind
    <3> QED
      BY <1>1, <3>1, <3>2
  <2>2. \A i \in DOMAIN o, j \in DOMAIN g : st[o[i]] = s => o[i] < g[j]
    BY <1>1, <1>2 DEF Tracked, Behind
  <2>3. ASSUME NEW i \in DOMAIN g, NEW j \in DOMAIN g, i < j PROVE g[i] < g[j]
    <3>1. i \in DOMAIN h /\ g[i] = h[i]
      BY <1>1, <2>3
    <3>2. CASE j \in DOMAIN h /\ g[j] = h[j]
      BY <2>3, <3>1, <3>2 DEF Tracked, Behind
    <3>3. CASE g[j] = d[1]
      BY <1>2, <3>1, <3>3 DEF Tracked, Before
    <3> QED
      BY <1>1, <3>2, <3>3
  <2> QED
    BY <2>1, <2>2, <2>3 DEF Tracked, Behind
<1>5. Behind(st, s, o, e)
  <2>1. \A i, j \in DOMAIN e : i < j => e[i] < e[j]
    <3>1. \A i, j \in DOMAIN e : i < j => i + 1 < j + 1
      BY <1>2
    <3> QED
      BY <1>2, <3>1 DEF Tracked, Behind
  <2> QED
    BY <1>2, <2>1 DEF Tracked, Behind
<1>6. Before(g, e)
  <2>1. \A j \in DOMAIN e : d[1] < e[j]
    BY <1>2 DEF Tracked, Behind
  <2> QED
    BY <1>1, <1>2, <2>1 DEF Tracked, Before
<1>7. {q \in ToSet(o) : st[q] = s} \cup ToSet(g) \cup ToSet(e) = {q \in 1 .. p : st[q] = s}
  BY <1>3 DEF Tracked
<1>8. Tracked(st, s, p, o, g, e, {})
  BY <1>4, <1>5, <1>6, <1>7 DEF Tracked
<1> QED
  BY <1>8 DEF g, e

\* n frames of the stream are written.
LEMMA FramesWritten ==
  ASSUME NEW st, NEW s, NEW p \in Nat, NEW o \in Seq(1 .. p), NEW h \in Seq(1 .. p),
         NEW d \in Seq(1 .. p), NEW u, Tracked(st, s, p, o, h, d, u), NEW n \in 0 .. Len(h)
  PROVE  Tracked(st, s, p, o \o SubSeq(h, 1, n), SubSeq(h, n + 1, Len(h)), d, u)
<1> DEFINE a == SubSeq(h, 1, n)
           b == SubSeq(h, n + 1, Len(h))
           w == o \o a
<1>1. n \in n .. Len(h)
  OBVIOUS
<1>2. Behind(st, s, w, b)
  BY <1>1, FramesMove DEF Tracked
<1>3. /\ a \in Seq(1 .. p) /\ b \in Seq(1 .. p)
      /\ \A i \in DOMAIN a : i \in DOMAIN h /\ a[i] = h[i]
      /\ \A i \in DOMAIN b : n + i \in DOMAIN h /\ b[i] = h[n + i]
  BY <1>1, CutElements
<1>4. ToSet(a) \cup ToSet(b) = ToSet(h)
  BY SetOfCut
<1> HIDE DEF a, b
<1>5. ToSet(w) = ToSet(o) \cup ToSet(a)
  BY <1>3, SetOfCat
<1>6. \A i \in DOMAIN w :
        \/ i \in DOMAIN o /\ w[i] = o[i]
        \/ i - Len(o) \in DOMAIN a /\ w[i] = a[i - Len(o)]
  BY <1>3, CatElements
<1> HIDE DEF w
<1>7. Behind(st, s, w, d)
  <2>1. ASSUME NEW i \in DOMAIN w, NEW j \in DOMAIN d, st[w[i]] = s PROVE w[i] < d[j]
    <3>1. CASE i \in DOMAIN o /\ w[i] = o[i]
      BY <2>1, <3>1 DEF Tracked, Behind
    <3>2. CASE i - Len(o) \in DOMAIN a /\ w[i] = a[i - Len(o)]
      <4>1. i - Len(o) \in DOMAIN h /\ w[i] = h[i - Len(o)]
        BY <1>3, <3>2
      <4> QED
        BY <4>1 DEF Tracked, Before
    <3> QED
      BY <1>6, <3>1, <3>2
  <2> QED
    BY <1>2, <2>1 DEF Tracked, Behind
<1>8. Before(b, d)
  BY <1>3 DEF Tracked, Before
<1>9. ToSet(a) \subseteq ToSet(h) /\ \A q \in ToSet(h) : st[q] = s
  BY <1>4 DEF Tracked, Behind, ToSet
<1>10. {q \in ToSet(w) : st[q] = s} \cup ToSet(b) = {q \in ToSet(o) : st[q] = s} \cup ToSet(h)
  BY <1>4, <1>5, <1>9
<1>11. Tracked(st, s, p, w, b, d, u)
  BY <1>2, <1>4, <1>5, <1>7, <1>8, <1>10 DEF Tracked
<1> QED
  BY <1>11 DEF a, b, w

\* n frames of another stream, s, are written.
LEMMA OthersWritten ==
  ASSUME NEW st, NEW s, NEW t, s # t, NEW p \in Nat, NEW o \in Seq(1 .. p),
         NEW h \in Seq(1 .. p), NEW g \in Seq(1 .. p), NEW d \in Seq(1 .. p), NEW e, NEW u,
         Tracked(st, s, p, o, h, e, u), Tracked(st, t, p, o, g, d, u), NEW n \in 0 .. Len(h)
  PROVE  Tracked(st, t, p, o \o SubSeq(h, 1, n), g, d, u)
<1> DEFINE a == SubSeq(h, 1, n)
           w == o \o a
<1>1. Behind(st, t, w, g) /\ Behind(st, t, w, d)
  BY OthersMove DEF Tracked
<1>2. n \in n .. Len(h)
  OBVIOUS
<1>3. a \in Seq(1 .. p) /\ \A i \in DOMAIN a : i \in DOMAIN h /\ a[i] = h[i]
  BY <1>2, CutElements
<1> HIDE DEF a
<1>4. ToSet(w) = ToSet(o) \cup ToSet(a)
  BY <1>3, SetOfCat
<1>5. ToSet(a) \subseteq ToSet(h) /\ \A q \in ToSet(a) : st[q] # t
  BY <1>3 DEF Tracked, Behind, ToSet
<1> HIDE DEF w
<1>6. {q \in ToSet(w) : st[q] = t} = {q \in ToSet(o) : st[q] = t}
  BY <1>4, <1>5
<1>7. Tracked(st, t, p, w, g, d, u)
  BY <1>1, <1>4, <1>5, <1>6 DEF Tracked
<1> QED
  BY <1>7 DEF a, w

\* A packet is copied.
LEMMA PacketCopied ==
  ASSUME NEW st, NEW s, NEW p \in Nat, NEW o \in Seq(1 .. p), NEW h \in Seq(1 .. p),
         NEW d \in Seq(1 .. p), Tracked(st, s, p, o, h, d, {}),
         st[p + 1] = s => h = <<>> /\ d = <<>>
  PROVE  Tracked(st, s, p + 1, Append(o, p + 1), h, d, {})
<1> DEFINE w == Append(o, p + 1)
<1>1. /\ Len(o) \in Nat /\ DOMAIN o = 1 .. Len(o) /\ DOMAIN w = 1 .. Len(o) + 1
      /\ \A i \in DOMAIN w : (i \in DOMAIN o /\ w[i] = o[i]) \/ (i = Len(o) + 1 /\ w[i] = p + 1)
  BY ElementsOfAppend
<1>2. ToSet(w) = ToSet(o) \cup {p + 1}
  BY SetOfAppend
<1> HIDE DEF w
<1>3. \A i \in DOMAIN o : o[i] < p + 1
  BY SeqElements
<1>4. ASSUME NEW i \in DOMAIN w, NEW j \in DOMAIN w, st[w[i]] = s, st[w[j]] = s, i < j
      PROVE  w[i] < w[j]
  <2>1. i \in DOMAIN o /\ w[i] = o[i]
    BY <1>1, <1>4
  <2>2. CASE j \in DOMAIN o /\ w[j] = o[j]
    BY <1>4, <2>1, <2>2 DEF Tracked, Behind
  <2>3. CASE w[j] = p + 1
    BY <1>3, <2>1, <2>3
  <2> QED
    BY <1>1, <2>2, <2>3
<1>5. /\ \A i \in DOMAIN w, j \in DOMAIN h : st[w[i]] = s => w[i] < h[j]
      /\ \A i \in DOMAIN w, j \in DOMAIN d : st[w[i]] = s => w[i] < d[j]
  <2>1. CASE st[p + 1] = s
    <3>1. DOMAIN h = {} /\ DOMAIN d = {}
      BY <2>1
    <3> QED
      BY <3>1
  <2>2. CASE st[p + 1] # s
    <3>1. \A i \in DOMAIN w : st[w[i]] = s => i \in DOMAIN o /\ w[i] = o[i]
      BY <1>1, <2>2
    <3> QED
      BY <3>1 DEF Tracked, Behind
  <2> QED
    BY <2>1, <2>2
<1>6. {q \in ToSet(w) : st[q] = s} \cup ToSet(h) \cup ToSet(d) = {q \in 1 .. p + 1 : st[q] = s}
  <2>1. 1 .. p + 1 = 1 .. p \cup {p + 1}
    BY OneMore
  <2>2. {q \in ToSet(o) : st[q] = s} \cup ToSet(h) \cup ToSet(d) = {q \in 1 .. p : st[q] = s}
    BY DEF Tracked
  <2> QED
    BY <1>2, <2>1, <2>2
<1>7. Tracked(st, s, p + 1, w, h, d, {})
  BY <1>4, <1>5, <1>6 DEF Tracked, Behind
<1> QED
  BY <1>7 DEF w
\* How far the set-up has come where main stands.
SetUpInv ==
  /\ pc = "input" => input = "none" /\ encoders = {} /\ nbOut = 0 /\ graph = <<>> /\ lost = 0
  /\ pc = "output" => input = "contexts" /\ encoders = {} /\ graph = <<>> /\ lost = 0
  /\ pc = "filters" => input = "contexts" /\ graph = <<>> /\ lost = 0
  /\ pc \in {"loop", "frame", "flush"} =>
       /\ input = "contexts" /\ lost = 0
       /\ graph = [s \in Streams |-> IF Filtered(s) THEN "set" ELSE "null"]
  /\ nbOut \in Nat /\ \A s \in encoders : s \in 1 .. nbOut

\* What has failed where main stands, and what ret makes of it.
FailureInv ==
  /\ pc \in {"input", "output", "filters", "loop", "frame"} => failed = {} /\ ret = "ok"
  /\ pc = "flush" =>
       /\ failed \subseteq {"read", "decode"}
       /\ flushing \in 1 .. Len(kinds) + 1
       /\ ret = IF \E s \in 1 .. flushing - 1 : Filtered(s) THEN "ok" ELSE "error"

\* What the end of main finds.
CleanupInv ==
  pc = "cleanup" =>
    /\ ret = IF /\ failed \subseteq {"read", "decode", "trailer"}
                /\ \E s \in Streams : Filtered(s) THEN "ok" ELSE "error"
    /\ failed \subseteq {"read", "decode"} => trailer
    /\ input = "none" => failed = {"open"}
    /\ input = "opened" => failed = {"info"}
    /\ (\E s \in DOMAIN graph : graph[s] = "unset") => failed = {"filter"}
    /\ lost = 0 \/ failed \in {{"decoder"}, {"output"}, {"filter"}}

Inv ==
  /\ kinds \in Seq({"av", "other"})
  /\ SetUpInv /\ FailureInv /\ CleanupInv
  /\ StatusTellsEncoding /\ CleanupMeetsSetUp

-----------------------------------------------------------------------------
LEMMA KindsAreASequence ==
  ASSUME NEW n \in Nat, NEW k \in [1 .. n -> {"av", "other"}]
  PROVE  k \in Seq({"av", "other"})
  OBVIOUS

\* The invariant holds at first.
LEMMA InitInv == Init => Inv
<1> SUFFICES ASSUME Init PROVE Inv
  OBVIOUS
<1>1. kinds \in Seq({"av", "other"})
  <2>1. PICK n \in 0 .. MaxStreams : kinds \in [1 .. n -> {"av", "other"}]
    BY DEF Init
  <2> QED
    BY <2>1, TranscodingAssumption, KindsAreASequence
<1> QED
  BY <1>1 DEF Init, Inv, SetUpInv, FailureInv, CleanupInv, StatusTellsEncoding, CleanupMeetsSetUp

\* Actions of the loop and the flush leave the set-up alone.
LEMMA NextInv == Inv /\ [Next]_vars => Inv'
<1> SUFFICES ASSUME Inv, [Next]_vars PROVE Inv'
  OBVIOUS
<1> USE DEF Inv, SetUpInv, FailureInv, CleanupInv, StatusTellsEncoding, CleanupMeetsSetUp,
            given, setUpVars, Streams, Filtered, Fail
<1>1. CASE OpenInput
  BY <1>1 DEF OpenInput
<1>2. CASE OpenInputFails
  <2>1. /\ pc = "input" /\ failed = {} /\ encoders = {} /\ nbOut = 0 /\ graph = <<>> /\ lost = 0
        /\ pc' = "cleanup" /\ ret' = "error" /\ UNCHANGED <<kinds, encoders, nbOut, graph>>
    BY <1>2 DEF OpenInputFails
  <2>2. \/ failed' = {"open"} /\ input' = "none" /\ lost' = 0
        \/ failed' = {"info"} /\ input' = "opened" /\ lost' = 0
        \/ failed' = {"decoder"} /\ input' = "contexts"
    BY <1>2, <2>1 DEF OpenInputFails
  <2>3. CleanupInv'
    <3>1. ret' = "error" /\ graph' = <<>> /\ ~(failed' \subseteq {"read", "decode", "trailer"})
      BY <2>1, <2>2
    <3>2. DOMAIN graph' = {}
      BY <3>1
    <3> QED
      BY <2>2, <3>1, <3>2
  <2> QED
    BY <2>1, <2>3
<1>3. CASE OpenOutput
  BY <1>3 DEF OpenOutput
<1>4. CASE OpenOutputFails
  <2>1. /\ input = "contexts" /\ failed' = {"output"} /\ pc' = "cleanup" /\ ret' = "error"
        /\ graph = <<>> /\ UNCHANGED <<kinds, input, graph>>
    BY <1>4 DEF OpenOutputFails
  <2>2. Len(kinds) \in Nat /\ nbOut' \in 0 .. Len(kinds)
    BY <1>4 DEF OpenOutputFails
  <2>3. \A s \in encoders' : s \in 1 .. nbOut'
    BY <1>4, <2>2 DEF OpenOutputFails
  <2>4. CleanupInv'
    <3>1. DOMAIN graph' = {} /\ ~(failed' \subseteq {"read", "decode", "trailer"})
      BY <2>1
    <3> QED
      BY <2>1, <3>1
  <2> QED
    BY <2>1, <2>2, <2>3, <2>4
<1>5. CASE InitFilters
  BY <1>5 DEF InitFilters, FilledUpTo
<1>6. CASE InitFiltersFails
  BY <1>6 DEF InitFiltersFails, FilledUpTo
<1>7. CASE Remux
  BY <1>7 DEF Remux, NextPacket
<1>8. CASE Decode
  BY <1>8 DEF Decode, NextPacket
<1>9. CASE DecodeFails
  BY <1>9 DEF DecodeFails, NextPacket
<1>10. CASE LoopEnds
  BY <1>10 DEF LoopEnds
<1>11. CASE FilterEncodeWrite
  BY <1>11 DEF FilterEncodeWrite
<1>12. CASE FilterEncodeWriteFails
  BY <1>12 DEF FilterEncodeWriteFails
<1>13. CASE FlushStream
  BY <1>13 DEF FlushStream, FlushResult, HasGraph
<1>14. CASE SkipStream
  BY <1>14 DEF SkipStream, HasGraph
<1>15. CASE FlushStreamFails
  BY <1>15 DEF FlushStreamFails
<1>16. CASE WriteTrailer
  <2>1. /\ pc = "flush" /\ pc' = "cleanup" /\ input = "contexts" /\ lost = 0
        /\ graph = [s \in Streams |-> IF Filtered(s) THEN "set" ELSE "null"]
        /\ UNCHANGED <<kinds, setUpVars, ret>>
    BY <1>16 DEF WriteTrailer
  <2>2. ret = IF \E s \in Streams : Filtered(s) THEN "ok" ELSE "error"
    <3>1. flushing \in 1 .. Len(kinds) + 1 /\ flushing > Len(kinds) /\ Len(kinds) \in Nat
      BY <1>16 DEF WriteTrailer
    <3>2. 1 .. flushing - 1 = DOMAIN kinds
      BY <3>1
    <3> QED
      BY <1>16, <3>2 DEF WriteTrailer
  <2>3. failed' \subseteq {"read", "decode", "trailer"} /\ (failed' \subseteq {"read", "decode"} => trailer')
    BY <1>16 DEF WriteTrailer
  <2>4. SetUpInv' /\ FailureInv' /\ StatusTellsEncoding' /\ CleanupMeetsSetUp'
    BY <2>1
  <2> QED
    BY <2>1, <2>2, <2>3, <2>4
<1>17. CASE Cleanup
  <2>1. /\ pc = "cleanup" /\ pc' = "exit" /\ status' = ret
        /\ UNCHANGED <<kinds, lost, trailer, failed>>
    BY <1>17 DEF Cleanup
  <2>2. encoders' = {} /\ nbOut' = 0
    BY <1>17 DEF Cleanup, Kept
  <2>3. StatusTellsEncoding'
    BY <2>1
  <2> QED
    BY <2>1, <2>2, <2>3
<1>18. CASE CleanupCrashes
  BY <1>18 DEF CleanupCrashes, NullDereferenced
<1>19. CASE UNCHANGED vars
  BY <1>19 DEF vars
<1> QED
  BY <1>1, <1>2, <1>3, <1>4, <1>5, <1>6, <1>7, <1>8, <1>9, <1>10, <1>11, <1>12, <1>13, <1>14,
     <1>15, <1>16, <1>17, <1>18, <1>19 DEF Next, Exit

-----------------------------------------------------------------------------
(* transcoding.c, main: the cleanup follows a missing pointer only after    *)
(* the three failures that leave an array missing or half filled, frees     *)
(* every encoder, and loses at most what the failing call had allocated,    *)
(* for every number of streams and packets.                                 *)
THEOREM CleanupSafe == Spec => []CleanupMeetsSetUp
<1>1. Inv => CleanupMeetsSetUp
  BY DEF Inv
<1> QED
  BY <1>1, InitInv, NextInv, PTL DEF Spec

(* transcoding.c, main: the exit status reports every failure of the        *)
(* set-up, of filters, encoders and muxer, and it is 0 exactly when there   *)
(* was none and a stream to flush, for every number of streams and packets. *)
THEOREM StatusReported == Spec => []StatusTellsEncoding
<1>1. Inv => StatusTellsEncoding
  BY DEF Inv
<1> QED
  BY <1>1, InitInv, NextInv, PTL DEF Spec

-----------------------------------------------------------------------------
(* Where the packets are between their reading and their writing.           *)

\* Frames on their way to the encoder's output.
Waiting(s) ==
  IF cur > 0 /\ packets[cur] = s THEN Append(encoder[s].held, cur) ELSE encoder[s].held

\* Neither the set-up nor filters, encoders or the muxer failed.
Flowing == failed \subseteq {"read", "decode", "trailer"}

\* Where frames can be.
QueueInv ==
  /\ packets \in Seq(Streams) /\ delay.encoder \in Nat
  /\ position \in 0 .. Len(packets) /\ out \in Seq(1 .. position)
  /\ cur \in 0 .. position /\ (cur > 0 <=> pc = "frame")
  /\ decoder \in [Streams -> Codec(1 .. position)]
  /\ encoder \in [Streams -> Codec(1 .. position)]
  /\ pc \in {"input", "output", "filters"} =>
       position = 0 /\ \A s \in Streams : encoder[s].held = <<>> /\ decoder[s].held = <<>>
  /\ \A s \in Streams : ~Filtered(s) => encoder[s].held = <<>> /\ decoder[s].held = <<>>
  /\ cur > 0 => Filtered(packets[cur])

TrackInv ==
  Flowing => \A s \in Streams :
    Tracked(packets, s, position, out, Waiting(s), decoder[s].held, Undecodable)

OrderInv == \A s \in Streams : InOrder(packets, s, position, out)

\* Which encoders are empty.
EncodedInv ==
  Flowing =>
    /\ delay.encoder = 0 => \A s \in Streams : encoder[s].held = <<>>
    /\ pc = "flush" => \A s \in 1 .. flushing - 1 : encoder[s].held = <<>>
    /\ pc \in {"cleanup", "exit"} => \A s \in Streams : encoder[s].held = <<>>

StatusInv == status # "none" => pc = "exit"

FlowInv == Inv /\ QueueInv /\ TrackInv /\ OrderInv /\ EncodedInv

\* What the invariants say of the parts.
LEMMA QueueTypes ==
  ASSUME FlowInv
  PROVE  /\ Len(kinds) \in Nat /\ Streams = 1 .. Len(kinds)
         /\ Len(packets) \in Nat /\ position \in Nat /\ position <= Len(packets)
         /\ \A q \in 1 .. Len(packets) : packets[q] \in Streams
         /\ out \in Seq(1 .. position)
         /\ \A s \in Streams : /\ decoder[s] \in Codec(1 .. position)
                               /\ encoder[s] \in Codec(1 .. position)
                               /\ decoder[s].held \in Seq(1 .. position)
                               /\ encoder[s].held \in Seq(1 .. position)
<1>1. kinds \in Seq({"av", "other"}) /\ packets \in Seq(Streams)
  BY DEF FlowInv, Inv, QueueInv
<1>2. \A S, c : c \in Codec(S) => c.held \in Seq(S)
  BY DEF Codec
<1>3. \A s \in Streams : decoder[s] \in Codec(1 .. position) /\ encoder[s] \in Codec(1 .. position)
  BY DEF FlowInv, QueueInv
<1>4. /\ Len(kinds) \in Nat /\ Streams = 1 .. Len(kinds) /\ Len(packets) \in Nat
      /\ \A q \in 1 .. Len(packets) : packets[q] \in Streams
  BY <1>1 DEF Streams
<1>5. position \in Nat /\ position <= Len(packets) /\ out \in Seq(1 .. position)
  BY <1>4 DEF FlowInv, QueueInv
<1> QED
  BY <1>2, <1>3, <1>4, <1>5

\* Codecs and output as seen after one more packet.
LEMMA OneMoreRead ==
  ASSUME FlowInv
  PROVE  /\ out \in Seq(1 .. position + 1)
         /\ decoder \in [Streams -> Codec(1 .. position + 1)]
         /\ encoder \in [Streams -> Codec(1 .. position + 1)]
<1>1. \A s \in Streams : decoder[s] \in Codec(1 .. position + 1) /\ encoder[s] \in Codec(1 .. position + 1)
  BY QueueTypes, DecoderForms
<1> QED
  BY <1>1, QueueTypes, SeqElements DEF FlowInv, QueueInv

\* In the loop nothing waits, and nothing has failed.
LEMMA InLoop ==
  ASSUME FlowInv, pc = "loop"
  PROVE  /\ cur = 0 /\ failed = {}
         /\ \A t \in Streams : HasGraph(t) <=> Filtered(t)
         /\ \A t \in Streams :
              Tracked(packets, t, position, out, encoder[t].held, decoder[t].held, {})
<1>1. failed = {} /\ cur = 0
  BY DEF FlowInv, QueueInv, Inv, FailureInv
<1>2. Undecodable = {} /\ Flowing /\ \A t \in Streams : Waiting(t) = encoder[t].held
  BY <1>1 DEF Undecodable, Flowing, Waiting
<1>3. \A t \in Streams : HasGraph(t) <=> Filtered(t)
  BY DEF FlowInv, Inv, SetUpInv, HasGraph
<1> QED
  BY <1>1, <1>2, <1>3, Zenon DEF FlowInv, TrackInv

\* The packets of a stream are in order while nothing keeps them.
LEMMA FlowingInOrder ==
  ASSUME QueueInv', TrackInv', Flowing'
  PROVE  OrderInv'
<1>1. position' \in Nat /\ out' \in Seq(1 .. position')
  <2>1. Len(packets') \in Nat
    BY DEF QueueInv
  <2> QED
    BY <2>1 DEF QueueInv
<1> QED
  BY <1>1, TrackedInOrder DEF TrackInv, OrderInv

\* The decoder takes a packet and may give a frame.
LEMMA DecodeStep ==
  ASSUME FlowInv, Decode
  PROVE  QueueInv' /\ TrackInv' /\ OrderInv' /\ EncodedInv'
<1> DEFINE p == position + 1
           s == packets[p]
           c == Accept(decoder[s], p)
<1>1. /\ pc = "loop" /\ position' = p /\ position < Len(packets) /\ HasGraph(s)
      /\ UNCHANGED <<kinds, packets, delay, encoder, out, failed, flushing>>
      /\ \/ /\ Ready(c, delay.decoder) /\ decoder' = [decoder EXCEPT ![s] = AfterOutput(c)]
            /\ cur' = Output(c) /\ pc' = "frame"
         \/ decoder' = [decoder EXCEPT ![s] = c] /\ UNCHANGED <<cur, pc>>
  BY DEF Decode, NextPacket, given
<1>2. /\ position \in Nat /\ p \in 1 .. Len(packets) /\ Len(packets) \in Nat /\ s \in Streams
      /\ p \in Nat
  BY <1>1, QueueTypes
<1>3. cur = 0 /\ failed = {} /\ Filtered(s)
  BY <1>1, <1>2, InLoop
<1>4. c \in Codec(1 .. p) /\ c.held = Append(decoder[s].held, p) /\ c.held \in Seq(1 .. p)
  <2>1. c \in Codec(1 .. p) /\ c.held = Append(decoder[s].held, p)
    BY <1>2, QueueTypes, DecoderForms
  <2> QED
    BY <2>1 DEF Codec
<1>5. ASSUME NEW t \in Streams, t # s
      PROVE  Tracked(packets, t, p, out, encoder[t].held, decoder[t].held, {})
  <2>1. Tracked(packets, t, position, out, encoder[t].held, decoder[t].held, {})
    BY <1>1, InLoop
  <2> QED
    BY <1>2, <1>5, <2>1, QueueTypes, PacketMissed
<1>6. Tracked(packets, s, p, out, encoder[s].held, c.held, {})
  <2>1. Tracked(packets, s, position, out, encoder[s].held, decoder[s].held, {})
    BY <1>1, <1>2, InLoop
  <2> QED
    BY <1>2, <1>4, <2>1, QueueTypes, PacketTaken
<1>7. /\ out \in Seq(1 .. p) /\ decoder \in [Streams -> Codec(1 .. p)]
      /\ encoder \in [Streams -> Codec(1 .. p)] /\ encoder[s].held \in Seq(1 .. p)
  <2>1. /\ out \in Seq(1 .. p) /\ decoder \in [Streams -> Codec(1 .. p)]
        /\ encoder \in [Streams -> Codec(1 .. p)]
    BY OneMoreRead
  <2> QED
    BY <1>2, <2>1 DEF Codec
<1> HIDE DEF p, c
<1> HIDE DEF s
<1>8. /\ packets' \in Seq(Streams') /\ delay'.encoder \in Nat /\ Streams' = Streams
      /\ \A t \in Streams : Filtered(t)' <=> Filtered(t)
      /\ position' \in 0 .. Len(packets') /\ out' \in Seq(1 .. position')
      /\ encoder' \in [Streams' -> Codec(1 .. position')]
  BY <1>1, <1>2, <1>7 DEF FlowInv, QueueInv, Streams, Filtered
<1>9. Undecodable' = {} /\ Flowing /\ Flowing'
  BY <1>1, <1>3 DEF Undecodable, Flowing
<1>10. CASE /\ Ready(c, delay.decoder) /\ decoder' = [decoder EXCEPT ![s] = AfterOutput(c)]
            /\ cur' = Output(c) /\ pc' = "frame"
  <2> DEFINE a == AfterOutput(c)
  <2>1. /\ c.held # <<>> /\ a \in Codec(1 .. p) /\ a.held = Tail(c.held)
        /\ Output(c) \in 1 .. p /\ Output(c) = Head(c.held)
    BY <1>2, <1>4, <1>10, DecoderForms DEF Ready, Output
  <2>2. packets[cur'] = s /\ cur' > 0 /\ cur' \in 0 .. p
    <3>1. 1 \in DOMAIN c.held /\ Head(c.held) = c.held[1]
      BY <1>4, <2>1
    <3>2. packets[c.held[1]] = s
      BY <1>6, <3>1 DEF Tracked, Behind
    <3> QED
      BY <1>2, <1>10, <2>1, <3>1, <3>2
  <2>3. Tracked(packets, s, p, out, Append(encoder[s].held, cur'), a.held, {})
    BY <1>2, <1>4, <1>6, <1>7, <1>10, <2>1, FrameDecoded
  <2> HIDE DEF a
  <2>4. decoder' \in [Streams -> Codec(1 .. p)] /\ decoder'[s] = a
        /\ \A t \in Streams : t # s => decoder'[t] = decoder[t]
    BY <1>2, <1>7, <1>10, <2>1 DEF a
  <2>5. QueueInv'
    <3>1. \A t \in Streams : ~Filtered(t) => encoder'[t].held = <<>> /\ decoder'[t].held = <<>>
      BY <1>1, <1>3, <2>4 DEF FlowInv, QueueInv
    <3>2. Filtered(packets[cur])'
      BY <1>1, <1>2, <1>3, <1>8, <2>2 DEF Filtered
    <3> QED
      BY <1>1, <1>8, <1>10, <2>2, <2>4, <3>1, <3>2 DEF QueueInv
  <2>6. ASSUME NEW t \in Streams
        PROVE  Tracked(packets', t, position', out', Waiting(t)', decoder'[t].held, Undecodable')
    <3>1. Waiting(t)' = IF t = s THEN Append(encoder[s].held, cur') ELSE encoder[t].held
      BY <1>1, <2>2 DEF Waiting
    <3> QED
      BY <1>1, <1>5, <1>9, <2>3, <2>4, <3>1
  <2>7. TrackInv'
    BY <1>8, <2>6 DEF TrackInv
  <2> QED
    BY <1>1, <1>8, <1>9, <1>10, <2>5, <2>7, FlowingInOrder DEF FlowInv, EncodedInv
<1>11. CASE decoder' = [decoder EXCEPT ![s] = c] /\ UNCHANGED <<cur, pc>>
  <2>4. decoder' \in [Streams -> Codec(1 .. p)] /\ decoder'[s] = c
        /\ \A t \in Streams : t # s => decoder'[t] = decoder[t]
    BY <1>2, <1>4, <1>7, <1>11
  <2>5. QueueInv'
    <3>1. \A t \in Streams : ~Filtered(t) => encoder'[t].held = <<>> /\ decoder'[t].held = <<>>
      BY <1>1, <1>3, <2>4 DEF FlowInv, QueueInv
    <3>2. cur' = 0 /\ pc' = "loop" /\ 0 \in 0 .. p
      BY <1>1, <1>2, <1>3, <1>11
    <3> QED
      BY <1>1, <1>8, <2>4, <3>1, <3>2 DEF QueueInv
  <2>6. ASSUME NEW t \in Streams
        PROVE  Tracked(packets', t, position', out', Waiting(t)', decoder'[t].held, Undecodable')
    <3>1. Waiting(t)' = encoder[t].held
      BY <1>1, <1>3, <1>11 DEF Waiting
    <3> QED
      BY <1>1, <1>5, <1>6, <1>9, <2>4, <3>1
  <2>7. TrackInv'
    BY <1>8, <2>6 DEF TrackInv
  <2> QED
    BY <1>1, <1>8, <1>9, <1>11, <2>5, <2>7, FlowingInOrder DEF FlowInv, EncodedInv
<1> QED
  BY <1>1, <1>10, <1>11 DEF s, c, p

\* The packet is lost, and the decoder keeps what it holds.
LEMMA DecodeFailsStep ==
  ASSUME FlowInv, DecodeFails
  PROVE  QueueInv' /\ TrackInv' /\ OrderInv' /\ EncodedInv'
<1> DEFINE p == position + 1
<1>1. /\ pc = "loop" /\ position' = p /\ position < Len(packets) /\ HasGraph(packets[p])
      /\ failed' = failed \cup {"decode"} /\ pc' = "flush" /\ flushing' = 1
      /\ UNCHANGED <<kinds, packets, delay, decoder, encoder, cur, out>>
  BY DEF DecodeFails, NextPacket, given
<1>2. position \in Nat /\ p \in 1 .. Len(packets) /\ Len(packets) \in Nat /\ p \in Nat
  BY <1>1, QueueTypes
<1>3. cur = 0 /\ failed = {} /\ Flowing /\ Flowing' /\ Undecodable' = {p}
  BY <1>1, InLoop DEF Flowing, Undecodable
<1>4. ASSUME NEW t \in Streams
      PROVE  Tracked(packets, t, p, out, encoder[t].held, decoder[t].held, {p})
  <2>1. Tracked(packets, t, position, out, encoder[t].held, decoder[t].held, {})
    BY <1>1, InLoop
  <2> QED
    BY <1>2, <2>1, QueueTypes, PacketMissed
<1>5. /\ out \in Seq(1 .. p) /\ decoder \in [Streams -> Codec(1 .. p)]
      /\ encoder \in [Streams -> Codec(1 .. p)]
  BY OneMoreRead
<1> HIDE DEF p
<1>6. Streams' = Streams /\ \A t \in Streams : Filtered(t)' <=> Filtered(t)
  BY <1>1 DEF Streams, Filtered
<1>7. QueueInv'
  <2>1. 0 \in 0 .. p
    BY <1>2
  <2> QED
    BY <1>1, <1>2, <1>3, <1>5, <1>6, <2>1 DEF FlowInv, QueueInv
<1>8. TrackInv'
  <2>1. \A t \in Streams : Waiting(t)' = encoder[t].held
    BY <1>1, <1>3 DEF Waiting
  <2> QED
    BY <1>1, <1>3, <1>4, <1>6, <2>1 DEF TrackInv
<1>9. EncodedInv'
  BY <1>1, <1>3, <1>6 DEF FlowInv, EncodedInv
<1> QED
  BY <1>3, <1>7, <1>8, <1>9, FlowingInOrder

\* A packet of a stream without a filter is copied, or the muxer fails.
LEMMA RemuxStep ==
  ASSUME FlowInv, Remux
  PROVE  QueueInv' /\ TrackInv' /\ OrderInv' /\ EncodedInv'
<1> DEFINE p == position + 1
           s == packets[p]
<1>1. /\ pc = "loop" /\ position' = p /\ position < Len(packets) /\ ~HasGraph(s)
      /\ UNCHANGED <<kinds, packets, delay, decoder, encoder, cur, flushing>>
      /\ \/ out' = Append(out, p) /\ UNCHANGED <<failed, pc>>
         \/ failed' = failed \cup {"encode"} /\ pc' = "cleanup" /\ out' = out
  BY DEF Remux, NextPacket, given, Fail
<1>2. /\ position \in Nat /\ p \in 1 .. Len(packets) /\ Len(packets) \in Nat /\ p \in Nat
      /\ s \in Streams
  BY <1>1, QueueTypes
<1>3. cur = 0 /\ failed = {} /\ ~Filtered(s)
  BY <1>1, <1>2, InLoop
<1>4. encoder[s].held = <<>> /\ decoder[s].held = <<>>
  BY <1>2, <1>3 DEF FlowInv, QueueInv
<1>5. ASSUME NEW t \in Streams
      PROVE  Tracked(packets, t, p, Append(out, p), encoder[t].held, decoder[t].held, {})
  <2>1. Tracked(packets, t, position, out, encoder[t].held, decoder[t].held, {})
    BY <1>1, InLoop
  <2> QED
    BY <1>2, <1>4, <2>1, QueueTypes, PacketCopied
<1>6. /\ out \in Seq(1 .. p) /\ decoder \in [Streams -> Codec(1 .. p)]
      /\ encoder \in [Streams -> Codec(1 .. p)] /\ Append(out, p) \in Seq(1 .. p)
  <2>1. /\ out \in Seq(1 .. p) /\ decoder \in [Streams -> Codec(1 .. p)]
        /\ encoder \in [Streams -> Codec(1 .. p)]
    BY OneMoreRead
  <2>2. p \in 1 .. p
    BY <1>2
  <2> QED
    BY <2>1, <2>2
<1>7. \A t \in Streams : InOrder(packets, t, p, out)
  BY <1>2, QueueTypes, InOrderNext DEF FlowInv, OrderInv
<1> HIDE DEF p
<1> HIDE DEF s
<1>8. Streams' = Streams /\ \A t \in Streams : Filtered(t)' <=> Filtered(t)
  BY <1>1 DEF Streams, Filtered
<1>9. QueueInv'
  <2>1. 0 \in 0 .. p
    BY <1>2
  <2>2. out' \in Seq(1 .. p) /\ cur' = 0 /\ pc' \in {"loop", "cleanup"}
    BY <1>1, <1>3, <1>6
  <2> QED
    BY <1>1, <1>2, <1>6, <1>8, <2>1, <2>2 DEF FlowInv, QueueInv
<1>10. CASE out' = Append(out, p) /\ UNCHANGED <<failed, pc>>
  <2>1. Undecodable' = {} /\ Flowing /\ Flowing'
    BY <1>3, <1>10 DEF Undecodable, Flowing
  <2>2. \A t \in Streams : Waiting(t)' = encoder[t].held
    BY <1>1, <1>3 DEF Waiting
  <2>3. TrackInv'
    BY <1>1, <1>5, <1>8, <1>10, <2>1, <2>2 DEF TrackInv
  <2>4. EncodedInv'
    BY <1>1, <1>8, <1>10, <2>1 DEF FlowInv, EncodedInv
  <2> QED
    BY <1>9, <2>1, <2>3, <2>4, FlowingInOrder
<1>11. CASE failed' = failed \cup {"encode"} /\ pc' = "cleanup" /\ out' = out
  <2>1. ~Flowing'
    BY <1>11 DEF Flowing
  <2>2. OrderInv'
    BY <1>1, <1>7, <1>8, <1>11 DEF OrderInv
  <2> QED
    BY <1>9, <2>1, <2>2 DEF TrackInv, EncodedInv
<1> QED
  BY <1>1, <1>10, <1>11

\* Of the frames that wait for the encoder of stream s, n are written.
LEMMA WriteStep ==
  ASSUME FlowInv, Flowing, NEW s \in Streams, cur = 0 \/ packets[cur] = s,
         NEW h \in Seq(1 .. position), h = Waiting(s), NEW n \in 0 .. Len(h),
         NEW q \in Codec(1 .. position), q.held = SubSeq(h, n + 1, Len(h)),
         out' = out \o SubSeq(h, 1, n), encoder' = [encoder EXCEPT ![s] = q]
  PROVE  /\ out' \in Seq(1 .. position) /\ encoder' \in [Streams -> Codec(1 .. position)]
         /\ encoder'[s] = q /\ \A t \in Streams : t # s => encoder'[t] = encoder[t]
         /\ \A t \in Streams : /\ Tracked(packets, t, position, out', encoder'[t].held,
                                          decoder[t].held, Undecodable)
                               /\ InOrder(packets, t, position, out')
<1>1. /\ encoder' \in [Streams -> Codec(1 .. position)]
      /\ encoder'[s] = q /\ \A t \in Streams : t # s => encoder'[t] = encoder[t]
  BY DEF FlowInv, QueueInv
<1>2. position \in Nat /\ out \in Seq(1 .. position) /\ out' \in Seq(1 .. position)
  <2>1. position \in Nat /\ out \in Seq(1 .. position) /\ n \in n .. Len(h)
    BY QueueTypes
  <2> QED
    BY <2>1, CutElements
<1>3. Tracked(packets, s, position, out, h, decoder[s].held, Undecodable)
  BY DEF FlowInv, TrackInv
<1>4. Tracked(packets, s, position, out', encoder'[s].held, decoder[s].held, Undecodable)
  <2>1. decoder[s].held \in Seq(1 .. position) /\ encoder'[s].held = SubSeq(h, n + 1, Len(h))
    BY <1>1, QueueTypes
  <2> HIDE DEF FlowInv
  <2>2. Tracked(packets, s, position, out \o SubSeq(h, 1, n), SubSeq(h, n + 1, Len(h)),
                decoder[s].held, Undecodable)
    BY <1>2, <1>3, <2>1, FramesWritten
  <2> QED
    BY <2>1, <2>2, Zenon
<1>5. ASSUME NEW t \in Streams, t # s
      PROVE  Tracked(packets, t, position, out', encoder'[t].held, decoder[t].held, Undecodable)
  <2>1. Waiting(t) = encoder[t].held
    BY <1>5, QueueTypes DEF Waiting
  <2>2. Tracked(packets, t, position, out, encoder[t].held, decoder[t].held, Undecodable)
    BY <2>1, Zenon DEF FlowInv, TrackInv
  <2> QED
    BY <1>1, <1>2, <1>3, <1>5, <2>2, QueueTypes, OthersWritten
<1>6. \A t \in Streams :
        Tracked(packets, t, position, out', encoder'[t].held, decoder[t].held, Undecodable)
  BY <1>4, <1>5
<1> QED
  BY <1>1, <1>2, <1>6, TrackedInOrder

\* A sequence is longer by one.
LEMMA AppendForms ==
  ASSUME NEW S, NEW e \in Seq(S), NEW x \in S
  PROVE  Append(e, x) \in Seq(S) /\ Append(e, x) # <<>>
<1>1. Append(e, x) \in Seq(S) /\ Len(Append(e, x)) = Len(e) + 1 /\ Len(e) \in Nat
  OBVIOUS
<1>2. Len(Append(e, x)) # 0
  BY <1>1
<1>3. Len(<<>>) = 0
  OBVIOUS
<1> QED
  BY <1>1, <1>2, <1>3, Zenon

\* The first of the frames, or none.
LEMMA FirstWritten ==
  ASSUME NEW S, NEW o \in Seq(S), NEW h \in Seq(S)
  PROVE  /\ 0 \in 0 .. Len(h) /\ o \o SubSeq(h, 1, 0) = o /\ SubSeq(h, 0 + 1, Len(h)) = h
         /\ h # <<>> => /\ 1 \in 0 .. Len(h) /\ o \o SubSeq(h, 1, 1) = Append(o, Head(h))
                        /\ SubSeq(h, 1 + 1, Len(h)) = Tail(h)
         /\ Len(h) \in 0 .. Len(h) /\ SubSeq(h, 1, Len(h)) = h
         /\ SubSeq(h, Len(h) + 1, Len(h)) = <<>>
<1>1. Len(h) \in Nat /\ SubSeq(h, 1, 0) = <<>> /\ SubSeq(h, 1, Len(h)) = h
  OBVIOUS
<1>2. o \o <<>> = o
  OBVIOUS
<1>3. SubSeq(h, Len(h) + 1, Len(h)) = <<>>
  OBVIOUS
<1>4. ASSUME h # <<>>
      PROVE  /\ 1 \in 0 .. Len(h) /\ o \o SubSeq(h, 1, 1) = Append(o, Head(h))
             /\ SubSeq(h, 1 + 1, Len(h)) = Tail(h)
  <2>1. Len(h) > 0 /\ Len(h) \in Nat
    BY <1>4
  <2>2. SubSeq(h, 1 + 1, Len(h)) = Tail(h)
    BY <1>4, <2>1
  <2>3. SubSeq(h, 1, 1) = <<Head(h)>> /\ Head(h) \in S
    <3>1. /\ DOMAIN SubSeq(h, 1, 1) = 1 .. 1 /\ SubSeq(h, 1, 1)[1] = h[1] /\ Len(SubSeq(h, 1, 1)) = 1
          /\ SubSeq(h, 1, 1) \in Seq(S)
      BY <2>1
    <3>2. \A e \in Seq(S) : Len(e) = 1 => e = <<e[1]>>
      OBVIOUS
    <3>3. Head(h) = h[1] /\ Head(h) \in S
      BY <1>4, <2>1
    <3> QED
      BY <3>1, <3>2, <3>3
  <2>4. o \o <<Head(h)>> = Append(o, Head(h))
    BY <2>3
  <2> QED
    BY <2>1, <2>2, <2>3, <2>4
<1> QED
  BY <1>1, <1>2, <1>3, <1>4

\* The frame is encoded, and the first that waits is written.
LEMMA EncodeStep ==
  ASSUME FlowInv, FilterEncodeWrite
  PROVE  QueueInv' /\ TrackInv' /\ OrderInv' /\ EncodedInv'
<1> DEFINE s == packets[cur]
           c == Accept(encoder[s], cur)
           h == Waiting(s)
<1>1. /\ pc = "frame" /\ cur' = 0 /\ pc' = "loop"
      /\ UNCHANGED <<kinds, packets, delay, position, decoder, failed, flushing>>
      /\ \/ /\ Ready(c, delay.encoder) /\ encoder' = [encoder EXCEPT ![s] = AfterOutput(c)]
            /\ out' = Append(out, Output(c))
         \/ ~Ready(c, delay.encoder) /\ encoder' = [encoder EXCEPT ![s] = c] /\ out' = out
  BY DEF FilterEncodeWrite, given
<1>2. /\ cur > 0 /\ cur \in 1 .. position /\ position \in Nat /\ s \in Streams
      /\ failed = {} /\ Filtered(s)
  <2>1. cur > 0 /\ failed = {} /\ cur \in 0 .. position /\ Filtered(s)
    BY <1>1 DEF FlowInv, Inv, FailureInv, QueueInv
  <2>2. cur \in 1 .. position /\ cur \in 1 .. Len(packets)
    BY <2>1, QueueTypes
  <2> QED
    BY <2>1, <2>2, QueueTypes
<1>3. /\ c \in Codec(1 .. position) /\ c.held = h /\ h \in Seq(1 .. position) /\ h # <<>>
      /\ h = Append(encoder[s].held, cur)
  <2>1. c \in Codec(1 .. position) /\ c.held = Append(encoder[s].held, cur)
    BY <1>2, QueueTypes, AcceptForms
  <2>2. h = Append(encoder[s].held, cur)
    BY <1>2 DEF Waiting
  <2>3. encoder[s].held \in Seq(1 .. position)
    BY <1>2, QueueTypes
  <2>4. Append(encoder[s].held, cur) \in Seq(1 .. position) /\ Append(encoder[s].held, cur) # <<>>
    BY <1>2, <2>3, AppendForms, Zenon
  <2>5. h \in Seq(1 .. position) /\ h # <<>>
    BY <2>2, <2>4, Zenon
  <2> QED
    BY <2>1, <2>2, <2>5, Zenon
<1>4. /\ Flowing /\ Flowing' /\ Undecodable' = Undecodable /\ Streams' = Streams
      /\ \A t \in Streams : Filtered(t)' <=> Filtered(t)
  BY <1>1, <1>2 DEF Flowing, Undecodable, Streams, Filtered
<1> HIDE DEF c
<1>5. PICK q \in Codec(1 .. position), n \in 0 .. Len(h) :
        /\ q.held = SubSeq(h, n + 1, Len(h))
        /\ out' = out \o SubSeq(h, 1, n) /\ encoder' = [encoder EXCEPT ![s] = q]
        /\ delay.encoder = 0 /\ encoder[s].held = <<>> => q.held = <<>>
  <2> HIDE DEF h
  <2> HIDE DEF s
  <2>1. /\ out \in Seq(1 .. position)
        /\ 0 \in 0 .. Len(h) /\ out \o SubSeq(h, 1, 0) = out /\ SubSeq(h, 0 + 1, Len(h)) = h
        /\ 1 \in 0 .. Len(h) /\ out \o SubSeq(h, 1, 1) = Append(out, Head(h))
        /\ SubSeq(h, 1 + 1, Len(h)) = Tail(h)
    <3>1. out \in Seq(1 .. position)
      BY QueueTypes
    <3>2. h \in Seq(1 .. position) /\ h # <<>>
      BY <1>3
    <3>3. 0 \in 0 .. Len(h) /\ out \o SubSeq(h, 1, 0) = out /\ SubSeq(h, 0 + 1, Len(h)) = h
      BY <3>1, <3>2, FirstWritten, Zenon
    <3>4. /\ 1 \in 0 .. Len(h) /\ out \o SubSeq(h, 1, 1) = Append(out, Head(h))
          /\ SubSeq(h, 1 + 1, Len(h)) = Tail(h)
      BY <3>1, <3>2, FirstWritten, Zenon
    <3> QED
      BY <3>1, <3>3, <3>4, Zenon
  <2>2. CASE /\ Ready(c, delay.encoder) /\ encoder' = [encoder EXCEPT ![s] = AfterOutput(c)]
             /\ out' = Append(out, Output(c))
    <3>1. AfterOutput(c) \in Codec(1 .. position) /\ AfterOutput(c).held = Tail(h)
      BY <1>2, <1>3, DecoderForms
    <3>2. out' = out \o SubSeq(h, 1, 1)
      BY <1>3, <2>1, <2>2 DEF Output
    <3>3. encoder[s].held = <<>> => Tail(h) = <<>>
      <4>1. Tail(Append(<<>>, cur)) = <<>>
        OBVIOUS
      <4> QED
        BY <1>3, <4>1
    <3> QED
      BY <2>1, <2>2, <3>1, <3>2, <3>3
  <2>3. CASE ~Ready(c, delay.encoder) /\ encoder' = [encoder EXCEPT ![s] = c] /\ out' = out
    <3>1. delay.encoder # 0
      <4>1. Len(h) \in Nat /\ Len(h) > 0
        BY <1>3
      <4> QED
        BY <1>3, <2>3, <4>1 DEF Ready
    <3> QED
      BY <1>3, <2>1, <2>3, <3>1
  <2> QED
    BY <1>1, <2>2, <2>3
<1> HIDE DEF h
<1> HIDE DEF s
<1>6. /\ out' \in Seq(1 .. position) /\ encoder' \in [Streams -> Codec(1 .. position)]
      /\ encoder'[s] = q /\ \A t \in Streams : t # s => encoder'[t] = encoder[t]
      /\ \A t \in Streams :
           Tracked(packets, t, position, out', encoder'[t].held, decoder[t].held, Undecodable)
  BY <1>2, <1>3, <1>4, <1>5, WriteStep DEF s, h
<1>7. QueueInv'
  <2>1. \A t \in Streams : ~Filtered(t) => encoder'[t].held = <<>> /\ decoder'[t].held = <<>>
    BY <1>1, <1>2, <1>6 DEF FlowInv, QueueInv
  <2>2. 0 \in 0 .. position
    BY <1>2
  <2> QED
    BY <1>1, <1>4, <1>6, <2>1, <2>2 DEF FlowInv, QueueInv
<1>8. TrackInv'
  <2>1. \A t \in Streams : Waiting(t)' = encoder'[t].held
    BY <1>1 DEF Waiting
  <2> QED
    BY <1>1, <1>4, <1>6, <2>1 DEF TrackInv
<1>9. EncodedInv'
  BY <1>1, <1>2, <1>4, <1>5, <1>6 DEF FlowInv, EncodedInv
<1> QED
  BY <1>4, <1>7, <1>8, <1>9, FlowingInOrder

\* The frame is lost, and with it the flow.
LEMMA EncodeFailsStep ==
  ASSUME FlowInv, FilterEncodeWriteFails
  PROVE  QueueInv' /\ TrackInv' /\ OrderInv' /\ EncodedInv'
<1> DEFINE s == packets[cur]
           c == Accept(encoder[s], cur)
           q == AfterOutput(c)
<1>1. /\ pc = "frame" /\ cur' = 0 /\ pc' = "cleanup" /\ failed' = failed \cup {"encode"}
      /\ UNCHANGED <<kinds, packets, delay, position, decoder, out>>
      /\ \/ encoder' = encoder
         \/ Ready(c, delay.encoder) /\ encoder' = [encoder EXCEPT ![s] = q]
  BY DEF FilterEncodeWriteFails, given, Fail
<1>2. /\ cur > 0 /\ cur \in 1 .. position /\ position \in Nat /\ s \in Streams /\ Filtered(s)
  <2>1. cur > 0 /\ cur \in 0 .. position /\ Filtered(s)
    BY <1>1 DEF FlowInv, QueueInv
  <2>2. cur \in 1 .. position /\ cur \in 1 .. Len(packets)
    BY <2>1, QueueTypes
  <2> QED
    BY <2>1, <2>2, QueueTypes
<1>3. c.held # <<>> => q \in Codec(1 .. position)
  <2>1. c \in Codec(1 .. position)
    BY <1>2, QueueTypes, AcceptForms
  <2> QED
    BY <1>2, <2>1, DecoderForms
<1>4. ~Flowing' /\ Streams' = Streams /\ \A t \in Streams : Filtered(t)' <=> Filtered(t)
  BY <1>1 DEF Flowing, Streams, Filtered
<1> HIDE DEF q
<1>5. /\ encoder' \in [Streams -> Codec(1 .. position)]
      /\ \A t \in Streams : t # s => encoder'[t] = encoder[t]
  BY <1>1, <1>2, <1>3 DEF FlowInv, QueueInv, Ready
<1>6. QueueInv'
  <2>1. \A t \in Streams : ~Filtered(t) => encoder'[t].held = <<>> /\ decoder'[t].held = <<>>
    BY <1>1, <1>2, <1>5 DEF FlowInv, QueueInv
  <2>2. 0 \in 0 .. position
    BY <1>2
  <2> HIDE DEF s
  <2> QED
    BY <1>1, <1>4, <1>5, <2>1, <2>2 DEF FlowInv, QueueInv
<1> HIDE DEF s
<1> QED
  BY <1>1, <1>4, <1>6 DEF FlowInv, OrderInv, TrackInv, EncodedInv

\* The stream being flushed, and what its encoder holds.
LEMMA InFlush ==
  ASSUME FlowInv, pc = "flush", flushing <= Len(kinds)
  PROVE  /\ flushing \in Streams /\ flushing \in Nat /\ cur = 0 /\ Flowing
         /\ encoder[flushing].held \in Seq(1 .. position)
         /\ \A t \in Streams : Waiting(t) = encoder[t].held
         /\ HasGraph(flushing) <=> Filtered(flushing)
<1>1. flushing \in 1 .. Len(kinds) + 1 /\ failed \subseteq {"read", "decode"} /\ cur = 0
  BY DEF FlowInv, Inv, FailureInv, QueueInv
<1>2. flushing \in Streams /\ flushing \in Nat
  BY <1>1, QueueTypes
<1>3. HasGraph(flushing) <=> Filtered(flushing)
  BY <1>2 DEF FlowInv, Inv, SetUpInv, HasGraph
<1> QED
  BY <1>1, <1>2, <1>3, QueueTypes DEF Flowing, Waiting

\* All that the encoder of the stream holds is written.
LEMMA FlushStep ==
  ASSUME FlowInv, FlushStream
  PROVE  QueueInv' /\ TrackInv' /\ OrderInv' /\ EncodedInv'
<1> DEFINE s == flushing
           h == encoder[s].held
<1>1. /\ pc = "flush" /\ flushing <= Len(kinds) /\ HasGraph(s) /\ flushing' = s + 1
      /\ out' = out \o FlushEncoder(encoder[s])
      /\ encoder' = IF CapDelay
                    THEN [encoder EXCEPT ![s] = [held |-> <<>>, draining |-> TRUE]]
                    ELSE encoder
      /\ UNCHANGED <<kinds, packets, delay, position, decoder, cur, failed, pc>>
  BY DEF FlushStream, given
<1>2. /\ s \in Streams /\ s \in Nat /\ cur = 0 /\ Flowing /\ h \in Seq(1 .. position)
      /\ \A t \in Streams : Waiting(t) = encoder[t].held
      /\ Filtered(s)
  BY <1>1, InFlush
<1>3. /\ Flowing' /\ Undecodable' = Undecodable /\ Streams' = Streams
      /\ \A t \in Streams : Filtered(t)' <=> Filtered(t)
  BY <1>1, <1>2 DEF Flowing, Undecodable, Streams, Filtered
<1>4. /\ out \in Seq(1 .. position) /\ position \in Nat /\ encoder[s] \in Codec(1 .. position)
      /\ encoder \in [Streams -> Codec(1 .. position)]
  BY <1>2, QueueTypes DEF FlowInv, QueueInv
<1>5. PICK q \in Codec(1 .. position) :
        /\ q.held = <<>> /\ out' = out \o h /\ encoder' = [encoder EXCEPT ![s] = q]
  <2>1. CASE CapDelay
    <3> DEFINE q == [held |-> <<>>, draining |-> TRUE]
    <3>1. q \in Codec(1 .. position) /\ q.held = <<>>
      BY DEF Codec
    <3>2. encoder' = [encoder EXCEPT ![s] = q] /\ out' = out \o h
      BY <1>1, <2>1 DEF FlushEncoder
    <3> HIDE DEF q
    <3> QED
      BY <3>1, <3>2
  <2>2. CASE ~CapDelay
    <3>1. delay.encoder = 0
      BY <2>2 DEF CapDelay, FlowInv, QueueInv
    <3>2. h = <<>>
      BY <1>2, <3>1 DEF FlowInv, EncodedInv
    <3>3. out' = out \o h
      BY <1>1, <2>2, <3>2 DEF FlushEncoder
    <3>4. encoder' = [encoder EXCEPT ![s] = encoder[s]]
      BY <1>1, <1>4, <2>2
    <3> QED
      BY <1>4, <3>2, <3>3, <3>4
  <2> QED
    BY <2>1, <2>2
<1> HIDE DEF h
<1>6. Len(h) \in 0 .. Len(h) /\ SubSeq(h, 1, Len(h)) = h /\ SubSeq(h, Len(h) + 1, Len(h)) = <<>>
  BY <1>2, <1>4, FirstWritten, Zenon
<1>7. /\ out' \in Seq(1 .. position) /\ encoder' \in [Streams -> Codec(1 .. position)]
      /\ encoder'[s] = q /\ \A t \in Streams : t # s => encoder'[t] = encoder[t]
      /\ \A t \in Streams :
           Tracked(packets, t, position, out', encoder'[t].held, decoder[t].held, Undecodable)
  <2>1. h = Waiting(s)
    BY <1>2 DEF h
  <2>2. q.held = SubSeq(h, Len(h) + 1, Len(h)) /\ out' = out \o SubSeq(h, 1, Len(h))
    BY <1>5, <1>6
  <2> QED
    BY <1>2, <1>5, <1>6, <2>1, <2>2, WriteStep, Zenon
<1>8. QueueInv'
  <2>1. \A t \in Streams : ~Filtered(t) => encoder'[t].held = <<>> /\ decoder'[t].held = <<>>
    BY <1>1, <1>2, <1>7 DEF FlowInv, QueueInv
  <2> QED
    BY <1>1, <1>2, <1>3, <1>7, <2>1 DEF FlowInv, QueueInv
<1>9. TrackInv'
  <2>1. \A t \in Streams : Waiting(t)' = encoder'[t].held
    BY <1>1, <1>2 DEF Waiting
  <2> QED
    BY <1>1, <1>3, <1>7, <2>1 DEF TrackInv
<1>10. EncodedInv'
  <2>1. \A t \in Streams : encoder[t].held = <<>> => encoder'[t].held = <<>>
    BY <1>5, <1>7
  <2>2. \A t \in 1 .. flushing' - 1 : t \in Streams /\ (t = s \/ t \in 1 .. flushing - 1)
    BY <1>1, <1>2, QueueTypes
  <2>3. \A t \in 1 .. flushing' - 1 : encoder'[t].held = <<>>
    <3>1. \A t \in 1 .. flushing - 1 : encoder[t].held = <<>>
      BY <1>1, <1>2 DEF FlowInv, EncodedInv
    <3> QED
      BY <1>5, <1>7, <2>1, <2>2, <3>1
  <2> QED
    BY <1>1, <1>2, <1>3, <2>1, <2>3 DEF FlowInv, EncodedInv
<1> QED
  BY <1>3, <1>8, <1>9, <1>10, FlowingInOrder

\* Some of what the encoder holds is written.
LEMMA FlushFailsStep ==
  ASSUME FlowInv, FlushStreamFails
  PROVE  QueueInv' /\ TrackInv' /\ OrderInv' /\ EncodedInv'
<1> DEFINE s == flushing
           h == encoder[s].held
<1>1. /\ pc = "flush" /\ flushing <= Len(kinds) /\ HasGraph(s) /\ pc' = "cleanup"
      /\ failed' = failed \cup {"encode"}
      /\ UNCHANGED <<kinds, packets, delay, position, decoder, cur>>
      /\ \E n \in 0 .. Len(FlushEncoder(encoder[s])) :
           /\ out' = out \o SubSeq(h, 1, n)
           /\ encoder' = [encoder EXCEPT ![s].held = SubSeq(h, n + 1, Len(h))]
  BY DEF FlushStreamFails, given, Fail
<1>2. /\ s \in Streams /\ s \in Nat /\ cur = 0 /\ Flowing /\ h \in Seq(1 .. position)
      /\ \A t \in Streams : Waiting(t) = encoder[t].held
      /\ Filtered(s)
  BY <1>1, InFlush
<1>3. /\ ~Flowing' /\ Streams' = Streams /\ \A t \in Streams : Filtered(t)' <=> Filtered(t)
  BY <1>1 DEF Flowing, Streams, Filtered
<1>4. /\ out \in Seq(1 .. position) /\ position \in Nat /\ encoder[s] \in Codec(1 .. position)
      /\ encoder \in [Streams -> Codec(1 .. position)]
  BY <1>2, QueueTypes DEF FlowInv, QueueInv
<1>5. PICK n \in 0 .. Len(h) :
        /\ out' = out \o SubSeq(h, 1, n)
        /\ encoder' = [encoder EXCEPT ![s].held = SubSeq(h, n + 1, Len(h))]
  <2>1. Len(<<>>) = 0 /\ Len(h) \in Nat
    BY <1>2
  <2>2. 0 .. Len(FlushEncoder(encoder[s])) \subseteq 0 .. Len(h)
    BY <2>1 DEF FlushEncoder
  <2> QED
    BY <1>1, <2>2
<1> DEFINE b == SubSeq(h, n + 1, Len(h))
           q == [held |-> b, draining |-> encoder[s].draining]
<1>6. q \in Codec(1 .. position) /\ q.held = b
  <2>1. n \in n .. Len(h) /\ encoder[s].draining \in BOOLEAN
    BY <1>2, <1>4 DEF Codec
  <2>2. b \in Seq(1 .. position)
    BY <1>2, <1>4, <2>1, CutElements
  <2> HIDE DEF b
  <2> QED
    BY <2>1, <2>2 DEF Codec
<1>7. encoder' = [encoder EXCEPT ![s] = q]
  <2> HIDE DEF b
  <2>1. [encoder[s] EXCEPT !.held = b] = q
    BY <1>4, HeldReplaced
  <2>2. encoder' = [encoder EXCEPT ![s] = [encoder[s] EXCEPT !.held = b]]
    BY <1>5 DEF b
  <2> QED
    BY <2>1, <2>2, Zenon
<1> HIDE DEF q
<1>8. /\ out' \in Seq(1 .. position) /\ encoder' \in [Streams -> Codec(1 .. position)]
      /\ encoder'[s] = q /\ \A t \in Streams : t # s => encoder'[t] = encoder[t]
      /\ \A t \in Streams : InOrder(packets, t, position, out')
  <2>1. h = Waiting(s)
    BY <1>2
  <2> HIDE DEF h
  <2> QED
    BY <1>2, <1>5, <1>6, <1>7, <2>1, WriteStep, Zenon
<1>9. QueueInv'
  <2>1. \A t \in Streams : ~Filtered(t) => encoder'[t].held = <<>> /\ decoder'[t].held = <<>>
    BY <1>1, <1>2, <1>8 DEF FlowInv, QueueInv
  <2> QED
    BY <1>1, <1>2, <1>3, <1>8, <2>1 DEF FlowInv, QueueInv
<1>10. OrderInv'
  BY <1>1, <1>3, <1>8 DEF OrderInv
<1> QED
  BY <1>3, <1>9, <1>10 DEF TrackInv, EncodedInv

\* Steps that move no packet.
LEMMA OtherStep ==
  ASSUME FlowInv, UNCHANGED <<given, position, decoder, encoder, cur, out>>,
         Flowing' => Flowing /\ ("decode" \in failed' <=> "decode" \in failed),
         cur > 0 <=> pc' = "frame",
         pc' \in {"input", "output", "filters"} => pc \in {"input", "output", "filters"}
  PROVE  QueueInv' /\ TrackInv' /\ OrderInv'
<1>1. /\ UNCHANGED <<kinds, packets, delay, position, decoder, encoder, cur, out>>
      /\ Streams' = Streams /\ \A t \in Streams : /\ Filtered(t)' <=> Filtered(t)
                                                  /\ Waiting(t)' = Waiting(t)
  BY DEF given, Streams, Filtered, Waiting
<1>2. QueueInv'
  <2>1. cur > 0 => Filtered(packets[cur])'
    BY <1>1 DEF FlowInv, QueueInv, Filtered
  <2> QED
    BY <1>1, <2>1 DEF FlowInv, QueueInv
<1>3. Flowing' => Undecodable' = Undecodable
  BY <1>1 DEF Undecodable
<1>4. TrackInv'
  BY <1>1, <1>3 DEF FlowInv, TrackInv
<1>5. OrderInv'
  BY <1>1 DEF FlowInv, OrderInv
<1> QED
  BY <1>2, <1>4, <1>5

\* The invariant holds at first.
LEMMA InitFlow == Init => FlowInv
<1> SUFFICES ASSUME Init PROVE FlowInv
  OBVIOUS
<1>1. Inv
  BY InitInv
<1>2. packets \in Seq(Streams)
  <2>1. PICK n \in 0 .. MaxPackets : packets \in [1 .. n -> Streams]
    BY DEF Init, Streams
  <2>2. n \in Nat
    BY <2>1, TranscodingAssumption
  <2> QED
    BY <2>1, <2>2
<1>3. position = 0 /\ cur = 0 /\ out = <<>> /\ failed = {} /\ pc = "input" /\ delay.encoder \in Nat
  BY TranscodingAssumption DEF Init
<1>4. 0 \in 0 .. Len(packets) /\ 1 .. 0 = {} /\ Fresh \in Codec(1 .. 0) /\ Fresh.held = <<>>
  BY <1>2 DEF Fresh, Codec
<1>5. /\ decoder \in [Streams -> Codec(1 .. 0)] /\ encoder \in [Streams -> Codec(1 .. 0)]
      /\ \A s \in Streams : encoder[s].held = <<>> /\ decoder[s].held = <<>>
  BY <1>4 DEF Init, Streams
<1>6. QueueInv
  BY <1>2, <1>3, <1>4, <1>5 DEF QueueInv
<1>7. TrackInv
  <2>1. Undecodable = {} /\ \A s \in Streams : Waiting(s) = <<>>
    BY <1>3, <1>5 DEF Undecodable, Waiting
  <2>2. ToSet(<<>>) = {} /\ DOMAIN <<>> = {}
    BY DEF ToSet
  <2>3. \A s \in Streams : Tracked(packets, s, 0, <<>>, <<>>, <<>>, {})
    BY <1>4, <2>2 DEF Tracked, Behind, Before
  <2> QED
    BY <1>3, <1>5, <2>1, <2>3 DEF TrackInv
<1>8. OrderInv
  BY <1>3 DEF OrderInv, InOrder
<1>9. EncodedInv
  BY <1>3, <1>5 DEF EncodedInv
<1> QED
  BY <1>1, <1>6, <1>7, <1>8, <1>9 DEF FlowInv

\* Every step keeps the invariant.
LEMMA NextFlow == FlowInv /\ [Next]_vars => FlowInv'
<1> SUFFICES ASSUME FlowInv, [Next]_vars
             PROVE  QueueInv' /\ TrackInv' /\ OrderInv' /\ EncodedInv'
  BY NextInv DEF FlowInv
<1>1. CASE OpenInput \/ OpenOutput \/ InitFilters
  <2>1. /\ pc \in {"input", "output", "filters"} /\ pc' \in {"output", "filters", "loop"}
        /\ UNCHANGED <<given, position, decoder, encoder, cur, out, failed>>
    BY <1>1 DEF OpenInput, OpenOutput, InitFilters
  <2>2. cur = 0 /\ \A s \in Streams : encoder[s].held = <<>>
    BY <2>1 DEF FlowInv, QueueInv
  <2>3. Flowing' => Flowing /\ ("decode" \in failed' <=> "decode" \in failed)
    BY <2>1 DEF Flowing
  <2>4. QueueInv' /\ TrackInv' /\ OrderInv'
    BY <2>1, <2>2, <2>3, OtherStep
  <2>5. EncodedInv'
    BY <2>1, <2>2 DEF EncodedInv, Streams, given
  <2> QED
    BY <2>4, <2>5
<1>2. CASE OpenInputFails \/ OpenOutputFails \/ InitFiltersFails
  <2>1. /\ pc \in {"input", "output", "filters"} /\ pc' = "cleanup"
        /\ UNCHANGED <<given, position, decoder, encoder, cur, out>>
    BY <1>2 DEF OpenInputFails, OpenOutputFails, InitFiltersFails, Fail
  <2>2. ~Flowing'
    <3>1. \E what \in {"open", "info", "decoder", "output", "filter"} : failed' = failed \cup {what}
      BY <1>2 DEF OpenInputFails, OpenOutputFails, InitFiltersFails, Fail
    <3> QED
      BY <3>1 DEF Flowing
  <2>3. cur = 0
    BY <2>1 DEF FlowInv, QueueInv
  <2>4. QueueInv' /\ TrackInv' /\ OrderInv'
    BY <2>1, <2>2, <2>3, OtherStep
  <2> QED
    BY <2>2, <2>4 DEF EncodedInv
<1>3. CASE LoopEnds
  <2>1. /\ pc = "loop" /\ pc' = "flush" /\ flushing' = 1
        /\ UNCHANGED <<given, position, decoder, encoder, cur, out>>
        /\ failed' = failed \/ failed' = failed \cup {"read"}
    BY <1>3 DEF LoopEnds
  <2>2. cur = 0 /\ failed = {}
    BY <2>1, InLoop
  <2>3. Flowing' /\ Flowing /\ ("decode" \in failed' <=> "decode" \in failed)
    BY <2>1, <2>2 DEF Flowing
  <2>4. QueueInv' /\ TrackInv' /\ OrderInv'
    BY <2>1, <2>2, <2>3, OtherStep
  <2>5. EncodedInv'
    BY <2>1, <2>3 DEF FlowInv, EncodedInv, Streams, given
  <2> QED
    BY <2>4, <2>5
<1>4. CASE SkipStream
  <2>1. /\ pc = "flush" /\ pc' = "flush" /\ flushing <= Len(kinds) /\ ~HasGraph(flushing)
        /\ flushing' = flushing + 1
        /\ UNCHANGED <<given, position, decoder, encoder, cur, out, failed>>
    BY <1>4 DEF SkipStream
  <2>2. cur = 0 /\ Flowing /\ ~Filtered(flushing) /\ flushing \in Streams /\ flushing \in Nat
    BY <2>1, InFlush
  <2>3. Flowing'
    BY <2>1, <2>2 DEF Flowing
  <2>4. QueueInv' /\ TrackInv' /\ OrderInv'
    BY <2>1, <2>2, <2>3, OtherStep
  <2>5. \A t \in 1 .. flushing' - 1 : encoder[t].held = <<>>
    <3>1. \A t \in 1 .. flushing' - 1 : t = flushing \/ t \in 1 .. flushing - 1
      BY <2>1, <2>2
    <3>2. encoder[flushing].held = <<>>
      BY <2>2 DEF FlowInv, QueueInv
    <3> QED
      BY <2>1, <2>2, <3>1, <3>2 DEF FlowInv, EncodedInv
  <2>6. EncodedInv'
    BY <2>1, <2>2, <2>5 DEF FlowInv, EncodedInv, Streams, given
  <2> QED
    BY <2>4, <2>6
<1>5. CASE WriteTrailer
  <2>1. /\ pc = "flush" /\ pc' = "cleanup" /\ flushing > Len(kinds)
        /\ UNCHANGED <<given, position, decoder, encoder, cur, out>>
        /\ failed' = failed \/ failed' = failed \cup {"trailer"}
    BY <1>5 DEF WriteTrailer
  <2>2. cur = 0 /\ failed \subseteq {"read", "decode"} /\ flushing \in 1 .. Len(kinds) + 1
    BY <2>1 DEF FlowInv, QueueInv, Inv, FailureInv
  <2>3. Flowing' /\ Flowing /\ ("decode" \in failed' <=> "decode" \in failed)
    BY <2>1, <2>2 DEF Flowing
  <2>4. QueueInv' /\ TrackInv' /\ OrderInv'
    BY <2>1, <2>2, <2>3, OtherStep
  <2>5. \A t \in Streams : encoder[t].held = <<>>
    <3>1. \A t \in Streams : t \in 1 .. flushing - 1
      BY <2>1, <2>2, QueueTypes
    <3> QED
      BY <2>1, <2>3, <3>1 DEF FlowInv, EncodedInv
  <2>6. EncodedInv'
    BY <2>1, <2>5 DEF EncodedInv, Streams, given
  <2> QED
    BY <2>4, <2>6
<1>6. CASE Cleanup \/ CleanupCrashes
  <2>1. /\ pc = "cleanup" /\ pc' \in {"exit", "crash"}
        /\ UNCHANGED <<given, position, decoder, encoder, cur, out, failed>>
    BY <1>6 DEF Cleanup, CleanupCrashes
  <2>2. cur = 0
    BY <2>1 DEF FlowInv, QueueInv
  <2>3. Flowing' <=> Flowing
    BY <2>1 DEF Flowing
  <2>4. QueueInv' /\ TrackInv' /\ OrderInv'
    BY <2>1, <2>2, <2>3, OtherStep
  <2>5. EncodedInv'
    BY <2>1, <2>3 DEF FlowInv, EncodedInv, Streams, given
  <2> QED
    BY <2>4, <2>5
<1>7. CASE UNCHANGED vars
  <2>1. UNCHANGED <<given, position, decoder, encoder, cur, out, failed, pc, flushing>>
    BY <1>7 DEF vars
  <2>2. (cur > 0 <=> pc' = "frame") /\ (Flowing' <=> Flowing)
    BY <2>1 DEF FlowInv, QueueInv, Flowing
  <2>3. QueueInv' /\ TrackInv' /\ OrderInv'
    BY <2>1, <2>2, OtherStep
  <2>4. EncodedInv'
    BY <2>1, <2>2 DEF FlowInv, EncodedInv, Streams, given
  <2> QED
    BY <2>3, <2>4
<1> QED
  BY <1>1, <1>2, <1>3, <1>4, <1>5, <1>6, <1>7, DecodeStep, DecodeFailsStep, RemuxStep, EncodeStep,
     EncodeFailsStep, FlushStep, FlushFailsStep DEF Next, Exit

-----------------------------------------------------------------------------
(* The type invariant, but for what QueueInv says.                          *)

TypeInv ==
  /\ input \in {"none", "opened", "contexts"}
  /\ decoders \subseteq Streams /\ encoders \subseteq {s \in Streams : Filtered(s)}
  /\ nbOut \in 0 .. Len(kinds)
  /\ graph = <<>> \/ graph \in [Streams -> {"unset", "null", "set"}]
  /\ lost \in 0 .. 1 /\ flushing \in 0 .. Len(kinds) + 1
  /\ failed \subseteq {"open", "info", "decoder", "output", "filter", "read", "decode", "encode",
                      "trailer"}
  /\ ret \in {"ok", "error"} /\ status \in {"none", "ok", "error"}
  /\ (status # "none" => pc = "exit")
  /\ pc \in {"input", "output", "filters", "loop", "frame", "flush", "cleanup", "exit", "crash"}

\* The types hold at first.
LEMMA InitType == Init => TypeInv
<1> SUFFICES ASSUME Init PROVE TypeInv
  OBVIOUS
<1>1. Len(kinds) \in Nat
  BY InitInv DEF Inv
<1> QED
  BY <1>1 DEF Init, TypeInv

\* Every step keeps the types.
LEMMA NextType == Inv /\ TypeInv /\ [Next]_vars => TypeInv'
<1> SUFFICES ASSUME Inv, TypeInv, [Next]_vars PROVE TypeInv'
  OBVIOUS
<1>0. Len(kinds) \in Nat /\ Streams = 1 .. Len(kinds)
  BY DEF Inv, Streams
<1> USE DEF TypeInv, given, setUpVars, Streams, Filtered, Fail
<1>1. CASE OpenInput
  BY <1>1 DEF OpenInput
<1>2. CASE OpenInputFails
  <2>1. UNCHANGED <<kinds, encoders, nbOut, graph, flushing, status>> /\ ret' = "error" /\ pc' = "cleanup"
        /\ status = "none"
    BY <1>2 DEF OpenInputFails
  <2>2. decoders' \subseteq Streams /\ lost' \in 0 .. 1 /\ input' \in {"none", "opened", "contexts"}
    BY <1>0, <1>2 DEF OpenInputFails
  <2>3. failed' \subseteq {"open", "info", "decoder", "output", "filter", "read", "decode", "encode",
                          "trailer"}
    BY <1>2 DEF OpenInputFails
  <2> QED
    BY <2>1, <2>2, <2>3
<1>3. CASE OpenOutput
  BY <1>0, <1>3 DEF OpenOutput
<1>4. CASE OpenOutputFails
  <2>1. /\ UNCHANGED <<kinds, input, decoders, graph, flushing, status>> /\ ret' = "error"
        /\ pc' = "cleanup" /\ failed' = failed \cup {"output"} /\ status = "none"
        /\ nbOut' \in 0 .. Len(kinds)
    BY <1>4 DEF OpenOutputFails
  <2>2. lost' \in 0 .. 1
    BY <1>4 DEF OpenOutputFails
  <2>3. encoders' \subseteq {s \in Streams : Filtered(s)}
    BY <1>0, <1>4, <2>1 DEF OpenOutputFails
  <2> QED
    BY <2>1, <2>2, <2>3
<1>5. CASE InitFilters
  BY <1>5 DEF InitFilters, FilledUpTo
<1>6. CASE InitFiltersFails
  <2>1. /\ UNCHANGED <<kinds, input, decoders, encoders, nbOut, flushing, status>>
        /\ ret' = "error" /\ pc' = "cleanup" /\ failed' = failed \cup {"filter"} /\ status = "none"
    BY <1>6 DEF InitFiltersFails
  <2>2. lost' \in 0 .. 1
    BY <1>6 DEF InitFiltersFails
  <2>3. graph' = <<>> \/ graph' \in [Streams -> {"unset", "null", "set"}]
    BY <1>6 DEF InitFiltersFails, FilledUpTo
  <2> QED
    BY <2>1, <2>2, <2>3
<1>7. CASE Remux
  BY <1>7 DEF Remux
<1>8. CASE Decode
  BY <1>8 DEF Decode
<1>9. CASE DecodeFails
  BY <1>0, <1>9 DEF DecodeFails
<1>10. CASE LoopEnds
  <2>1. /\ UNCHANGED <<kinds, setUpVars, status>> /\ status = "none"
        /\ flushing' = 1 /\ ret' = "error" /\ pc' = "flush"
    BY <1>10 DEF LoopEnds
  <2>2. failed' = failed \/ failed' = failed \cup {"read"}
    BY <1>10 DEF LoopEnds
  <2>3. failed' \subseteq {"open", "info", "decoder", "output", "filter", "read", "decode", "encode",
                          "trailer"}
    BY <2>2
  <2> QED
    BY <1>0, <2>1, <2>3
<1>11. CASE FilterEncodeWrite
  BY <1>11 DEF FilterEncodeWrite
<1>12. CASE FilterEncodeWriteFails
  BY <1>12 DEF FilterEncodeWriteFails
<1>13. CASE FlushStream
  BY <1>0, <1>13 DEF FlushStream, FlushResult
<1>14. CASE SkipStream
  BY <1>0, <1>14 DEF SkipStream
<1>15. CASE FlushStreamFails
  BY <1>15 DEF FlushStreamFails
<1>16. CASE WriteTrailer
  BY <1>16 DEF WriteTrailer
<1>17. CASE Cleanup
  BY <1>0, <1>17 DEF Cleanup, Kept
<1>18. CASE CleanupCrashes
  BY <1>18 DEF CleanupCrashes
<1>19. CASE UNCHANGED vars
  BY <1>19 DEF vars
<1> QED
  BY <1>1, <1>2, <1>3, <1>4, <1>5, <1>6, <1>7, <1>8, <1>9, <1>10, <1>11, <1>12, <1>13, <1>14,
     <1>15, <1>16, <1>17, <1>18, <1>19 DEF Next, Exit

\* The parts of the type invariant together.
LEMMA FlowInvTypes == FlowInv /\ TypeInv => TypeOK
<1> SUFFICES ASSUME FlowInv, TypeInv PROVE TypeOK
  OBVIOUS
<1>1. position \in 0 .. Len(packets) /\ cur \in 0 .. Len(packets)
  BY QueueTypes DEF FlowInv, QueueInv
<1>2. \A c \in {decoder, encoder} : \A s \in Streams : c[s] \in Codec(DOMAIN packets)
  <2>1. 1 .. position \subseteq DOMAIN packets
    <3>1. packets \in Seq(Streams)
      BY DEF FlowInv, QueueInv
    <3> QED
      BY <3>1, QueueTypes
  <2>2. \A c : c \in Codec(1 .. position) => c \in Codec(DOMAIN packets)
    BY <2>1, SeqMonotonic DEF Codec
  <2> QED
    BY <2>2, QueueTypes
<1> QED
  BY <1>1, <1>2 DEF TypeInv, TypeOK

\* What the invariant says of what is written.
LEMMA FlowInvWritten == FlowInv /\ TypeInv => WrittenAsRead
<1> SUFFICES ASSUME FlowInv, TypeInv PROVE WrittenAsRead
  OBVIOUS
<1>1. TypeOK
  BY FlowInvTypes
<1>2. position \in Nat /\ out \in Seq(1 .. position) /\ ToSet(out) \subseteq 1 .. position
  BY QueueTypes, SeqElements
<1> SUFFICES ASSUME NEW s \in Streams
             PROVE  LET written == {i \in DOMAIN out : packets[out[i]] = s}
                        left == {p \in 1 .. position : packets[p] = s} \ ToSet(out)
                    IN /\ \A i, j \in written : i < j => out[i] < out[j]
                       /\ \A i \in written, p \in left : out[i] < p
                       /\ status = "ok" =>
                            left = ToSet(decoder[s].held) \cup {p \in Undecodable : packets[p] = s}
  BY <1>1, <1>2 DEF WrittenAsRead
<1> DEFINE written == {i \in DOMAIN out : packets[out[i]] = s}
           left == {p \in 1 .. position : packets[p] = s} \ ToSet(out)
           d == decoder[s].held
<1>3. InOrder(packets, s, position, out)
  BY DEF FlowInv, OrderInv
<1>4. /\ \A i, j \in written : i < j => out[i] < out[j]
      /\ \A i \in written, p \in left : out[i] < p
  BY <1>3 DEF InOrder
<1>5. ASSUME status = "ok"
      PROVE  left = ToSet(d) \cup {p \in Undecodable : packets[p] = s}
  <2>1. pc = "exit" /\ Flowing
    BY <1>5 DEF FlowInv, Inv, TypeInv, StatusTellsEncoding, Flowing
  <2>2. Waiting(s) = <<>>
    <3>1. ~(cur > 0) /\ encoder[s].held = <<>>
      BY <2>1 DEF FlowInv, QueueInv, EncodedInv
    <3> QED
      BY <3>1 DEF Waiting
  <2>3. Tracked(packets, s, position, out, <<>>, d, Undecodable)
    BY <2>1, <2>2, Zenon DEF FlowInv, TrackInv
  <2>4. \A q \in ToSet(d) : packets[q] = s /\ q \notin ToSet(out)
    <3>1. d \in Seq(1 .. position)
      BY QueueTypes
    <3>2. ASSUME NEW i \in DOMAIN out, NEW j \in DOMAIN d, out[i] = d[j] PROVE FALSE
      <4>1. packets[d[j]] = s /\ out[i] < d[j]
        BY <2>3, <3>2 DEF Tracked, Behind
      <4> QED
        BY <1>2, <3>2, <4>1, SeqElements
    <3> QED
      BY <2>3, <3>2 DEF Tracked, Behind, ToSet
  <2>5. ToSet(<<>>) = {}
    BY DEF ToSet
  <2> QED
    BY <2>3, <2>4, <2>5 DEF Tracked
<1> QED
  BY <1>4, <1>5

-----------------------------------------------------------------------------
(* transcoding.c, main: every stream is written in its own order and        *)
(* without a gap, and a run that returns 0 has written all it read but what *)
(* the undrained decoder holds and the packet it could not decode, for      *)
(* every number of streams and packets and any delays of the codecs.        *)
THEOREM StreamsInOrder == Spec => []WrittenAsRead
<1>1. Init => FlowInv /\ TypeInv
  BY InitFlow, InitType
<1>2. FlowInv /\ TypeInv /\ [Next]_vars => FlowInv' /\ TypeInv'
  BY NextFlow, NextType DEF FlowInv
<1>3. FlowInv /\ TypeInv => WrittenAsRead
  BY FlowInvWritten
<1> QED
  BY <1>1, <1>2, <1>3, PTL DEF Spec

=============================================================================
