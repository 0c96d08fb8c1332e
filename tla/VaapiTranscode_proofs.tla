------------------------ MODULE VaapiTranscode_proofs ------------------------
(***************************************************************************)
(* For any file and any delays of the two codecs: the frames between the   *)
(* decoder and the file stay in order whatever fails, nothing is encoded   *)
(* before the header, and the set-up of the encoder is tried twice at      *)
(* most.                                                                   *)
(***************************************************************************)
EXTENDS VaapiTranscode, Libav_proofs

-----------------------------------------------------------------------------
(* Sequences of increasing numbers, one behind the other.                   *)

\* Three queues of numbers up to p, in order within and between them.
Chain(p, o, h, d) ==
  /\ o \in Seq(1 .. p) /\ h \in Seq(1 .. p) /\ d \in Seq(1 .. p)
  /\ Increasing(o) /\ Increasing(h) /\ Increasing(d)
  /\ Before(o, h) /\ Before(o, d) /\ Before(h, d)

LEMMA CatIncreasing ==
  ASSUME NEW p \in Nat, NEW s \in Seq(1 .. p), NEW t \in Seq(1 .. p),
         Increasing(s), Increasing(t), Before(s, t)
  PROVE  s \o t \in Seq(1 .. p) /\ Increasing(s \o t)
<1>1. s \o t \in Seq(1 .. p)
  OBVIOUS
<1>2. ASSUME NEW i \in DOMAIN (s \o t), NEW j \in DOMAIN (s \o t), i < j
      PROVE  (s \o t)[i] < (s \o t)[j]
  <2>1. /\ i \in Nat /\ Len(s) \in Nat
        /\ \/ i \in DOMAIN s /\ (s \o t)[i] = s[i]
           \/ i > Len(s) /\ i - Len(s) \in DOMAIN t /\ (s \o t)[i] = t[i - Len(s)]
    BY CatElements
  <2>2. /\ j \in Nat
        /\ \/ j \in DOMAIN s /\ (s \o t)[j] = s[j]
           \/ j > Len(s) /\ j - Len(s) \in DOMAIN t /\ (s \o t)[j] = t[j - Len(s)]
    BY CatElements
  <2>3. DOMAIN s = 1 .. Len(s)
    OBVIOUS
  <2>4. i - Len(s) < j - Len(s)
    BY <1>2, <2>1, <2>2
  <2>5. CASE j \in DOMAIN s /\ (s \o t)[j] = s[j]
    <3>1. i \in DOMAIN s /\ (s \o t)[i] = s[i]
      BY <1>2, <2>1, <2>3, <2>5
    <3> QED
      BY <1>2, <2>5, <3>1 DEF Increasing
  <2>6. CASE j - Len(s) \in DOMAIN t /\ (s \o t)[j] = t[j - Len(s)]
    <3>1. CASE i \in DOMAIN s /\ (s \o t)[i] = s[i]
      BY <2>6, <3>1 DEF Before
    <3>2. CASE i - Len(s) \in DOMAIN t /\ (s \o t)[i] = t[i - Len(s)]
      BY <2>4, <2>6, <3>2 DEF Increasing
    <3> QED
      BY <2>1, <3>1, <3>2
  <2> QED
    BY <2>2, <2>5, <2>6
<1> QED
  BY <1>1, <1>2 DEF Increasing

LEMMA CatAssociative ==
  ASSUME NEW p \in Nat, NEW s \in Seq(1 .. p), NEW t \in Seq(1 .. p), NEW u \in Seq(1 .. p)
  PROVE  (s \o t) \o u = s \o (t \o u)
<1> DEFINE S == 1 .. p
<1>1. s \in Seq(S) /\ t \in Seq(S) /\ u \in Seq(S)
  OBVIOUS
<1> HIDE DEF S
<1> QED
  BY <1>1, CatAssoc

LEMMA CatBefore ==
  ASSUME NEW p \in Nat, NEW s \in Seq(1 .. p), NEW t \in Seq(1 .. p), NEW u \in Seq(1 .. p)
  PROVE  /\ Before(s, u) /\ Before(t, u) => Before(s \o t, u)
         /\ Before(u, s) /\ Before(u, t) => Before(u, s \o t)
<1>1. ASSUME Before(s, u), Before(t, u), NEW i \in DOMAIN (s \o t), NEW j \in DOMAIN u
      PROVE  (s \o t)[i] < u[j]
  BY <1>1, CatElements DEF Before
<1>2. ASSUME Before(u, s), Before(u, t), NEW i \in DOMAIN (s \o t), NEW j \in DOMAIN u
      PROVE  u[j] < (s \o t)[i]
  BY <1>2, CatElements DEF Before
<1> QED
  BY <1>1, <1>2 DEF Before

\* n numbers leave the middle queue for the first, and m - n are lost.
LEMMA ChainMoves ==
  ASSUME NEW p \in Nat, NEW o, NEW h, NEW d, Chain(p, o, h, d),
         NEW n \in 0 .. Len(h), NEW m \in n .. Len(h)
  PROVE  Chain(p, o \o SubSeq(h, 1, n), SubSeq(h, m + 1, Len(h)), d)
<1> DEFINE u == SubSeq(h, 1, n)
           v == SubSeq(h, m + 1, Len(h))
<1>1. o \in Seq(1 .. p) /\ h \in Seq(1 .. p) /\ d \in Seq(1 .. p)
  BY DEF Chain
<1>2. /\ u \in Seq(1 .. p) /\ v \in Seq(1 .. p)
      /\ \A i \in DOMAIN u : i \in Nat /\ i <= n /\ i \in DOMAIN h /\ u[i] = h[i]
      /\ \A i \in DOMAIN v : i \in Nat /\ i > 0 /\ m + i \in DOMAIN h /\ v[i] = h[m + i]
  BY <1>1, CutElements
<1>3. Len(h) \in Nat /\ n \in Nat /\ m \in Nat /\ n <= m
  BY <1>1
<1> HIDE DEF u, v
<1>4. Increasing(u) /\ Increasing(v) /\ Before(u, v)
  <2>1. Increasing(u)
    BY <1>2 DEF Chain, Increasing
  <2>2. ASSUME NEW i \in DOMAIN v, NEW j \in DOMAIN v, i < j PROVE v[i] < v[j]
    <3>1. m + i < m + j /\ m + i \in DOMAIN h /\ m + j \in DOMAIN h
      BY <1>2, <1>3, <2>2
    <3> QED
      BY <1>2, <3>1 DEF Chain, Increasing
  <2>3. ASSUME NEW i \in DOMAIN u, NEW j \in DOMAIN v PROVE u[i] < v[j]
    <3>1. i < m + j /\ i \in DOMAIN h /\ m + j \in DOMAIN h
      BY <1>2, <1>3
    <3> QED
      BY <1>2, <3>1 DEF Chain, Increasing
  <2> QED
    BY <2>1, <2>2, <2>3 DEF Increasing, Before
<1>5. Before(o, u) /\ Before(o, v) /\ Before(u, d) /\ Before(v, d)
  BY <1>2 DEF Chain, Before
<1>6. Increasing(o) /\ Increasing(d) /\ Before(o, d)
  BY DEF Chain
<1>7. o \o u \in Seq(1 .. p) /\ Increasing(o \o u)
  BY <1>1, <1>2, <1>4, <1>5, <1>6, CatIncreasing
<1>8. Before(o \o u, v) /\ Before(o \o u, d)
  BY <1>1, <1>2, <1>4, <1>5, <1>6, CatBefore
<1>9. Chain(p, o \o u, v, d)
  BY <1>1, <1>2, <1>4, <1>5, <1>6, <1>7, <1>8 DEF Chain
<1> QED
  BY <1>9 DEF u, v

\* The next number joins the last queue.
LEMMA ChainGrows ==
  ASSUME NEW p \in Nat, NEW o, NEW h, NEW d, Chain(p, o, h, d)
  PROVE  Chain(p + 1, o, h, d) /\ Chain(p + 1, o, h, Append(d, p + 1))
<1>1. o \in Seq(1 .. p) /\ h \in Seq(1 .. p) /\ d \in Seq(1 .. p)
  BY DEF Chain
<1>2. 1 .. p \subseteq 1 .. p + 1
  OBVIOUS
<1>3. o \in Seq(1 .. p + 1) /\ h \in Seq(1 .. p + 1) /\ d \in Seq(1 .. p + 1)
  BY <1>1, <1>2, SeqMonotonic
<1>4. Chain(p + 1, o, h, d)
  BY <1>3 DEF Chain
<1> DEFINE e == Append(d, p + 1)
<1>5. /\ e \in Seq(1 .. p + 1) /\ Len(d) \in Nat /\ DOMAIN d = 1 .. Len(d)
      /\ DOMAIN e = 1 .. Len(d) + 1
      /\ \A i \in DOMAIN e : IF i \in DOMAIN d THEN e[i] = d[i] ELSE i = Len(d) + 1 /\ e[i] = p + 1
  BY <1>3
<1> HIDE DEF e
<1>6. /\ \A i \in DOMAIN o : o[i] < p + 1
      /\ \A i \in DOMAIN h : h[i] < p + 1
      /\ \A i \in DOMAIN d : d[i] < p + 1
  <2>1. /\ \A i \in DOMAIN o : o[i] \in 1 .. p
        /\ \A i \in DOMAIN h : h[i] \in 1 .. p
        /\ \A i \in DOMAIN d : d[i] \in 1 .. p
    BY <1>1
  <2> QED
    BY <2>1
<1>7. Increasing(e)
  <2> SUFFICES ASSUME NEW i \in DOMAIN e, NEW j \in DOMAIN e, i < j PROVE e[i] < e[j]
    BY DEF Increasing
  <2>1. i \in DOMAIN d
    BY <1>5
  <2> QED
    BY <1>5, <1>6, <2>1 DEF Chain, Increasing
<1>8. Before(o, e) /\ Before(h, e)
  BY <1>5, <1>6 DEF Chain, Before
<1>9. Chain(p + 1, o, h, e)
  BY <1>3, <1>5, <1>7, <1>8 DEF Chain
<1> QED
  BY <1>4, <1>9 DEF e

\* The last queue's first number joins the middle queue, or is lost.
LEMMA ChainShifts ==
  ASSUME NEW p \in Nat, NEW o, NEW h, NEW d, Chain(p, o, h, d), d # <<>>
  PROVE  /\ Head(d) \in 1 .. p
         /\ Chain(p, o, Append(h, Head(d)), Tail(d)) /\ Chain(p, o, h, Tail(d))
<1>1. o \in Seq(1 .. p) /\ h \in Seq(1 .. p) /\ d \in Seq(1 .. p)
  BY DEF Chain
<1> DEFINE x == Head(d)
           e == Tail(d)
           g == Append(h, x)
<1>2. /\ x \in 1 .. p /\ 1 \in DOMAIN d /\ x = d[1] /\ e \in Seq(1 .. p)
      /\ \A i \in DOMAIN e : i \in Nat /\ i > 0 /\ i + 1 \in DOMAIN d /\ e[i] = d[i + 1]
  <2>1. Len(d) \in Nat /\ Len(d) > 0 /\ DOMAIN d = 1 .. Len(d)
    BY <1>1
  <2>2. x = d[1] /\ e \in Seq(1 .. p) /\ Len(e) = Len(d) - 1
    BY <1>1, <2>1
  <2>3. \A i \in 1 .. Len(e) : e[i] = d[i + 1]
    BY <1>1, <2>1, <2>2
  <2> QED
    BY <1>1, <2>1, <2>2, <2>3
<1>3. /\ g \in Seq(1 .. p) /\ Len(h) \in Nat /\ DOMAIN h = 1 .. Len(h)
      /\ DOMAIN g = 1 .. Len(h) + 1
      /\ \A i \in DOMAIN g : IF i \in DOMAIN h THEN g[i] = h[i] ELSE i = Len(h) + 1 /\ g[i] = x
  BY <1>1, <1>2
<1> HIDE DEF x, e, g
<1>4. Increasing(e) /\ Before(o, e) /\ Before(h, e)
  <2>1. Increasing(e)
    <3> SUFFICES ASSUME NEW i \in DOMAIN e, NEW j \in DOMAIN e, i < j PROVE e[i] < e[j]
      BY DEF Increasing
    <3>1. i + 1 < j + 1
      BY <1>2
    <3> QED
      BY <1>2, <3>1 DEF Chain, Increasing
  <2> QED
    BY <2>1, <1>2 DEF Chain, Before
<1>5. \A i \in DOMAIN e : x < e[i]
  <2> SUFFICES ASSUME NEW i \in DOMAIN e PROVE x < e[i]
    OBVIOUS
  <2>1. 1 < i + 1
    BY <1>2
  <2> QED
    BY <1>2, <2>1 DEF Chain, Increasing
<1>6. Increasing(g)
  <2> SUFFICES ASSUME NEW i \in DOMAIN g, NEW j \in DOMAIN g, i < j PROVE g[i] < g[j]
    BY DEF Increasing
  <2>1. i \in DOMAIN h
    BY <1>3
  <2> QED
    BY <1>2, <1>3, <2>1 DEF Chain, Increasing, Before
<1>7. Before(o, g) /\ Before(g, e)
  BY <1>2, <1>3, <1>4, <1>5 DEF Chain, Before
<1>8. Chain(p, o, g, e) /\ Chain(p, o, h, e)
  BY <1>1, <1>2, <1>3, <1>4, <1>6, <1>7 DEF Chain
<1> QED
  BY <1>2, <1>8 DEF x, e, g

\* The middle queue's last number is lost.
LEMMA ChainDrops ==
  ASSUME NEW p \in Nat, NEW o, NEW h, NEW d, NEW x, Chain(p, o, Append(h, x), d),
         h \in Seq(1 .. p)
  PROVE  Chain(p, o, h, d)
<1> DEFINE g == Append(h, x)
<1>1. \A i \in DOMAIN h : i \in DOMAIN g /\ g[i] = h[i]
  OBVIOUS
<1>2. Increasing(h) /\ Before(o, h) /\ Before(h, d)
  BY <1>1 DEF Chain, Increasing, Before
<1> QED
  BY <1>2 DEF Chain

\* The numbers in all queues are in order.
LEMMA ChainInOrder ==
  ASSUME NEW p \in Nat, NEW o, NEW h, NEW d, Chain(p, o, h, d)
  PROVE  Increasing((o \o h) \o d)
<1>1. o \in Seq(1 .. p) /\ h \in Seq(1 .. p) /\ d \in Seq(1 .. p)
  BY DEF Chain
<1>2. o \o h \in Seq(1 .. p) /\ Increasing(o \o h)
  BY <1>1, CatIncreasing DEF Chain
<1>3. Before(o \o h, d)
  BY <1>1, CatBefore DEF Chain
<1> QED
  BY <1>1, <1>2, <1>3, CatIncreasing DEF Chain

-----------------------------------------------------------------------------
(* The inductive invariant.                                                 *)

\* Frames on their way to the encoder's output.
Waiting == IF cur > 0 THEN Append(encoder.held, cur) ELSE encoder.held

FileInv == streams \in Seq({"video", "other"})

\* Packets read so far are in order in the file, both codecs and dec_enc.
FlowInv ==
  /\ position \in Nat /\ cur \in 0 .. position
  /\ decoder \in Codec(1 .. position) /\ encoder \in Codec(1 .. position)
  /\ Chain(position, out, Waiting, decoder.held)
  /\ out # <<>> \/ encoder.held # <<>> => header

\* The frame and the flag where dec_enc stands.
EncoderInv ==
  /\ cur > 0 <=> pc \in {"init", "encode"}
  /\ initialized => opened
  /\ header <=> initialized
  /\ pc = "init" => ~initialized
  /\ pc = "encode" => initialized
  /\ opened \in BOOLEAN /\ initialized \in BOOLEAN /\ header \in BOOLEAN

\* What is left to try where main and dec_enc stand.
AttemptInv ==
  /\ attempts \in 0 .. 2 /\ ostreams \in Nat /\ ostreams <= attempts
  /\ attempts = 2 => stage = "drain" /\ "init" \in failed
  /\ pc \in {"setup", "loop", "drain"} => stage = "loop"
  /\ pc = "setup" => attempts = 0
  /\ pc \in {"setup", "loop", "receive", "init"} /\ stage = "loop" => initialized \/ attempts = 0
  /\ pc \in {"drain", "receive", "init"} => 
       initialized \/ attempts = 0 \/ (attempts = 1 /\ "init" \in failed)

Inv == TypeOK /\ FileInv /\ FlowInv /\ EncoderInv /\ AttemptInv

LEMMA InitInv == Init => Inv
<1> SUFFICES ASSUME Init PROVE Inv
  OBVIOUS
<1>1. FileInv
  <2>1. PICK n \in 0 .. MaxPackets : streams \in [1 .. n -> {"video", "other"}]
    BY DEF Init
  <2> QED
    BY <2>1, VaapiTranscodeAssumption DEF FileInv
<1>2. TypeOK
  BY <1>1 DEF Init, TypeOK, FileInv, Fresh
<1>3. FlowInv
  <2>1. position = 0 /\ cur = 0 /\ out = <<>> /\ decoder = Fresh /\ encoder = Fresh
    BY DEF Init
  <2>2. Fresh \in Codec(1 .. 0) /\ Fresh.held = <<>>
    BY DEF Fresh, Codec
  <2>3. Chain(position, out, Waiting, decoder.held)
    BY <2>1, <2>2 DEF Waiting, Chain, Increasing, Before
  <2> QED
    BY <2>1, <2>2, <2>3 DEF FlowInv
<1>4. EncoderInv
  <2>1. ~(cur > 0) /\ pc = "setup"
    BY DEF Init
  <2>2. initialized = FALSE /\ opened = FALSE /\ header = FALSE
    BY DEF Init
  <2> QED
    BY <2>1, <2>2, Zenon DEF EncoderInv
<1>5. AttemptInv
  BY DEF Init, AttemptInv
<1> QED
  BY <1>1, <1>2, <1>3, <1>4, <1>5 DEF Inv

-----------------------------------------------------------------------------
(* The set-up of the encoder: what the control of main and dec_enc allows.  *)

LEMMA EncoderNext == Inv /\ Next => EncoderInv' /\ AttemptInv'
<1> SUFFICES ASSUME Inv, Next PROVE EncoderInv' /\ AttemptInv'
  OBVIOUS
<1>0. /\ EncoderInv /\ AttemptInv /\ cur \in Nat /\ stage \in {"loop", "drain"}
  BY DEF Inv, TypeOK, FileInv
<1> USE DEF EncoderInv, AttemptInv, initVars
<1>1. CASE Setup
  BY <1>0, <1>1 DEF Setup
<1>2. CASE ReadPacket
  BY <1>0, <1>2 DEF ReadPacket
<1>3. CASE SendFails
  BY <1>0, <1>3 DEF SendFails, Return
<1>4. CASE LoopEnds
  BY <1>0, <1>4 DEF LoopEnds
<1>5. CASE DrainDecoder
  BY <1>0, <1>5 DEF DrainDecoder
<1>6. CASE Receive
  <2>1. CASE Ready(decoder, DecoderDelay)
    <3>1. position \in Nat /\ decoder.held # <<>> /\ cur' = Head(decoder.held)
      BY <1>6, <2>1 DEF Receive, Ready, Output, Inv, FlowInv
    <3>2. Head(decoder.held) \in 1 .. position
      BY <3>1, ChainShifts DEF Inv, FlowInv
    <3>3. cur' > 0
      BY <3>1, <3>2
    <3> QED
      BY <1>0, <1>6, <2>1, <3>3 DEF Receive
  <2>2. CASE ~Ready(decoder, DecoderDelay)
    BY <1>0, <1>6, <2>2 DEF Receive, Return
  <2> QED
    BY <2>1, <2>2
<1>7. CASE ReceiveFails
  BY <1>0, <1>7 DEF ReceiveFails, Return
<1>8. CASE InitEncoder
  <2>1. CASE Initialize
    BY <1>0, <1>8, <2>1 DEF InitEncoder, Initialize
  <2>2. CASE InitializeFails
    <3>1. /\ pc = "init" /\ ~initialized /\ cur' = 0 /\ UNCHANGED <<initialized, header, stage>>
          /\ attempts' = attempts + 1 /\ failed' = failed \cup {"init"}
          /\ pc' = IF stage = "drain" THEN "flush" ELSE "drain"
      BY <1>0, <1>8, <2>2 DEF InitEncoder, InitializeFails, Return
    <3>2. (ostreams' = ostreams \/ ostreams' = ostreams + 1) /\ opened' \in BOOLEAN
      BY <1>0, <2>2 DEF InitializeFails
    <3>3. attempts = 0 \/ (attempts = 1 /\ stage = "drain")
      BY <1>0, <3>1
    <3>4. EncoderInv'
      BY <1>0, <3>1, <3>2
    <3>5. AttemptInv'
      BY <1>0, <3>1, <3>2, <3>3
    <3> QED
      BY <3>4, <3>5
  <2> QED
    BY <1>8, <2>1, <2>2 DEF InitEncoder
<1>9. CASE EncodeWrite
  BY <1>0, <1>9 DEF EncodeWrite, Return
<1>10. CASE FlushEncoder
  BY <1>0, <1>10 DEF FlushEncoder
<1>11. CASE WriteTrailer
  BY <1>0, <1>11 DEF WriteTrailer
<1>12. CASE End
  BY <1>0, <1>12 DEF End, vars
<1> QED
  BY <1>1, <1>2, <1>3, <1>4, <1>5, <1>6, <1>7, <1>8, <1>9, <1>10, <1>11, <1>12 DEF Next

-----------------------------------------------------------------------------
(* The way of the frames.                                                   *)

\* Of the frames that c holds, n are written and m leave it.
Writes(c, n, m) ==
  /\ encoder' = [c EXCEPT !.held = SubSeq(c.held, m + 1, Len(c.held))]
  /\ out' = out \o SubSeq(c.held, 1, n)

LEMMA MostToWrite ==
  ASSUME NEW S, NEW c \in Codec(S)
  PROVE  (IF c.draining THEN Len(c.held) ELSE Max({0, Len(c.held) - EncoderDelay})) \in 0 .. Len(c.held)
<1>1. Len(c.held) \in Nat /\ EncoderDelay \in Nat
  BY VaapiTranscodeAssumption DEF Codec
<1> DEFINE d == Len(c.held) - EncoderDelay
<1>2. d \in Int /\ d <= Len(c.held)
  BY <1>1
<1> HIDE DEF d
<1>3. Max({0, d}) \in {0, d} /\ Max({0, d}) >= 0
  <2>1. \E x \in {0, d} : \A y \in {0, d} : x >= y
    BY <1>2
  <2> QED
    BY <2>1 DEF Max
<1> QED
  BY <1>1, <1>2, <1>3 DEF d

LEMMA WriteAllWrites ==
  ASSUME NEW S, NEW c \in Codec(S), WriteAll(c)
  PROVE  \E n \in 0 .. Len(c.held) : Writes(c, n, n)
  BY MostToWrite DEF WriteAll, Writes

LEMMA WriteFailsWrites ==
  ASSUME NEW S, NEW c \in Codec(S), NEW unsent, WriteFails(unsent, c)
  PROVE  \/ encoder' = unsent /\ out' = out
         \/ \E n \in 0 .. Len(c.held), m \in 0 .. Len(c.held) : n < m /\ Writes(c, n, m)
<1>1. CASE encoder' = unsent /\ out' = out
  BY <1>1
<1>2. CASE ~(encoder' = unsent /\ out' = out)
  <2> DEFINE most == IF c.draining THEN Len(c.held) ELSE Max({0, Len(c.held) - EncoderDelay})
  <2>1. most \in 0 .. Len(c.held) /\ Len(c.held) \in Nat
    BY MostToWrite DEF Codec
  <2>2. PICK n \in 0 .. most - 1 :
          /\ encoder' = [c EXCEPT !.held = SubSeq(c.held, n + 2, Len(c.held))]
          /\ out' = out \o SubSeq(c.held, 1, n)
    BY <1>2 DEF WriteFails
  <2> HIDE DEF most
  <2>3. n \in 0 .. Len(c.held) /\ n + 1 \in 0 .. Len(c.held) /\ n < n + 1 /\ (n + 1) + 1 = n + 2
    BY ONLY <2>1, n \in 0 .. most - 1
  <2>4. Writes(c, n, n + 1)
    BY <2>2, <2>3 DEF Writes
  <2> QED
    BY <2>3, <2>4
<1> QED
  BY <1>1, <1>2

\* Writing keeps the order, and the encoder its form.
LEMMA WritesKeep ==
  ASSUME NEW c \in Codec(1 .. position), Chain(position, out, c.held, decoder.held),
         position \in Nat,
         NEW n \in 0 .. Len(c.held), NEW m \in 0 .. Len(c.held), n <= m, Writes(c, n, m)
  PROVE  /\ encoder' \in Codec(1 .. position)
         /\ Chain(position, out', encoder'.held, decoder.held)
         /\ c.held = <<>> => encoder'.held = <<>> /\ out' = out
<1>1. /\ c.held \in Seq(1 .. position) /\ c.draining \in BOOLEAN
      /\ out \in Seq(1 .. position)
      /\ Len(c.held) \in Nat /\ n \in Nat /\ m \in n .. Len(c.held)
  BY DEF Codec, Chain
<1>2. encoder' = [held |-> SubSeq(c.held, m + 1, Len(c.held)), draining |-> c.draining]
  BY DEF Writes, Codec
<1>3. Chain(position, out', encoder'.held, decoder.held)
  BY <1>1, <1>2, ChainMoves DEF Writes
<1>4. encoder' \in Codec(1 .. position)
  BY <1>1, <1>2, <1>3 DEF Codec, Chain
<1>5. ASSUME c.held = <<>> PROVE encoder'.held = <<>> /\ out' = out
  <2>1. Len(c.held) = 0 /\ n = 0 /\ m = 0
    BY <1>1, <1>5
  <2>2. SubSeq(c.held, m + 1, Len(c.held)) = <<>> /\ SubSeq(c.held, 1, n) = <<>>
    BY <2>1, SubSeqEmpty
  <2> QED
    BY <1>1, <1>2, <2>2 DEF Writes
<1> QED
  BY <1>3, <1>4, <1>5

LEMMA FlowNext == Inv /\ Next => FlowInv'
<1> SUFFICES ASSUME Inv, Next PROVE FlowInv'
  OBVIOUS
<1>0. /\ position \in Nat /\ cur \in 0 .. position
      /\ decoder \in Codec(1 .. position) /\ encoder \in Codec(1 .. position)
      /\ Chain(position, out, Waiting, decoder.held)
      /\ out # <<>> \/ encoder.held # <<>> => header
      /\ cur > 0 <=> pc \in {"init", "encode"}
      /\ pc = "encode" => header
  BY DEF Inv, FlowInv, EncoderInv
<1>a. CASE UNCHANGED <<position, cur, encoder, decoder, out, header>>
  BY <1>0, <1>a DEF FlowInv, Waiting
<1>b. ASSUME position' = position + 1, UNCHANGED <<cur, encoder, decoder, out, header>>
      PROVE  FlowInv'
  <2>1. Chain(position + 1, out, Waiting, decoder.held)
    BY <1>0, ChainGrows
  <2>2. decoder \in Codec(1 .. position + 1) /\ encoder \in Codec(1 .. position + 1)
    BY <1>0, DecoderForms
  <2>3. position + 1 \in Nat /\ cur \in 0 .. position + 1
    BY <1>0
  <2> QED
    BY <1>0, <1>b, <2>1, <2>2, <2>3 DEF FlowInv, Waiting
<1>c. ASSUME decoder.held # <<>>, decoder' = AfterOutput(decoder),
             UNCHANGED <<position, cur, encoder, out, header>>
      PROVE  FlowInv'
  <2>1. decoder' \in Codec(1 .. position) /\ decoder'.held = Tail(decoder.held)
    BY <1>0, <1>c, DecoderForms
  <2>2. Chain(position, out, Waiting, decoder'.held)
    BY <1>0, <1>c, <2>1, ChainShifts
  <2> QED
    BY <1>0, <1>c, <2>1, <2>2 DEF FlowInv, Waiting
<1>d. ASSUME NEW c \in Codec(1 .. position), Chain(position, out, c.held, decoder.held),
             c.held # <<>> => header,
             NEW n \in 0 .. Len(c.held), NEW m \in 0 .. Len(c.held), n <= m, Writes(c, n, m),
             cur' = 0, UNCHANGED <<position, decoder, header>>
      PROVE  FlowInv'
  <2>1. /\ encoder' \in Codec(1 .. position)
        /\ Chain(position, out', encoder'.held, decoder.held)
        /\ c.held = <<>> => encoder'.held = <<>> /\ out' = out
    BY <1>0, <1>d, WritesKeep
  <2>2. out' # <<>> \/ encoder'.held # <<>> => header
    BY <1>0, <1>d, <2>1
  <2>3. Waiting' = encoder'.held
    BY <1>d DEF Waiting
  <2> QED
    BY <1>0, <1>d, <2>1, <2>2, <2>3 DEF FlowInv
<1>e. ASSUME pc \in {"init", "encode"}, cur' = 0, UNCHANGED <<position, encoder, decoder, out, header>>
      PROVE  FlowInv'
  <2>1. Waiting = Append(encoder.held, cur) /\ encoder.held \in Seq(1 .. position)
    BY <1>0, <1>e DEF Waiting, Codec
  <2>2. Chain(position, out, encoder.held, decoder.held)
    BY <1>0, <2>1, ChainDrops
  <2>3. Waiting' = encoder.held
    BY <1>e DEF Waiting
  <2> QED
    BY <1>0, <1>e, <2>2, <2>3 DEF FlowInv
<1>1. CASE Setup
  BY <1>a, <1>1 DEF Setup, initVars
<1>2. CASE ReadPacket
  <2>1. CASE decoder' = decoder
    BY <1>b, <1>2, <2>1 DEF ReadPacket, initVars
  <2>2. CASE decoder' = Accept(decoder, position + 1)
    <3>1. /\ position' = position + 1 /\ UNCHANGED <<cur, encoder, out, header>>
      BY <1>2 DEF ReadPacket, initVars
    <3>2. /\ decoder'.held = Append(decoder.held, position + 1)
          /\ decoder' \in Codec(1 .. position + 1) /\ encoder \in Codec(1 .. position + 1)
      BY <1>0, <2>2, DecoderForms
    <3>3. Chain(position + 1, out, Waiting, decoder'.held)
      BY <1>0, <3>2, ChainGrows
    <3>4. position + 1 \in Nat /\ cur \in 0 .. position + 1
      BY <1>0
    <3> QED
      BY <1>0, <3>1, <3>2, <3>3, <3>4 DEF FlowInv, Waiting
  <2> QED
    BY <1>2, <2>1, <2>2 DEF ReadPacket
<1>3. CASE SendFails
  BY <1>a, <1>b, <1>3 DEF SendFails, initVars
<1>4. CASE LoopEnds
  BY <1>a, <1>4 DEF LoopEnds, initVars
<1>5. CASE DrainDecoder
  <2>1. decoder' \in Codec(1 .. position) /\ decoder'.held = decoder.held
    BY <1>0, <1>5, DecoderForms DEF DrainDecoder
  <2> QED
    BY <1>0, <1>5, <2>1 DEF DrainDecoder, initVars, FlowInv, Waiting
<1>6. CASE Receive
  <2>1. CASE Ready(decoder, DecoderDelay)
    <3>1. /\ pc = "receive" /\ decoder.held # <<>>
          /\ cur' = Output(decoder) /\ decoder' = AfterOutput(decoder)
          /\ UNCHANGED <<position, encoder, out, header>>
      BY <1>6, <2>1 DEF Receive, Ready, initVars
    <3>2. /\ decoder' \in Codec(1 .. position) /\ decoder'.held = Tail(decoder.held)
          /\ cur' \in 1 .. position /\ cur' = Head(decoder.held)
      BY <1>0, <3>1, DecoderForms DEF Output
    <3>3. Waiting = encoder.held /\ Waiting' = Append(encoder.held, Head(decoder.held))
      BY <1>0, <3>1, <3>2 DEF Waiting
    <3>4. Chain(position, out, Waiting', decoder'.held)
      BY <1>0, <3>1, <3>2, <3>3, ChainShifts
    <3>5. cur' \in 0 .. position
      BY <1>0, <3>2
    <3> QED
      BY <1>0, <3>1, <3>2, <3>4, <3>5 DEF FlowInv
  <2>2. CASE ~Ready(decoder, DecoderDelay)
    BY <1>a, <1>6, <2>2 DEF Receive, initVars
  <2> QED
    BY <2>1, <2>2
<1>7. CASE ReceiveFails
  BY <1>a, <1>c, <1>7 DEF ReceiveFails, Ready, initVars
<1>8. CASE InitEncoder
  <2>1. CASE Initialize
    BY <1>0, <1>8, <2>1 DEF InitEncoder, Initialize, FlowInv, Waiting
  <2>2. CASE InitializeFails
    BY <1>e, <1>8, <2>2 DEF InitEncoder, InitializeFails
  <2> QED
    BY <1>8, <2>1, <2>2 DEF InitEncoder
<1>9. CASE EncodeWrite
  <2> DEFINE c == Accept(encoder, cur)
  <2>1. /\ pc = "encode" /\ header /\ cur > 0 /\ cur' = 0 /\ UNCHANGED <<position, decoder, header>>
        /\ WriteAll(c) \/ WriteFails(encoder, c)
    BY <1>0, <1>9 DEF EncodeWrite, initVars
  <2>2. c.held = Waiting /\ c \in Codec(1 .. position)
    <3>1. c = [held |-> Append(encoder.held, cur), draining |-> encoder.draining]
      BY <1>0, HeldReplaced, Zenon DEF Accept
    <3>2. Waiting = Append(encoder.held, cur)
      BY <2>1 DEF Waiting
    <3>3. Waiting \in Seq(1 .. position) /\ encoder.draining \in BOOLEAN
      BY <1>0 DEF Chain, Codec
    <3> HIDE DEF c
    <3> QED
      BY <3>1, <3>2, <3>3 DEF Codec
  <2> HIDE DEF c
  <2>3. CASE encoder' = encoder /\ out' = out
    BY <1>e, <2>1, <2>3
  <2>4. CASE \E n \in 0 .. Len(c.held), m \in 0 .. Len(c.held) : n <= m /\ Writes(c, n, m)
    <3>1. PICK n \in 0 .. Len(c.held), m \in 0 .. Len(c.held) : n <= m /\ Writes(c, n, m)
      BY <2>4
    <3> QED
      BY <1>0, <1>d, <2>1, <2>2, <3>1
  <2>5. Len(c.held) \in Nat
    BY <2>2 DEF Codec
  <2>6. CASE WriteAll(c)
    <3>1. PICK n \in 0 .. Len(c.held) : Writes(c, n, n)
      BY <2>2, <2>6, WriteAllWrites
    <3> QED
      BY <2>4, <2>5, <3>1
  <2>7. CASE WriteFails(encoder, c)
    <3>1. \/ encoder' = encoder /\ out' = out
          \/ \E n \in 0 .. Len(c.held), m \in 0 .. Len(c.held) : n < m /\ Writes(c, n, m)
      BY <2>2, <2>7, WriteFailsWrites
    <3> QED
      BY <2>3, <2>4, <2>5, <3>1
  <2> QED
    BY <2>1, <2>6, <2>7
<1>10. CASE FlushEncoder
  <2> DEFINE c == Drain(encoder)
  <2>1. /\ pc = "flush" /\ UNCHANGED <<cur, position, decoder, header>>
        /\ (encoder' = encoder /\ out' = out) \/ WriteAll(c) \/ WriteFails(c, c)
    BY <1>10 DEF FlushEncoder, FlushAll, initVars
  <2>2. cur = 0 /\ Waiting = encoder.held /\ c.held = encoder.held /\ c \in Codec(1 .. position)
    BY <1>0, <2>1, DecoderForms DEF Waiting
  <2>3. /\ Chain(position, out, c.held, decoder.held) /\ (c.held # <<>> => header)
        /\ Len(c.held) \in Nat /\ cur' = 0
    BY <1>0, <2>1, <2>2 DEF Codec
  <2> HIDE DEF c
  <2>4. CASE \E n \in 0 .. Len(c.held), m \in 0 .. Len(c.held) : n <= m /\ Writes(c, n, m)
    <3>1. PICK n \in 0 .. Len(c.held), m \in 0 .. Len(c.held) : n <= m /\ Writes(c, n, m)
      BY <2>4
    <3> QED
      BY <1>0, <1>d, <2>1, <2>2, <2>3, <3>1
  <2>5. CASE encoder' = encoder /\ out' = out
    BY <1>a, <2>1, <2>5
  <2>6. CASE WriteAll(c)
    <3>1. PICK n \in 0 .. Len(c.held) : Writes(c, n, n)
      BY <2>2, <2>6, WriteAllWrites
    <3> QED
      BY <2>3, <2>4, <3>1
  <2>7. CASE WriteFails(c, c)
    <3>1. CASE encoder' = c /\ out' = out
      BY <1>0, <2>1, <2>2, <2>3, <3>1 DEF FlowInv, Waiting
    <3>2. CASE \E n \in 0 .. Len(c.held), m \in 0 .. Len(c.held) : n < m /\ Writes(c, n, m)
      BY <2>3, <2>4, <3>2
    <3> QED
      BY <2>2, <2>7, <3>1, <3>2, WriteFailsWrites
  <2> QED
    BY <2>1, <2>5, <2>6, <2>7
<1>11. CASE WriteTrailer
  BY <1>a, <1>11 DEF WriteTrailer, initVars
<1>12. CASE End
  BY <1>a, <1>12 DEF End, vars
<1> QED
  BY <1>1, <1>2, <1>3, <1>4, <1>5, <1>6, <1>7, <1>8, <1>9, <1>10, <1>11, <1>12 DEF Next

-----------------------------------------------------------------------------
LEMMA TypeNext == Inv /\ Next /\ FlowInv' /\ EncoderInv' => TypeOK'
<1> SUFFICES ASSUME Inv, Next, FlowInv', EncoderInv' PROVE TypeOK'
  OBVIOUS
<1>1. TypeOK /\ Len(streams) \in Nat /\ DOMAIN streams = 1 .. Len(streams)
  BY DEF Inv, FileInv
<1>2. streams' = streams /\ position' \in 0 .. Len(streams)
  <2>1. /\ streams' = streams
        /\ \/ position' = position
           \/ position < Len(streams) /\ position' = position + 1
    BY DEF Next, Setup, ReadPacket, SendFails, LoopEnds, DrainDecoder, Receive,
       ReceiveFails, InitEncoder, EncodeWrite, FlushEncoder, WriteTrailer, End, vars
  <2>2. position \in 0 .. Len(streams)
    BY <1>1 DEF TypeOK
  <2> QED
    BY <1>1, <2>1, <2>2
<1>3. decoder' \in Codec(DOMAIN streams') /\ encoder' \in Codec(DOMAIN streams')
  <2>1. 1 .. position' \subseteq DOMAIN streams'
    BY <1>1, <1>2
  <2>2. Seq(1 .. position') \subseteq Seq(DOMAIN streams')
    BY <2>1, SeqMonotonic
  <2> QED
    BY <2>2 DEF FlowInv, Codec
<1>4. cur' \in 0 .. Len(streams')
  BY <1>1, <1>2 DEF FlowInv
<1>5. /\ stage' \in {"loop", "drain"} /\ ret' \in {"ok", "error"}
      /\ trailer' \in {"none", "written", "early"}
  BY <1>1 DEF TypeOK, Next, Setup, ReadPacket, SendFails, LoopEnds, DrainDecoder, Receive,
     ReceiveFails, InitEncoder, Initialize, InitializeFails, EncodeWrite, FlushEncoder,
     WriteTrailer, End, vars
<1>6. failed' \subseteq {"setup", "read", "decode", "init", "encode"}
  BY <1>1 DEF TypeOK, Next, Setup, ReadPacket, SendFails, LoopEnds, DrainDecoder, Receive,
     ReceiveFails, InitEncoder, Initialize, InitializeFails, EncodeWrite, FlushEncoder,
     WriteTrailer, End, vars
<1>7. pc' \in {"setup", "loop", "drain", "receive", "init", "encode", "flush", "trailer", "end"}
  BY <1>1 DEF TypeOK, Next, Setup, ReadPacket, SendFails, LoopEnds, DrainDecoder, Receive,
     ReceiveFails, InitEncoder, Initialize, InitializeFails, EncodeWrite, FlushEncoder,
     WriteTrailer, End, vars, Return
<1>8. /\ encoder'.held # <<>> => opened'
      /\ pc' = "encode" => cur' > 0 /\ opened'
  BY DEF FlowInv, EncoderInv
<1> QED
  BY <1>2, <1>3, <1>4, <1>5, <1>6, <1>7, <1>8 DEF TypeOK, Codec

LEMMA NextInv == Inv /\ [Next]_vars => Inv'
<1>1. Inv /\ Next => Inv'
  <2> SUFFICES ASSUME Inv, Next PROVE Inv'
    OBVIOUS
  <2>1. FileInv'
    BY DEF Inv, FileInv, Next, Setup, ReadPacket, SendFails, LoopEnds, DrainDecoder, Receive,
       ReceiveFails, InitEncoder, EncodeWrite, FlushEncoder, WriteTrailer, End, vars
  <2>2. FlowInv' /\ EncoderInv' /\ AttemptInv'
    BY FlowNext, EncoderNext
  <2> QED
    BY <2>1, <2>2, TypeNext DEF Inv
<1>2. Inv /\ UNCHANGED vars => Inv'
  BY DEF Inv, TypeOK, FileInv, FlowInv, Waiting, EncoderInv, AttemptInv, vars
<1> QED
  BY <1>1, <1>2

-----------------------------------------------------------------------------
(* The theorems.                                                            *)

\* Frames pass through both codecs at most once and in order, whatever fails,
\* and none reaches the encoder or the muxer before the header is written.
THEOREM FramesInOrder == Spec => []OutputWellFormed
<1>1. Inv => OutputWellFormed
  <2> SUFFICES ASSUME Inv PROVE OutputWellFormed
    OBVIOUS
  <2> DEFINE now == IF cur > 0 THEN <<cur>> ELSE <<>>
             seen == out \o encoder.held \o now \o decoder.held
  <2>1. /\ position \in Nat /\ cur \in 0 .. position /\ Chain(position, out, Waiting, decoder.held)
        /\ encoder.held \in Seq(1 .. position)
    BY DEF Inv, FlowInv, Codec
  <2>2. /\ out \in Seq(1 .. position) /\ decoder.held \in Seq(1 .. position)
        /\ now \in Seq(1 .. position)
    <3>1. out \in Seq(1 .. position) /\ decoder.held \in Seq(1 .. position)
      BY <2>1 DEF Chain
    <3>2. cur > 0 => cur \in 1 .. position
      BY <2>1
    <3>3. now \in Seq(1 .. position)
      <4>1. CASE cur > 0
        BY <3>2, <4>1
      <4>2. CASE ~(cur > 0)
        BY <4>2
      <4> QED
        BY <4>1, <4>2
    <3> QED
      BY <3>1, <3>3
  <2>3. Waiting = encoder.held \o now
    <3>1. CASE cur > 0
      <4>1. cur \in 1 .. position
        BY <2>1, <3>1
      <4>2. Append(encoder.held, cur) = encoder.held \o <<cur>>
        BY <2>1, <4>1, AppendIsConcat
      <4> QED
        BY <3>1, <4>2 DEF Waiting
    <3>2. CASE ~(cur > 0)
      BY <2>1, <3>2, ConcatEmptySeq DEF Waiting
    <3> QED
      BY <3>1, <3>2
  <2> HIDE DEF now
  <2>4. (out \o encoder.held) \o now = out \o Waiting
    BY <2>1, <2>2, <2>3, CatAssociative
  <2>5. Increasing(seen)
    BY <2>1, <2>4, ChainInOrder
  <2>6. out # <<>> \/ encoder.held # <<>> => header
    BY DEF Inv, FlowInv
  <2>7. TypeOK
    BY DEF Inv
  <2> QED
    BY <2>5, <2>6, <2>7 DEF OutputWellFormed, Increasing, now
<1> QED
  BY <1>1, InitInv, NextInv, PTL DEF Spec

\* The set-up of the encoder is tried twice at most, the second time only by
\* the drain of the decoder after the first has failed.
THEOREM SetUpTriedTwiceAtMost == Spec => []RetriedOnlyByDrain
<1>1. Inv => RetriedOnlyByDrain
  BY DEF Inv, AttemptInv, RetriedOnlyByDrain
<1> QED
  BY <1>1, InitInv, NextInv, PTL DEF Spec

-----------------------------------------------------------------------------
(* A run without failure: where the frames are, and what the drains leave.  *)

\* The frames of all packets read are somewhere.
CoverInv ==
  failed = {} =>
    ToSet(out) \cup ToSet(Waiting) \cup ToSet(decoder.held) =
      {i \in 1 .. position : streams[i] = "video"}

\* How far reading and the two drains are.
DrainInv ==
  failed = {} =>
    /\ stage = "drain" \/ pc \in {"drain", "flush", "trailer", "end"} => position = Len(streams)
    /\ stage = "drain" => decoder.draining
    /\ pc \in {"flush", "trailer", "end"} => decoder.held = <<>>
    /\ pc \in {"trailer", "end"} => encoder.held = <<>> /\ (header => ret = "ok")
    /\ pc = "end" => (header => trailer = "written")

CleanInv == Inv /\ CoverInv /\ DrainInv

LEMMA DrainNext == CleanInv /\ Next => DrainInv'
<1> SUFFICES ASSUME CleanInv, Next, failed' = {} PROVE DrainInv'
  BY DEF DrainInv
<1>0. /\ position \in Nat /\ stage \in {"loop", "drain"}
      /\ pc \in {"setup", "loop", "drain"} => stage = "loop"
      /\ header => opened
      /\ encoder.held # <<>> => opened
      /\ streams' = streams
  BY DEF CleanInv, Inv, FlowInv, TypeOK, EncoderInv, AttemptInv, Next, Setup, ReadPacket, SendFails,
     LoopEnds, DrainDecoder, Receive, ReceiveFails, InitEncoder, EncodeWrite, FlushEncoder,
     WriteTrailer, End, vars
<1>00. failed = {} => /\ stage = "drain" \/ pc \in {"drain", "flush", "trailer", "end"} => position = Len(streams)
                      /\ stage = "drain" => decoder.draining
                      /\ pc \in {"flush", "trailer", "end"} => decoder.held = <<>>
                      /\ pc \in {"trailer", "end"} => encoder.held = <<>> /\ (header => ret = "ok")
                      /\ pc = "end" => (header => trailer = "written")
  BY DEF CleanInv, DrainInv
<1> USE DEF DrainInv, initVars
<1>1. CASE Setup
  BY <1>0, <1>00, <1>1 DEF Setup
<1>2. CASE ReadPacket
  BY <1>0, <1>00, <1>2 DEF ReadPacket
<1>3. CASE SendFails
  BY <1>3 DEF SendFails
<1>4. CASE LoopEnds
  BY <1>0, <1>00, <1>4 DEF LoopEnds
<1>5. CASE DrainDecoder
  <2>1. decoder'.draining = TRUE
    <3>1. decoder \in Codec(1 .. position)
      BY DEF CleanInv, Inv, FlowInv
    <3>2. decoder' = [held |-> decoder.held, draining |-> TRUE]
      BY <1>5, <3>1, DrainingReplaced, Zenon DEF DrainDecoder, Drain
    <3> QED
      BY <3>2
  <2> QED
    BY <1>0, <1>00, <1>5, <2>1 DEF DrainDecoder
<1>6. CASE Receive
  <2>1. CASE Ready(decoder, DecoderDelay)
    <3>1. decoder \in Codec(1 .. position)
      BY DEF CleanInv, Inv, FlowInv
    <3>2. AfterOutput(decoder) = [held |-> Tail(decoder.held), draining |-> decoder.draining]
      BY <3>1, HeldReplaced, Zenon DEF AfterOutput
    <3>3. decoder'.draining = decoder.draining
      BY <1>6, <2>1, <3>2 DEF Receive
    <3> QED
      BY <1>0, <1>00, <1>6, <2>1, <3>3 DEF Receive
  <2>2. CASE ~Ready(decoder, DecoderDelay)
    <3>1. decoder.draining => decoder.held = <<>>
      BY <2>2 DEF Ready
    <3> QED
      BY <1>0, <1>00, <1>6, <2>2, <3>1 DEF Receive, Return
  <2> QED
    BY <2>1, <2>2
<1>7. CASE ReceiveFails
  BY <1>7 DEF ReceiveFails
<1>8. CASE InitEncoder
  <2>1. CASE Initialize
    BY <1>0, <1>00, <1>8, <2>1 DEF InitEncoder, Initialize
  <2>2. CASE InitializeFails
    BY <2>2 DEF InitializeFails
  <2> QED
    BY <1>8, <2>1, <2>2 DEF InitEncoder
<1>9. CASE EncodeWrite
  <2>1. pc' = "receive" /\ UNCHANGED <<position, stage, decoder, failed>>
    BY <1>9 DEF EncodeWrite
  <2> QED
    BY <1>0, <1>00, <2>1
<1>10. CASE FlushEncoder
  <2>1. /\ pc = "flush" /\ pc' = "trailer" /\ failed = {}
        /\ UNCHANGED <<position, decoder, stage, header>>
    BY <1>10 DEF FlushEncoder
  <2>2. CASE ~opened
    BY <1>0, <1>00, <1>10, <2>1, <2>2 DEF FlushEncoder
  <2>3. CASE opened
    <3>1. WriteAll(Drain(encoder)) /\ ret' = "ok"
      BY <1>10, <2>3 DEF FlushEncoder, FlushAll
    <3>2. encoder \in Codec(1 .. position) /\ encoder.held \in Seq(1 .. position)
      BY DEF CleanInv, Inv, FlowInv, Codec
    <3>3. Drain(encoder) = [held |-> encoder.held, draining |-> TRUE]
      BY <3>2, DrainingReplaced, Zenon DEF Drain
    <3>4. encoder' = [Drain(encoder) EXCEPT !.held = SubSeq(encoder.held, Len(encoder.held) + 1, Len(encoder.held))]
      BY <3>1, <3>3 DEF WriteAll
    <3>5. SubSeq(encoder.held, Len(encoder.held) + 1, Len(encoder.held)) = <<>>
      BY <3>2, SubSeqEmpty
    <3>6. encoder'.held = <<>>
      BY <3>3, <3>4, <3>5
    <3> QED
      BY <1>0, <1>00, <2>1, <3>1, <3>6
  <2> QED
    BY <2>2, <2>3
<1>11. CASE WriteTrailer
  BY <1>0, <1>00, <1>11 DEF WriteTrailer
<1>12. CASE End
  BY <1>0, <1>00, <1>12 DEF End, vars
<1> QED
  BY <1>1, <1>2, <1>3, <1>4, <1>5, <1>6, <1>7, <1>8, <1>9, <1>10, <1>11, <1>12 DEF Next

LEMMA CoverNext == CleanInv /\ Next => CoverInv'
<1> SUFFICES ASSUME CleanInv, Next, failed' = {}
             PROVE  ToSet(out') \cup ToSet(Waiting') \cup ToSet(decoder'.held) =
                      {i \in 1 .. position' : streams'[i] = "video"}
  BY DEF CoverInv
<1>0. /\ position \in Nat /\ cur \in 0 .. position
      /\ decoder \in Codec(1 .. position) /\ encoder \in Codec(1 .. position)
      /\ out \in Seq(1 .. position) /\ Waiting \in Seq(1 .. position)
      /\ decoder.held \in Seq(1 .. position)
      /\ cur > 0 <=> pc \in {"init", "encode"}
  BY DEF CleanInv, Inv, FlowInv, EncoderInv, Chain
<1>00. failed = {} => ToSet(out) \cup ToSet(Waiting) \cup ToSet(decoder.held) =
                        {i \in 1 .. position : streams[i] = "video"}
  BY DEF CleanInv, CoverInv
<1> USE DEF initVars
<1>a. ASSUME UNCHANGED <<streams, position, cur, encoder, decoder, out, failed>>
      PROVE  ToSet(out') \cup ToSet(Waiting') \cup ToSet(decoder'.held) =
               {i \in 1 .. position' : streams'[i] = "video"}
  BY <1>00, <1>a DEF Waiting
<1>b. ASSUME NEW c \in Codec(1 .. position), c.held = Waiting, WriteAll(c), cur' = 0,
             UNCHANGED <<streams, position, decoder, failed>>
      PROVE  ToSet(out') \cup ToSet(Waiting') \cup ToSet(decoder'.held) =
               {i \in 1 .. position' : streams'[i] = "video"}
  <2>1. PICK n \in 0 .. Len(c.held) : Writes(c, n, n)
    BY <1>b, WriteAllWrites
  <2>2. encoder' = [held |-> SubSeq(c.held, n + 1, Len(c.held)), draining |-> c.draining]
    BY <2>1, HeldReplaced DEF Writes
  <2>3. Waiting' = SubSeq(c.held, n + 1, Len(c.held))
    <3> DEFINE rest == SubSeq(c.held, n + 1, Len(c.held))
    <3>1. encoder' = [held |-> rest, draining |-> c.draining]
      BY <2>2
    <3> HIDE DEF rest
    <3>2. encoder'.held = rest
      BY <3>1
    <3>3. Waiting' = encoder'.held
      BY <1>b DEF Waiting
    <3> QED
      BY <3>2, <3>3 DEF rest
  <2>4. ToSet(out') = ToSet(out) \cup ToSet(SubSeq(c.held, 1, n))
    <3>1. SubSeq(c.held, 1, n) \in Seq(1 .. position)
      <4>1. Len(c.held) \in Nat /\ n \in n .. Len(c.held)
        BY <1>0, <1>b
      <4> QED
        BY <1>0, <1>b, <4>1, CutElements
    <3> DEFINE S == 1 .. position
               u == SubSeq(c.held, 1, n)
    <3>2. out \in Seq(S) /\ u \in Seq(S) /\ out' = out \o u
      BY <1>0, <2>1, <3>1 DEF Writes
    <3> HIDE DEF S, u
    <3>3. ToSet(out \o u) = ToSet(out) \cup ToSet(u)
      BY <3>2, SetOfCat
    <3> QED
      BY <3>2, <3>3 DEF u
  <2>5. ToSet(SubSeq(c.held, 1, n)) \cup ToSet(SubSeq(c.held, n + 1, Len(c.held))) = ToSet(Waiting)
    BY <1>0, <1>b, SetOfCut
  <2> QED
    BY <1>00, <1>b, <2>3, <2>4, <2>5
<1>1. CASE Setup
  BY <1>a, <1>1 DEF Setup
<1>2. CASE ReadPacket
  <2>1. /\ position' = position + 1 /\ UNCHANGED <<streams, cur, encoder, out, failed>>
        /\ Waiting' = Waiting
    BY <1>2 DEF ReadPacket, Waiting
  <2>2. CASE streams[position + 1] = "other"
    <3>1. decoder' = decoder
      BY <1>2, <2>1, <2>2 DEF ReadPacket
    <3>2. {i \in 1 .. position + 1 : streams[i] = "video"} = {i \in 1 .. position : streams[i] = "video"}
      BY <1>0, <2>2
    <3> QED
      BY <1>00, <2>1, <3>1, <3>2
  <2>3. CASE streams[position + 1] # "other"
    <3>1. streams[position + 1] = "video"
      <4>1. position + 1 \in 1 .. Len(streams)
        BY <1>0, <1>2 DEF ReadPacket, CleanInv, Inv, FileInv
      <4>2. streams[position + 1] \in {"video", "other"}
        BY <4>1, ElementOfSeq DEF CleanInv, Inv, FileInv
      <4> QED
        BY <2>3, <4>2
    <3>2. decoder' = Accept(decoder, position + 1)
      BY <1>2, <2>1, <2>3 DEF ReadPacket
    <3>3. decoder'.held = Append(decoder.held, position + 1)
      BY <1>0, <3>2, DecoderForms
    <3>4. ToSet(decoder'.held) = ToSet(decoder.held) \cup {position + 1}
      BY <1>0, <3>3, SetOfAppend
    <3>5. {i \in 1 .. position + 1 : streams[i] = "video"} =
            {i \in 1 .. position : streams[i] = "video"} \cup {position + 1}
      BY <1>0, <3>1
    <3> QED
      BY <1>00, <2>1, <3>4, <3>5
  <2> QED
    BY <2>2, <2>3
<1>3. CASE SendFails
  BY <1>3 DEF SendFails
<1>4. CASE LoopEnds
  <2>1. failed' = failed
    BY <1>4 DEF LoopEnds
  <2> QED
    BY <1>a, <1>4, <2>1 DEF LoopEnds
<1>5. CASE DrainDecoder
  <2>1. /\ decoder' = Drain(decoder) /\ UNCHANGED <<streams, position, out, failed>>
        /\ Waiting' = Waiting
    BY <1>5 DEF DrainDecoder, Waiting
  <2>2. decoder'.held = decoder.held
    BY <1>0, <2>1, DecoderForms
  <2> QED
    BY <1>00, <2>1, <2>2
<1>6. CASE Receive
  <2>1. CASE Ready(decoder, DecoderDelay)
    <3>1. /\ pc = "receive" /\ decoder.held # <<>>
          /\ cur' = Output(decoder) /\ decoder' = AfterOutput(decoder)
          /\ UNCHANGED <<streams, position, encoder, out, failed>>
      BY <1>6, <2>1 DEF Receive, Ready
    <3>2. /\ decoder'.held = Tail(decoder.held)
          /\ cur' \in 1 .. position /\ cur' = Head(decoder.held)
      BY <1>0, <3>1, DecoderForms DEF Output
    <3>3. Waiting = encoder.held /\ Waiting' = Append(encoder.held, Head(decoder.held))
      BY <1>0, <3>1, <3>2 DEF Waiting
    <3>4. ToSet(Waiting') = ToSet(Waiting) \cup {Head(decoder.held)}
      BY <1>0, <3>3, SetOfAppend
    <3>5. ToSet(decoder.held) = {Head(decoder.held)} \cup ToSet(decoder'.held)
      BY <1>0, <3>1, <3>2, SetOfTail
    <3> QED
      BY <1>00, <3>1, <3>4, <3>5
  <2>2. CASE ~Ready(decoder, DecoderDelay)
    BY <1>a, <1>6, <2>2 DEF Receive
  <2> QED
    BY <2>1, <2>2
<1>7. CASE ReceiveFails
  BY <1>7 DEF ReceiveFails
<1>8. CASE InitEncoder
  <2>1. CASE Initialize
    BY <1>a, <1>8, <2>1 DEF InitEncoder, Initialize
  <2>2. CASE InitializeFails
    BY <2>2 DEF InitializeFails
  <2> QED
    BY <1>8, <2>1, <2>2 DEF InitEncoder
<1>9. CASE EncodeWrite
  <2> DEFINE c == Accept(encoder, cur)
  <2>1. /\ pc = "encode" /\ cur' = 0 /\ UNCHANGED <<streams, position, decoder>>
        /\ WriteAll(c) /\ failed' = failed
    BY <1>9 DEF EncodeWrite
  <2>2. c.held = Waiting /\ c \in Codec(1 .. position)
    <3>1. c = [held |-> Append(encoder.held, cur), draining |-> encoder.draining]
      BY <1>0, HeldReplaced, Zenon DEF Accept
    <3>2. Waiting = Append(encoder.held, cur)
      BY <1>0, <2>1 DEF Waiting
    <3>3. encoder.draining \in BOOLEAN
      BY <1>0 DEF Codec
    <3> HIDE DEF c
    <3> QED
      BY <1>0, <3>1, <3>2, <3>3 DEF Codec
  <2> HIDE DEF c
  <2> QED
    BY <1>b, <2>1, <2>2
<1>10. CASE FlushEncoder
  <2> DEFINE c == Drain(encoder)
  <2>1. /\ pc = "flush" /\ UNCHANGED <<streams, cur, position, decoder, failed>>
        /\ (encoder' = encoder /\ out' = out) \/ WriteAll(c)
    BY <1>10 DEF FlushEncoder, FlushAll
  <2>2. cur' = 0 /\ c.held = Waiting /\ c \in Codec(1 .. position)
    BY <1>0, <2>1, DecoderForms DEF Waiting
  <2> HIDE DEF c
  <2> QED
    BY <1>a, <1>b, <2>1, <2>2
<1>11. CASE WriteTrailer
  BY <1>a, <1>11 DEF WriteTrailer
<1>12. CASE End
  BY <1>a, <1>12 DEF End, vars
<1> QED
  BY <1>1, <1>2, <1>3, <1>4, <1>5, <1>6, <1>7, <1>8, <1>9, <1>10, <1>11, <1>12 DEF Next

LEMMA InitCleanInv == Init => CleanInv
<1> SUFFICES ASSUME Init PROVE CleanInv
  OBVIOUS
<1>1. Inv
  BY InitInv
<1>2. /\ position = 0 /\ cur = 0 /\ out = <<>> /\ decoder.held = <<>> /\ encoder.held = <<>>
      /\ stage = "loop" /\ pc = "setup"
  BY DEF Init, Fresh
<1>3. CoverInv
  <2>1. DOMAIN <<>> = {}
    OBVIOUS
  <2> QED
    BY <1>2, <2>1 DEF CoverInv, Waiting, ToSet
<1>4. DrainInv
  BY <1>2 DEF DrainInv
<1> QED
  BY <1>1, <1>3, <1>4 DEF CleanInv

LEMMA NextCleanInv == CleanInv /\ [Next]_vars => CleanInv'
<1>1. CleanInv /\ Next => CleanInv'
  BY NextInv, DrainNext, CoverNext DEF CleanInv
<1>2. CleanInv /\ UNCHANGED vars => CleanInv'
  BY NextInv DEF CleanInv, CoverInv, DrainInv, Waiting, vars
<1> QED
  BY <1>1, <1>2

\* A run in which nothing fails writes the frames of all packets of the stream
\* in order, and if there is one, between header and trailer and with status 0.
THEOREM CleanRunsComplete == Spec => []CleanRunTranscodesAll
<1>1. CleanInv => CleanRunTranscodesAll
  <2> SUFFICES ASSUME CleanInv, pc = "end", failed = {}
               PROVE  /\ ToSet(out) = VideoPackets
                      /\ \A i, j \in DOMAIN out : i < j => out[i] < out[j]
                      /\ out # <<>> => trailer = "written" /\ ret = "ok"
    BY DEF CleanRunTranscodesAll
  <2>1. /\ position = Len(streams) /\ decoder.held = <<>> /\ encoder.held = <<>>
        /\ header => ret = "ok" /\ trailer = "written"
    BY DEF CleanInv, DrainInv
  <2>2. Waiting = <<>>
    BY <2>1 DEF CleanInv, Inv, TypeOK, EncoderInv, FlowInv, Waiting
  <2>3. ToSet(<<>>) = {} /\ DOMAIN streams = 1 .. Len(streams)
    BY DEF ToSet, CleanInv, Inv, FileInv
  <2>4. ToSet(out) = VideoPackets
    BY <2>1, <2>2, <2>3 DEF CleanInv, CoverInv, VideoPackets
  <2>5. \A i, j \in DOMAIN out : i < j => out[i] < out[j]
    BY DEF CleanInv, Inv, FlowInv, Chain, Increasing
  <2>6. out # <<>> => header
    BY DEF CleanInv, Inv, FlowInv
  <2> QED
    BY <2>1, <2>4, <2>5, <2>6
<1> QED
  BY <1>1, InitCleanInv, NextCleanInv, PTL DEF Spec

=============================================================================
