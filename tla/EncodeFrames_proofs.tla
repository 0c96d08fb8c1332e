------------------------ MODULE EncodeFrames_proofs ------------------------
(***************************************************************************)
(* For any delay of the encoder, any number of turns and any pool: that    *)
(* what is encoded is what was sent, that every buffer has as many         *)
(* references as users, and that the pool lasts.                           *)
(***************************************************************************)
EXTENDS EncodeFrames, Libav_proofs, FiniteSetTheorems

-----------------------------------------------------------------------------
(* Sequences of buffers.                                                    *)

Distinct(h) == \A i, j \in DOMAIN h : h[i] = h[j] => i = j

\* How often one of distinct buffers is referred to.
LEMMA UsedOnce ==
  ASSUME NEW S, NEW h \in Seq(S), Distinct(h), NEW b
  PROVE  Uses(h, b) = IF b \in ToSet(h) THEN 1 ELSE 0
<1> DEFINE T == {i \in DOMAIN h : h[i] = b}
<1>1. CASE b \in ToSet(h)
  <2>1. PICK i \in DOMAIN h : h[i] = b
    BY <1>1 DEF ToSet
  <2>2. T = {i}
    BY <2>1 DEF Distinct
  <2>3. Cardinality(T) = 1
    BY <2>2, FS_Singleton
  <2> QED
    BY <1>1, <2>3 DEF Uses
<1>2. CASE b \notin ToSet(h)
  <2>1. T = {}
    BY <1>2 DEF ToSet
  <2>2. Cardinality(T) = 0
    BY <2>1, FS_EmptySet
  <2> QED
    BY <1>2, <2>2 DEF Uses
<1> QED
  BY <1>1, <1>2

\* Distinct buffers cut in two.
LEMMA DistinctCut ==
  ASSUME NEW p \in Nat, NEW h \in Seq(1 .. p), Distinct(h), NEW n \in 0 .. Len(h)
  PROVE  /\ SubSeq(h, 1, n) \in Seq(1 .. p) /\ Distinct(SubSeq(h, 1, n))
         /\ SubSeq(h, n + 1, Len(h)) \in Seq(1 .. p) /\ Distinct(SubSeq(h, n + 1, Len(h)))
         /\ \A b : b \in ToSet(h) <=> \/ b \in ToSet(SubSeq(h, 1, n))
                                      \/ b \in ToSet(SubSeq(h, n + 1, Len(h)))
         /\ \A b : ~(b \in ToSet(SubSeq(h, 1, n)) /\ b \in ToSet(SubSeq(h, n + 1, Len(h))))
<1> DEFINE u == SubSeq(h, 1, n)
           v == SubSeq(h, n + 1, Len(h))
<1>1. n \in n .. Len(h) /\ n \in Nat
  OBVIOUS
<1>2. /\ u \in Seq(1 .. p) /\ v \in Seq(1 .. p)
      /\ \A i \in DOMAIN u : i \in Nat /\ i <= n /\ i \in DOMAIN h /\ u[i] = h[i]
      /\ \A i \in DOMAIN v : i \in Nat /\ i > 0 /\ n + i \in DOMAIN h /\ v[i] = h[n + i]
  BY <1>1, CutElements
<1>3. ToSet(u) \cup ToSet(v) = ToSet(h)
  BY SetOfCut
<1> HIDE DEF u, v
<1>4. Distinct(u)
  BY <1>2 DEF Distinct
<1>5. Distinct(v)
  <2>1. \A i, j \in DOMAIN v : v[i] = v[j] => n + i = n + j
    BY <1>2 DEF Distinct
  <2> QED
    BY <1>1, <1>2, <2>1 DEF Distinct
<1>6. ASSUME NEW i \in DOMAIN u, NEW j \in DOMAIN v, u[i] = v[j] PROVE FALSE
  <2>1. i = n + j
    BY <1>2, <1>6 DEF Distinct
  <2> QED
    BY <1>1, <1>2, <2>1
<1>7. \A b : ~(b \in ToSet(u) /\ b \in ToSet(v))
  BY <1>6 DEF ToSet
<1>8. /\ u \in Seq(1 .. p) /\ Distinct(u) /\ v \in Seq(1 .. p) /\ Distinct(v)
      /\ \A b : b \in ToSet(h) <=> b \in ToSet(u) \/ b \in ToSet(v)
      /\ \A b : ~(b \in ToSet(u) /\ b \in ToSet(v))
  BY <1>2, <1>3, <1>4, <1>5, <1>7
<1> QED
  BY <1>8 DEF u, v

\* One more buffer.
LEMMA DistinctAppend ==
  ASSUME NEW p \in Nat, NEW h \in Seq(1 .. p), Distinct(h), NEW b \in 1 .. p, b \notin ToSet(h)
  PROVE  /\ Append(h, b) \in Seq(1 .. p) /\ Distinct(Append(h, b)) /\ Len(Append(h, b)) = Len(h) + 1
         /\ ToSet(Append(h, b)) = ToSet(h) \cup {b}
         /\ \A i \in DOMAIN Append(h, b) : \/ i \in DOMAIN h /\ Append(h, b)[i] = h[i]
                                           \/ i = Len(h) + 1 /\ Append(h, b)[i] = b
<1> DEFINE g == Append(h, b)
<1>1. /\ Len(h) \in Nat /\ DOMAIN h = 1 .. Len(h) /\ DOMAIN g = 1 .. Len(h) + 1
      /\ \A i \in DOMAIN g : (i \in DOMAIN h /\ g[i] = h[i]) \/ (i = Len(h) + 1 /\ g[i] = b)
      /\ g \in Seq(1 .. p) /\ Len(g) = Len(h) + 1
  OBVIOUS
<1>2. ToSet(g) = ToSet(h) \cup {b}
  BY SetOfAppend
<1> HIDE DEF g
<1>3. \A i \in DOMAIN h : h[i] # b
  BY DEF ToSet
<1>4. Distinct(g)
  BY <1>1, <1>3 DEF Distinct
<1>5. /\ g \in Seq(1 .. p) /\ Distinct(g) /\ Len(g) = Len(h) + 1 /\ ToSet(g) = ToSet(h) \cup {b}
      /\ \A i \in DOMAIN g : (i \in DOMAIN h /\ g[i] = h[i]) \/ (i = Len(h) + 1 /\ g[i] = b)
  BY <1>1, <1>2, <1>4
<1> QED
  BY <1>5 DEF g

\* How many numbers there are from 1 to k.
LEMMA CountTo ==
  ASSUME NEW k \in Nat
  PROVE  IsFiniteSet(1 .. k) /\ Cardinality(1 .. k) = k
  BY FS_Interval

\* A short sequence leaves a buffer over.
LEMMA OneLeft ==
  ASSUME NEW S, NEW h \in Seq(S), NEW q \in Nat, Len(h) < q
  PROVE  \E b \in 1 .. q : b \notin ToSet(h)
<1>1. Len(h) \in Nat /\ DOMAIN h = 1 .. Len(h)
  OBVIOUS
<1>2. h \in Surjection(1 .. Len(h), ToSet(h))
  <2>1. h \in [1 .. Len(h) -> ToSet(h)]
    <3>1. h = [i \in 1 .. Len(h) |-> h[i]]
      OBVIOUS
    <3>2. \A i \in 1 .. Len(h) : h[i] \in ToSet(h)
      BY <1>1 DEF ToSet
    <3> QED
      BY <3>1, <3>2
  <2> QED
    BY <1>1, <2>1 DEF Surjection, ToSet
<1>3. IsFiniteSet(1 .. Len(h)) /\ Cardinality(1 .. Len(h)) = Len(h)
  BY <1>1, CountTo
<1>4. IsFiniteSet(ToSet(h)) /\ Cardinality(ToSet(h)) <= Len(h)
  BY <1>2, <1>3, FS_Surjection
<1>5. IsFiniteSet(1 .. q) /\ Cardinality(1 .. q) = q
  BY CountTo
<1>6. SUFFICES ASSUME 1 .. q \subseteq ToSet(h) PROVE FALSE
  OBVIOUS
<1>7. Cardinality(1 .. q) <= Cardinality(ToSet(h))
  BY <1>4, <1>6, FS_Subset
<1>8. Cardinality(ToSet(h)) \in Nat
  BY <1>4, FS_CardinalityType
<1> QED
  BY <1>1, <1>4, <1>5, <1>7, <1>8

\* How long the rest of a sequence is.
LEMMA CutLength ==
  ASSUME NEW S, NEW h \in Seq(S), NEW n \in 0 .. Len(h)
  PROVE  Len(SubSeq(h, n + 1, Len(h))) = Len(h) - n
  OBVIOUS

\* 1, 2, ... k.
Counting(o) == o \in Seq(Nat) /\ \A i \in DOMAIN o : o[i] = i

\* k + 1, k + 2, ..., and a sequence h of buffers with these contents.
CountingFrom(a, k) == \A i \in DOMAIN a : a[i] = k + i
NumberedFrom(h, f, k) == \A i \in DOMAIN h : f[h[i]] = k + i

\* More numbers after those of o.
LEMMA CountsOn ==
  ASSUME NEW o, Counting(o), NEW a \in Seq(Nat), CountingFrom(a, Len(o)),
         NEW w, w = o \o a
  PROVE  Counting(w) /\ Len(w) = Len(o) + Len(a)
<1>0. w = o \o a
  OBVIOUS
<1>1. Len(o) \in Nat /\ o \in Seq(Nat)
  BY DEF Counting
<1>2. w \in Seq(Nat) /\ Len(w) = Len(o) + Len(a)
  <2>1. \A x, y \in Seq(Nat) : x \o y \in Seq(Nat) /\ Len(x \o y) = Len(x) + Len(y)
    OBVIOUS
  <2> QED
    BY <1>0, <1>1, <2>1
<1>3. ASSUME NEW i \in DOMAIN w
      PROVE  /\ i \in Nat
             /\ \/ i \in DOMAIN o /\ w[i] = o[i]
                \/ i > Len(o) /\ i - Len(o) \in DOMAIN a /\ w[i] = a[i - Len(o)]
  <2>1. i \in DOMAIN (o \o a)
    BY <1>0
  <2>2. /\ i \in Nat
        /\ \/ i \in DOMAIN o /\ i <= Len(o) /\ (o \o a)[i] = o[i]
           \/ i > Len(o) /\ i - Len(o) \in DOMAIN a /\ (o \o a)[i] = a[i - Len(o)]
    BY <1>1, <2>1, CatElements
  <2>3. (o \o a)[i] = w[i]
    BY <1>0
  <2> QED
    BY <2>2, <2>3
<1>4. Counting(w)
  <2>1. ASSUME NEW i \in DOMAIN w PROVE w[i] = i
    <3>1. CASE i \in DOMAIN o /\ w[i] = o[i]
      BY <3>1 DEF Counting
    <3>2. CASE i > Len(o) /\ i - Len(o) \in DOMAIN a /\ w[i] = a[i - Len(o)]
      <4>1. a[i - Len(o)] = Len(o) + (i - Len(o))
        BY <3>2 DEF CountingFrom
      <4> QED
        BY <1>1, <1>3, <3>2, <4>1
    <3> QED
      BY <1>3, <3>1, <3>2
  <2> QED
    BY <1>2, <2>1 DEF Counting
<1> QED
  BY <1>2, <1>4

\* The rest of the buffers is numbered from where the first n end.
LEMMA RestNumbered ==
  ASSUME NEW p \in Nat, NEW h \in Seq(1 .. p), NEW f, NEW k \in Nat, NumberedFrom(h, f, k),
         NEW n \in 0 .. Len(h)
  PROVE  NumberedFrom(SubSeq(h, n + 1, Len(h)), f, k + n)
<1> DEFINE v == SubSeq(h, n + 1, Len(h))
<1>1. Len(h) \in Nat /\ n \in Nat /\ n \in n .. Len(h)
  OBVIOUS
<1>2. \A i \in DOMAIN v : i \in Nat /\ n + i \in DOMAIN h /\ v[i] = h[n + i]
  BY <1>1, CutElements
<1> HIDE DEF v
<1>3. ASSUME NEW i \in DOMAIN v PROVE f[v[i]] = (k + n) + i
  <2>1. i \in Nat /\ v[i] = h[n + i] /\ f[h[n + i]] = k + (n + i)
    BY <1>2 DEF NumberedFrom
  <2>2. f[v[i]] = f[h[n + i]]
    BY <2>1
  <2>3. (k + n) + i = k + (n + i)
    BY <1>1, <2>1
  <2> QED
    BY <2>1, <2>2, <2>3
<1>4. NumberedFrom(v, f, k + n)
  BY <1>3 DEF NumberedFrom
<1> QED
  BY <1>4 DEF v

\* The larger of 0 and a number.
LEMMA MaxWithZero ==
  ASSUME NEW x \in Int
  PROVE  Max({0, x}) = IF x > 0 THEN x ELSE 0
<1>1. PICK m \in {0, x} : \A y \in {0, x} : m >= y
  <2>1. CASE x > 0
    BY <2>1
  <2>2. CASE ~(x > 0)
    BY <2>2
  <2> QED
    BY <2>1, <2>2
<1>2. Max({0, x}) \in {0, x} /\ \A y \in {0, x} : Max({0, x}) >= y
  BY <1>1 DEF Max
<1> QED
  BY <1>2

-----------------------------------------------------------------------------
(* The invariant.                                                           *)

Held == ToSet(encoder.held)

\* Who refers to buffer b: the encoder, and main's frame.
Users(b) == (IF b \in Held THEN 1 ELSE 0) + (IF frame = b THEN 1 ELSE 0)

TypeInv ==
  /\ TypeOK /\ program \in {"audio", "video", "vaapi"}
  /\ turns \in 0 .. Turns
  /\ pc \in {"open", "fill"} => program # "vaapi"
  /\ pc \in ToSet(SetUp) \cup {"read", "fillSurface"} => program = "vaapi"

\* What the encoder holds is not held twice, and every reference is counted.
HeldInv ==
  /\ Distinct(encoder.held) /\ Len(encoder.held) <= delay
  /\ \A b \in Buffers : refs[b] = Users(b)
  /\ pc \notin {"close", "exit"} => ~encoder.draining

\* Where main has a frame, and what else is allocated.
FrameInv ==
  /\ pc \in {"fill", "encode"} => frame \in Buffers
  /\ pc \in {"flush", "close"} /\ program # "vaapi" => frame \in Buffers
  /\ pc \in {"read", "fillSurface", "open"} \cup ToSet(SetUp) => frame = 0
  /\ pc \in {"open"} \cup ToSet(SetUp) => encoder.held = <<>>
  /\ pc = "encode" => frame \notin Held
  /\ pc \in {"fill", "fillSurface"} => turn < turns
  /\ program # "vaapi" \/ pc = "fin" => open = {}
  /\ program # "vaapi" /\ failed => pc = "exit"
  /\ pc = "exit" /\ (program = "vaapi" \/ ~failed) => open = {} /\ encoder.held = <<>> /\ frame = 0

\* What is in the buffers that the encoder holds, and what it made of others.
ContentInv ==
  /\ Counting(out)
  /\ NumberedFrom(encoder.held, content, Len(out))
  /\ pc = "encode" => content[frame] = turn /\ turn = Len(out) + Len(encoder.held) + 1
  /\ pc \notin {"encode", "close", "exit"} => turn = Len(out) + Len(encoder.held)
  /\ pc = "flush" => turn = turns
  /\ pc = "close" /\ ~failed => encoder.held = <<>>
  /\ pc \in {"close", "exit"} /\ ~failed => Len(out) = turns

Inv == TypeInv /\ HeldInv /\ FrameInv /\ ContentInv

LEMMA InitInv == Init => Inv
<1> SUFFICES ASSUME Init PROVE Inv
  OBVIOUS
<1>1. /\ encoder = Fresh /\ encoder.held = <<>> /\ ToSet(encoder.held) = {} /\ out = <<>>
      /\ Fresh \in Codec(Buffers) /\ ~encoder.draining /\ Len(<<>>) = 0 /\ <<>> \in Seq(Nat)
      /\ DOMAIN <<>> = {}
  BY DEF Init, Fresh, Codec, ToSet
<1>2. /\ program \in {"audio", "video", "vaapi"} /\ delay \in 0 .. MaxDelay /\ delay \in Nat
      /\ turns \in 0 .. Turns /\ turns \in Nat /\ Turns \in Nat
  BY EncodeAssumption DEF Init
<1>3. /\ ToSet(SetUp) = {"fin", "fout", "device", "codec", "frames"}
  BY DEF ToSet, SetUp
<1>4. pc = (IF program = "vaapi" THEN "fin" ELSE "open")
  BY DEF Init
<1>5. TypeInv
  <2>1. /\ program \in Programs /\ turn \in 0 .. turns /\ frame = 0 /\ open = {} /\ err = 0
        /\ failed = FALSE /\ pc \in {"fin", "open"}
    BY <1>2, <1>4 DEF Init
  <2>2. content \in [Buffers -> 0 .. Turns] /\ refs \in [Buffers -> Nat]
    <3>1. 0 \in 0 .. Turns
      BY <1>2
    <3> QED
      BY <3>1 DEF Init
  <2>3. TypeOK
    BY <1>1, <1>2, <1>3, <2>1, <2>2 DEF TypeOK
  <2> QED
    BY <1>2, <1>3, <1>4, <2>3 DEF TypeInv
<1>6. HeldInv
  <2>1. \A b \in Buffers : refs[b] = Users(b)
    <3>1. \A b \in Buffers : b # 0
      BY EncodeAssumption DEF Buffers
    <3> QED
      BY <1>1, <3>1 DEF Init, Users, Held
  <2> QED
    BY <1>1, <1>2, <2>1 DEF HeldInv, Distinct
<1>7. FrameInv
  BY <1>1, <1>3, <1>4 DEF Init, FrameInv, Held
<1>8. ContentInv
  BY <1>1, <1>4 DEF Init, ContentInv, Counting, NumberedFrom
<1> QED
  BY <1>5, <1>6, <1>7, <1>8 DEF Inv

\* The types that the steps need.
LEMMA Types ==
  ASSUME Inv
  PROVE  /\ MaxDelay + 2 \in Nat /\ Buffers = 1 .. MaxDelay + 2 /\ 0 \notin Buffers
         /\ delay \in Nat /\ delay <= MaxDelay
         /\ encoder.held \in Seq(Buffers) /\ encoder.draining \in BOOLEAN
         /\ Len(encoder.held) \in Nat /\ Len(encoder.held) <= delay
         /\ turn \in Nat /\ turns \in Nat /\ turn <= turns /\ Turns \in Nat /\ turns <= Turns
         /\ out \in Seq(Nat) /\ Len(out) \in Nat
         /\ ToSet(SetUp) = {"fin", "fout", "device", "codec", "frames"}
<1>1. MaxDelay \in Nat /\ Turns \in Nat
  BY EncodeAssumption
<1>2. Buffers = 1 .. MaxDelay + 2 /\ 0 \notin Buffers /\ MaxDelay + 2 \in Nat
  BY <1>1 DEF Buffers
<1>3. delay \in 0 .. MaxDelay /\ turn \in 0 .. turns /\ turns \in 0 .. Turns /\ encoder \in Codec(Buffers)
  BY DEF Inv, TypeInv, TypeOK
<1>4. encoder.held \in Seq(Buffers) /\ encoder.draining \in BOOLEAN
  BY <1>3 DEF Codec
<1>5. Len(encoder.held) \in Nat
  BY <1>4
<1>6. out \in Seq(Nat) /\ Len(out) \in Nat
  BY DEF Inv, ContentInv, Counting
<1>7. ToSet(SetUp) = {"fin", "fout", "device", "codec", "frames"}
  BY DEF ToSet, SetUp
<1> QED
  BY <1>1, <1>2, <1>3, <1>4, <1>5, <1>6, <1>7 DEF Inv, HeldInv

\* What the encoder gives back of the frames in c.
LEMMA Received ==
  ASSUME Inv, NEW c \in Codec(Buffers), Distinct(c.held), Len(c.held) <= delay + 1,
         NumberedFrom(c.held, content, Len(out)),
         NEW counted \in [Buffers -> Nat], \A b \in ToSet(c.held) : counted[b] > 0,
         ReceiveAll(counted, c)
  PROVE  /\ Counting(out') /\ Len(out') + Len(encoder'.held) = Len(out) + Len(c.held)
         /\ NumberedFrom(encoder'.held, content, Len(out'))
         /\ encoder' \in Codec(Buffers) /\ Distinct(encoder'.held) /\ Len(encoder'.held) <= delay
         /\ encoder'.draining = c.draining /\ (c.draining => encoder'.held = <<>>)
         /\ \A b : b \in ToSet(encoder'.held) => b \in ToSet(c.held)
         /\ refs' \in [Buffers -> Nat]
         /\ \A b \in Buffers : refs'[b] + (IF b \in ToSet(c.held) THEN 1 ELSE 0) =
                               counted[b] + (IF b \in ToSet(encoder'.held) THEN 1 ELSE 0)
<1> DEFINE h == c.held
           n == IF c.draining THEN Len(h) ELSE Max({0, Len(h) - delay})
           u == SubSeq(h, 1, n)
           v == SubSeq(h, n + 1, Len(h))
<1>1. /\ out' = out \o [i \in 1 .. n |-> content[h[i]]]
      /\ encoder' = [c EXCEPT !.held = v]
      /\ refs' = [b \in Buffers |-> counted[b] - Uses(u, b)]
  BY DEF ReceiveAll, Released
<1>2. /\ h \in Seq(Buffers) /\ Buffers = 1 .. MaxDelay + 2 /\ MaxDelay + 2 \in Nat
      /\ Len(h) \in Nat /\ delay \in Nat /\ Len(h) <= delay + 1 /\ Distinct(h)
      /\ Counting(out) /\ NumberedFrom(h, content, Len(out))
      /\ Len(out) \in Nat /\ c.draining \in BOOLEAN
  <2>1. h \in Seq(Buffers) /\ c.draining \in BOOLEAN
    BY DEF Codec
  <2>2. Len(h) \in Nat
    BY <2>1
  <2>3. Counting(out)
    BY DEF Inv, ContentInv
  <2> QED
    BY <2>1, <2>2, <2>3, Types
<1> HIDE DEF h
<1>3. n \in 0 .. Len(h) /\ n \in Nat /\ Len(h) - n <= delay /\ (c.draining => n = Len(h))
  <2>1. CASE c.draining
    BY <1>2, <2>1
  <2>2. CASE ~c.draining
    <3>1. Max({0, Len(h) - delay}) = IF Len(h) - delay > 0 THEN Len(h) - delay ELSE 0
      BY <1>2, MaxWithZero
    <3> QED
      BY <1>2, <2>2, <3>1
  <2> QED
    BY <2>1, <2>2
<1> HIDE DEF n
<1> DEFINE a == [i \in 1 .. n |-> content[h[i]]]
<1>b. CountingFrom(a, Len(out))
  <2>1. \A i \in 1 .. n : i \in DOMAIN h
    BY <1>2, <1>3
  <2> QED
    BY <1>2, <2>1 DEF CountingFrom, NumberedFrom
<1>c. a \in Seq(Nat) /\ Len(a) = n
  <2>1. a = [i \in 1 .. n |-> a[i]] /\ DOMAIN a = 1 .. n
    OBVIOUS
  <2> HIDE DEF a
  <2>2. ASSUME NEW i \in 1 .. n PROVE a[i] \in Nat
    <3>1. i \in Nat /\ a[i] = Len(out) + i
      BY <1>3, <1>b, <2>1 DEF CountingFrom
    <3> QED
      BY <1>2, <3>1
  <2>3. a \in [1 .. n -> Nat]
    BY <2>1, <2>2
  <2> QED
    BY <1>3, <2>3
<1>d. out' = out \o a
  BY <1>1
<1> HIDE DEF a
<1>a. v = SubSeq(h, n + 1, Len(h))
  OBVIOUS
<1> HIDE DEF v
<1>4. /\ Counting(out') /\ Len(out') = Len(out) + n /\ Len(v) = Len(h) - n
      /\ NumberedFrom(v, content, Len(out'))
  <2>1. h \in Seq(1 .. MaxDelay + 2)
    BY <1>2
  <2>2. Counting(out') /\ Len(out') = Len(out) + n
    BY <1>2, <1>b, <1>c, <1>d, CountsOn
  <2>3. Len(v) = Len(h) - n
    BY <1>3, <1>a, <2>1, CutLength
  <2>4. NumberedFrom(v, content, Len(out) + n)
    BY <1>2, <1>3, <1>a, <2>1, RestNumbered
  <2> QED
    BY <2>2, <2>3, <2>4
<1>5. /\ u \in Seq(Buffers) /\ Distinct(u) /\ v \in Seq(Buffers) /\ Distinct(v)
      /\ \A b : b \in ToSet(h) <=> b \in ToSet(u) \/ b \in ToSet(v)
      /\ \A b : ~(b \in ToSet(u) /\ b \in ToSet(v))
  BY <1>2, <1>3, <1>a, DistinctCut
<1> HIDE DEF u
<1>6. encoder' = [held |-> v, draining |-> c.draining]
  BY <1>1, HeldReplaced
<1>7. encoder'.held = v /\ encoder'.draining = c.draining /\ encoder' \in Codec(Buffers)
  BY <1>2, <1>5, <1>6 DEF Codec
<1>8. c.draining => v = <<>>
  <2>1. c.draining => Len(v) = 0
    BY <1>2, <1>3, <1>4
  <2> QED
    BY <1>5, <2>1
<1>9. \A b \in Buffers : refs'[b] = counted[b] - (IF b \in ToSet(u) THEN 1 ELSE 0)
  BY <1>1, <1>5, UsedOnce
<1>10. ASSUME NEW b \in Buffers
       PROVE  /\ refs'[b] \in Nat
              /\ refs'[b] + (IF b \in ToSet(h) THEN 1 ELSE 0) =
                 counted[b] + (IF b \in ToSet(v) THEN 1 ELSE 0)
  <2>1. counted[b] \in Nat /\ (b \in ToSet(h) => counted[b] > 0)
    BY DEF h
  <2>2. CASE b \in ToSet(u)
    BY <1>5, <1>9, <2>1, <2>2
  <2>3. CASE b \notin ToSet(u)
    BY <1>5, <1>9, <2>1, <2>3
  <2> QED
    BY <2>2, <2>3
<1>11. refs' \in [Buffers -> Nat]
  BY <1>1, <1>10
<1>12. Len(out') + Len(v) = Len(out) + Len(h) /\ Len(v) <= delay
  BY <1>2, <1>3, <1>4
<1>13. \A b : b \in ToSet(v) => b \in ToSet(h)
  BY <1>5
<1>14. /\ NumberedFrom(encoder'.held, content, Len(out'))
       /\ Distinct(encoder'.held) /\ Len(encoder'.held) <= delay
       /\ Len(out') + Len(encoder'.held) = Len(out) + Len(h)
  BY <1>4, <1>5, <1>7, <1>12
<1> QED
  BY <1>4, <1>7, <1>8, <1>10, <1>11, <1>13, <1>14 DEF h

\* The frame is sent, counted or handed over, and packets are received.
LEMMA Sent ==
  ASSUME Inv, pc = "encode",
         NEW counted \in [Buffers -> Nat],
         \A b \in Buffers \ {frame} : counted[b] = refs[b],
         \/ counted[frame] = refs[frame] + 1 /\ frame' = frame
         \/ counted[frame] = refs[frame] /\ frame' = 0,
         ReceiveAll(counted, Accept(encoder, frame))
  PROVE  /\ Counting(out') /\ Len(out') + Len(encoder'.held) = turn
         /\ NumberedFrom(encoder'.held, content, Len(out'))
         /\ encoder' \in Codec(Buffers) /\ Distinct(encoder'.held) /\ Len(encoder'.held) <= delay
         /\ ~encoder'.draining /\ refs' \in [Buffers -> Nat]
         /\ \A b \in Buffers : refs'[b] = Users(b)'
<1> DEFINE h == encoder.held
           g == Append(h, frame)
           c == Accept(encoder, frame)
<1>1. /\ frame \in Buffers /\ frame \notin ToSet(h) /\ ~encoder.draining /\ Distinct(h)
      /\ encoder \in Codec(Buffers) /\ content[frame] = turn /\ turn = Len(out) + Len(h) + 1
      /\ NumberedFrom(h, content, Len(out))
      /\ \A b \in Buffers : refs[b] = Users(b)
  BY DEF Inv, FrameInv, HeldInv, ContentInv, TypeInv, TypeOK, Held
<1>2. /\ c \in Codec(Buffers) /\ c.held = g /\ ~c.draining
  <2>1. c \in Codec(Buffers) /\ c.held = g
    BY <1>1, AcceptForms
  <2>2. c = [held |-> g, draining |-> encoder.draining]
    BY <1>1, HeldReplaced, Zenon DEF Accept
  <2> QED
    BY <1>1, <2>1, <2>2
<1>3. /\ g \in Seq(Buffers) /\ Distinct(g) /\ Len(g) = Len(h) + 1 /\ ToSet(g) = ToSet(h) \cup {frame}
      /\ \A i \in DOMAIN g : (i \in DOMAIN h /\ g[i] = h[i]) \/ (i = Len(h) + 1 /\ g[i] = frame)
  <2>1. /\ h \in Seq(1 .. MaxDelay + 2) /\ MaxDelay + 2 \in Nat /\ frame \in 1 .. MaxDelay + 2
        /\ Distinct(h) /\ frame \notin ToSet(h) /\ Buffers = 1 .. MaxDelay + 2
    BY <1>1, Types
  <2> HIDE DEF h
  <2> QED
    BY <2>1, DistinctAppend
<1>4. /\ Len(h) \in Nat /\ delay \in Nat /\ Len(h) <= delay /\ Len(out) \in Nat /\ 0 \notin Buffers
  BY Types
<1> HIDE DEF g, c
<1>5. NumberedFrom(g, content, Len(out))
  <2> SUFFICES ASSUME NEW i \in DOMAIN g PROVE content[g[i]] = Len(out) + i
    BY DEF NumberedFrom
  <2>1. CASE i \in DOMAIN h /\ g[i] = h[i]
    BY <1>1, <2>1 DEF NumberedFrom
  <2>2. CASE i = Len(h) + 1 /\ g[i] = frame
    <3>1. content[g[i]] = turn
      BY <1>1, <2>2
    <3> HIDE DEF h
    <3> QED
      BY <1>1, <1>4, <2>2, <3>1
  <2> QED
    BY <1>3, <2>1, <2>2
<1>6. \A b \in Buffers : refs[b] = (IF b \in ToSet(h) THEN 1 ELSE 0) + (IF frame = b THEN 1 ELSE 0)
  BY <1>1 DEF Users, Held
<1>7. \A b \in ToSet(g) : counted[b] > 0
  <2>1. \A b \in ToSet(g) : b \in Buffers
    BY <1>3 DEF ToSet
  <2>2. ASSUME NEW b \in ToSet(g) PROVE counted[b] > 0
    <3>1. CASE b = frame
      BY <1>1, <1>6, <3>1
    <3>2. CASE b # frame
      <4>1. b \in Buffers /\ b \in ToSet(h)
        BY <1>3, <2>1, <3>2
      <4>2. refs[b] = 1
        BY <1>6, <3>2, <4>1
      <4> QED
        BY <4>1, <4>2
    <3> QED
      BY <3>1, <3>2
  <2> QED
    BY <2>2
<1>8. /\ Counting(out') /\ Len(out') + Len(encoder'.held) = Len(out) + Len(c.held)
      /\ NumberedFrom(encoder'.held, content, Len(out'))
      /\ encoder' \in Codec(Buffers) /\ Distinct(encoder'.held) /\ Len(encoder'.held) <= delay
      /\ encoder'.draining = c.draining /\ refs' \in [Buffers -> Nat]
      /\ \A b \in Buffers : refs'[b] + (IF b \in ToSet(c.held) THEN 1 ELSE 0) =
                            counted[b] + (IF b \in ToSet(encoder'.held) THEN 1 ELSE 0)
  <2>1. Len(c.held) <= delay + 1
    BY <1>2, <1>3, <1>4
  <2>2. /\ Distinct(c.held) /\ NumberedFrom(c.held, content, Len(out))
        /\ \A b \in ToSet(c.held) : counted[b] > 0
    BY <1>2, <1>3, <1>5, <1>7, Zenon
  <2>3. ReceiveAll(counted, c)
    BY DEF c
  <2> QED
    BY <1>2, <2>1, <2>2, <2>3, Received
<1>9. ASSUME NEW b \in Buffers PROVE refs'[b] = Users(b)'
  <2>1. /\ refs'[b] \in Nat /\ Users(b)' = (IF b \in ToSet(encoder'.held) THEN 1 ELSE 0)
                                           + (IF frame' = b THEN 1 ELSE 0)
        /\ refs'[b] + (IF b \in ToSet(g) THEN 1 ELSE 0) =
           counted[b] + (IF b \in ToSet(encoder'.held) THEN 1 ELSE 0)
    BY <1>2, <1>8 DEF Users, Held
  <2>2. CASE b = frame
    <3>1. refs[frame] = 1 /\ b \in ToSet(g)
      BY <1>1, <1>3, <1>6, <2>2
    <3> QED
      BY <1>4, <2>1, <2>2, <3>1
  <2>3. CASE b # frame
    <3>1. counted[b] = (IF b \in ToSet(h) THEN 1 ELSE 0)
      <4>1. counted[b] = refs[b]
        BY <2>3
      <4> QED
        BY <1>6, <2>3, <4>1
    <3>2. frame' # b
      BY <1>4, <2>3
    <3>3. b \in ToSet(g) <=> b \in ToSet(h)
      BY <1>3, <2>3
    <3> QED
      BY <2>1, <3>1, <3>2, <3>3
  <2> QED
    BY <2>2, <2>3
<1>10. Len(out') + Len(encoder'.held) = turn
  BY <1>1, <1>2, <1>3, <1>4, <1>8
<1> QED
  BY <1>2, <1>8, <1>9, <1>10

-----------------------------------------------------------------------------
(* Steps of encode_audio and encode_video.                                  *)

\* The first buffer belongs to the frame.
LEMMA OpenInv == ASSUME Inv, Open PROVE Inv'
<1>1. /\ frame = 0 /\ encoder.held = <<>> /\ Held = {} /\ ~encoder.draining /\ program # "vaapi"
      /\ open = {} /\ ~failed /\ turn = Len(out) + Len(encoder.held) /\ 1 \in Buffers
  <2>1. pc = "open"
    BY DEF Open
  <2>2. frame = 0 /\ encoder.held = <<>> /\ ~encoder.draining /\ program # "vaapi" /\ open = {}
        /\ turn = Len(out) + Len(encoder.held)
    BY <2>1 DEF Inv, TypeInv, HeldInv, FrameInv, ContentInv
  <2>3. Held = {}
    BY <2>2 DEF Held, ToSet
  <2>4. ~failed
    BY <2>1, <2>2 DEF Inv, FrameInv
  <2>5. 1 \in Buffers
    <3>1. MaxDelay \in Nat
      BY EncodeAssumption
    <3> QED
      BY <3>1 DEF Buffers
  <2> QED
    BY <2>2, <2>3, <2>4, <2>5
<1>2. /\ frame' = 1 /\ refs' = [refs EXCEPT ![1] = 1] /\ pc' \in {"fill", "flush"}
      /\ (pc' = "fill" <=> turn < turns)
      /\ UNCHANGED <<given, turn, content, encoder, out, open, err, failed>>
  BY DEF Open, MoreTurns
<1>3. refs' \in [Buffers -> Nat] /\ \A b \in Buffers : refs'[b] = IF b = 1 THEN 1 ELSE 0
  <2>1. refs \in [Buffers -> Nat] /\ \A b \in Buffers : refs[b] = Users(b)
    BY DEF Inv, TypeInv, TypeOK, HeldInv
  <2>2. \A b \in Buffers : refs[b] = 0
    BY <1>1, <2>1, Types DEF Users
  <2> QED
    BY <1>1, <1>2, <2>1, <2>2
<1>4. TypeInv'
  <2>1. TypeOK'
    BY <1>1, <1>2, <1>3 DEF Inv, TypeInv, TypeOK, given
  <2> QED
    BY <1>1, <1>2, <2>1, Types DEF Inv, TypeInv, given
<1>5. HeldInv'
  <2>1. \A b \in Buffers : refs'[b] = Users(b)'
    BY <1>1, <1>2, <1>3 DEF Users, Held
  <2> QED
    BY <1>2, <2>1, <1>1 DEF Inv, HeldInv, given
<1>6. FrameInv'
  BY <1>1, <1>2, Types DEF FrameInv, Held, given
<1>7. ContentInv'
  <2>1. pc' = "flush" => turn = turns
    BY <1>2, Types
  <2> QED
    BY <1>1, <1>2, <2>1 DEF Inv, ContentInv, given
<1> QED
  BY <1>4, <1>5, <1>6, <1>7 DEF Inv

\* The buffers that are free, referred to by main alone, or by the encoder too.
LEMMA Shared ==
  ASSUME Inv
  PROVE  /\ refs \in [Buffers -> Nat]
         /\ \A b \in Buffers : refs[b] = 0 => b \notin Held /\ b # frame
         /\ \A b \in Buffers : b = frame /\ refs[b] = 1 => b \notin Held
         /\ Len(encoder.held) < MaxDelay + 2
<1>1. refs \in [Buffers -> Nat] /\ \A b \in Buffers : refs[b] = Users(b)
  BY DEF Inv, TypeInv, TypeOK, HeldInv
<1>2. \A b \in Buffers : refs[b] = 0 => b \notin Held /\ b # frame
  BY <1>1 DEF Users
<1>3. \A b \in Buffers : b = frame /\ refs[b] = 1 => b \notin Held
  BY <1>1 DEF Users
<1>4. Len(encoder.held) < MaxDelay + 2
  <2>1. MaxDelay \in Nat
    BY EncodeAssumption
  <2> QED
    BY <2>1, Types
<1> QED
  BY <1>1, <1>2, <1>3, <1>4

\* There is a buffer for make_writable's copy.
LEMMA CopyHasRoom ==
  ASSUME Inv, frame \in Buffers, refs[frame] # 1
  PROVE  /\ FreeBuffer \in Buffers /\ refs[FreeBuffer] = 0 /\ FreeBuffer # frame
         /\ FreeBuffer \notin Held /\ frame \in Held
<1>1. refs[frame] = Users(frame)
  BY DEF Inv, HeldInv
<1>2. frame \in Held
  BY <1>1 DEF Users
<1>3. PICK b \in 1 .. MaxDelay + 2 : b \notin Held
  BY Types, Shared, OneLeft DEF Held
<1>4. b \in Buffers /\ b # frame
  BY <1>2, <1>3, Types
<1>5. refs[b] = 0
  <2>1. refs[b] = Users(b)
    BY <1>4 DEF Inv, HeldInv
  <2> QED
    BY <1>3, <1>4, <2>1 DEF Users
<1>6. FreeBuffer \in Buffers /\ refs[FreeBuffer] = 0
  BY <1>4, <1>5 DEF FreeBuffer
<1> QED
  BY <1>2, <1>6, Shared

\* The contents the encoder holds do not change with another buffer's.
LEMMA OtherWritten ==
  ASSUME NEW S, NEW h \in Seq(S), NEW f \in [S -> Int], NEW b \in S, b \notin ToSet(h),
         NEW k, NumberedFrom(h, f, k), NEW x
  PROVE  NumberedFrom(h, [f EXCEPT ![b] = x], k)
<1>1. ASSUME NEW i \in DOMAIN h PROVE [f EXCEPT ![b] = x][h[i]] = k + i
  <2>1. h[i] \in ToSet(h)
    BY DEF ToSet
  <2>2. h[i] \in S
    OBVIOUS
  <2>3. h[i] # b
    BY <2>1
  <2>4. [f EXCEPT ![b] = x][h[i]] = f[h[i]]
    BY <2>2, <2>3
  <2> QED
    BY <2>4 DEF NumberedFrom
<1> QED
  BY <1>1 DEF NumberedFrom

\* What make_writable leaves: a buffer of main's own.
LEMMA Writable ==
  ASSUME Inv, frame \in Buffers, MakeWritable
  PROVE  /\ frame' \in Buffers /\ frame' \notin Held
         /\ refs' \in [Buffers -> Nat]
         /\ \A b \in Buffers : refs'[b] = (IF b \in Held THEN 1 ELSE 0) + (IF b = frame' THEN 1 ELSE 0)
<1>1. refs \in [Buffers -> Nat] /\ \A b \in Buffers : refs[b] = Users(b)
  BY DEF Inv, TypeInv, TypeOK, HeldInv
<1>2. CASE refs[frame] = 1
  <2>1. frame' = frame /\ refs' = refs
    BY <1>2 DEF MakeWritable
  <2>2. frame \notin Held
    BY <1>2, Shared
  <2> QED
    BY <1>1, <2>1, <2>2 DEF Users
<1>3. CASE refs[frame] # 1
  <2>1. /\ FreeBuffer \in Buffers /\ refs[FreeBuffer] = 0 /\ FreeBuffer # frame
        /\ FreeBuffer \notin Held /\ frame \in Held
    BY <1>3, CopyHasRoom
  <2>2. frame' = FreeBuffer /\ refs' = [refs EXCEPT ![frame] = @ - 1, ![FreeBuffer] = 1]
    BY <1>3 DEF MakeWritable
  <2> HIDE DEF FreeBuffer
  <2>3. refs[frame] = 2
    BY <1>1, <2>1 DEF Users
  <2>4. refs'[frame] = 1 /\ refs'[FreeBuffer] = 1
        /\ \A b \in Buffers : b # frame /\ b # FreeBuffer => refs'[b] = refs[b]
    BY <1>1, <2>1, <2>2, <2>3
  <2>5. refs' \in [Buffers -> Nat]
    BY <1>1, <2>1, <2>2, <2>3
  <2>6. ASSUME NEW b \in Buffers
        PROVE  refs'[b] = (IF b \in Held THEN 1 ELSE 0) + (IF b = frame' THEN 1 ELSE 0)
    <3>1. CASE b = frame
      BY <2>1, <2>2, <2>4, <3>1
    <3>2. CASE b = FreeBuffer
      BY <2>1, <2>2, <2>4, <3>2
    <3>3. CASE b # frame /\ b # FreeBuffer
      BY <1>1, <2>1, <2>2, <2>4, <3>3 DEF Users
    <3> QED
      BY <3>1, <3>2, <3>3
  <2> QED
    BY <2>1, <2>2, <2>5, <2>6
<1> QED
  BY <1>2, <1>3

\* The turn's content goes into a buffer that the encoder does not hold.
LEMMA FillFrameInv == ASSUME Inv, FillFrame PROVE Inv'
<1>1. /\ frame \in Buffers /\ turn < turns /\ turn = Len(out) + Len(encoder.held)
      /\ program # "vaapi" /\ open = {} /\ ~failed /\ ~encoder.draining
  <2>1. pc = "fill"
    BY DEF FillFrame
  <2>2. /\ frame \in Buffers /\ turn < turns /\ turn = Len(out) + Len(encoder.held)
        /\ program # "vaapi" /\ open = {} /\ ~encoder.draining
    BY <2>1 DEF Inv, TypeInv, HeldInv, FrameInv, ContentInv
  <2>3. ~failed
    BY <2>1, <2>2 DEF Inv, FrameInv
  <2> QED
    BY <2>2, <2>3
<1>2. /\ turn' = turn + 1 /\ content' = [content EXCEPT ![frame'] = turn'] /\ pc' = "encode"
      /\ UNCHANGED <<given, chosen, encoder, out, open, err, failed>>
  BY DEF FillFrame
<1>3. /\ frame' \in Buffers /\ frame' \notin Held
      /\ refs' \in [Buffers -> Nat]
      /\ \A b \in Buffers : refs'[b] = (IF b \in Held THEN 1 ELSE 0) + (IF b = frame' THEN 1 ELSE 0)
  BY <1>1, Writable DEF FillFrame
<1>4. /\ turn' \in 0 .. turns /\ turn' \in 0 .. Turns
      /\ content \in [Buffers -> 0 .. Turns] /\ content \in [Buffers -> Int]
  <2>0. turn' = turn + 1
    BY <1>2
  <2>1. turn' \in 0 .. turns /\ turn' \in 0 .. Turns
    BY <1>1, <2>0, Types
  <2>2. content \in [Buffers -> 0 .. Turns]
    BY DEF Inv, TypeInv, TypeOK
  <2> QED
    BY <2>1, <2>2, Types
<1>5. content' \in [Buffers -> 0 .. Turns] /\ content'[frame'] = turn'
  BY <1>2, <1>3, <1>4
<1>6. TypeInv'
  <2>1. TypeOK'
    BY <1>2, <1>3, <1>4, <1>5 DEF Inv, TypeInv, TypeOK, given
  <2> QED
    BY <1>1, <1>2, <2>1, Types DEF Inv, TypeInv, given
<1>7. HeldInv'
  <2>1. \A b \in Buffers : refs'[b] = Users(b)'
    BY <1>2, <1>3 DEF Users, Held
  <2> QED
    BY <1>1, <1>2, <2>1 DEF Inv, HeldInv, given
<1>8. FrameInv'
  BY <1>1, <1>2, <1>3, Types DEF FrameInv, Held, given
<1>9. ContentInv'
  <2>1. NumberedFrom(encoder.held, content, Len(out)) /\ Counting(out)
    BY DEF Inv, ContentInv
  <2>2. NumberedFrom(encoder.held, content', Len(out))
    BY <1>2, <1>3, <1>4, <2>1, Types, OtherWritten DEF Held
  <2>3. turn' = Len(out) + Len(encoder.held) + 1
    BY <1>1, <1>2
  <2> QED
    BY <1>2, <1>5, <2>1, <2>2, <2>3 DEF ContentInv
<1> QED
  BY <1>6, <1>7, <1>8, <1>9 DEF Inv

\* What holds whenever a filled frame is about to be sent.
LEMMA AtEncode ==
  ASSUME Inv, pc = "encode"
  PROVE  /\ frame \in Buffers /\ refs \in [Buffers -> Nat] /\ refs[frame] = 1
         /\ ~encoder.draining /\ (program # "vaapi" => open = {} /\ ~failed)
<1>1. frame \in Buffers /\ frame \notin Held /\ ~encoder.draining /\ refs \in [Buffers -> Nat]
  BY DEF Inv, TypeInv, TypeOK, HeldInv, FrameInv
<1>2. refs[frame] = 1
  BY <1>1 DEF Inv, HeldInv, Users
<1>3. program # "vaapi" => open = {} /\ ~failed
  BY DEF Inv, FrameInv
<1> QED
  BY <1>1, <1>2, <1>3

\* The encoder takes a reference to the frame.
LEMMA EncodeInv == ASSUME Inv, Encode PROVE Inv'
<1> DEFINE counted == [refs EXCEPT ![frame] = @ + 1]
<1>1. /\ pc = "encode" /\ program # "vaapi" /\ (pc' = "fill" <=> turn < turns) /\ pc' \in {"fill", "flush"}
      /\ ReceiveAll(counted, Accept(encoder, frame))
      /\ UNCHANGED <<given, chosen, turn, content, frame, open, err, failed>>
  BY DEF Encode, MoreTurns
<1>2. frame \in Buffers /\ refs \in [Buffers -> Nat] /\ refs[frame] = 1 /\ open = {} /\ ~failed
  BY <1>1, AtEncode
<1>3. /\ counted \in [Buffers -> Nat] /\ counted[frame] = refs[frame] + 1
      /\ \A b \in Buffers \ {frame} : counted[b] = refs[b]
  BY <1>2
<1> HIDE DEF counted
<1>4. /\ Counting(out') /\ Len(out') + Len(encoder'.held) = turn
      /\ NumberedFrom(encoder'.held, content, Len(out'))
      /\ encoder' \in Codec(Buffers) /\ Distinct(encoder'.held) /\ Len(encoder'.held) <= delay
      /\ ~encoder'.draining /\ refs' \in [Buffers -> Nat]
      /\ \A b \in Buffers : refs'[b] = Users(b)'
  BY <1>1, <1>3, Sent
<1>5. TypeInv'
  <2>1. TypeOK'
    BY <1>1, <1>2, <1>4 DEF Inv, TypeInv, TypeOK, given
  <2> QED
    BY <1>1, <2>1, Types DEF Inv, TypeInv, given
<1>6. HeldInv'
  BY <1>1, <1>4 DEF HeldInv, given
<1>7. FrameInv'
  BY <1>1, <1>2, Types DEF FrameInv, given
<1>8. ContentInv'
  <2>1. pc' = "flush" => turn' = turns'
    BY <1>1, Types DEF given
  <2> QED
    BY <1>1, <1>4, <2>1 DEF ContentInv, given
<1> QED
  BY <1>5, <1>6, <1>7, <1>8 DEF Inv

\* The surface is the encoder's alone from now on.
LEMMA EncodeSurfaceInv == ASSUME Inv, EncodeSurface PROVE Inv'
<1> DEFINE once == [refs EXCEPT ![frame] = @ + 1]
           counted == [once EXCEPT ![frame] = @ - 1]
<1>1. /\ pc = "encode" /\ program = "vaapi" /\ pc' = "read"
      /\ frame' = 0 /\ open' = open \ {"hw_frame", "sw_frame"}
      /\ ReceiveAll(counted, Accept(encoder, frame))
      /\ UNCHANGED <<given, chosen, turn, content, err, failed>>
  BY DEF EncodeSurface, EndTurn
<1>2. frame \in Buffers /\ refs \in [Buffers -> Nat] /\ refs[frame] = 1
  BY <1>1, AtEncode
<1>3. /\ once \in [Buffers -> Nat] /\ once[frame] = refs[frame] + 1
      /\ \A b \in Buffers \ {frame} : once[b] = refs[b]
  BY <1>2
<1> HIDE DEF once
<1>4. /\ counted \in [Buffers -> Nat] /\ counted[frame] = refs[frame]
      /\ \A b \in Buffers \ {frame} : counted[b] = refs[b]
  BY <1>2, <1>3
<1> HIDE DEF counted
<1>5. /\ Counting(out') /\ Len(out') + Len(encoder'.held) = turn
      /\ NumberedFrom(encoder'.held, content, Len(out'))
      /\ encoder' \in Codec(Buffers) /\ Distinct(encoder'.held) /\ Len(encoder'.held) <= delay
      /\ ~encoder'.draining /\ refs' \in [Buffers -> Nat]
      /\ \A b \in Buffers : refs'[b] = Users(b)'
  BY <1>1, <1>4, Sent
<1>6. TypeInv'
  <2>1. open' \subseteq ToSet(SetUp) \cup {"sw_frame", "hw_frame"}
    BY <1>1 DEF Inv, TypeInv, TypeOK
  <2>2. TypeOK'
    BY <1>1, <1>5, <2>1 DEF Inv, TypeInv, TypeOK, given
  <2> QED
    BY <1>1, <2>2 DEF Inv, TypeInv, given
<1>7. HeldInv'
  BY <1>1, <1>5 DEF HeldInv, given
<1>8. FrameInv'
  BY <1>1, Types DEF FrameInv, given
<1>9. ContentInv'
  <2>1. turn = Len(out') + Len(encoder'.held)
    BY <1>5
  <2> QED
    BY <1>1, <1>5, <2>1 DEF ContentInv, given
<1> QED
  BY <1>6, <1>7, <1>8, <1>9 DEF Inv

\* A surface that nobody refers to is filled.
LEMMA UploadInv == ASSUME Inv, Upload PROVE Inv'
<1>1. /\ frame = 0 /\ turn < turns /\ turn = Len(out) + Len(encoder.held)
      /\ program = "vaapi" /\ ~encoder.draining
  BY DEF Upload, Inv, TypeInv, HeldInv, FrameInv, ContentInv
<1>2. /\ frame' \in InPool /\ refs' = [refs EXCEPT ![frame'] = 1]
      /\ turn' = turn + 1 /\ content' = [content EXCEPT ![frame'] = turn']
      /\ open' = open \cup {"hw_frame"} /\ err' = 0 /\ pc' = "encode"
      /\ UNCHANGED <<given, chosen, encoder, out, failed>>
  BY DEF Upload
<1>3. frame' \in Buffers /\ refs[frame'] = 0
  <2>1. frame' \in 1 .. PoolSize /\ refs[frame'] = 0
    BY <1>2 DEF InPool, Surfaces
  <2>2. MaxDelay \in Nat /\ PoolSize \in 1 .. MaxDelay + 2
    BY EncodeAssumption
  <2> QED
    BY <2>1, <2>2 DEF Buffers
<1>4. /\ frame' \notin Held /\ refs \in [Buffers -> Nat]
      /\ \A b \in Buffers : refs[b] = (IF b \in Held THEN 1 ELSE 0)
  <2>1. frame' \notin Held /\ refs \in [Buffers -> Nat]
    BY <1>3, Shared
  <2>2. \A b \in Buffers : refs[b] = Users(b)
    BY DEF Inv, HeldInv
  <2>3. \A b \in Buffers : frame # b
    BY <1>1, Types
  <2>4. \A b \in Buffers : refs[b] = (IF b \in Held THEN 1 ELSE 0)
    BY <2>2, <2>3 DEF Users
  <2> QED
    BY <2>1, <2>4
<1>5. /\ refs' \in [Buffers -> Nat]
      /\ \A b \in Buffers : refs'[b] = (IF b \in Held THEN 1 ELSE 0) + (IF frame' = b THEN 1 ELSE 0)
  BY <1>2, <1>3, <1>4
<1>6. /\ turn' \in 0 .. turns /\ turn' \in 0 .. Turns
      /\ content \in [Buffers -> 0 .. Turns] /\ content \in [Buffers -> Int]
  <2>0. turn' = turn + 1
    BY <1>2
  <2>1. turn' \in 0 .. turns /\ turn' \in 0 .. Turns
    BY <1>1, <2>0, Types
  <2>2. content \in [Buffers -> 0 .. Turns]
    BY DEF Inv, TypeInv, TypeOK
  <2> QED
    BY <2>1, <2>2, Types
<1>7. content' \in [Buffers -> 0 .. Turns] /\ content'[frame'] = turn'
  BY <1>2, <1>3, <1>6
<1>8. TypeInv'
  <2>1. open' \subseteq ToSet(SetUp) \cup {"sw_frame", "hw_frame"}
    BY <1>2 DEF Inv, TypeInv, TypeOK
  <2>2. TypeOK'
    BY <1>2, <1>3, <1>5, <1>6, <1>7, <2>1 DEF Inv, TypeInv, TypeOK, given
  <2> QED
    BY <1>1, <1>2, <2>2, Types DEF Inv, TypeInv, given
<1>9. HeldInv'
  <2>1. \A b \in Buffers : refs'[b] = Users(b)'
    BY <1>2, <1>5 DEF Users, Held
  <2> QED
    BY <1>1, <1>2, <2>1 DEF Inv, HeldInv, given
<1>10. FrameInv'
  BY <1>1, <1>2, <1>3, <1>4, Types DEF FrameInv, Held, given
<1>11. ContentInv'
  <2>1. NumberedFrom(encoder.held, content, Len(out)) /\ Counting(out)
    BY DEF Inv, ContentInv
  <2>2. NumberedFrom(encoder.held, content', Len(out))
    BY <1>2, <1>3, <1>4, <1>6, <2>1, Types, OtherWritten DEF Held
  <2>3. turn' = Len(out) + Len(encoder.held) + 1
    BY <1>1, <1>2
  <2> QED
    BY <1>2, <1>7, <2>1, <2>2, <2>3 DEF ContentInv
<1> QED
  BY <1>8, <1>9, <1>10, <1>11 DEF Inv

\* A step that leaves buffers, frame and encoder as they are.
LEMMA HeldStays ==
  ASSUME Inv, UNCHANGED <<given, refs, frame>>, encoder'.held = encoder.held,
         pc' \notin {"close", "exit"} => ~encoder'.draining
  PROVE  HeldInv'
<1>1. \A b \in Buffers : refs'[b] = Users(b)'
  BY DEF Inv, HeldInv, Users, Held
<1> QED
  BY <1>1 DEF Inv, HeldInv, given

\* vaapi_encode is set up, one thing after the other.
LEMMA PrepareInv == ASSUME Inv, Prepare PROVE Inv'
<1>1. /\ pc \in ToSet(SetUp) /\ pc' \in ToSet(SetUp) \cup {"read"} /\ pc' # "fin"
      /\ open' = open \cup {pc}
      /\ UNCHANGED <<given, chosen, turn, content, refs, frame, encoder, out, err, failed>>
  <2>1. PICK i \in DOMAIN SetUp : pc = SetUp[i] /\ pc' = IF i < Len(SetUp) THEN SetUp[i + 1] ELSE "read"
    BY DEF Prepare
  <2>2. DOMAIN SetUp = 1 .. 5 /\ Len(SetUp) = 5
    BY DEF SetUp
  <2>3. pc \in ToSet(SetUp)
    BY <2>1 DEF ToSet
  <2>4. pc' \in ToSet(SetUp) \cup {"read"} /\ pc' # "fin"
    <3>1. CASE i < 5
      <4>1. i + 1 \in DOMAIN SetUp /\ i + 1 > 1
        BY <2>2, <3>1
      <4>2. pc' = SetUp[i + 1]
        BY <2>1, <2>2, <3>1
      <4>3. SetUp[i + 1] # "fin"
        BY <2>2, <4>1 DEF SetUp
      <4> QED
        BY <4>1, <4>2, <4>3 DEF ToSet
    <3>2. CASE ~(i < 5)
      BY <2>1, <2>2, <3>2
    <3> QED
      BY <3>1, <3>2
  <2> QED
    BY <2>3, <2>4 DEF Prepare
<1>2. /\ program = "vaapi" /\ frame = 0 /\ encoder.held = <<>> /\ ~encoder.draining
      /\ turn = Len(out) + Len(encoder.held)
  BY <1>1, Types DEF Inv, TypeInv, HeldInv, FrameInv, ContentInv
<1>3. TypeInv'
  <2>1. TypeOK'
    BY <1>1 DEF Inv, TypeInv, TypeOK, given
  <2> QED
    BY <1>1, <1>2, <2>1, Types DEF Inv, TypeInv, given
<1>4. HeldInv'
  BY <1>1, <1>2, HeldStays
<1>5. FrameInv'
  BY <1>1, <1>2, Types DEF FrameInv, Held, given
<1>6. ContentInv'
  BY <1>1, <1>2, Types DEF Inv, ContentInv, given
<1> QED
  BY <1>3, <1>4, <1>5, <1>6 DEF Inv

\* The set-up of vaapi_encode fails.
LEMMA PrepareFailsInv == ASSUME Inv, PrepareFails PROVE Inv'
<1>1. /\ pc \in ToSet(SetUp) /\ pc' = (IF pc = "fin" THEN "exit" ELSE "close") /\ failed' = TRUE /\ err' = -1
      /\ UNCHANGED <<given, chosen, turn, content, refs, frame, encoder, out, open>>
  BY DEF PrepareFails
<1>2. /\ program = "vaapi" /\ frame = 0 /\ encoder.held = <<>> /\ (pc = "fin" => open = {})
  BY <1>1, Types DEF Inv, TypeInv, FrameInv
<1>3. TypeInv'
  <2>1. TypeOK'
    BY <1>1 DEF Inv, TypeInv, TypeOK, given
  <2> QED
    BY <1>1, <1>2, <2>1, Types DEF Inv, TypeInv, given
<1>4. HeldInv'
  BY <1>1, HeldStays
<1>5. FrameInv'
  BY <1>1, <1>2, Types DEF FrameInv, Held, given
<1>6. ContentInv'
  BY <1>1 DEF Inv, ContentInv, given
<1> QED
  BY <1>3, <1>4, <1>5, <1>6 DEF Inv

\* vaapi_encode reads a picture, or the end.
LEMMA ReadPictureInv == ASSUME Inv, ReadPicture PROVE Inv'
<1>1. /\ pc = "read" /\ pc' \in {"fillSurface", "flush"} /\ (pc' = "fillSurface" <=> turn < turns)
      /\ err' \in {0, 1} /\ open' = open \cup {"sw_frame"}
      /\ UNCHANGED <<given, chosen, turn, content, refs, frame, encoder, out, failed>>
  BY DEF ReadPicture, MoreTurns
<1>2. program = "vaapi" /\ frame = 0 /\ ~encoder.draining /\ turn = Len(out) + Len(encoder.held)
  BY <1>1, Types DEF Inv, TypeInv, HeldInv, FrameInv, ContentInv
<1>3. TypeInv'
  <2>1. TypeOK'
    BY <1>1 DEF Inv, TypeInv, TypeOK, given
  <2> QED
    BY <1>1, <1>2, <2>1 DEF Inv, TypeInv, given
<1>4. HeldInv'
  BY <1>1, <1>2, HeldStays
<1>5. FrameInv'
  BY <1>1, <1>2, Types DEF FrameInv, Held, given
<1>6. ContentInv'
  <2>1. pc' = "flush" => turn = turns
    BY <1>1, Types
  <2> QED
    BY <1>1, <1>2, <2>1 DEF Inv, ContentInv, given
<1> QED
  BY <1>3, <1>4, <1>5, <1>6 DEF Inv

\* A call in the loop of vaapi_encode fails.
LEMMA TurnFailsInv == ASSUME Inv, TurnFails PROVE Inv'
<1>1. /\ program = "vaapi" /\ pc' = "close" /\ failed' = TRUE /\ err' = -1
      /\ open' \subseteq open \cup {"hw_frame"}
      /\ UNCHANGED <<given, chosen, turn, content, refs, frame, encoder, out>>
  BY DEF TurnFails
<1>2. TypeInv'
  <2>1. TypeOK'
    BY <1>1 DEF Inv, TypeInv, TypeOK, given
  <2> QED
    BY <1>1, <2>1 DEF Inv, TypeInv, given
<1>3. HeldInv'
  BY <1>1, HeldStays
<1>4. FrameInv'
  BY <1>1, Types DEF FrameInv, Held, given
<1>5. ContentInv'
  BY <1>1 DEF Inv, ContentInv, given
<1> QED
  BY <1>2, <1>3, <1>4, <1>5 DEF Inv

\* encode_audio or encode_video exits.
LEMMA FailInv == ASSUME Inv, Fail PROVE Inv'
<1>1. /\ program # "vaapi" /\ pc' = "exit" /\ failed' = TRUE /\ pc \in {"open", "fill", "encode", "flush"}
      /\ UNCHANGED <<given, chosen, turn, content, refs, frame, encoder, out, open, err>>
  BY DEF Fail
<1>2. TypeInv'
  <2>1. TypeOK'
    BY <1>1 DEF Inv, TypeInv, TypeOK, given
  <2> QED
    BY <1>1, <2>1, Types DEF Inv, TypeInv, given
<1>3. HeldInv'
  BY <1>1, HeldStays
<1>4. FrameInv'
  BY <1>1, Types DEF Inv, FrameInv, Held, given
<1>5. ContentInv'
  BY <1>1 DEF Inv, ContentInv, given
<1> QED
  BY <1>2, <1>3, <1>4, <1>5 DEF Inv

\* The encoder is told the end and gives all back.
LEMMA FlushInv == ASSUME Inv, Flush PROVE Inv'
<1>1. /\ pc = "flush" /\ ReceiveAll(refs, Drain(encoder)) /\ pc' = "close"
      /\ err' = (IF program = "vaapi" THEN -1 ELSE err)
      /\ UNCHANGED <<given, chosen, turn, content, frame, open, failed>>
  BY DEF Flush
<1>2. /\ turn = turns /\ turn = Len(out) + Len(encoder.held)
      /\ (program # "vaapi" => open = {} /\ ~failed /\ frame \in Buffers)
      /\ refs \in [Buffers -> Nat] /\ encoder \in Codec(Buffers) /\ Distinct(encoder.held)
      /\ NumberedFrom(encoder.held, content, Len(out))
      /\ \A b \in Buffers : refs[b] = Users(b)
  BY <1>1 DEF Inv, TypeInv, TypeOK, HeldInv, FrameInv, ContentInv
<1>3. Drain(encoder) = [held |-> encoder.held, draining |-> TRUE]
  BY <1>2, DrainingReplaced, Zenon DEF Drain
<1>4. /\ Drain(encoder) \in Codec(Buffers) /\ Drain(encoder).held = encoder.held /\ Drain(encoder).draining
  BY <1>2, <1>3 DEF Codec
<1>5. \A b \in ToSet(encoder.held) : refs[b] > 0
  <2>0. encoder.held \in Seq(Buffers)
    BY Types
  <2>1. \A b \in ToSet(encoder.held) : b \in Buffers
    BY <2>0 DEF ToSet
  <2> QED
    BY <1>2, <2>1 DEF Users, Held
<1>6. /\ Counting(out') /\ Len(out') + Len(encoder'.held) = turn
      /\ encoder' \in Codec(Buffers) /\ encoder'.held = <<>> /\ refs' \in [Buffers -> Nat]
      /\ \A b \in Buffers : refs'[b] + (IF b \in Held THEN 1 ELSE 0) = refs[b]
  <2>1. Len(encoder.held) <= delay + 1
    BY Types
  <2>2. /\ Counting(out') /\ Len(out') + Len(encoder'.held) = Len(out) + Len(encoder.held)
        /\ encoder' \in Codec(Buffers) /\ encoder'.held = <<>> /\ refs' \in [Buffers -> Nat]
        /\ \A b \in Buffers : refs'[b] + (IF b \in Held THEN 1 ELSE 0) =
                              refs[b] + (IF b \in ToSet(encoder'.held) THEN 1 ELSE 0)
    <3> DEFINE c == Drain(encoder)
    <3>1. /\ c \in Codec(Buffers) /\ c.held = encoder.held /\ c.draining /\ Distinct(c.held)
          /\ NumberedFrom(c.held, content, Len(out)) /\ Len(c.held) <= delay + 1
          /\ (\A b \in ToSet(c.held) : refs[b] > 0) /\ ReceiveAll(refs, c)
      BY <1>1, <1>2, <1>4, <1>5, <2>1
    <3> HIDE DEF c
    <3>2. /\ Counting(out') /\ Len(out') + Len(encoder'.held) = Len(out) + Len(c.held)
          /\ encoder' \in Codec(Buffers) /\ (c.draining => encoder'.held = <<>>)
          /\ refs' \in [Buffers -> Nat]
          /\ \A b \in Buffers : refs'[b] + (IF b \in ToSet(c.held) THEN 1 ELSE 0) =
                                refs[b] + (IF b \in ToSet(encoder'.held) THEN 1 ELSE 0)
      BY <1>2, <3>1, Received
    <3> QED
      BY <3>1, <3>2 DEF Held
  <2>3. ToSet(<<>>) = {}
    BY DEF ToSet
  <2> QED
    BY <1>2, <2>2, <2>3
<1>7. TypeInv'
  <2>1. err' \in {-1, 0, 1}
    BY <1>1 DEF Inv, TypeInv, TypeOK
  <2>2. TypeOK'
    BY <1>1, <1>6, <2>1 DEF Inv, TypeInv, TypeOK, given
  <2> QED
    BY <1>1, <2>2, Types DEF Inv, TypeInv, given
<1>8. Held' = {} /\ Len(encoder'.held) = 0 /\ DOMAIN encoder'.held = {}
  BY <1>6 DEF Held, ToSet
<1>9. HeldInv'
  <2>1. \A b \in Buffers : refs'[b] = IF frame = b THEN 1 ELSE 0
    BY <1>2, <1>6 DEF Users
  <2>2. \A b \in Buffers : refs'[b] = Users(b)'
    BY <1>1, <1>8, <2>1 DEF Users
  <2> QED
    BY <1>1, <1>8, <2>2, Types DEF HeldInv, Distinct, given
<1>10. FrameInv'
  BY <1>1, <1>2, Types DEF FrameInv, given
<1>11. ContentInv'
  <2>1. Len(out') = turns
    <3>1. Len(out') \in Nat
      BY <1>6 DEF Counting
    <3> QED
      BY <1>2, <1>6, <1>8, <3>1
  <2> QED
    BY <1>1, <1>6, <1>8, <2>1 DEF ContentInv, NumberedFrom, given
<1> QED
  BY <1>7, <1>9, <1>10, <1>11 DEF Inv

\* The flush of vaapi_encode fails.
LEMMA FlushFailsInv == ASSUME Inv, FlushFails PROVE Inv'
<1>1. /\ program = "vaapi" /\ pc' = "close" /\ failed' = TRUE /\ err' = -1
      /\ encoder' = Drain(encoder)
      /\ UNCHANGED <<given, chosen, turn, content, refs, frame, out, open>>
  BY DEF FlushFails
<1>2. encoder' \in Codec(Buffers) /\ encoder'.held = encoder.held
  <2>1. encoder \in Codec(Buffers)
    BY DEF Inv, TypeInv, TypeOK
  <2>2. Drain(encoder) = [held |-> encoder.held, draining |-> TRUE]
    BY <2>1, DrainingReplaced, Zenon DEF Drain
  <2> QED
    BY <1>1, <2>1, <2>2 DEF Codec
<1>3. TypeInv'
  <2>1. TypeOK'
    BY <1>1, <1>2 DEF Inv, TypeInv, TypeOK, given
  <2> QED
    BY <1>1, <2>1 DEF Inv, TypeInv, given
<1>4. HeldInv'
  BY <1>1, <1>2, HeldStays
<1>5. FrameInv'
  BY <1>1, Types DEF FrameInv, given
<1>6. ContentInv'
  BY <1>1, <1>2 DEF Inv, ContentInv, given
<1> QED
  BY <1>3, <1>4, <1>5, <1>6 DEF Inv

\* encode_audio or encode_video frees its frame.
LEMMA CloseInv == ASSUME Inv, Close PROVE Inv'
<1>1. /\ pc = "close" /\ program # "vaapi" /\ refs' = [refs EXCEPT ![frame] = @ - 1] /\ frame' = 0
      /\ pc' = "exit"
      /\ UNCHANGED <<given, chosen, turn, content, encoder, out, open, err, failed>>
  BY DEF Close
<1>2. /\ frame \in Buffers /\ ~failed /\ open = {} /\ encoder.held = <<>>
      /\ refs \in [Buffers -> Nat] /\ \A b \in Buffers : refs[b] = Users(b)
  BY <1>1 DEF Inv, TypeInv, TypeOK, HeldInv, FrameInv, ContentInv
<1>3. Held = {}
  BY <1>2 DEF Held, ToSet
<1>4. \A b \in Buffers : refs[b] = IF b = frame THEN 1 ELSE 0
  BY <1>2, <1>3 DEF Users
<1>5. refs' \in [Buffers -> Nat] /\ \A b \in Buffers : refs'[b] = 0
  BY <1>1, <1>2, <1>4
<1>6. TypeInv'
  <2>1. TypeOK'
    BY <1>1, <1>5 DEF Inv, TypeInv, TypeOK, given
  <2> QED
    BY <1>1, <2>1, Types DEF Inv, TypeInv, given
<1>7. HeldInv'
  <2>1. Held' = {}
    BY <1>1, <1>3 DEF Held
  <2>2. \A b \in Buffers : refs'[b] = Users(b)'
    BY <1>1, <1>5, <2>1, Types DEF Users
  <2> QED
    BY <1>1, <2>2 DEF Inv, HeldInv, given
<1>8. FrameInv'
  BY <1>1, <1>2, Types DEF FrameInv, given
<1>9. ContentInv'
  BY <1>1 DEF Inv, ContentInv, given
<1> QED
  BY <1>6, <1>7, <1>8, <1>9 DEF Inv

\* vaapi_encode frees what it has, wherever it comes from.
LEMMA CloseSurfacesInv == ASSUME Inv, CloseSurfaces PROVE Inv'
<1>1. /\ pc = "close" /\ program = "vaapi" /\ pc' = "exit"
      /\ open' = open \ Freed /\ frame' = 0
      /\ encoder' = [encoder EXCEPT !.held = <<>>]
      /\ refs' = [b \in Buffers |-> IF b = frame' THEN 1 ELSE 0]
      /\ UNCHANGED <<given, chosen, turn, content, out, err, failed>>
  BY DEF CloseSurfaces, Freed
<1>2. open' = {}
  BY <1>1 DEF Inv, TypeInv, TypeOK, Freed
<1>3. encoder' \in Codec(Buffers) /\ encoder'.held = <<>>
  <2>1. encoder \in Codec(Buffers)
    BY DEF Inv, TypeInv, TypeOK
  <2>2. encoder' = [held |-> <<>>, draining |-> encoder.draining]
    BY <1>1, <2>1, HeldReplaced, Zenon
  <2> QED
    BY <2>1, <2>2 DEF Codec
<1>4. Held' = {} /\ Len(encoder'.held) = 0 /\ DOMAIN encoder'.held = {}
  BY <1>3 DEF Held, ToSet
<1>5. refs' \in [Buffers -> Nat] /\ \A b \in Buffers : refs'[b] = 0
  BY <1>1, Types
<1>6. TypeInv'
  <2>1. TypeOK'
    BY <1>1, <1>2, <1>3, <1>5 DEF Inv, TypeInv, TypeOK, given
  <2> QED
    BY <1>1, <2>1, Types DEF Inv, TypeInv, given
<1>7. HeldInv'
  <2>1. \A b \in Buffers : refs'[b] = Users(b)'
    BY <1>1, <1>4, <1>5, Types DEF Users
  <2> QED
    BY <1>1, <1>4, <2>1, Types DEF HeldInv, Distinct, given
<1>8. FrameInv'
  BY <1>1, <1>2, <1>3, Types DEF FrameInv, given
<1>9. ContentInv'
  BY <1>1, <1>4 DEF Inv, ContentInv, NumberedFrom, given
<1> QED
  BY <1>6, <1>7, <1>8, <1>9 DEF Inv

-----------------------------------------------------------------------------
(* The theorems.                                                            *)

\* Every step keeps the invariant.
LEMMA StepInv == Inv /\ [Next]_vars => Inv'
<1> SUFFICES ASSUME Inv, [Next]_vars PROVE Inv'
  OBVIOUS
<1>1. CASE UNCHANGED vars
  BY <1>1 DEF vars, given, Inv, TypeInv, TypeOK, HeldInv, Users, Held, FrameInv, ContentInv
<1>2. CASE Next
  <2>1. CASE Ended
    BY <1>1, <2>1 DEF Ended
  <2> QED
    BY <1>2, <2>1, OpenInv, FillFrameInv, EncodeInv, CloseInv, FailInv, PrepareInv, PrepareFailsInv,
       ReadPictureInv, UploadInv, EncodeSurfaceInv, TurnFailsInv, FlushInv, FlushFailsInv,
       CloseSurfacesInv DEF Next
<1> QED
  BY <1>1, <1>2

\* The inductive invariant holds in every state of the three programs.
THEOREM InvHolds == Spec => []Inv
  BY InitInv, StepInv, PTL DEF Spec

(* What main writes into its frame while the encoder still has earlier      *)
(* ones never reaches them, for any delay: make_writable copies exactly     *)
(* when the encoder refers to the buffer.                                   *)
THEOREM AsSent == Spec => []EncodedAsSent
<1>1. Inv => EncodedAsSent
  <2> SUFFICES ASSUME Inv PROVE EncodedAsSent
    OBVIOUS
  <2>1. out \in Seq(Nat) /\ \A i \in DOMAIN out : out[i] = i
    BY DEF Inv, ContentInv, Counting
  <2>2. out = [i \in DOMAIN out |-> out[i]]
    BY <2>1
  <2>3. out = [i \in DOMAIN out |-> i]
    BY <2>1, <2>2
  <2>4. pc = "exit" /\ ~failed => Len(out) = turns
    BY DEF Inv, ContentInv
  <2> QED
    BY <2>3, <2>4 DEF EncodedAsSent
<1> QED
  BY <1>1, InvHolds, PTL

(* No reference is lost or given up twice, and at the end of a run that     *)
(* nothing cut short none is left, for any delay and any number of turns.   *)
THEOREM Counted == Spec => []ReferencesCounted
<1>1. Inv => ReferencesCounted
  <2> SUFFICES ASSUME Inv PROVE ReferencesCounted
    OBVIOUS
  <2>1. TypeOK /\ Distinct(encoder.held) /\ \A b \in Buffers : refs[b] = Users(b)
    BY DEF Inv, TypeInv, HeldInv
  <2>2. \A b \in Buffers : Uses(encoder.held, b) = IF b \in Held THEN 1 ELSE 0
    BY <2>1, Types, UsedOnce DEF Held
  <2>3. \A b \in Buffers : refs[b] = Uses(encoder.held, b) + (IF frame = b THEN 1 ELSE 0)
    BY <2>1, <2>2 DEF Users
  <2>4. ASSUME pc = "exit", program = "vaapi" \/ ~failed
        PROVE  open = {} /\ \A b \in Buffers : refs[b] = 0
    <3>1. open = {} /\ encoder.held = <<>> /\ frame = 0
      BY <2>4 DEF Inv, FrameInv
    <3>2. Held = {}
      BY <3>1 DEF Held, ToSet
    <3> QED
      BY <2>1, <3>1, <3>2, Types DEF Users
  <2> QED
    BY <2>1, <2>3, <2>4 DEF ReferencesCounted
<1> QED
  BY <1>1, InvHolds, PTL

(* A pool that is one larger than the encoder's delay always has a surface  *)
(* for vaapi_encode, whatever the length of its input.                      *)
THEOREM PoolLasts == Spec => []PoolSuffices
<1>1. Inv => PoolSuffices
  <2> SUFFICES ASSUME Inv, pc = "fillSurface", delay < PoolSize PROVE InPool # {}
    BY DEF PoolSuffices
  <2>1. MaxDelay \in Nat /\ PoolSize \in 1 .. MaxDelay + 2 /\ PoolSize \in Nat
    BY EncodeAssumption
  <2>2. Len(encoder.held) < PoolSize
    BY <2>1, Types
  <2>3. PICK b \in 1 .. PoolSize : b \notin Held
    BY <2>1, <2>2, Types, OneLeft DEF Held
  <2>4. b \in Buffers
    BY <2>1 DEF Buffers
  <2>5. frame = 0 /\ refs[b] = Users(b)
    BY <2>4 DEF Inv, FrameInv, HeldInv
  <2>6. refs[b] = 0
    BY <2>3, <2>4, <2>5, Types DEF Users
  <2> QED
    BY <2>6 DEF InPool, Surfaces
<1> QED
  BY <1>1, InvHolds, PTL

-----------------------------------------------------------------------------
(* Which rate select_sample_rate takes.                                     *)

\* Its loop, for the entries of the list whose places are in T.
BestOf(f, rates, T) ==
  IF T = {} THEN 0
  ELSE IF Nearer(f[T \ {Max(T)}], rates[Max(T)]) THEN rates[Max(T)] ELSE f[T \ {Max(T)}]

\* f gives what it has found in any of the first n entries of the list.
Finds(f, rates, n) == f = [T \in SUBSET (1 .. n) |-> BestOf(f, rates, T)]

(* The largest of the numbers up to n is n.                                 *)
LEMMA LastIsMax ==
  ASSUME NEW n \in Nat, NEW T \in SUBSET (1 .. n), n \in T
  PROVE  Max(T) = n
<1>1. \A x \in T : x \in Int /\ x <= n
  OBVIOUS
<1>2. n \in T /\ \A y \in T : n >= y
  BY <1>1
<1>3. Max(T) \in T /\ \A y \in T : Max(T) >= y
  BY <1>2 DEF Max
<1> DEFINE x == Max(T)
<1>4. x \in Int /\ x <= n /\ x >= n
  BY <1>1, <1>3
<1> HIDE DEF x
<1>5. x = n
  BY <1>4, SMT
<1> QED
  BY <1>5 DEF x

(* The fold over the list is defined for every list.                        *)
LEMMA FindsExists ==
  ASSUME NEW rates, NEW n \in Nat
  PROVE  \E f : Finds(f, rates, n)
<1> DEFINE M == {m \in Nat : \E f : Finds(f, rates, m)}
<1>1. 0 \in M
  <2> DEFINE f == [T \in SUBSET (1 .. 0) |-> 0]
  <2>1. \A T \in SUBSET (1 .. 0) : T = {}
    BY SMT
  <2>2. f = [T \in SUBSET (1 .. 0) |-> BestOf(f, rates, T)]
    <3> DEFINE h == [T \in SUBSET (1 .. 0) |-> BestOf(f, rates, T)]
    <3>1. \A T \in SUBSET (1 .. 0) : BestOf(f, rates, T) = 0
      BY <2>1, Zenon DEF BestOf
    <3> QED
      BY <3>1, Zenon
  <2> QED
    BY <2>2 DEF Finds
<1>2. ASSUME NEW m \in Nat, m \in M
      PROVE  m + 1 \in M
  <2>1. PICK f : Finds(f, rates, m)
    BY <1>2
  <2> DEFINE g == [T \in SUBSET (1 .. m + 1) |-> BestOf(f, rates, T)]
  <2>2. ASSUME NEW T \in SUBSET (1 .. m)
        PROVE  g[T] = f[T]
    <3> DEFINE h == [U \in SUBSET (1 .. m) |-> BestOf(f, rates, U)]
    <3>1. h[T] = BestOf(f, rates, T)
      BY Zenon
    <3>2. f = h
      BY <2>1, Zenon DEF Finds
    <3>3. T \in SUBSET (1 .. m + 1)
      BY SMT
    <3>4. g[T] = BestOf(f, rates, T)
      BY <3>3, Zenon
    <3> HIDE DEF g, h
    <3> QED
      BY <3>1, <3>2, <3>4, Zenon
  <2> HIDE DEF g
  <2>3. ASSUME NEW T \in SUBSET (1 .. m + 1), T # {}
        PROVE  T \ {Max(T)} \in SUBSET (1 .. m)
    <3>1. CASE m + 1 \in T
      <4>1. Max(T) = m + 1
        BY <3>1, LastIsMax
      <4> QED
        BY <4>1, SMT
    <3>2. CASE m + 1 \notin T
      <4>1. T \in SUBSET (1 .. m)
        BY <3>2, SMT
      <4> QED
        BY <4>1
    <3> QED
      BY <3>1, <3>2
  <2>4. \A T \in SUBSET (1 .. m + 1) : BestOf(g, rates, T) = BestOf(f, rates, T)
    <3> SUFFICES ASSUME NEW T \in SUBSET (1 .. m + 1)
                 PROVE  BestOf(g, rates, T) = BestOf(f, rates, T)
      OBVIOUS
    <3>1. CASE T = {}
      BY <3>1, Zenon DEF BestOf
    <3>2. CASE T # {}
      <4>1. g[T \ {Max(T)}] = f[T \ {Max(T)}]
        BY <2>2, <2>3, <3>2, Zenon
      <4> QED
        BY <4>1, Zenon DEF BestOf
    <3> QED
      BY <3>1, <3>2
  <2>5. g = [T \in SUBSET (1 .. m + 1) |-> BestOf(f, rates, T)]
    BY Zenon DEF g
  <2>6. Finds(g, rates, m + 1)
    BY <2>4, <2>5, Zenon DEF Finds
  <2> QED
    BY <2>6
<1>3. Nat \subseteq M
  <2> HIDE DEF M
  <2> QED
    BY <1>1, <1>2, SetInduction
<1> QED
  BY <1>3

(* What is found in the first k + 1 entries, from what is in the first k.   *)
LEMMA FindsNext ==
  ASSUME NEW f, NEW rates, NEW n \in Nat, Finds(f, rates, n), NEW k \in Nat, k < n
  PROVE  f[1 .. k + 1] = IF Nearer(f[1 .. k], rates[k + 1]) THEN rates[k + 1] ELSE f[1 .. k]
<1> DEFINE h == [T \in SUBSET (1 .. n) |-> BestOf(f, rates, T)]
           T == 1 .. k + 1
<1>1. T \in SUBSET (1 .. n) /\ T # {} /\ k + 1 \in T /\ T \in SUBSET (1 .. k + 1)
  BY SMT
<1>2. Max(T) = k + 1
  BY <1>1, LastIsMax
<1>3. T \ {k + 1} = 1 .. k
  BY SMT
<1> HIDE DEF T
<1>4. h[T] = BestOf(f, rates, T)
  BY <1>1, Zenon
<1>5. f = h
  BY Zenon DEF Finds
<1> HIDE DEF h
<1>6. f[T] = BestOf(f, rates, T)
  BY <1>4, <1>5, Zenon
<1>7. BestOf(f, rates, T) = IF Nearer(f[1 .. k], rates[k + 1]) THEN rates[k + 1] ELSE f[1 .. k]
  BY <1>1, <1>2, <1>3 DEF BestOf
<1> QED
  BY <1>6, <1>7 DEF T

(* Before the first entry nothing is found.                                 *)
LEMMA FindsNothing ==
  ASSUME NEW f, NEW rates, NEW n \in Nat, Finds(f, rates, n)
  PROVE  f[1 .. 0] = 0
<1> DEFINE h == [T \in SUBSET (1 .. n) |-> BestOf(f, rates, T)]
<1>1. 1 .. 0 = {} /\ {} \in SUBSET (1 .. n)
  BY SMT
<1>2. h[{}] = BestOf(f, rates, {})
  BY <1>1, Zenon
<1>3. f = h
  BY Zenon DEF Finds
<1> HIDE DEF h
<1>4. BestOf(f, rates, {}) = 0
  BY DEF BestOf
<1> QED
  BY <1>1, <1>2, <1>3, <1>4, Zenon

\* best is the first of the nearest among the first k entries.
FirstNearest(best, rates, k) ==
  \E i \in 1 .. k :
    /\ best = rates[i]
    /\ \A j \in 1 .. k :
         /\ Distance(rates[j]) >= Distance(best)
         /\ j < i => Distance(rates[j]) > Distance(best)

(* One more entry.                                                          *)
LEMMA NearestNext ==
  ASSUME NEW rates, NEW k \in Nat, \A j \in 1 .. k + 1 : rates[j] \in Nat \ {0},
         NEW best, k = 0 => best = 0, k # 0 => FirstNearest(best, rates, k)
  PROVE  FirstNearest(IF Nearer(best, rates[k + 1]) THEN rates[k + 1] ELSE best, rates, k + 1)
<1>1. \A r \in Nat : Distance(r) \in Nat
  BY SMT DEF Distance
<1>2. k + 1 \in 1 .. k + 1 /\ \A j \in 1 .. k + 1 : j \in 1 .. k \/ j = k + 1
  BY SMT
<1>3. \A j \in 1 .. k + 1 : Distance(rates[j]) \in Nat
  BY <1>1
<1>4. CASE k = 0
  BY <1>2, <1>3, <1>4 DEF Nearer, FirstNearest
<1>5. CASE k # 0
  <2>1. PICK i \in 1 .. k :
          /\ best = rates[i]
          /\ \A j \in 1 .. k :
               /\ Distance(rates[j]) >= Distance(best)
               /\ j < i => Distance(rates[j]) > Distance(best)
    BY <1>5, Zenon DEF FirstNearest
  <2>2. i \in 1 .. k + 1 /\ best # 0 /\ Distance(best) \in Nat
    BY <1>3, <2>1
  <2>3. Nearer(best, rates[k + 1]) <=> Distance(rates[k + 1]) < Distance(best)
    BY <2>2 DEF Nearer
  <2>6. Distance(rates[k + 1]) \in Nat
    BY <1>2, <1>3
  <2>4. CASE Distance(rates[k + 1]) < Distance(best)
    <3>1. \A j \in 1 .. k : Distance(rates[j]) > Distance(rates[k + 1])
      <4> SUFFICES ASSUME NEW j \in 1 .. k PROVE Distance(rates[j]) > Distance(rates[k + 1])
        OBVIOUS
      <4>1. Distance(rates[j]) \in Nat /\ Distance(rates[j]) >= Distance(best)
        BY <1>3, <2>1
      <4> QED
        BY <2>2, <2>6, <2>4, <4>1
    <3>2. FirstNearest(rates[k + 1], rates, k + 1)
      BY <1>2, <1>3, <2>6, <3>1 DEF FirstNearest
    <3> QED
      BY <2>3, <2>4, <3>2
  <2>5. CASE ~(Distance(rates[k + 1]) < Distance(best))
    <3>1. Distance(rates[k + 1]) >= Distance(best) /\ ~(k + 1 < i)
      BY <2>2, <2>6, <2>5
    <3>2. FirstNearest(best, rates, k + 1)
      BY <1>2, <2>1, <2>2, <3>1 DEF FirstNearest
    <3> QED
      BY <2>3, <2>5, <3>2
  <2> QED
    BY <2>4, <2>5
<1> QED
  BY <1>4, <1>5

(* The fold's result, by induction over the entries it has seen.            *)
LEMMA SelectedNearest ==
  ASSUME NEW rates \in Seq(Nat \ {0}), rates # <<>>
  PROVE  FirstNearest(SelectSampleRate(rates), rates, Len(rates))
<1> DEFINE n == Len(rates)
           f == CHOOSE f : Finds(f, rates, n)
<1>1. n \in Nat \ {0} /\ DOMAIN rates = 1 .. n /\ \A j \in 1 .. n : rates[j] \in Nat \ {0}
  OBVIOUS
<1>2. SelectSampleRate(rates) = f[1 .. n]
  <2> DEFINE Found(D) == CHOOSE g : g = [T \in SUBSET D |-> BestOf(g, rates, T)]
  <2>1. SelectSampleRate(rates) = Found(DOMAIN rates)[DOMAIN rates]
    BY SMT DEF SelectSampleRate, FoldLeft, MapThenFoldSet, BestOf
  <2>2. Found(1 .. n) = f
    BY Zenon DEF Finds
  <2> HIDE DEF f, Found
  <2>3. DOMAIN rates = 1 .. n
    BY <1>1
  <2> HIDE DEF n
  <2> QED
    BY <2>1, <2>2, <2>3, Zenon
<1>3. Finds(f, rates, n)
  <2>1. \E g : Finds(g, rates, n)
    BY <1>1, FindsExists
  <2> HIDE DEF n
  <2> QED
    BY <2>1, Zenon
<1> HIDE DEF f, n
<1> DEFINE M == {k \in Nat : /\ k = 0 => f[1 .. k] = 0
                             /\ k \in 1 .. n => FirstNearest(f[1 .. k], rates, k)}
<1>4. 0 \in M
  BY <1>1, <1>3, FindsNothing
<1>5. ASSUME NEW k \in Nat, k \in M
      PROVE  k + 1 \in M
  <2> SUFFICES ASSUME k + 1 \in 1 .. n
               PROVE  FirstNearest(f[1 .. k + 1], rates, k + 1)
    BY SMT
  <2>1. k < n /\ (k # 0 => k \in 1 .. n) /\ n \in Nat
    BY <1>1
  <2> DEFINE best == f[1 .. k]
  <2>2. f[1 .. k + 1] = IF Nearer(best, rates[k + 1]) THEN rates[k + 1] ELSE best
    BY <1>3, <2>1, FindsNext
  <2>3. (k = 0 => best = 0) /\ (k # 0 => FirstNearest(best, rates, k))
    BY <1>5, <2>1
  <2>4. \A j \in 1 .. k + 1 : rates[j] \in Nat \ {0}
    BY <1>1, <2>1
  <2> HIDE DEF best
  <2>5. FirstNearest(IF Nearer(best, rates[k + 1]) THEN rates[k + 1] ELSE best, rates, k + 1)
    BY <2>3, <2>4, NearestNext
  <2> QED
    BY <2>2, <2>5
<1>6. n \in M
  <2> HIDE DEF M
  <2> QED
    BY <1>1, <1>4, <1>5, SetInduction
<1> QED
  BY <1>1, <1>2, <1>6 DEF n

\* What the encoder lists, and that main's choice is that of select_sample_rate.
RateInv ==
  /\ supported.rates \in Seq(Nat \ {0})
  /\ chosen.rate # 0 => chosen.rate = SelectSampleRate(supported.rates)

(* The rate is chosen in Open and by nothing else.                          *)
LEMMA RateStep == RateInv /\ [Next]_vars => RateInv'
<1> SUFFICES ASSUME RateInv, [Next]_vars PROVE RateInv'
  OBVIOUS
<1>1. CASE UNCHANGED <<supported, chosen>>
  BY <1>1 DEF RateInv
<1>2. CASE Open
  <2>1. supported' = supported
    BY <1>2 DEF Open, given
  <2>2. CASE program = "audio"
    <3>1. chosen'.rate = SelectSampleRate(supported.rates)
      BY <1>2, <2>2 DEF Open
    <3> QED
      BY <2>1, <3>1 DEF RateInv
  <2>3. CASE program # "audio"
    BY <1>2, <2>1, <2>3, <1>1 DEF Open
  <2> QED
    BY <2>2, <2>3
<1>3. CASE UNCHANGED vars
  BY <1>1, <1>3 DEF vars, given
<1>4. CASE Next /\ ~Open
  <2>1. UNCHANGED <<supported, chosen>>
    BY <1>4 DEF Next, vars, given, FillFrame, Encode, Close, Fail, Prepare, PrepareFails, ReadPicture,
       Upload, EncodeSurface, TurnFails, FlushFails, CloseSurfaces, Flush, Ended
  <2> QED
    BY <1>1, <2>1
<1> QED
  BY <1>2, <1>3, <1>4

(* The rate that encode_audio opens its encoder with is one the encoder     *)
(* supports, no other supported one is nearer to 44100, and of equally near *)
(* ones it is the first: what the comparison (encode_audio.c 65) picks      *)
(* where the comment (54) says the highest.                                 *)
RateNearestFirst ==
  chosen.rate # 0 /\ supported.rates # <<>> =>
    \E i \in DOMAIN supported.rates :
      /\ chosen.rate = supported.rates[i]
      /\ \A j \in DOMAIN supported.rates :
           /\ Distance(supported.rates[j]) >= Distance(chosen.rate)
           /\ j < i => Distance(supported.rates[j]) > Distance(chosen.rate)

(* It is that for any list of any encoder (57-67).                          *)
THEOREM RateIsNearest == Spec => []RateNearestFirst
<1>1. Init => RateInv
  <2> SUFFICES ASSUME Init PROVE RateInv
    OBVIOUS
  <2>1. chosen.rate = 0
    BY DEF Init
  <2>2. supported.rates \in Lists(Rates) \cup {<<>>}
    BY DEF Init
  <2>3. ASSUME NEW s \in Lists(Rates)
        PROVE  s \in Seq(Nat \ {0})
    <3>1. PICK n \in 0 .. MaxListed : s \in [1 .. n -> Rates]
      BY DEF Lists
    <3>2. MaxListed \in Nat /\ Rates \subseteq Nat \ {0}
      BY EncodeAssumption
    <3>3. n \in Nat
      BY <3>2
    <3>4. s \in Seq(Rates)
      BY <3>1, <3>3
    <3> QED
      BY <3>2, <3>4, SeqMonotonic
  <2>4. <<>> \in Seq(Nat \ {0})
    OBVIOUS
  <2> QED
    BY <2>1, <2>2, <2>3, <2>4 DEF RateInv
<1>2. RateInv => RateNearestFirst
  <2> SUFFICES ASSUME RateInv, chosen.rate # 0, supported.rates # <<>>
               PROVE  \E i \in DOMAIN supported.rates :
                        /\ chosen.rate = supported.rates[i]
                        /\ \A j \in DOMAIN supported.rates :
                             /\ Distance(supported.rates[j]) >= Distance(chosen.rate)
                             /\ j < i => Distance(supported.rates[j]) > Distance(chosen.rate)
    BY DEF RateNearestFirst
  <2>1. supported.rates \in Seq(Nat \ {0}) /\ chosen.rate = SelectSampleRate(supported.rates)
    BY DEF RateInv
  <2>2. FirstNearest(chosen.rate, supported.rates, Len(supported.rates))
    BY <2>1, SelectedNearest, Zenon
  <2>3. DOMAIN supported.rates = 1 .. Len(supported.rates)
    BY <2>1
  <2> QED
    BY <2>2, <2>3, Zenon DEF FirstNearest
<1> QED
  BY <1>1, <1>2, RateStep, PTL DEF Spec

=============================================================================
