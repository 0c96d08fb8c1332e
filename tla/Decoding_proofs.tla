-------------------------- MODULE Decoding_proofs --------------------------
(***************************************************************************)
(* Proofs about decoding: FrameThread, how the library decodes packets in  *)
(* several threads, and ParseDecode, the programs that cut packets out of  *)
(* a stream and have them decoded.                                         *)
(*                                                                         *)
(* FrameThread, for any number of threads and packets and any codec: the   *)
(* order in which packets are answered, what is in flight, whose turn it   *)
(* is to set up, and what freeing leaves behind.                           *)
(*                                                                         *)
(* ParseDecode, for any sizes of buffer, frames and file and any delay of  *)
(* the decoder. What the buffer, the parser and the decoder hold and what  *)
(* was decoded are tied to the file by two counts: the bytes that the      *)
(* parser has consumed, and those of them that were cut into packets.      *)
(* Between the two lies the beginning of one frame, whose end the parser   *)
(* has not seen; so what it cuts next is the next frame and nothing else.  *)
(***************************************************************************)
EXTENDS FrameThread, ParseDecode, Libav_proofs, FiniteSetTheorems

-----------------------------------------------------------------------------
(* FrameThread.                                                             *)

(* The inductive invariant.                                                 *)

\* How many slots after base slot k comes in the ring.
Pos(k, base) == IF k >= base THEN k - base ELSE k + N - base

Calling == {"lock", "release", "prev", "serve", "output"}
Freeing == {"park", "die", "join", "freed"}
Decoding == {"decode", "answer", "await", "done"}

\* One worker: where it is, what its slot holds and who has its mutex.
SlotInv(i) ==
  /\ p[i].thread \in Decoding => p[i].state # "INPUT_READY" /\ p[i].mutex = "worker"
  /\ p[i].thread = "loop" => p[i].state = "INPUT_READY" /\ p[i].mutex = "worker"
  /\ p[i].mutex = "client" <=> client.pc \in {"release", "prev"} /\ i = Nd
  /\ p[i].state # "INPUT_READY" => i \in owed
  /\ p[i].thread \in {"none", "exited"} => waits[i] = Awake
  /\ i \in owed => p[i].avpkt \in 1 .. submitted
  /\ p[i].ref # NoRef => p[i].ref.slot \in Slots
  /\ i \notin owed => p[i].frame = NoId /\ p[i].result = "ok"

\* What decoding gave is known as soon as it is over, and only then; the slot
\* keeps it for the client, until the frames are dropped.
YieldInv(i) ==
  LET known == p[i].state = "INPUT_READY" \/ p[i].thread = "done" IN
  i \in owed =>
    /\ ~known => yield[p[i].avpkt] = "?"
    /\ known /\ client.pc \notin Freeing =>
         /\ p[i].frame \in {NoId, p[i].avpkt}
         /\ yield[p[i].avpkt] = IF p[i].frame # NoId THEN "frame"
                                ELSE IF p[i].result = "ok" THEN "none" ELSE "error"

\* Where the client is in its call.
CallInv ==
  /\ client.pc \in Calling => client.call \in {"packet", "drain"} /\ client.ret = Nothing
  /\ client.pc \in {"lock", "release", "prev"} => submitted < MaxIds
  /\ client.draining => client.call \in {"drain", "flush", "free"}
  /\ client.pc = "output" /\ client.call = "packet" => ~fctx.delaying
  /\ client.pc # "output" \/ fctx.delaying => Nd < N
  /\ \A id \in Ids : id > submitted => yield[id] = "?"

\* The slots in flight lie between the one looked at next and the one used
\* next, all N of them only while the client waits for the first.
RingInv ==
  /\ fctx.delaying =>
       /\ fctx.next_finished <= Nd
       /\ \A k \in owed : k < Nd \/ (client.pc = "serve" /\ k = Nd)
  /\ client.pc \in {"idle", "lock", "release", "prev"} =>
       \A k \in owed : Pos(k, fctx.next_finished) < Pos(Nd, fctx.next_finished)
  /\ client.pc = "serve" =>
       \A k \in owed : Pos(k, fctx.next_finished) <= Pos(Nd, fctx.next_finished)
  /\ client.pc = "output" =>
       LET end == IF Nd = N THEN 0 ELSE Nd IN
       /\ \A k \in owed : Pos(client.i, fctx.next_finished) <= Pos(k, fctx.next_finished)
       /\ \/ client.i = end /\ fctx.next_finished = end
          \/ \A k \in owed : Pos(k, client.i) < Pos(end, client.i)

\* In the order of the ring, the packets in flight are in order.
Oldest == IF client.pc = "output" THEN client.i ELSE fctx.next_finished
OrderInv ==
  \A j, k \in owed : Pos(j, Oldest) < Pos(k, Oldest) => p[j].avpkt < p[k].avpkt

\* Whoever is in its setup is the thread last submitted to; when the client
\* serves callbacks nobody is in its setup after the submission.
SetupInv ==
  /\ \A i \in Slots : InSetup(i) =>
       IF client.pc = "serve" THEN i = Nd ELSE i = fctx.prev_thread /\ codec.ask = {}
  /\ codec.ask = {} => \A i \in Slots : p[i].state \notin Asking
  /\ buffer_mutex # NoSlot => p[buffer_mutex].thread = "answer"

\* How far the initialization and the freeing have come.
Unused(i) == p[i].thread = "none" /\ p[i].released = 0
Gone(i) == p[i].thread \in {"none", "exited"} /\ p[i].released = 0
FreeInv ==
  /\ client.call # "free" => client.slots = N
  /\ client.call = "free" => client.pc \in Freeing
  /\ client.pc = "init" =>
       /\ client.call = "init" /\ client.i \in Slots /\ owed = {}
       /\ \A k \in Slots : k >= client.i => Unused(k)
  /\ client.pc \in {"die", "join", "freed"} => client.call = "free" /\ client.i < client.slots
  /\ client.pc \in {"die", "join"} => \A k \in Slots : k < client.i => Gone(k)
  /\ client.pc = "park" =>
       /\ client.call \in {"flush", "free"} /\ client.i <= client.slots
       /\ \A k \in Slots : k < client.i => p[k].state = "INPUT_READY"
  /\ client.pc = "freed" => waits[Client] = Awake /\ \A k \in Slots : Gone(k)
  /\ \A k \in Slots : k >= client.slots => Unused(k) /\ p[k].state = "INPUT_READY"

Inv ==
  /\ TypeOK
  /\ \A i \in Slots : SlotInv(i) /\ YieldInv(i)
  /\ CallInv /\ RingInv /\ OrderInv /\ SetupInv /\ FreeInv
  /\ EofMeansDrained

-----------------------------------------------------------------------------
(* What waking does *)

\* The threads that sleep in w2 sleep in w at the same place.
OnlyWakes(w, w2) == w2 \in [0..N -> Places] /\ \A t \in 0..N : w2[t] \in {w[t], Awake}

LEMMA SleepOnPlace ==
  ASSUME NEW w \in [0..N -> Places], NEW t \in 0..N, NEW i \in Slots,
         NEW c \in {InputCond(i), ProgressCond(i), OutputCond(i)}
  PROVE  /\ [w EXCEPT ![t] = c] \in [0..N -> Places]
         /\ \A u \in 0..N : u # t => [w EXCEPT ![t] = c][u] = w[u]
<1>1. c \in Places
  BY DEF Places
<1> QED
  BY <1>1

LEMMA WokenOnlyWakes ==
  ASSUME NEW w \in [0..N -> Places], NEW c
  PROVE  OnlyWakes(w, Woken(w, c))
BY DEF OnlyWakes, Woken, Places

LEMMA SignalledOnlyWakes ==
  ASSUME NEW w \in [0..N -> Places], NEW c, NEW w2 \in Signalled(w, c)
  PROVE  OnlyWakes(w, w2)
<1>1. PICK t \in 0..N : w2 = w \/ w2 = [w EXCEPT ![t] = Awake]
  BY FrameThreadAssumption DEF Signalled
<1>2. Awake \in Places
  BY DEF Places
<1> QED
  BY <1>1, <1>2 DEF OnlyWakes

-----------------------------------------------------------------------------
(* Steps of a worker *)

Known(r) == r.state = "INPUT_READY" \/ r.thread = "done"
YieldOf(r) == IF r.frame # NoId THEN "frame" ELSE IF r.result = "ok" THEN "none" ELSE "error"

\* From r to q, worker i may finish decoding, and otherwise leaves alone what
\* is known of its packet.
YieldStep(i, r, q) ==
  \/ /\ yield' = yield /\ (Known(q) <=> Known(r))
     /\ Known(r) => q.frame = r.frame /\ q.result = r.result
  \/ /\ r.thread = "decode" /\ q.thread = "done"
     /\ q.frame \in {NoId, q.avpkt}
     /\ yield' = [yield EXCEPT ![r.avpkt] = YieldOf(q)]

\* What the rest of the system sees of a step of worker i from r to q.
LocalStep(r, q) ==
  /\ r.thread \notin {"none", "exited"} /\ q.thread # "none"
  /\ q.thread \in Decoding => q.state # "INPUT_READY" /\ q.mutex = "worker"
  /\ q.thread = "loop" => q.state = "INPUT_READY" /\ q.mutex = "worker"
  /\ q.mutex = "client" <=> r.mutex = "client"
  /\ q.avpkt = r.avpkt /\ q.ref \in {r.ref, NoRef}
  /\ r.state = "INPUT_READY" => q.state = "INPUT_READY"
  /\ q.state \in Asking \cup {"SETTING_UP"} => r.state \in Asking \cup {"SETTING_UP"}
  /\ q.state \in Asking => r.state \in Asking \/ q.state \in codec.ask
SlotStep(i, r, q) == p' = [p EXCEPT ![i] = q] /\ q \in PerThreadContext /\ LocalStep(r, q)

WaitStep(i, q) ==
  /\ waits' \in [0..N -> Places]
  /\ \A t \in 0..N : t # i => waits'[t] \in {waits[t], Awake}
  /\ q.thread = "exited" => waits'[i] = Awake

WorkerStep(i) ==
  /\ SlotStep(i, p[i], p'[i]) /\ YieldStep(i, p[i], p'[i]) /\ WaitStep(i, p'[i])
  /\ UNCHANGED clientSide
  /\ \/ buffer_mutex' = NoSlot
     \/ buffer_mutex' = i /\ p'[i].thread = "answer"
     \/ buffer_mutex' = buffer_mutex /\ buffer_mutex # i
  /\ progress' \subseteq Ids

\* A worker that runs is awake, and stays so unless it goes to sleep.
LEMMA WaitStepWakes ==
  ASSUME Inv, NEW i \in Slots, NEW q, waits[i] = Awake, OnlyWakes(waits, waits')
  PROVE  WaitStep(i, q)
<1>1. i \in 0..N
  BY FrameThreadAssumption DEF Slots
<1> QED
  BY <1>1 DEF WaitStep, OnlyWakes

LEMMA WaitStepSleeps ==
  ASSUME Inv, NEW i \in Slots, NEW q, NEW j \in Slots,
         NEW c \in {InputCond(j), ProgressCond(j), OutputCond(j)}, Sleep(i, c), q.thread # "exited"
  PROVE  WaitStep(i, q)
<1>1. i \in 0..N
  BY FrameThreadAssumption DEF Slots
<1>2. waits \in [0..N -> Places]
  BY DEF Inv, TypeOK
<1>3. waits' = [waits EXCEPT ![i] = c]
  BY DEF Sleep
<1> QED
  BY <1>1, <1>2, <1>3, SleepOnPlace DEF WaitStep

LEMMA WaitsType ==
  ASSUME Inv
  PROVE  /\ waits \in [0..N -> Places] /\ OnlyWakes(waits, waits)
         /\ \A c : OnlyWakes(waits, Woken(waits, c))
<1>1. waits \in [0..N -> Places]
  BY DEF Inv, TypeOK
<1> QED
  BY <1>1, WokenOnlyWakes DEF OnlyWakes

LEMMA ProgressType == ASSUME Inv PROVE progress \subseteq Ids
BY DEF Inv, TypeOK

\* Who does not wait for the client's answer does not hold buffer_mutex.
LEMMA BufferHolder ==
  ASSUME Inv, NEW i \in Slots
  PROVE  /\ p[i] \in PerThreadContext
         /\ p[i].thread # "answer" => buffer_mutex # i
<1>1. i # NoSlot
  BY FrameThreadAssumption DEF Slots, NoSlot
<1> QED
  BY <1>1 DEF Inv, TypeOK, SetupInv

LEMMA FinishedSetupSlot ==
  ASSUME NEW q \in [Slots -> PerThreadContext], NEW i \in Slots, NEW r
  PROVE  FinishedSetup([q EXCEPT ![i] = r], i) = [q EXCEPT ![i] = [r EXCEPT !.state = "SETUP_FINISHED"]]
BY DEF FinishedSetup

LEMMA WaitInputStep == ASSUME Inv, NEW i \in Slots, WaitInput(i) PROVE WorkerStep(i)
<1> DEFINE r == p[i]
           q == [r EXCEPT !.thread = "start", !.mutex = "free"]
<1>1. p' = [p EXCEPT ![i] = q] /\ p'[i] = q /\ r \in PerThreadContext
  BY DEF WaitInput, Inv, TypeOK
<1>2. /\ r.state = "INPUT_READY" /\ r.thread \in {"start", "loop"} /\ r.mutex # "client"
      /\ Sleep(i, InputCond(i))
      /\ UNCHANGED <<clientSide, buffer_mutex, progress, yield>>
  BY DEF WaitInput, HasMutex, Runs, Inv, SlotInv
<1>3. SlotStep(i, r, q)
  BY <1>1, <1>2 DEF SlotStep, LocalStep, PerThreadContext, Decoding, Asking
<1>4. YieldStep(i, r, q)
  BY <1>1, <1>2 DEF YieldStep, Known, PerThreadContext
<1>5. q.thread # "exited"
  BY <1>1 DEF PerThreadContext
<1>6. WaitStep(i, q)
  BY <1>2, <1>5, WaitStepSleeps
<1> QED
  BY <1>1, <1>2, <1>3, <1>4, <1>6, BufferHolder, ProgressType DEF WorkerStep

LEMMA ExitStep == ASSUME Inv, NEW i \in Slots, Exit(i) PROVE WorkerStep(i)
<1> DEFINE r == p[i]
           q == [r EXCEPT !.thread = "exited", !.mutex = "free"]
<1>1. p' = [p EXCEPT ![i] = q] /\ p'[i] = q /\ r \in PerThreadContext
  BY DEF Exit, Inv, TypeOK
<1>2. /\ r.thread \in {"start", "loop"} /\ r.mutex # "client"
      /\ waits[i] = Awake /\ waits' = waits
      /\ UNCHANGED <<clientSide, buffer_mutex, progress, yield>>
  BY DEF Exit, HasMutex, Runs, Inv, SlotInv
<1>3. SlotStep(i, r, q)
  BY <1>1, <1>2 DEF SlotStep, LocalStep, PerThreadContext, Decoding, Asking
<1>4. YieldStep(i, r, q)
  BY <1>1, <1>2 DEF YieldStep, Known, PerThreadContext
<1>5. WaitStep(i, q)
  BY <1>2, WaitsType, WaitStepWakes
<1> QED
  BY <1>1, <1>2, <1>3, <1>4, <1>5, BufferHolder, ProgressType DEF WorkerStep

LEMMA StartDecodeStep == ASSUME Inv, NEW i \in Slots, StartDecode(i) PROVE WorkerStep(i)
<1> DEFINE r == p[i]
           s == [r EXCEPT !.thread = "decode", !.mutex = "worker", !.frame = NoId, !.buf = "no"]
           q == IF ~codec.update /\ SafeCallbacks
                THEN [s EXCEPT !.state = "SETUP_FINISHED"] ELSE s
<1>1. p \in [Slots -> PerThreadContext] /\ r \in PerThreadContext
  BY DEF Inv, TypeOK
<1>2. /\ r.thread \in {"start", "loop"} /\ r.mutex # "client"
      /\ r.state # "INPUT_READY" /\ waits[i] = Awake
      /\ waits' = waits \/ \E c : waits' = Woken(waits, c)
      /\ UNCHANGED <<clientSide, buffer_mutex, progress, yield>>
  BY DEF StartDecode, HasMutex, Runs, Broadcast, Inv, SlotInv
<1>3. q \in PerThreadContext
  <2>1. 0 \in 0..MaxIds
    BY FrameThreadAssumption
  <2>2. s \in PerThreadContext
    BY <1>1, <2>1 DEF PerThreadContext, NoId
  <2>3. [s EXCEPT !.state = "SETUP_FINISHED"] \in PerThreadContext
    <3> HIDE DEF s
    <3> QED
      BY <2>2 DEF PerThreadContext, States
  <2> QED
    BY <2>2, <2>3
<1>4. p' = [p EXCEPT ![i] = q] /\ p'[i] = q
  <2>1. [p EXCEPT ![i].thread = "decode", ![i].mutex = "worker",
                  ![i].frame = NoId, ![i].buf = "no"] = [p EXCEPT ![i] = s]
    BY <1>1
  <2>2. p' = IF ~codec.update /\ SafeCallbacks
             THEN FinishedSetup([p EXCEPT ![i] = s], i) ELSE [p EXCEPT ![i] = s]
    BY <2>1 DEF StartDecode
  <2>3. p' = [p EXCEPT ![i] = q]
    <3> HIDE DEF s
    <3> QED
      BY <1>1, <2>2, FinishedSetupSlot
  <2> QED
    BY <1>1, <2>3
<1>5. SlotStep(i, r, q)
  BY <1>1, <1>2, <1>3, <1>4 DEF SlotStep, LocalStep, PerThreadContext, Decoding, Asking
<1>6. YieldStep(i, r, q)
  BY <1>1, <1>2 DEF YieldStep, Known, PerThreadContext
<1>7. WaitStep(i, q)
  BY <1>2, WaitsType, WaitStepWakes
<1> QED
  BY <1>2, <1>4, <1>5, <1>6, <1>7, BufferHolder, ProgressType DEF WorkerStep

\* A worker between StartDecode and OutputReady has a packet of the client's.
LEMMA DecodingFacts ==
  ASSUME Inv, NEW i \in Slots, p[i].thread \in Decoding
  PROVE  /\ p \in [Slots -> PerThreadContext] /\ p[i] \in PerThreadContext
         /\ p[i].state # "INPUT_READY" /\ p[i].mutex = "worker"
         /\ i \in owed /\ p[i].avpkt \in Ids
<1>1. p[i].state # "INPUT_READY" /\ p[i].mutex = "worker" /\ i \in owed /\ p[i].avpkt \in 1 .. submitted
  BY DEF Inv, SlotInv
<1>2. submitted \in 0 .. MaxIds /\ p \in [Slots -> PerThreadContext]
  BY DEF Inv, TypeOK
<1> QED
  BY <1>1, <1>2, FrameThreadAssumption DEF Ids

LEMMA GetBufferStep == ASSUME Inv, NEW i \in Slots, GetBuffer(i) PROVE WorkerStep(i)
<1> DEFINE r == p[i]
<1>1. /\ r.thread = "decode" /\ waits[i] = Awake /\ buffer_mutex = NoSlot
      /\ r.state = "SETTING_UP" \/ (~codec.update /\ SafeCallbacks)
      /\ UNCHANGED <<clientSide, progress, yield>>
  BY DEF GetBuffer, Runs
<1>2. /\ p \in [Slots -> PerThreadContext] /\ r \in PerThreadContext
      /\ r.state # "INPUT_READY" /\ r.mutex = "worker"
  BY <1>1, DecodingFacts DEF Decoding
<1>3. CASE SafeCallbacks
  <2> DEFINE q == [r EXCEPT !.buf = "yes"]
  <2>1. p' = [p EXCEPT ![i] = q] /\ p'[i] = q /\ UNCHANGED <<buffer_mutex, waits>>
    BY <1>2, <1>3 DEF GetBuffer
  <2>2. SlotStep(i, r, q) /\ YieldStep(i, r, q)
    BY <1>1, <1>2, <2>1 DEF SlotStep, LocalStep, YieldStep, Known, PerThreadContext, Decoding, Asking
  <2>3. WaitStep(i, q)
    BY <1>1, <2>1, WaitsType, WaitStepWakes
  <2> QED
    BY <1>1, <2>1, <2>2, <2>3, BufferHolder, ProgressType DEF WorkerStep
<1>4. CASE ~SafeCallbacks
  <2> DEFINE q == [r EXCEPT !.thread = "answer", !.state = "GET_BUFFER"]
  <2>1. p' = [p EXCEPT ![i] = q] /\ p'[i] = q /\ buffer_mutex' = i
    BY <1>2, <1>4 DEF GetBuffer
  <2>2. waits' = Woken(waits, ProgressCond(i))
    BY <1>4 DEF GetBuffer, Broadcast
  <2>3. r.state = "SETTING_UP" /\ "GET_BUFFER" \in codec.ask
    BY <1>1, <1>4 DEF SafeCallbacks
  <2>4. SlotStep(i, r, q) /\ YieldStep(i, r, q)
    BY <1>1, <1>2, <2>1, <2>3
       DEF SlotStep, LocalStep, YieldStep, Known, PerThreadContext, States, Decoding, Asking
  <2>5. WaitStep(i, q)
    BY <1>1, <2>2, WaitsType, WaitStepWakes
  <2>6. q.thread = "answer"
    BY <1>2 DEF PerThreadContext
  <2> QED
    BY <1>1, <2>1, <2>4, <2>5, <2>6, ProgressType DEF WorkerStep
<1> QED
  BY <1>3, <1>4

LEMMA GetFormatStep == ASSUME Inv, NEW i \in Slots, GetFormat(i) PROVE WorkerStep(i)
<1> DEFINE r == p[i]
           q == [r EXCEPT !.thread = "answer", !.state = "GET_FORMAT", !.buf = "asked"]
<1>1. /\ r.thread = "decode" /\ waits[i] = Awake
      /\ r.state = "SETTING_UP" /\ "GET_FORMAT" \in codec.ask
      /\ waits' = Woken(waits, ProgressCond(i))
      /\ UNCHANGED <<clientSide, buffer_mutex, progress, yield>>
  BY DEF GetFormat, Runs, Broadcast
<1>2. /\ p \in [Slots -> PerThreadContext] /\ r \in PerThreadContext
      /\ r.state # "INPUT_READY" /\ r.mutex = "worker"
  BY <1>1, DecodingFacts DEF Decoding
<1>3. p' = [p EXCEPT ![i] = q] /\ p'[i] = q
  BY <1>2 DEF GetFormat
<1>4. SlotStep(i, r, q) /\ YieldStep(i, r, q)
  BY <1>1, <1>2, <1>3
     DEF SlotStep, LocalStep, YieldStep, Known, PerThreadContext, States, Decoding, Asking
<1>5. WaitStep(i, q)
  BY <1>1, WaitsType, WaitStepWakes
<1> QED
  BY <1>1, <1>3, <1>4, <1>5, BufferHolder, ProgressType DEF WorkerStep

LEMMA AwaitAnswerStep == ASSUME Inv, NEW i \in Slots, AwaitAnswer(i) PROVE WorkerStep(i)
<1> DEFINE r == p[i]
<1>1. /\ r.thread = "answer" /\ Sleep(i, ProgressCond(i))
      /\ UNCHANGED <<clientSide, p, buffer_mutex, progress, yield>>
  BY DEF AwaitAnswer, Runs
<1>2. /\ p \in [Slots -> PerThreadContext] /\ r \in PerThreadContext
      /\ r.state # "INPUT_READY" /\ r.mutex = "worker"
  BY <1>1, DecodingFacts DEF Decoding
<1>3. p' = [p EXCEPT ![i] = r] /\ p'[i] = r
  BY <1>1, <1>2
<1>4. SlotStep(i, r, r) /\ YieldStep(i, r, r)
  BY <1>1, <1>2, <1>3 DEF SlotStep, LocalStep, YieldStep, Decoding
<1>5. WaitStep(i, r)
  BY <1>1, WaitStepSleeps
<1>6. buffer_mutex' = i \/ buffer_mutex # i
  BY <1>1
<1> QED
  BY <1>1, <1>3, <1>4, <1>5, <1>6, ProgressType DEF WorkerStep

LEMMA TakeAnswerStep == ASSUME Inv, NEW i \in Slots, TakeAnswer(i) PROVE WorkerStep(i)
<1> DEFINE r == p[i]
<1>1. /\ r.thread = "answer" /\ r.state = "SETTING_UP" /\ waits[i] = Awake
      /\ UNCHANGED <<clientSide, progress, yield>>
  BY DEF TakeAnswer, Runs
<1>2. /\ p \in [Slots -> PerThreadContext] /\ r \in PerThreadContext /\ r.mutex = "worker"
  BY <1>1, DecodingFacts DEF Decoding
<1>3. CASE buffer_mutex = i
  <2>1. PICK got \in {"failed", "yes"} :
          LET v == [p EXCEPT ![i].thread = "decode", ![i].buf = got] IN
          /\ buffer_mutex' = NoSlot
          /\ \/ codec.update /\ p' = v /\ UNCHANGED waits
             \/ p' = FinishedSetup(v, i) /\ Broadcast(ProgressCond(i))
    BY <1>3 DEF TakeAnswer
  <2> DEFINE s == [r EXCEPT !.thread = "decode", !.buf = got]
             f == [s EXCEPT !.state = "SETUP_FINISHED"]
  <2>2. [p EXCEPT ![i].thread = "decode", ![i].buf = got] = [p EXCEPT ![i] = s]
    BY <1>2
  <2>3. waits' = waits \/ waits' = Woken(waits, ProgressCond(i))
    BY <2>1 DEF Broadcast
  <2>4. p' = [p EXCEPT ![i] = s] \/ p' = [p EXCEPT ![i] = f]
    <3>1. FinishedSetup([p EXCEPT ![i] = s], i) = [p EXCEPT ![i] = f]
      <4> HIDE DEF s
      <4> QED
        BY <1>2, FinishedSetupSlot
    <3> QED
      BY <2>1, <2>2, <3>1
  <2>5. ASSUME p' = [p EXCEPT ![i] = s]
        PROVE  SlotStep(i, r, s) /\ YieldStep(i, r, s) /\ p'[i] = s
    BY <1>1, <1>2, <2>5 DEF SlotStep, LocalStep, YieldStep, Known, PerThreadContext, Decoding, Asking
  <2>6. ASSUME p' = [p EXCEPT ![i] = f]
        PROVE  SlotStep(i, r, f) /\ YieldStep(i, r, f) /\ p'[i] = f
    BY <1>1, <1>2, <2>6
       DEF SlotStep, LocalStep, YieldStep, Known, PerThreadContext, States, Decoding, Asking
  <2>7. SlotStep(i, r, p'[i]) /\ YieldStep(i, r, p'[i])
    BY <2>4, <2>5, <2>6
  <2>8. WaitStep(i, p'[i])
    BY <1>1, <2>3, WaitsType, WaitStepWakes
  <2> QED
    BY <1>1, <2>1, <2>7, <2>8, ProgressType DEF WorkerStep
<1>4. CASE buffer_mutex # i
  <2> DEFINE q == [r EXCEPT !.thread = "decode"]
  <2>1. p' = [p EXCEPT ![i] = q] /\ p'[i] = q /\ UNCHANGED <<buffer_mutex, waits>>
    BY <1>2, <1>4 DEF TakeAnswer
  <2>2. SlotStep(i, r, q) /\ YieldStep(i, r, q)
    BY <1>1, <1>2, <2>1 DEF SlotStep, LocalStep, YieldStep, Known, PerThreadContext, Decoding, Asking
  <2>3. WaitStep(i, q)
    BY <1>1, <2>1, WaitsType, WaitStepWakes
  <2> QED
    BY <1>1, <1>4, <2>1, <2>2, <2>3, ProgressType DEF WorkerStep
<1> QED
  BY <1>3, <1>4

LEMMA FinishSetupStep == ASSUME Inv, NEW i \in Slots, FinishSetup(i) PROVE WorkerStep(i)
<1> DEFINE r == p[i]
           q == [r EXCEPT !.state = "SETUP_FINISHED"]
<1>1. /\ r.thread = "decode" /\ waits[i] = Awake /\ waits' = Woken(waits, ProgressCond(i))
      /\ UNCHANGED <<clientSide, buffer_mutex, progress, yield>>
  BY DEF FinishSetup, Runs, Broadcast
<1>2. /\ p \in [Slots -> PerThreadContext] /\ r \in PerThreadContext
      /\ r.state # "INPUT_READY" /\ r.mutex = "worker"
  BY <1>1, DecodingFacts DEF Decoding
<1>3. p' = [p EXCEPT ![i] = q] /\ p'[i] = q
  BY <1>2 DEF FinishSetup, FinishedSetup
<1>4. SlotStep(i, r, q) /\ YieldStep(i, r, q)
  BY <1>1, <1>2, <1>3
     DEF SlotStep, LocalStep, YieldStep, Known, PerThreadContext, States, Decoding, Asking
<1>5. WaitStep(i, q)
  BY <1>1, WaitsType, WaitStepWakes
<1> QED
  BY <1>1, <1>3, <1>4, <1>5, BufferHolder, ProgressType DEF WorkerStep

LEMMA AwaitProgressStep == ASSUME Inv, NEW i \in Slots, AwaitProgress(i) PROVE WorkerStep(i)
<1> DEFINE r == p[i]
<1>1. /\ r.thread \in {"decode", "await"} /\ waits[i] = Awake /\ r.ref # NoRef
      /\ UNCHANGED <<clientSide, buffer_mutex, progress, yield>>
  BY DEF AwaitProgress, Runs
<1>2. /\ p \in [Slots -> PerThreadContext] /\ r \in PerThreadContext
      /\ r.state # "INPUT_READY" /\ r.mutex = "worker"
  BY <1>1, DecodingFacts DEF Decoding
<1>3. CASE r.ref.id \in progress
  <2> DEFINE q == [r EXCEPT !.thread = "decode", !.ref = NoRef]
  <2>1. p' = [p EXCEPT ![i] = q] /\ p'[i] = q /\ waits' = waits
    BY <1>2, <1>3 DEF AwaitProgress
  <2>2. NoRef \in [id : 0 .. MaxIds, slot : 0 .. N]
    BY FrameThreadAssumption DEF NoRef, NoId, NoSlot
  <2>3. q \in PerThreadContext
    BY <1>2, <2>2 DEF PerThreadContext
  <2>4. SlotStep(i, r, q) /\ YieldStep(i, r, q)
    BY <1>1, <1>2, <2>1, <2>3
       DEF SlotStep, LocalStep, YieldStep, Known, PerThreadContext, Decoding, Asking
  <2>5. WaitStep(i, q)
    BY <1>1, <2>1, WaitsType, WaitStepWakes
  <2> QED
    BY <1>1, <2>1, <2>4, <2>5, BufferHolder, ProgressType DEF WorkerStep
<1>4. CASE r.ref.id \notin progress
  <2> DEFINE q == [r EXCEPT !.thread = "await"]
  <2>1. p' = [p EXCEPT ![i] = q] /\ p'[i] = q /\ Sleep(i, ProgressCond(r.ref.slot))
    BY <1>2, <1>4 DEF AwaitProgress
  <2>2. r.ref.slot \in Slots
    BY <1>1, <1>2 DEF Inv, SlotInv
  <2>3. SlotStep(i, r, q) /\ YieldStep(i, r, q)
    BY <1>1, <1>2, <2>1 DEF SlotStep, LocalStep, YieldStep, Known, PerThreadContext, Decoding, Asking
  <2>4. q.thread # "exited"
    BY <1>2 DEF PerThreadContext
  <2>5. WaitStep(i, q)
    BY <1>1, <2>1, <2>2, <2>4, WaitStepSleeps
  <2> QED
    BY <1>1, <2>1, <2>3, <2>5, BufferHolder, ProgressType DEF WorkerStep
<1> QED
  BY <1>3, <1>4

LEMMA ReportProgressStep == ASSUME Inv, NEW i \in Slots, ReportProgress(i) PROVE WorkerStep(i)
<1> DEFINE r == p[i]
<1>1. /\ r.thread = "decode" /\ waits[i] = Awake /\ waits' = Woken(waits, ProgressCond(i))
      /\ progress' = progress \cup {r.avpkt}
      /\ UNCHANGED <<clientSide, p, buffer_mutex, yield>>
  BY DEF ReportProgress, Runs, Broadcast
<1>2. /\ p \in [Slots -> PerThreadContext] /\ r \in PerThreadContext /\ r.avpkt \in Ids
      /\ r.state # "INPUT_READY" /\ r.mutex = "worker"
  BY <1>1, DecodingFacts DEF Decoding
<1>3. p' = [p EXCEPT ![i] = r] /\ p'[i] = r
  BY <1>1, <1>2
<1>4. SlotStep(i, r, r) /\ YieldStep(i, r, r)
  BY <1>1, <1>2, <1>3 DEF SlotStep, LocalStep, YieldStep, Decoding
<1>5. WaitStep(i, r)
  BY <1>1, WaitsType, WaitStepWakes
<1> QED
  BY <1>1, <1>2, <1>3, <1>4, <1>5, BufferHolder, ProgressType DEF WorkerStep

LEMMA ReleaseBufferStep == ASSUME Inv, NEW i \in Slots, ReleaseBuffer(i) PROVE WorkerStep(i)
<1> DEFINE r == p[i]
           q == [r EXCEPT !.released = 1]
<1>1. /\ r.thread = "decode" /\ waits[i] = Awake
      /\ UNCHANGED <<clientSide, buffer_mutex, progress, waits, yield>>
  BY DEF ReleaseBuffer, Runs
<1>2. /\ p \in [Slots -> PerThreadContext] /\ r \in PerThreadContext
      /\ r.state # "INPUT_READY" /\ r.mutex = "worker"
  BY <1>1, DecodingFacts DEF Decoding
<1>3. p' = [p EXCEPT ![i] = q] /\ p'[i] = q
  BY <1>2 DEF ReleaseBuffer
<1>4. SlotStep(i, r, q) /\ YieldStep(i, r, q)
  BY <1>1, <1>2, <1>3 DEF SlotStep, LocalStep, YieldStep, Known, PerThreadContext, Decoding, Asking
<1>5. WaitStep(i, q)
  BY <1>1, WaitsType, WaitStepWakes
<1> QED
  BY <1>1, <1>3, <1>4, <1>5, BufferHolder, ProgressType DEF WorkerStep

LEMMA ReturnFromDecodeStep == ASSUME Inv, NEW i \in Slots, ReturnFromDecode(i) PROVE WorkerStep(i)
<1> DEFINE r == p[i]
<1>1. /\ r.thread = "decode" /\ waits[i] = Awake
      /\ UNCHANGED <<clientSide, buffer_mutex, progress>>
  BY DEF ReturnFromDecode, Runs
<1>2. /\ p \in [Slots -> PerThreadContext] /\ r \in PerThreadContext /\ r.avpkt \in Ids
      /\ r.state # "INPUT_READY" /\ r.mutex = "worker"
  BY <1>1, DecodingFacts DEF Decoding
<1>3. PICK what \in {"none", "error", "frame"} :
        LET v == [p EXCEPT ![i].thread = "done",
                           ![i].frame = IF what = "frame" THEN r.avpkt ELSE NoId,
                           ![i].result = IF what = "error" THEN "error" ELSE "ok",
                           ![i].ref = NoRef]
        IN  /\ yield' = [yield EXCEPT ![r.avpkt] = what]
            /\ \/ p' = v /\ waits' = waits
               \/ p' = FinishedSetup(v, i) /\ waits' = Woken(waits, ProgressCond(i))
  BY DEF ReturnFromDecode, Broadcast
<1> DEFINE s == [r EXCEPT !.thread = "done",
                          !.frame = IF what = "frame" THEN r.avpkt ELSE NoId,
                          !.result = IF what = "error" THEN "error" ELSE "ok",
                          !.ref = NoRef]
           f == [s EXCEPT !.state = "SETUP_FINISHED"]
<1>4. p' = [p EXCEPT ![i] = s] \/ p' = [p EXCEPT ![i] = f]
  <2>1. [p EXCEPT ![i].thread = "done",
                  ![i].frame = IF what = "frame" THEN r.avpkt ELSE NoId,
                  ![i].result = IF what = "error" THEN "error" ELSE "ok",
                  ![i].ref = NoRef] = [p EXCEPT ![i] = s]
    BY <1>2
  <2>2. FinishedSetup([p EXCEPT ![i] = s], i) = [p EXCEPT ![i] = f]
    <3> HIDE DEF s
    <3> QED
      BY <1>2, FinishedSetupSlot
  <2> QED
    BY <1>3, <2>1, <2>2
<1>5. s \in PerThreadContext /\ f \in PerThreadContext
  <2>1. NoRef \in [id : 0 .. MaxIds, slot : 0 .. N] /\ NoId \in 0 .. MaxIds /\ Ids \subseteq 0 .. MaxIds
    BY FrameThreadAssumption DEF NoRef, NoId, NoSlot, Ids
  <2>2. s \in PerThreadContext
    BY <1>2, <2>1 DEF PerThreadContext
  <2> HIDE DEF s
  <2> QED
    BY <2>2 DEF PerThreadContext, States
<1>6. YieldOf(s) = what /\ YieldOf(f) = what
  <2>1. r.avpkt # NoId
    BY <1>2, FrameThreadAssumption DEF Ids, NoId
  <2> QED
    BY <1>2, <2>1 DEF YieldOf, PerThreadContext
<1>7. /\ SlotStep(i, r, s) \/ p' # [p EXCEPT ![i] = s]
      /\ SlotStep(i, r, f) \/ p' # [p EXCEPT ![i] = f]
  BY <1>1, <1>2, <1>5 DEF SlotStep, LocalStep, PerThreadContext, States, Decoding, Asking
<1>8. YieldStep(i, r, s) /\ YieldStep(i, r, f)
  BY <1>1, <1>2, <1>3, <1>6 DEF YieldStep, PerThreadContext
<1>9. \/ p'[i] = s /\ p' = [p EXCEPT ![i] = s]
      \/ p'[i] = f /\ p' = [p EXCEPT ![i] = f]
  <2> HIDE DEF s, f
  <2> QED
    BY <1>2, <1>4
<1>10. WaitStep(i, p'[i])
  BY <1>1, <1>3, WaitsType, WaitStepWakes
<1> QED
  <2> HIDE DEF s, f
  <2> QED
    BY <1>1, <1>7, <1>8, <1>9, <1>10, BufferHolder, ProgressType DEF WorkerStep

LEMMA OutputReadyStep == ASSUME Inv, NEW i \in Slots, OutputReady(i) PROVE WorkerStep(i)
<1> DEFINE r == p[i]
           q == [r EXCEPT !.thread = "loop", !.state = "INPUT_READY"]
<1>1. /\ r.thread = "done" /\ waits[i] = Awake
      /\ waits' \in Signalled(Woken(waits, ProgressCond(i)), OutputCond(i))
      /\ UNCHANGED <<clientSide, buffer_mutex, progress, yield>>
  BY DEF OutputReady, Runs
<1>2. p \in [Slots -> PerThreadContext] /\ r \in PerThreadContext /\ r.mutex = "worker"
  BY <1>1, DecodingFacts DEF Decoding
<1>3. p' = [p EXCEPT ![i] = q] /\ p'[i] = q
  BY <1>2 DEF OutputReady
<1>4. SlotStep(i, r, q) /\ YieldStep(i, r, q)
  BY <1>1, <1>2, <1>3
     DEF SlotStep, LocalStep, YieldStep, Known, PerThreadContext, States, Decoding, Asking
<1>5. OnlyWakes(waits, waits')
  <2>1. OnlyWakes(waits, Woken(waits, ProgressCond(i)))
    BY WaitsType
  <2>2. OnlyWakes(Woken(waits, ProgressCond(i)), waits')
    BY <1>1, <2>1, SignalledOnlyWakes DEF OnlyWakes
  <2> QED
    BY <2>1, <2>2 DEF OnlyWakes
<1>6. WaitStep(i, q)
  BY <1>1, <1>5, WaitStepWakes
<1> QED
  BY <1>1, <1>3, <1>4, <1>6, BufferHolder, ProgressType DEF WorkerStep

LEMMA WorkerSteps == ASSUME Inv, NEW i \in Slots, Worker(i) PROVE WorkerStep(i)
BY WaitInputStep, ExitStep, StartDecodeStep, GetBufferStep, GetFormatStep, AwaitAnswerStep,
   TakeAnswerStep, FinishSetupStep, AwaitProgressStep, ReportProgressStep, ReleaseBufferStep,
   ReturnFromDecodeStep, OutputReadyStep DEF Worker

\* Packets in flight differ: of any two slots one comes first in the ring.
LEMMA DifferentPackets ==
  ASSUME Inv, NEW i \in owed, NEW j \in owed, i # j
  PROVE  p[i].avpkt # p[j].avpkt
<1>1. /\ i \in 0 .. N - 1 /\ j \in 0 .. N - 1 /\ Oldest \in 0 .. N - 1
      /\ p[i].avpkt \in Int /\ p[j].avpkt \in Int
  BY FrameThreadAssumption DEF Inv, TypeOK, SlotInv, Oldest, Slots
<1>2. Pos(i, Oldest) < Pos(j, Oldest) \/ Pos(j, Oldest) < Pos(i, Oldest)
  <2> HIDE DEF Oldest
  <2> QED
    BY <1>1, FrameThreadAssumption DEF Pos
<1>3. p[i].avpkt < p[j].avpkt \/ p[j].avpkt < p[i].avpkt
  BY <1>2 DEF Inv, OrderInv
<1> QED
  BY <1>1, <1>3

LEMMA WorkerInv == ASSUME Inv, NEW i \in Slots, Worker(i) PROVE Inv'
<1> DEFINE r == p[i]
           q == p'[i]
<1>1. WorkerStep(i)
  BY WorkerSteps
<1>2. SlotStep(i, r, q) /\ YieldStep(i, r, q) /\ WaitStep(i, q) /\ UNCHANGED clientSide
  BY <1>1 DEF WorkerStep
<1>3. p \in [Slots -> PerThreadContext] /\ r \in PerThreadContext /\ q \in PerThreadContext
  BY <1>2 DEF Inv, TypeOK, SlotStep
<1>4. p' \in [Slots -> PerThreadContext] /\ \A j \in Slots : j # i => p'[j] = p[j]
  BY <1>2, <1>3 DEF SlotStep
<1>5. UNCHANGED <<codec, fctx, client, submitted, owed>>
  BY <1>2 DEF clientSide
<1>6. r.thread = "decode" => i \in owed /\ r.avpkt \in 1 .. submitted /\ ~Known(r)
  BY DEF Inv, SlotInv, Known, Decoding
<1>7. TypeOK'
  <2>1. yield' \in [Ids -> {"?", "frame", "none", "error"}]
    BY <1>2 DEF YieldStep, YieldOf, Inv, TypeOK
  <2>2. buffer_mutex' \in 0 .. N /\ progress' \subseteq Ids /\ waits' \in [0 .. N -> Places]
    BY <1>1, <1>2, FrameThreadAssumption DEF WorkerStep, WaitStep, Inv, TypeOK, NoSlot, Slots
  <2> QED
    BY <1>4, <1>5, <2>1, <2>2 DEF Inv, TypeOK
<1>8. \A j \in Slots : SlotInv(j)'
  <2>1. SlotInv(i)'
    <3>1. /\ LocalStep(r, q) /\ (q.thread = "exited" => waits'[i] = Awake) /\ SlotInv(i)
          /\ r.state = "INPUT_READY" => q.frame = r.frame /\ q.result = r.result
          /\ i \in Slots
      BY <1>2 DEF Inv, SlotStep, WaitStep, YieldStep, Known, LocalStep, Decoding
    <3> QED
      BY <1>5, <3>1 DEF SlotInv, LocalStep, Nd
  <2>2. ASSUME NEW j \in Slots, j # i PROVE SlotInv(j)'
    <3>1. p'[j] = p[j] /\ waits'[j] \in {waits[j], Awake}
      BY <1>2, <1>4, <2>2, FrameThreadAssumption DEF WaitStep, Slots
    <3> QED
      BY <1>5, <3>1 DEF Inv, SlotInv, Nd
  <2> QED
    BY <2>1, <2>2
<1>9. \A j \in Slots : YieldInv(j)'
  <2>1. YieldInv(i)'
    <3>1. LocalStep(r, q) /\ YieldStep(i, r, q) /\ YieldInv(i) /\ yield \in [Ids -> {"?", "frame", "none", "error"}]
      BY <1>2 DEF Inv, TypeOK, SlotStep
    <3>2. i \in owed => r.avpkt \in Ids
      BY FrameThreadAssumption DEF Inv, TypeOK, SlotInv, Ids
    <3> QED
      BY <1>5, <1>6, <3>1, <3>2 DEF YieldInv, LocalStep, YieldStep, YieldOf, Known
  <2>2. ASSUME NEW j \in Slots, j # i, j \in owed PROVE YieldInv(j)'
    <3>1. p'[j] = p[j] /\ yield'[p[j].avpkt] = yield[p[j].avpkt]
      <4>1. r.thread = "decode" => p[j].avpkt # r.avpkt
        BY <1>6, <2>2, DifferentPackets
      <4>2. p[j].avpkt \in Ids /\ yield \in [Ids -> {"?", "frame", "none", "error"}]
        BY <2>2, FrameThreadAssumption DEF Inv, TypeOK, SlotInv, Ids
      <4> QED
        BY <1>2, <1>4, <2>2, <4>1, <4>2 DEF YieldStep
    <3> QED
      BY <1>5, <3>1 DEF Inv, YieldInv
  <2>3. ASSUME NEW j \in Slots, j \notin owed PROVE YieldInv(j)'
    BY <1>5, <2>3 DEF YieldInv
  <2> QED
    BY <2>1, <2>2, <2>3
<1>10. CallInv'
  <2>1. \A id \in Ids : id > submitted => yield'[id] = yield[id]
    <3>1. yield \in [Ids -> {"?", "frame", "none", "error"}] /\ submitted \in Nat
      BY DEF Inv, TypeOK
    <3>2. ASSUME NEW id \in Ids, id > submitted PROVE yield'[id] = yield[id]
      <4>1. r.thread = "decode" => id # r.avpkt
        BY <1>6, <3>1, <3>2
      <4> QED
        BY <1>2, <3>1, <4>1 DEF YieldStep
    <3> QED
      BY <3>2
  <2> QED
    BY <1>5, <2>1 DEF Inv, CallInv, Nd
<1>11. RingInv'
  BY <1>5 DEF Inv, RingInv, Nd
<1>12. OrderInv'
  <2>1. \A j \in owed : p'[j].avpkt = p[j].avpkt
    BY <1>2, <1>4 DEF SlotStep, LocalStep, Inv, TypeOK
  <2> QED
    BY <1>5, <2>1 DEF Inv, OrderInv, Oldest
<1>13. SetupInv'
  <2>1. \A j \in Slots : InSetup(j)' => InSetup(j)
    BY <1>2, <1>4 DEF SlotStep, LocalStep, InSetup
  <2>2. codec.ask = {} => \A j \in Slots : p'[j].state \notin Asking
    BY <1>2, <1>4 DEF Inv, SetupInv, SlotStep, LocalStep
  <2>3. buffer_mutex' # NoSlot => p'[buffer_mutex'].thread = "answer"
    <3>1. CASE buffer_mutex' = buffer_mutex /\ buffer_mutex # i
      BY <1>4, <3>1, FrameThreadAssumption DEF Inv, SetupInv, TypeOK, NoSlot, Slots
    <3> QED
      BY <1>1, <3>1 DEF WorkerStep
  <2> QED
    BY <1>5, <2>1, <2>2, <2>3 DEF Inv, SetupInv, Nd
<1>14. FreeInv'
  <2>1. ~Unused(i) /\ ~Gone(i)
    BY <1>2 DEF SlotStep, LocalStep, Unused, Gone
  <2>2. \A j \in Slots : Unused(j) => Unused(j)' /\ p'[j] = p[j]
    BY <1>4, <2>1 DEF Unused
  <2>3. \A j \in Slots : Gone(j) => Gone(j)'
    BY <1>4, <2>1 DEF Gone
  <2>4. \A j \in Slots : p[j].state = "INPUT_READY" => p'[j].state = "INPUT_READY"
    BY <1>2, <1>4 DEF SlotStep, LocalStep
  <2>5. client.pc # "freed"
    BY <2>1 DEF Inv, FreeInv
  <2> QED
    BY <1>5, <2>2, <2>3, <2>4, <2>5 DEF Inv, FreeInv
<1>15. EofMeansDrained'
  BY <1>5 DEF Inv, EofMeansDrained, DrainingDone
<1> QED
  BY <1>7, <1>8, <1>9, <1>10, <1>11, <1>12, <1>13, <1>14, <1>15 DEF Inv

-----------------------------------------------------------------------------
(* Steps of the client *)

LEMMA ClientConstants ==
  /\ 0 \in 0 .. N
  /\ Nothing \in Returns /\ Empty \in Returns /\ NotSubmitted \in Returns
<1>1. 0 \in 0 .. N /\ 0 \in 0 .. MaxIds
  BY FrameThreadAssumption
<1> QED
  BY <1>1 DEF Nothing, Empty, NotSubmitted, NoId, Returns

LEMMA DecodePacketInv == ASSUME Inv, DecodePacket PROVE Inv'
<1>1. /\ client.pc = "idle" /\ ~client.draining /\ submitted < MaxPackets
      /\ client' = [client EXCEPT !.pc = "lock", !.call = "packet", !.i = 0, !.ret = Nothing]
      /\ UNCHANGED <<codec, fctx, p, buffer_mutex, progress, waits, submitted, owed, yield>>
  BY DEF DecodePacket, At, workerSide, history, Begin
<1>2. /\ client' \in ClientContext
      /\ client'.pc = "lock" /\ client'.call = "packet" /\ client'.i = 0 /\ client'.ret = Nothing
      /\ client'.slots = client.slots /\ client'.draining = client.draining
  <2>1. client \in ClientContext
    BY DEF Inv, TypeOK
  <2> QED
    BY <1>1, <2>1, ClientConstants DEF ClientContext, ClientPcs, Calls
<1>3. TypeOK'
  BY <1>1, <1>2 DEF Inv, TypeOK
<1>4. \A j \in Slots : SlotInv(j)'
  BY <1>1, <1>2 DEF Inv, SlotInv, Nd
<1>5. \A j \in Slots : YieldInv(j)'
  BY <1>1, <1>2 DEF Inv, YieldInv, Freeing
<1>6. CallInv'
  BY <1>1, <1>2, FrameThreadAssumption DEF Inv, CallInv, Calling, Nothing, NotSubmitted, Nd, TypeOK
<1>7. RingInv'
  BY <1>1, <1>2 DEF Inv, RingInv, Nd
<1>8. OrderInv'
  BY <1>1, <1>2 DEF Inv, OrderInv, Oldest
<1>9. SetupInv'
  BY <1>1, <1>2 DEF Inv, SetupInv, InSetup, Nd
<1>10. FreeInv'
  BY <1>1, <1>2 DEF Inv, FreeInv, Unused, Gone, Freeing
<1>11. EofMeansDrained'
  BY <1>1, <1>2 DEF Inv, EofMeansDrained, DrainingDone
<1> QED
  BY <1>3, <1>4, <1>5, <1>6, <1>7, <1>8, <1>9, <1>10, <1>11 DEF Inv

LEMMA UserUpdateFailsInv == ASSUME Inv, UserUpdateFails PROVE Inv'
<1>1. /\ client.pc = "lock"
      /\ client' = [client EXCEPT !.pc = "idle", !.ret = NotSubmitted]
      /\ UNCHANGED <<codec, fctx, p, buffer_mutex, progress, waits, submitted, owed, yield>>
  BY DEF UserUpdateFails, At, workerSide, history, Return, NotSubmitted
<1>2. /\ client' \in ClientContext
      /\ client'.pc = "idle" /\ client'.ret = NotSubmitted
      /\ client'.call = client.call /\ client'.i = client.i /\ client'.slots = client.slots
      /\ client'.draining = client.draining
  <2>1. client \in ClientContext
    BY DEF Inv, TypeOK
  <2> QED
    BY <1>1, <2>1, ClientConstants DEF ClientContext, ClientPcs, Calls
<1>3. TypeOK'
  BY <1>1, <1>2 DEF Inv, TypeOK
<1>4. \A j \in Slots : SlotInv(j)'
  BY <1>1, <1>2 DEF Inv, SlotInv, Nd
<1>5. \A j \in Slots : YieldInv(j)'
  BY <1>1, <1>2 DEF Inv, YieldInv, Freeing
<1>6. CallInv'
  BY <1>1, <1>2 DEF Inv, CallInv, Calling, Nothing, NotSubmitted, Nd
<1>7. RingInv'
  BY <1>1, <1>2 DEF Inv, RingInv, Nd
<1>8. OrderInv'
  BY <1>1, <1>2 DEF Inv, OrderInv, Oldest
<1>9. SetupInv'
  BY <1>1, <1>2 DEF Inv, SetupInv, InSetup, Nd
<1>10. FreeInv'
  BY <1>1, <1>2 DEF Inv, FreeInv, Unused, Gone, Freeing
<1>11. EofMeansDrained'
  BY <1>1, <1>2 DEF Inv, EofMeansDrained, DrainingDone, NotSubmitted, Empty
<1> QED
  BY <1>3, <1>4, <1>5, <1>6, <1>7, <1>8, <1>9, <1>10, <1>11 DEF Inv

LEMMA FlushInv == ASSUME Inv, Flush PROVE Inv'
<1>1. /\ client.pc = "idle"
      /\ client' = [client EXCEPT !.pc = "park", !.call = "flush", !.i = 0, !.ret = Nothing]
      /\ UNCHANGED <<codec, fctx, p, buffer_mutex, progress, waits, submitted, owed, yield>>
  BY DEF Flush, At, workerSide, history, Begin
<1>2. /\ client' \in ClientContext
      /\ client'.pc = "park" /\ client'.call = "flush" /\ client'.i = 0 /\ client'.ret = Nothing
      /\ client'.slots = client.slots /\ client'.draining = client.draining
  <2>1. client \in ClientContext
    BY DEF Inv, TypeOK
  <2> QED
    BY <1>1, <2>1, ClientConstants DEF ClientContext, ClientPcs, Calls
<1>3. TypeOK'
  BY <1>1, <1>2 DEF Inv, TypeOK
<1>4. \A j \in Slots : SlotInv(j)'
  BY <1>1, <1>2 DEF Inv, SlotInv, Nd
<1>5. \A j \in Slots : YieldInv(j)'
  BY <1>1, <1>2 DEF Inv, YieldInv, Freeing
<1>6. CallInv'
  BY <1>1, <1>2 DEF Inv, CallInv, Calling, Nothing, NotSubmitted, Nd, TypeOK
<1>7. RingInv'
  BY <1>1, <1>2 DEF Inv, RingInv, Nd
<1>8. OrderInv'
  BY <1>1, <1>2 DEF Inv, OrderInv, Oldest
<1>9. SetupInv'
  BY <1>1, <1>2 DEF Inv, SetupInv, InSetup, Nd
<1>10. FreeInv'
  <2>1. client'.slots \in 1 .. N /\ \A k \in Slots : ~(k < 0)
    BY <1>2, FrameThreadAssumption DEF ClientContext, Slots
  <2> QED
    BY <1>1, <1>2, <2>1 DEF Inv, FreeInv, Unused, Gone, Freeing
<1>11. EofMeansDrained'
  BY <1>1, <1>2 DEF Inv, EofMeansDrained, DrainingDone
<1> QED
  BY <1>3, <1>4, <1>5, <1>6, <1>7, <1>8, <1>9, <1>10, <1>11 DEF Inv

LEMMA FreeInvariant == ASSUME Inv, Free PROVE Inv'
<1>1. /\ client.pc = "idle"
      /\ client' = [client EXCEPT !.pc = "park", !.call = "free", !.i = 0, !.ret = Nothing]
      /\ UNCHANGED <<codec, fctx, p, buffer_mutex, progress, waits, submitted, owed, yield>>
  BY DEF Free, At, workerSide, history, Begin
<1>2. /\ client' \in ClientContext
      /\ client'.pc = "park" /\ client'.call = "free" /\ client'.i = 0 /\ client'.ret = Nothing
      /\ client'.slots = client.slots /\ client'.draining = client.draining
  <2>1. client \in ClientContext
    BY DEF Inv, TypeOK
  <2> QED
    BY <1>1, <2>1, ClientConstants DEF ClientContext, ClientPcs, Calls
<1>3. TypeOK'
  BY <1>1, <1>2 DEF Inv, TypeOK
<1>4. \A j \in Slots : SlotInv(j)'
  BY <1>1, <1>2 DEF Inv, SlotInv, Nd
<1>5. \A j \in Slots : YieldInv(j)'
  BY <1>1, <1>2 DEF Inv, YieldInv, Freeing
<1>6. CallInv'
  BY <1>1, <1>2 DEF Inv, CallInv, Calling, Nothing, NotSubmitted, Nd, TypeOK
<1>7. RingInv'
  BY <1>1, <1>2 DEF Inv, RingInv, Nd
<1>8. OrderInv'
  BY <1>1, <1>2 DEF Inv, OrderInv, Oldest
<1>9. SetupInv'
  BY <1>1, <1>2 DEF Inv, SetupInv, InSetup, Nd
<1>10. FreeInv'
  <2>1. client'.slots \in 1 .. N /\ \A k \in Slots : ~(k < 0)
    BY <1>2, FrameThreadAssumption DEF ClientContext, Slots
  <2> QED
    BY <1>1, <1>2, <2>1 DEF Inv, FreeInv, Unused, Gone, Freeing
<1>11. EofMeansDrained'
  BY <1>1, <1>2 DEF Inv, EofMeansDrained, DrainingDone
<1> QED
  BY <1>3, <1>4, <1>5, <1>6, <1>7, <1>8, <1>9, <1>10, <1>11 DEF Inv

LEMMA StartFreeInv == ASSUME Inv, StartFree PROVE Inv'
<1>1. /\ client.pc = "park" /\ client.call = "free" /\ client.i = client.slots
      /\ client' = [client EXCEPT !.pc = "die", !.i = 0]
      /\ UNCHANGED <<codec, fctx, p, buffer_mutex, progress, waits, submitted, owed, yield>>
  BY DEF StartFree, At, workerSide, history, GotoSlot
<1>2. /\ client' \in ClientContext
      /\ client'.pc = "die" /\ client'.i = 0
      /\ client'.call = client.call /\ client'.slots = client.slots
      /\ client'.draining = client.draining /\ client'.ret = client.ret
  <2>1. client \in ClientContext
    BY DEF Inv, TypeOK
  <2> QED
    BY <1>1, <2>1, ClientConstants DEF ClientContext, ClientPcs, Calls
<1>3. TypeOK'
  BY <1>1, <1>2 DEF Inv, TypeOK
<1>4. \A j \in Slots : SlotInv(j)'
  BY <1>1, <1>2 DEF Inv, SlotInv, Nd
<1>5. \A j \in Slots : YieldInv(j)'
  BY <1>1, <1>2 DEF Inv, YieldInv, Freeing
<1>6. CallInv'
  BY <1>1, <1>2 DEF Inv, CallInv, Calling, Nothing, NotSubmitted, Nd
<1>7. RingInv'
  BY <1>1, <1>2 DEF Inv, RingInv, Nd
<1>8. OrderInv'
  BY <1>1, <1>2 DEF Inv, OrderInv, Oldest
<1>9. SetupInv'
  BY <1>1, <1>2 DEF Inv, SetupInv, InSetup, Nd
<1>10. FreeInv'
  <2>1. client'.slots \in 1 .. N /\ \A k \in Slots : ~(k < 0)
    BY <1>2, FrameThreadAssumption DEF ClientContext, Slots
  <2> QED
    BY <1>1, <1>2, <2>1 DEF Inv, FreeInv, Unused, Gone, Freeing
<1>11. EofMeansDrained'
  BY <1>1, <1>2 DEF Inv, EofMeansDrained, DrainingDone
<1> QED
  BY <1>3, <1>4, <1>5, <1>6, <1>7, <1>8, <1>9, <1>10, <1>11 DEF Inv

LEMMA DrainInv == ASSUME Inv, DrainPackets PROVE Inv'
<1>1. /\ client.pc = "idle"
      /\ codec.delay => submitted < MaxIds
      /\ client' = [client EXCEPT !.call = "drain", !.draining = TRUE, !.ret = Nothing,
                        !.pc = IF codec.delay THEN "lock" ELSE "output", !.i = fctx.next_finished]
      /\ UNCHANGED <<codec, fctx, p, buffer_mutex, progress, waits, submitted, owed, yield>>
  BY DEF DrainPackets, At, workerSide, history
<1>2. /\ client' \in ClientContext /\ fctx.next_finished \in Slots
      /\ client'.pc \in {"lock", "output"} /\ (client'.pc = "lock" => codec.delay)
      /\ client'.call = "drain" /\ client'.i = fctx.next_finished /\ client'.draining
      /\ client'.ret = Nothing
      /\ client'.slots = client.slots
  <2>1. client \in ClientContext /\ fctx.next_finished \in Slots /\ Slots \subseteq 0 .. N
    BY FrameThreadAssumption DEF Inv, TypeOK, Slots
  <2> QED
    BY <1>1, <2>1, ClientConstants DEF ClientContext, ClientPcs, Calls
<1>3. TypeOK'
  BY <1>1, <1>2 DEF Inv, TypeOK
<1>4. \A j \in Slots : SlotInv(j)'
  BY <1>1, <1>2 DEF Inv, SlotInv, Nd
<1>5. \A j \in Slots : YieldInv(j)'
  BY <1>1, <1>2 DEF Inv, YieldInv, Freeing
<1>6. CallInv'
  BY <1>1, <1>2 DEF Inv, CallInv, Calling, Nothing, NotSubmitted, Nd, TypeOK
<1>7. RingInv'
  <2>1. \A k \in owed : Pos(client'.i, fctx.next_finished) <= Pos(k, fctx.next_finished)
    BY <1>2, FrameThreadAssumption DEF Inv, TypeOK, Pos, Slots
  <2>2. Nd # N
    BY <1>1, FrameThreadAssumption DEF Inv, TypeOK, CallInv, Nd
  <2> QED
    BY <1>1, <1>2, <2>1, <2>2 DEF Inv, RingInv, Nd
<1>8. OrderInv'
  BY <1>1, <1>2 DEF Inv, OrderInv, Oldest
<1>9. SetupInv'
  BY <1>1, <1>2 DEF Inv, SetupInv, InSetup, Nd
<1>10. FreeInv'
  BY <1>1, <1>2 DEF Inv, FreeInv, Unused, Gone, Freeing
<1>11. EofMeansDrained'
  BY <1>1, <1>2 DEF Inv, EofMeansDrained, DrainingDone
<1> QED
  BY <1>3, <1>4, <1>5, <1>6, <1>7, <1>8, <1>9, <1>10, <1>11 DEF Inv

LEMMA SubmitLockInv == ASSUME Inv, SubmitLock PROVE Inv'
<1>1. /\ client.pc = "lock" /\ p[Nd].mutex = "free"
      /\ client' = [client EXCEPT !.pc = IF p[Nd].released > 0 THEN "release" ELSE "prev"]
      /\ UNCHANGED <<codec, fctx, buffer_mutex, progress, waits, submitted, owed, yield>>
      /\ p' = [p EXCEPT ![Nd].mutex = "client"]
  BY DEF SubmitLock, At, workerSide, history, Goto
<1>2. /\ client' \in ClientContext
      /\ client'.pc = IF p[Nd].released > 0 THEN "release" ELSE "prev"
      /\ client'.call = client.call /\ client'.i = client.i /\ client'.slots = client.slots
      /\ client'.draining = client.draining /\ client'.ret = client.ret
  <2>1. client \in ClientContext
    BY DEF Inv, TypeOK
  <2> QED
    BY <1>1, <2>1, ClientConstants DEF ClientContext, ClientPcs, Calls
<1>3. Nd \in Slots
  BY <1>1, FrameThreadAssumption DEF Inv, TypeOK, CallInv, Nd, Slots
<1>4. /\ p' \in [Slots -> PerThreadContext] /\ \A j \in Slots : j # Nd => p'[j] = p[j]
      /\ p'[Nd].mutex = "client"
      /\ p'[Nd].thread = p[Nd].thread /\ p'[Nd].state = p[Nd].state
      /\ p'[Nd].avpkt = p[Nd].avpkt /\ p'[Nd].frame = p[Nd].frame
      /\ p'[Nd].result = p[Nd].result /\ p'[Nd].die = p[Nd].die /\ p'[Nd].buf = p[Nd].buf
      /\ p'[Nd].ref = p[Nd].ref /\ p'[Nd].released = p[Nd].released
  <2>1. p \in [Slots -> PerThreadContext] /\ p[Nd] \in PerThreadContext /\ Nd \in Slots
    BY <1>3 DEF Inv, TypeOK
  <2> DEFINE q == [p[Nd] EXCEPT !.mutex = "client"]
  <2>2. p' = [p EXCEPT ![Nd] = q]
    BY <1>1, <2>1
  <2>3. q \in PerThreadContext
    BY <1>1, <2>1 DEF PerThreadContext
  <2>4. p'[Nd] = q /\ p' \in [Slots -> PerThreadContext] /\ \A j \in Slots : j # Nd => p'[j] = p[j]
    <3> HIDE DEF q
    <3> QED
      BY <2>1, <2>2, <2>3
  <2> QED
    BY <2>1, <2>4 DEF PerThreadContext
<1>5. TypeOK'
  BY <1>1, <1>2, <1>3, <1>4 DEF Inv, TypeOK
<1>6. \A j \in Slots : SlotInv(j)'
  BY <1>1, <1>2, <1>3, <1>4 DEF Inv, SlotInv, Nd
<1>7. \A j \in Slots : YieldInv(j)'
  BY <1>1, <1>2, <1>3, <1>4 DEF Inv, YieldInv, Freeing
<1>8. CallInv'
  BY <1>1, <1>2, <1>3, <1>4 DEF Inv, CallInv, Calling, Nothing, NotSubmitted, Nd
<1>9. RingInv'
  BY <1>1, <1>2, <1>3, <1>4 DEF Inv, RingInv, Nd
<1>10. OrderInv'
  <2>1. \A j \in owed : p'[j].avpkt = p[j].avpkt
    BY <1>3, <1>4 DEF Inv, TypeOK
  <2> QED
    BY <1>1, <1>2, <2>1 DEF Inv, OrderInv, Oldest
<1>11. SetupInv'
  <2>1. \A j \in Slots : p'[j].state = p[j].state /\ p'[j].thread = p[j].thread
    BY <1>3, <1>4
  <2>2. buffer_mutex # NoSlot => buffer_mutex \in Slots
    BY FrameThreadAssumption DEF Inv, TypeOK, NoSlot, Slots
  <2> QED
    BY <1>1, <1>2, <1>3, <1>4, <2>1, <2>2 DEF Inv, SetupInv, InSetup, Nd
<1>12. FreeInv'
  BY <1>1, <1>2, <1>3, <1>4 DEF Inv, FreeInv, Unused, Gone, Freeing
<1>13. EofMeansDrained'
  BY <1>1, <1>2, <1>3, <1>4 DEF Inv, EofMeansDrained, DrainingDone
<1> QED
  BY <1>5, <1>6, <1>7, <1>8, <1>9, <1>10, <1>11, <1>12, <1>13 DEF Inv

LEMMA ReleaseDelayedInv == ASSUME Inv, ReleaseDelayed PROVE Inv'
<1>1. /\ client.pc = "release"
      /\ client' = [client EXCEPT !.pc = "prev"]
      /\ UNCHANGED <<codec, fctx, buffer_mutex, progress, waits, submitted, owed, yield>>
      /\ p' = [p EXCEPT ![Nd].released = 0]
  BY DEF ReleaseDelayed, At, workerSide, history, Goto
<1>2. /\ client' \in ClientContext
      /\ client'.pc = "prev"
      /\ client'.call = client.call /\ client'.i = client.i /\ client'.slots = client.slots
      /\ client'.draining = client.draining /\ client'.ret = client.ret
  <2>1. client \in ClientContext
    BY DEF Inv, TypeOK
  <2> QED
    BY <1>1, <2>1, ClientConstants DEF ClientContext, ClientPcs, Calls
<1>3. Nd \in Slots
  BY <1>1, FrameThreadAssumption DEF Inv, TypeOK, CallInv, Nd, Slots
<1>4. /\ p' \in [Slots -> PerThreadContext] /\ \A j \in Slots : j # Nd => p'[j] = p[j]
      /\ p'[Nd].released = 0
      /\ p'[Nd].thread = p[Nd].thread /\ p'[Nd].mutex = p[Nd].mutex
      /\ p'[Nd].state = p[Nd].state /\ p'[Nd].avpkt = p[Nd].avpkt /\ p'[Nd].frame = p[Nd].frame
      /\ p'[Nd].result = p[Nd].result /\ p'[Nd].die = p[Nd].die /\ p'[Nd].buf = p[Nd].buf
      /\ p'[Nd].ref = p[Nd].ref
  <2>1. p \in [Slots -> PerThreadContext] /\ p[Nd] \in PerThreadContext /\ Nd \in Slots
    BY <1>3 DEF Inv, TypeOK
  <2> DEFINE q == [p[Nd] EXCEPT !.released = 0]
  <2>2. p' = [p EXCEPT ![Nd] = q]
    BY <1>1, <2>1
  <2>3. q \in PerThreadContext
    BY <1>1, <2>1 DEF PerThreadContext
  <2>4. p'[Nd] = q /\ p' \in [Slots -> PerThreadContext] /\ \A j \in Slots : j # Nd => p'[j] = p[j]
    <3> HIDE DEF q
    <3> QED
      BY <2>1, <2>2, <2>3
  <2> QED
    BY <2>1, <2>4 DEF PerThreadContext
<1>5. TypeOK'
  BY <1>1, <1>2, <1>3, <1>4 DEF Inv, TypeOK
<1>6. \A j \in Slots : SlotInv(j)'
  BY <1>1, <1>2, <1>3, <1>4 DEF Inv, SlotInv, Nd
<1>7. \A j \in Slots : YieldInv(j)'
  BY <1>1, <1>2, <1>3, <1>4 DEF Inv, YieldInv, Freeing
<1>8. CallInv'
  BY <1>1, <1>2, <1>3, <1>4 DEF Inv, CallInv, Calling, Nothing, NotSubmitted, Nd
<1>9. RingInv'
  BY <1>1, <1>2, <1>3, <1>4 DEF Inv, RingInv, Nd
<1>10. OrderInv'
  <2>1. \A j \in owed : p'[j].avpkt = p[j].avpkt
    BY <1>3, <1>4 DEF Inv, TypeOK
  <2> QED
    BY <1>1, <1>2, <2>1 DEF Inv, OrderInv, Oldest
<1>11. SetupInv'
  <2>1. \A j \in Slots : p'[j].state = p[j].state /\ p'[j].thread = p[j].thread
    BY <1>3, <1>4
  <2>2. buffer_mutex # NoSlot => buffer_mutex \in Slots
    BY FrameThreadAssumption DEF Inv, TypeOK, NoSlot, Slots
  <2> QED
    BY <1>1, <1>2, <1>3, <1>4, <2>1, <2>2 DEF Inv, SetupInv, InSetup, Nd
<1>12. FreeInv'
  BY <1>1, <1>2, <1>3, <1>4 DEF Inv, FreeInv, Unused, Gone, Freeing
<1>13. EofMeansDrained'
  BY <1>1, <1>2, <1>3, <1>4 DEF Inv, EofMeansDrained, DrainingDone
<1> QED
  BY <1>5, <1>6, <1>7, <1>8, <1>9, <1>10, <1>11, <1>12, <1>13 DEF Inv

LEMMA SubmitFailsInv == ASSUME Inv, SubmitFails PROVE Inv'
<1>1. /\ client.pc = "prev"
      /\ client' = [client EXCEPT !.pc = "idle", !.ret = NotSubmitted]
      /\ UNCHANGED <<codec, fctx, buffer_mutex, progress, waits, submitted, owed, yield>>
      /\ p' = [p EXCEPT ![Nd].mutex = "free"]
  BY DEF SubmitFails, At, workerSide, history, Return
<1>2. /\ client' \in ClientContext
      /\ client'.pc = "idle" /\ client'.ret = NotSubmitted
      /\ client'.call = client.call /\ client'.i = client.i /\ client'.slots = client.slots
      /\ client'.draining = client.draining
  <2>1. client \in ClientContext
    BY DEF Inv, TypeOK
  <2> QED
    BY <1>1, <2>1, ClientConstants DEF ClientContext, ClientPcs, Calls
<1>3. Nd \in Slots
  BY <1>1, FrameThreadAssumption DEF Inv, TypeOK, CallInv, Nd, Slots
<1>4. /\ p' \in [Slots -> PerThreadContext] /\ \A j \in Slots : j # Nd => p'[j] = p[j]
      /\ p'[Nd].mutex = "free"
      /\ p'[Nd].thread = p[Nd].thread /\ p'[Nd].state = p[Nd].state
      /\ p'[Nd].avpkt = p[Nd].avpkt /\ p'[Nd].frame = p[Nd].frame
      /\ p'[Nd].result = p[Nd].result /\ p'[Nd].die = p[Nd].die /\ p'[Nd].buf = p[Nd].buf
      /\ p'[Nd].ref = p[Nd].ref /\ p'[Nd].released = p[Nd].released
  <2>1. p \in [Slots -> PerThreadContext] /\ p[Nd] \in PerThreadContext /\ Nd \in Slots
    BY <1>3 DEF Inv, TypeOK
  <2> DEFINE q == [p[Nd] EXCEPT !.mutex = "free"]
  <2>2. p' = [p EXCEPT ![Nd] = q]
    BY <1>1, <2>1
  <2>3. q \in PerThreadContext
    BY <1>1, <2>1 DEF PerThreadContext
  <2>4. p'[Nd] = q /\ p' \in [Slots -> PerThreadContext] /\ \A j \in Slots : j # Nd => p'[j] = p[j]
    <3> HIDE DEF q
    <3> QED
      BY <2>1, <2>2, <2>3
  <2> QED
    BY <2>1, <2>4 DEF PerThreadContext
<1>5. TypeOK'
  BY <1>1, <1>2, <1>3, <1>4 DEF Inv, TypeOK
<1>6. \A j \in Slots : SlotInv(j)'
  <2>1. ASSUME NEW j \in Slots, j = Nd PROVE SlotInv(j)'
    BY <1>1, <1>2, <1>3, <1>4, <2>1 DEF Inv, SlotInv, Nd
  <2>2. ASSUME NEW j \in Slots, j # Nd PROVE SlotInv(j)'
    <3>1. p'[j] = p[j] /\ SlotInv(j)
      BY <1>4, <2>2 DEF Inv
    <3>2. /\ waits' = waits /\ submitted' = submitted /\ owed' = owed
          /\ fctx'.next_decoding # j /\ fctx.next_decoding # j
      BY <1>1, <2>2 DEF Nd
    <3> QED
      BY <3>1, <3>2 DEF SlotInv, Nd
  <2> QED
    BY <2>1, <2>2
<1>7. \A j \in Slots : YieldInv(j)'
  BY <1>1, <1>2, <1>3, <1>4 DEF Inv, YieldInv, Freeing
<1>8. CallInv'
  BY <1>1, <1>2, <1>3, <1>4 DEF Inv, CallInv, Calling, Nothing, NotSubmitted, Nd
<1>9. RingInv'
  BY <1>1, <1>2, <1>3, <1>4 DEF Inv, RingInv, Nd
<1>10. OrderInv'
  <2>1. \A j \in owed : p'[j].avpkt = p[j].avpkt
    BY <1>3, <1>4 DEF Inv, TypeOK
  <2> QED
    BY <1>1, <1>2, <2>1 DEF Inv, OrderInv, Oldest
<1>11. SetupInv'
  <2>1. \A j \in Slots : p'[j].state = p[j].state /\ p'[j].thread = p[j].thread
    BY <1>3, <1>4
  <2>2. buffer_mutex # NoSlot => buffer_mutex \in Slots
    BY FrameThreadAssumption DEF Inv, TypeOK, NoSlot, Slots
  <2> QED
    BY <1>1, <1>2, <1>3, <1>4, <2>1, <2>2 DEF Inv, SetupInv, InSetup, Nd
<1>12. FreeInv'
  BY <1>1, <1>2, <1>3, <1>4 DEF Inv, FreeInv, Unused, Gone, Freeing
<1>13. EofMeansDrained'
  BY <1>1, <1>2, <1>3, <1>4 DEF Inv, EofMeansDrained, DrainingDone, NotSubmitted, Empty
<1> QED
  BY <1>5, <1>6, <1>7, <1>8, <1>9, <1>10, <1>11, <1>12, <1>13 DEF Inv


\* The client goes to sleep until slot k changes.
LEMMA ClientSleepsInv ==
  ASSUME Inv, NEW k \in Slots, NEW c \in {InputCond(k), ProgressCond(k), OutputCond(k)}, Sleep(Client, c),
         client.pc # "freed", UNCHANGED <<codec, fctx, p, buffer_mutex, progress, client, history>>
  PROVE  Inv'
<1>1. UNCHANGED <<codec, fctx, p, buffer_mutex, progress, client, submitted, owed, yield>>
  BY DEF history
<1>2. waits' \in [0 .. N -> Places] /\ \A i \in Slots : waits'[i] = waits[i]
  <2>1. Client \in 0 .. N /\ Client \notin Slots /\ Slots \subseteq 0 .. N
    BY FrameThreadAssumption DEF Client, Slots
  <2>2. waits \in [0 .. N -> Places] /\ waits' = [waits EXCEPT ![Client] = c]
    BY DEF Inv, TypeOK, Sleep
  <2> QED
    BY <2>1, <2>2, SleepOnPlace
<1>3. TypeOK'
  BY <1>1, <1>2 DEF Inv, TypeOK
<1>4. \A j \in Slots : SlotInv(j)'
  BY <1>1, <1>2 DEF Inv, SlotInv, Nd
<1>5. \A j \in Slots : YieldInv(j)'
  BY <1>1 DEF Inv, YieldInv
<1>6. CallInv' /\ RingInv' /\ OrderInv'
  BY <1>1 DEF Inv, CallInv, RingInv, OrderInv, Oldest, Nd
<1>7. SetupInv' /\ EofMeansDrained'
  BY <1>1 DEF Inv, SetupInv, InSetup, Nd, EofMeansDrained, DrainingDone
<1>8. FreeInv'
  BY <1>1 DEF Inv, FreeInv, Unused, Gone
<1> QED
  BY <1>3, <1>4, <1>5, <1>6, <1>7, <1>8 DEF Inv

LEMMA AwaitPrevSetupInv == ASSUME Inv, AwaitPrevSetup PROVE Inv'
<1>1. fctx.prev_thread \in Slots
  BY FrameThreadAssumption DEF AwaitPrevSetup, PrevSettingUp, Inv, TypeOK, NoSlot, Slots
<1> QED
  BY <1>1, ClientSleepsInv DEF AwaitPrevSetup, At, workerSide

LEMMA ServeWaitInv == ASSUME Inv, ServeWait PROVE Inv'
<1>1. Nd \in Slots /\ client.pc = "serve"
  BY FrameThreadAssumption DEF ServeWait, At, Inv, TypeOK, CallInv, Nd, Slots
<1> QED
  BY <1>1, ClientSleepsInv DEF ServeWait, workerSide

LEMMA AwaitOutputInv ==
  ASSUME Inv, NEW place \in {"output", "park"}, AwaitOutput(place)
  PROVE  Inv'
<1>1. client.i \in Slots /\ client.pc # "freed"
  BY FrameThreadAssumption DEF AwaitOutput, At, Inv, TypeOK, ClientContext, Slots
<1> QED
  BY <1>1, ClientSleepsInv DEF AwaitOutput, workerSide

LEMMA ServeCallbackInv == ASSUME Inv, ServeCallback PROVE Inv'
<1>1. /\ client.pc = "serve" /\ p[Nd].state \in Asking /\ codec.ask # {}
      /\ UNCHANGED <<codec, fctx, buffer_mutex, progress, submitted, owed, yield>>
      /\ client' = client
      /\ p' = [p EXCEPT ![Nd].state = "SETTING_UP"]
      /\ waits' \in Signalled(waits, ProgressCond(Nd))
  BY DEF ServeCallback, At, workerSide, history
<1>2. client' = client /\ client \in ClientContext
  BY <1>1 DEF Inv, TypeOK
<1>3. Nd \in Slots
  BY <1>1, FrameThreadAssumption DEF Inv, TypeOK, CallInv, Nd, Slots
<1>4. /\ p' \in [Slots -> PerThreadContext] /\ \A j \in Slots : j # Nd => p'[j] = p[j]
      /\ p'[Nd].state = "SETTING_UP"
      /\ p'[Nd].thread = p[Nd].thread /\ p'[Nd].mutex = p[Nd].mutex
      /\ p'[Nd].avpkt = p[Nd].avpkt /\ p'[Nd].frame = p[Nd].frame
      /\ p'[Nd].result = p[Nd].result /\ p'[Nd].die = p[Nd].die /\ p'[Nd].buf = p[Nd].buf
      /\ p'[Nd].ref = p[Nd].ref /\ p'[Nd].released = p[Nd].released
  <2>1. p \in [Slots -> PerThreadContext] /\ p[Nd] \in PerThreadContext /\ Nd \in Slots
    BY <1>3 DEF Inv, TypeOK
  <2> DEFINE q == [p[Nd] EXCEPT !.state = "SETTING_UP"]
  <2>2. p' = [p EXCEPT ![Nd] = q]
    BY <1>1, <2>1
  <2>3. q \in PerThreadContext
    BY <1>1, <2>1 DEF PerThreadContext, States
  <2>4. p'[Nd] = q /\ p' \in [Slots -> PerThreadContext] /\ \A j \in Slots : j # Nd => p'[j] = p[j]
    <3> HIDE DEF q
    <3> QED
      BY <2>1, <2>2, <2>3
  <2> QED
    BY <2>1, <2>4 DEF PerThreadContext
<1>5. OnlyWakes(waits, waits')
  BY <1>1, WaitsType, SignalledOnlyWakes
<1>6. TypeOK'
  BY <1>1, <1>2, <1>3, <1>4, <1>5 DEF Inv, TypeOK, OnlyWakes
<1>7. \A j \in Slots : SlotInv(j)'
  <2>1. ASSUME NEW j \in Slots, j = Nd PROVE SlotInv(j)'
    <3>1. waits'[j] \in {waits[j], Awake} /\ SlotInv(j)
      BY <1>5, FrameThreadAssumption DEF OnlyWakes, Slots, Inv
    <3> QED
      BY <1>1, <1>2, <1>3, <1>4, <2>1, <3>1 DEF SlotInv, Nd, Asking
  <2>2. ASSUME NEW j \in Slots, j # Nd PROVE SlotInv(j)'
    <3>1. p'[j] = p[j] /\ SlotInv(j) /\ waits'[j] \in {waits[j], Awake}
      BY <1>1, <1>4, <2>2, <1>5, FrameThreadAssumption DEF Inv, OnlyWakes, Slots
    <3>2. fctx' = fctx /\ submitted' = submitted /\ owed' = owed
          /\ (client'.pc \in {"release", "prev"} <=> client.pc \in {"release", "prev"})
      BY <1>1, <1>2
    <3> QED
      BY <3>1, <3>2 DEF SlotInv, Nd
  <2> QED
    BY <2>1, <2>2
<1>8. \A j \in Slots : YieldInv(j)'
  BY <1>1, <1>2, <1>3, <1>4, <1>5 DEF Inv, YieldInv, Freeing, Asking
<1>9. CallInv'
  BY <1>1, <1>2, <1>3, <1>4, <1>5 DEF Inv, CallInv, Calling, Nothing, NotSubmitted, Nd
<1>10. RingInv'
  BY <1>1, <1>2, <1>3, <1>4, <1>5 DEF Inv, RingInv, Nd
<1>11. OrderInv'
  <2>1. \A j \in owed : p'[j].avpkt = p[j].avpkt
    BY <1>3, <1>4 DEF Inv, TypeOK
  <2> QED
    BY <1>1, <1>2, <2>1 DEF Inv, OrderInv, Oldest
<1>12. SetupInv'
  <2>1. \A j \in Slots : p'[j].thread = p[j].thread /\ (j # Nd => p'[j].state = p[j].state)
    BY <1>3, <1>4
  <2>2. buffer_mutex # NoSlot => buffer_mutex \in Slots
    BY FrameThreadAssumption DEF Inv, TypeOK, NoSlot, Slots
  <2> QED
    BY <1>1, <1>4, <2>1, <2>2 DEF Inv, SetupInv, InSetup, Nd, Asking
<1>13. FreeInv'
  <2>1. client.slots = N /\ ~(Nd >= client.slots)
    BY <1>1, <1>3, FrameThreadAssumption DEF Inv, FreeInv, Freeing, Slots
  <2>2. \A j \in Slots : p'[j].thread = p[j].thread /\ p'[j].released = p[j].released
    BY <1>3, <1>4
  <2>3. \A j \in Slots : ~(j >= client.slots)
    BY <2>1, FrameThreadAssumption DEF Slots
  <2> QED
    BY <1>1, <1>2, <2>1, <2>2, <2>3 DEF Inv, FreeInv, Unused, Gone, Freeing
<1>14. EofMeansDrained'
  BY <1>1, <1>2, <1>3, <1>4, <1>5 DEF Inv, EofMeansDrained, DrainingDone
<1> QED
  BY <1>6, <1>7, <1>8, <1>9, <1>10, <1>11, <1>12, <1>13, <1>14 DEF Inv

LEMMA ParkInv == ASSUME Inv, Park PROVE Inv'
<1>1. /\ client.pc = "park" /\ client.i < client.slots /\ p[client.i].state = "INPUT_READY"
      /\ client' = [client EXCEPT !.i = client.i + 1]
      /\ UNCHANGED <<codec, fctx, buffer_mutex, progress, waits, submitted, owed, yield>>
      /\ p' = [p EXCEPT ![client.i].frame = NoId]
  BY DEF Park, At, workerSide, history, GotoSlot
<1>2. /\ client' \in ClientContext
      /\ client'.pc = client.pc /\ client'.call = client.call /\ client'.i = client.i + 1
      /\ client'.slots = client.slots /\ client'.draining = client.draining
      /\ client'.ret = client.ret
  <2>1. client \in ClientContext
    BY DEF Inv, TypeOK
  <2>2. client.i + 1 \in 0 .. N
    BY <1>1, <2>1, FrameThreadAssumption DEF Inv, FreeInv, ClientContext
  <2> QED
    BY <1>1, <2>1, <2>2 DEF ClientContext
<1>3. client.i \in Slots
  BY <1>1, FrameThreadAssumption DEF Inv, TypeOK, FreeInv, ClientContext, Slots
<1>4. /\ p' \in [Slots -> PerThreadContext] /\ \A j \in Slots : j # client.i => p'[j] = p[j]
      /\ p'[client.i].frame = NoId
      /\ p'[client.i].thread = p[client.i].thread /\ p'[client.i].mutex = p[client.i].mutex
      /\ p'[client.i].state = p[client.i].state /\ p'[client.i].avpkt = p[client.i].avpkt
      /\ p'[client.i].result = p[client.i].result /\ p'[client.i].die = p[client.i].die
      /\ p'[client.i].buf = p[client.i].buf /\ p'[client.i].ref = p[client.i].ref
      /\ p'[client.i].released = p[client.i].released
  <2>1. p \in [Slots -> PerThreadContext] /\ p[client.i] \in PerThreadContext /\ client.i \in Slots
    BY <1>3 DEF Inv, TypeOK
  <2> DEFINE q == [p[client.i] EXCEPT !.frame = NoId]
  <2>2. p' = [p EXCEPT ![client.i] = q]
    BY <1>1, <2>1
  <2>3. q \in PerThreadContext
    BY <1>1, <2>1, FrameThreadAssumption DEF PerThreadContext, NoId
  <2>4. p'[client.i] = q /\ p' \in [Slots -> PerThreadContext] /\ \A j \in Slots : j # client.i => p'[j] = p[j]
    <3> HIDE DEF q
    <3> QED
      BY <2>1, <2>2, <2>3
  <2> QED
    BY <2>1, <2>4 DEF PerThreadContext
<1>5. TypeOK'
  BY <1>1, <1>2, <1>3, <1>4 DEF Inv, TypeOK
<1>6. \A j \in Slots : SlotInv(j)'
  <2>1. ASSUME NEW j \in Slots, j = client.i PROVE SlotInv(j)'
    <3>1. waits' = waits /\ SlotInv(j)
      BY <1>1 DEF Inv
    <3> QED
      BY <1>1, <1>2, <1>3, <1>4, <2>1, <3>1 DEF SlotInv, Nd, Asking
  <2>2. ASSUME NEW j \in Slots, j # client.i PROVE SlotInv(j)'
    <3>1. p'[j] = p[j] /\ SlotInv(j) /\ waits' = waits
      BY <1>1, <1>4, <2>2 DEF Inv
    <3>2. fctx' = fctx /\ submitted' = submitted /\ owed' = owed
          /\ (client'.pc \in {"release", "prev"} <=> client.pc \in {"release", "prev"})
      BY <1>1, <1>2
    <3> QED
      BY <3>1, <3>2 DEF SlotInv, Nd
  <2> QED
    BY <2>1, <2>2
<1>7. \A j \in Slots : YieldInv(j)'
  BY <1>1, <1>2, <1>3, <1>4 DEF Inv, YieldInv, Freeing
<1>8. CallInv'
  BY <1>1, <1>2, <1>3, <1>4 DEF Inv, CallInv, Calling, Nothing, NotSubmitted, Nd
<1>9. RingInv'
  BY <1>1, <1>2, <1>3, <1>4 DEF Inv, RingInv, Nd
<1>10. OrderInv'
  <2>1. \A j \in owed : p'[j].avpkt = p[j].avpkt
    BY <1>3, <1>4 DEF Inv, TypeOK
  <2> QED
    BY <1>1, <1>2, <2>1 DEF Inv, OrderInv, Oldest
<1>11. SetupInv'
  <2>1. \A j \in Slots : p'[j].state = p[j].state /\ p'[j].thread = p[j].thread
    BY <1>3, <1>4
  <2>2. buffer_mutex # NoSlot => buffer_mutex \in Slots
    BY FrameThreadAssumption DEF Inv, TypeOK, NoSlot, Slots
  <2> QED
    BY <1>1, <1>2, <2>1, <2>2 DEF Inv, SetupInv, InSetup, Nd
<1>12. FreeInv'
  <2>1. /\ \A k \in Slots : k < client.i + 1 <=> k < client.i \/ k = client.i
        /\ client.i + 1 <= client.slots
    BY <1>1, <1>2, <1>3, FrameThreadAssumption DEF Inv, FreeInv, ClientContext, Slots
  <2>2. ~(client.i >= client.slots)
    BY <2>1, <1>1, <1>2, <1>3, FrameThreadAssumption DEF ClientContext, Slots
  <2> QED
    BY <1>1, <1>2, <1>3, <1>4, <2>1, <2>2 DEF Inv, FreeInv, Unused, Gone, Freeing
<1>13. EofMeansDrained'
  BY <1>1, <1>2, <1>3, <1>4 DEF Inv, EofMeansDrained, DrainingDone
<1> QED
  BY <1>5, <1>6, <1>7, <1>8, <1>9, <1>10, <1>11, <1>12, <1>13 DEF Inv

LEMMA DieInv == ASSUME Inv, Die PROVE Inv'
<1>1. /\ client.pc = "die" /\ p[client.i].mutex = "free"
      /\ client' = [client EXCEPT !.pc = "join"]
      /\ UNCHANGED <<codec, fctx, buffer_mutex, progress, submitted, owed, yield>>
      /\ p' = [p EXCEPT ![client.i].die = TRUE]
      /\ waits' \in Signalled(waits, InputCond(client.i))
  BY DEF Die, At, workerSide, history, Goto
<1>2. /\ client' \in ClientContext
      /\ client'.pc = "join"
      /\ client'.call = client.call /\ client'.i = client.i /\ client'.slots = client.slots
      /\ client'.draining = client.draining /\ client'.ret = client.ret
  <2>1. client \in ClientContext
    BY DEF Inv, TypeOK
  <2> QED
    BY <1>1, <2>1, ClientConstants DEF ClientContext, ClientPcs, Calls
<1>3. client.i \in Slots
  BY <1>1, FrameThreadAssumption DEF Inv, TypeOK, FreeInv, ClientContext, Slots
<1>4. /\ p' \in [Slots -> PerThreadContext] /\ \A j \in Slots : j # client.i => p'[j] = p[j]
      /\ p'[client.i].die = TRUE
      /\ p'[client.i].thread = p[client.i].thread /\ p'[client.i].mutex = p[client.i].mutex
      /\ p'[client.i].state = p[client.i].state /\ p'[client.i].avpkt = p[client.i].avpkt
      /\ p'[client.i].frame = p[client.i].frame /\ p'[client.i].result = p[client.i].result
      /\ p'[client.i].buf = p[client.i].buf /\ p'[client.i].ref = p[client.i].ref
      /\ p'[client.i].released = p[client.i].released
  <2>1. p \in [Slots -> PerThreadContext] /\ p[client.i] \in PerThreadContext /\ client.i \in Slots
    BY <1>3 DEF Inv, TypeOK
  <2> DEFINE q == [p[client.i] EXCEPT !.die = TRUE]
  <2>2. p' = [p EXCEPT ![client.i] = q]
    BY <1>1, <2>1
  <2>3. q \in PerThreadContext
    BY <1>1, <2>1 DEF PerThreadContext
  <2>4. p'[client.i] = q /\ p' \in [Slots -> PerThreadContext] /\ \A j \in Slots : j # client.i => p'[j] = p[j]
    <3> HIDE DEF q
    <3> QED
      BY <2>1, <2>2, <2>3
  <2> QED
    BY <2>1, <2>4 DEF PerThreadContext
<1>5. OnlyWakes(waits, waits')
  BY <1>1, WaitsType, SignalledOnlyWakes
<1>6. TypeOK'
  BY <1>1, <1>2, <1>3, <1>4, <1>5 DEF Inv, TypeOK, OnlyWakes
<1>7. \A j \in Slots : SlotInv(j)'
  <2>1. ASSUME NEW j \in Slots, j = client.i PROVE SlotInv(j)'
    <3>1. waits'[j] \in {waits[j], Awake} /\ SlotInv(j)
      BY <1>5, FrameThreadAssumption DEF OnlyWakes, Slots, Inv
    <3> QED
      BY <1>1, <1>2, <1>3, <1>4, <2>1, <3>1 DEF SlotInv, Nd, Asking
  <2>2. ASSUME NEW j \in Slots, j # client.i PROVE SlotInv(j)'
    <3>1. p'[j] = p[j] /\ SlotInv(j) /\ waits'[j] \in {waits[j], Awake}
      BY <1>1, <1>4, <2>2, <1>5, FrameThreadAssumption DEF Inv, OnlyWakes, Slots
    <3>2. fctx' = fctx /\ submitted' = submitted /\ owed' = owed
          /\ (client'.pc \in {"release", "prev"} <=> client.pc \in {"release", "prev"})
      BY <1>1, <1>2
    <3> QED
      BY <3>1, <3>2 DEF SlotInv, Nd
  <2> QED
    BY <2>1, <2>2
<1>8. \A j \in Slots : YieldInv(j)'
  BY <1>1, <1>2, <1>3, <1>4, <1>5 DEF Inv, YieldInv, Freeing
<1>9. CallInv'
  BY <1>1, <1>2, <1>3, <1>4, <1>5 DEF Inv, CallInv, Calling, Nothing, NotSubmitted, Nd
<1>10. RingInv'
  BY <1>1, <1>2, <1>3, <1>4, <1>5 DEF Inv, RingInv, Nd
<1>11. OrderInv'
  <2>1. \A j \in owed : p'[j].avpkt = p[j].avpkt
    BY <1>3, <1>4 DEF Inv, TypeOK
  <2> QED
    BY <1>1, <1>2, <2>1 DEF Inv, OrderInv, Oldest
<1>12. SetupInv'
  <2>1. \A j \in Slots : p'[j].state = p[j].state /\ p'[j].thread = p[j].thread
    BY <1>3, <1>4
  <2>2. buffer_mutex # NoSlot => buffer_mutex \in Slots
    BY FrameThreadAssumption DEF Inv, TypeOK, NoSlot, Slots
  <2> QED
    BY <1>1, <1>2, <2>1, <2>2 DEF Inv, SetupInv, InSetup, Nd
<1>13. FreeInv'
  BY <1>1, <1>2, <1>3, <1>4, <1>5 DEF Inv, FreeInv, Unused, Gone, Freeing
<1>14. EofMeansDrained'
  BY <1>1, <1>2, <1>3, <1>4, <1>5 DEF Inv, EofMeansDrained, DrainingDone
<1> QED
  BY <1>6, <1>7, <1>8, <1>9, <1>10, <1>11, <1>12, <1>13, <1>14 DEF Inv

LEMMA JoinInv == ASSUME Inv, Join PROVE Inv'
<1>1. /\ client.pc = "join" /\ waits[Client] = Awake /\ p[client.i].thread \in {"none", "exited"}
      /\ client' = IF client.i + 1 = client.slots THEN [client EXCEPT !.pc = "freed"]
                   ELSE [client EXCEPT !.pc = "die", !.i = client.i + 1]
      /\ UNCHANGED <<codec, fctx, buffer_mutex, progress, waits, submitted, owed, yield>>
      /\ p' = [p EXCEPT ![client.i].released = 0]
  BY DEF Join, At, workerSide, history, Closed, Goto, GotoSlot
<1>2. /\ client' \in ClientContext
      /\ client'.call = client.call
      /\ client'.slots = client.slots /\ client'.draining = client.draining
      /\ client'.ret = client.ret
      /\ \/ client'.pc = "freed" /\ client'.i = client.i /\ client.i + 1 = client.slots
         \/ client'.pc = "die" /\ client'.i = client.i + 1 /\ client'.i < client.slots
  <2>1. client \in ClientContext
    BY DEF Inv, TypeOK
  <2>2. client.i + 1 \in 0 .. N /\ (client.i + 1 # client.slots => client.i + 1 < client.slots)
    BY <1>1, <2>1, FrameThreadAssumption DEF Inv, FreeInv, ClientContext
  <2> QED
    BY <1>1, <2>1, <2>2 DEF ClientContext, ClientPcs
<1>3. client.i \in Slots
  BY <1>1, FrameThreadAssumption DEF Inv, TypeOK, FreeInv, ClientContext, Slots
<1>4. /\ p' \in [Slots -> PerThreadContext] /\ \A j \in Slots : j # client.i => p'[j] = p[j]
      /\ p'[client.i].released = 0
      /\ p'[client.i].thread = p[client.i].thread /\ p'[client.i].mutex = p[client.i].mutex
      /\ p'[client.i].state = p[client.i].state /\ p'[client.i].avpkt = p[client.i].avpkt
      /\ p'[client.i].frame = p[client.i].frame /\ p'[client.i].result = p[client.i].result
      /\ p'[client.i].die = p[client.i].die /\ p'[client.i].buf = p[client.i].buf
      /\ p'[client.i].ref = p[client.i].ref
  <2>1. p \in [Slots -> PerThreadContext] /\ p[client.i] \in PerThreadContext /\ client.i \in Slots
    BY <1>3 DEF Inv, TypeOK
  <2> DEFINE q == [p[client.i] EXCEPT !.released = 0]
  <2>2. p' = [p EXCEPT ![client.i] = q]
    BY <1>1, <2>1
  <2>3. q \in PerThreadContext
    BY <1>1, <2>1 DEF PerThreadContext
  <2>4. p'[client.i] = q /\ p' \in [Slots -> PerThreadContext] /\ \A j \in Slots : j # client.i => p'[j] = p[j]
    <3> HIDE DEF q
    <3> QED
      BY <2>1, <2>2, <2>3
  <2> QED
    BY <2>1, <2>4 DEF PerThreadContext
<1>5. TypeOK'
  BY <1>1, <1>2, <1>3, <1>4 DEF Inv, TypeOK
<1>6. \A j \in Slots : SlotInv(j)'
  <2>1. ASSUME NEW j \in Slots, j = client.i PROVE SlotInv(j)'
    <3>1. waits' = waits /\ SlotInv(j)
      BY <1>1 DEF Inv
    <3> QED
      BY <1>1, <1>2, <1>3, <1>4, <2>1, <3>1 DEF SlotInv, Nd, Asking
  <2>2. ASSUME NEW j \in Slots, j # client.i PROVE SlotInv(j)'
    <3>1. p'[j] = p[j] /\ SlotInv(j) /\ waits' = waits
      BY <1>1, <1>4, <2>2 DEF Inv
    <3>2. fctx' = fctx /\ submitted' = submitted /\ owed' = owed
          /\ (client'.pc \in {"release", "prev"} <=> client.pc \in {"release", "prev"})
      BY <1>1, <1>2
    <3> QED
      BY <3>1, <3>2 DEF SlotInv, Nd
  <2> QED
    BY <2>1, <2>2
<1>7. \A j \in Slots : YieldInv(j)'
  BY <1>1, <1>2, <1>3, <1>4 DEF Inv, YieldInv, Freeing
<1>8. CallInv'
  BY <1>1, <1>2, <1>3, <1>4 DEF Inv, CallInv, Calling, Nothing, NotSubmitted, Nd
<1>9. RingInv'
  BY <1>1, <1>2, <1>3, <1>4 DEF Inv, RingInv, Nd
<1>10. OrderInv'
  <2>1. \A j \in owed : p'[j].avpkt = p[j].avpkt
    BY <1>3, <1>4 DEF Inv, TypeOK
  <2> QED
    BY <1>1, <1>2, <2>1 DEF Inv, OrderInv, Oldest
<1>11. SetupInv'
  <2>1. \A j \in Slots : p'[j].state = p[j].state /\ p'[j].thread = p[j].thread
    BY <1>3, <1>4
  <2>2. buffer_mutex # NoSlot => buffer_mutex \in Slots
    BY FrameThreadAssumption DEF Inv, TypeOK, NoSlot, Slots
  <2> QED
    BY <1>1, <1>2, <2>1, <2>2 DEF Inv, SetupInv, InSetup, Nd
<1>12. FreeInv'
  <2>1. client.call = "free" /\ client.i < client.slots /\ client.slots \in Nat
    BY <1>1, <1>2 DEF Inv, FreeInv, TypeOK, ClientContext
  <2>2. ASSUME NEW k \in Slots, k < client.i + 1 PROVE Gone(k)'
    <3>1. CASE k = client.i
      BY <1>1, <1>4, <3>1 DEF Gone
    <3>2. CASE k # client.i
      <4>1. k < client.i /\ p'[k] = p[k]
        BY <1>3, <1>4, <2>2, <3>2, FrameThreadAssumption DEF Slots
      <4> QED
        BY <1>1, <4>1 DEF Inv, FreeInv, Gone
    <3> QED
      BY <3>1, <3>2
  <2>3. ASSUME NEW k \in Slots, k >= client.slots
        PROVE  Unused(k)' /\ p'[k].state = "INPUT_READY"
    <3>1. k # client.i
      BY <1>3, <2>1, <2>3, FrameThreadAssumption DEF Slots
    <3> QED
      BY <1>4, <2>3, <3>1 DEF Inv, FreeInv, Unused
  <2>4. client'.pc = "freed" => \A k \in Slots : Gone(k)'
    <3>1. \A k \in Slots : k < client.slots \/ k >= client.slots
      BY <2>1, FrameThreadAssumption DEF Slots
    <3>2. \A k \in Slots : Unused(k)' => Gone(k)'
      BY DEF Unused, Gone
    <3> QED
      BY <1>2, <2>2, <2>3, <3>1, <3>2
  <2>5. waits'[Client] = Awake /\ client'.i < client'.slots
    BY <1>1, <1>2, <2>1
  <2> QED
    BY <1>2, <2>1, <2>2, <2>3, <2>4, <2>5 DEF FreeInv, Freeing
<1>13. EofMeansDrained'
  BY <1>1, <1>2, <1>3, <1>4 DEF Inv, EofMeansDrained, DrainingDone
<1> QED
  BY <1>5, <1>6, <1>7, <1>8, <1>9, <1>10, <1>11, <1>12, <1>13 DEF Inv

LEMMA CreateThreadInv == ASSUME Inv, InitSlot, p' # p PROVE Inv'
<1>1. /\ client.pc = "init"
      /\ client' = IF client.i = N - 1 THEN [client EXCEPT !.pc = "idle", !.ret = Nothing]
                   ELSE [client EXCEPT !.pc = "init", !.i = client.i + 1]
      /\ UNCHANGED <<codec, fctx, buffer_mutex, progress, waits, submitted, owed, yield>>
      /\ p' = [p EXCEPT ![client.i].thread = "start"]
  BY DEF InitSlot, At, workerSide, history, Return, GotoSlot
<1>2. /\ client' \in ClientContext
      /\ client'.call = client.call
      /\ client'.slots = client.slots /\ client'.draining = client.draining
      /\ \/ client'.pc = "idle" /\ client'.i = client.i /\ client.i = N - 1 /\ client'.ret = Nothing
         \/ client'.pc = "init" /\ client'.i = client.i + 1 /\ client'.i \in Slots /\ client'.ret = client.ret
  <2>1. client \in ClientContext
    BY DEF Inv, TypeOK
  <2>2. client.i + 1 \in 0 .. N /\ (client.i # N - 1 => client.i + 1 \in Slots)
    BY <1>1, <2>1, FrameThreadAssumption DEF Inv, FreeInv, ClientContext, Slots
  <2> QED
    BY <1>1, <2>1, <2>2, ClientConstants DEF ClientContext, ClientPcs
<1>3. client.i \in Slots
  BY <1>1, FrameThreadAssumption DEF Inv, TypeOK, FreeInv, ClientContext, Slots
<1>4. /\ p' \in [Slots -> PerThreadContext] /\ \A j \in Slots : j # client.i => p'[j] = p[j]
      /\ p'[client.i].thread = "start"
      /\ p'[client.i].mutex = p[client.i].mutex /\ p'[client.i].state = p[client.i].state
      /\ p'[client.i].avpkt = p[client.i].avpkt /\ p'[client.i].frame = p[client.i].frame
      /\ p'[client.i].result = p[client.i].result /\ p'[client.i].die = p[client.i].die
      /\ p'[client.i].buf = p[client.i].buf /\ p'[client.i].ref = p[client.i].ref
      /\ p'[client.i].released = p[client.i].released
  <2>1. p \in [Slots -> PerThreadContext] /\ p[client.i] \in PerThreadContext /\ client.i \in Slots
    BY <1>3 DEF Inv, TypeOK
  <2> DEFINE q == [p[client.i] EXCEPT !.thread = "start"]
  <2>2. p' = [p EXCEPT ![client.i] = q]
    BY <1>1, <2>1
  <2>3. q \in PerThreadContext
    BY <1>1, <2>1 DEF PerThreadContext
  <2>4. p'[client.i] = q /\ p' \in [Slots -> PerThreadContext] /\ \A j \in Slots : j # client.i => p'[j] = p[j]
    <3> HIDE DEF q
    <3> QED
      BY <2>1, <2>2, <2>3
  <2> QED
    BY <2>1, <2>4 DEF PerThreadContext
<1>5. /\ UNCHANGED <<codec, fctx, buffer_mutex, progress, waits, submitted, owed, yield>>
      /\ client.pc = "init" /\ client.call = "init" /\ client.slots = N
      /\ owed = {} /\ p[client.i].thread = "none"
  BY <1>1, <1>3, FrameThreadAssumption DEF Inv, FreeInv, Unused, Slots
<1>6. TypeOK'
  BY <1>5, <1>2, <1>3, <1>4 DEF Inv, TypeOK
<1>7. \A j \in Slots : SlotInv(j)'
  <2>1. ASSUME NEW j \in Slots, j = client.i PROVE SlotInv(j)'
    <3>1. waits' = waits /\ SlotInv(j)
      BY <1>5 DEF Inv
    <3>2. client.pc \notin {"release", "prev"} /\ client'.pc \notin {"release", "prev"}
      BY <1>2, <1>5
    <3>3. /\ p'[j].thread = "start" /\ p'[j].mutex = p[j].mutex /\ p'[j].ref = p[j].ref
          /\ p'[j].state = p[j].state /\ p'[j].frame = p[j].frame
          /\ p'[j].result = p[j].result /\ p'[j].avpkt = p[j].avpkt
      BY <1>4, <2>1
    <3>4. submitted' = submitted /\ owed' = owed
      BY <1>5
    <3> QED
      BY <3>1, <3>2, <3>3, <3>4 DEF SlotInv, Decoding
  <2>2. ASSUME NEW j \in Slots, j # client.i PROVE SlotInv(j)'
    <3>1. p'[j] = p[j] /\ SlotInv(j) /\ waits' = waits
      BY <1>5, <1>4, <2>2 DEF Inv
    <3>2. fctx' = fctx /\ submitted' = submitted /\ owed' = owed
          /\ (client'.pc \in {"release", "prev"} <=> client.pc \in {"release", "prev"})
      BY <1>5, <1>2
    <3> QED
      BY <3>1, <3>2 DEF SlotInv, Nd
  <2> QED
    BY <2>1, <2>2
<1>8. \A j \in Slots : YieldInv(j)'
  BY <1>5, <1>2, <1>3, <1>4 DEF Inv, YieldInv, Freeing
<1>9. CallInv'
  BY <1>5, <1>2, <1>3, <1>4 DEF Inv, CallInv, Calling, Nothing, NotSubmitted, Nd
<1>10. RingInv'
  BY <1>5, <1>2, <1>3, <1>4 DEF Inv, RingInv, Nd
<1>11. OrderInv'
  <2>1. \A j \in owed : p'[j].avpkt = p[j].avpkt
    BY <1>3, <1>4 DEF Inv, TypeOK
  <2> QED
    BY <1>5, <1>2, <2>1 DEF Inv, OrderInv, Oldest
<1>12. SetupInv'
  <2>1. buffer_mutex # NoSlot => buffer_mutex # client.i /\ buffer_mutex \in Slots
    BY <1>5, FrameThreadAssumption DEF Inv, TypeOK, SetupInv, NoSlot, Slots
  <2>2. \A j \in Slots : p'[j].state = p[j].state /\ (j # client.i => p'[j].thread = p[j].thread)
    BY <1>4
  <2> QED
    BY <1>2, <1>5, <2>1, <2>2 DEF Inv, SetupInv, InSetup, Nd
<1>13. FreeInv'
  <2>1. \A k \in Slots : ~(k >= client.slots)
    BY <1>5, FrameThreadAssumption DEF Slots
  <2>2. ASSUME NEW k \in Slots, k >= client.i + 1 PROVE Unused(k)'
    <3>1. k # client.i /\ k >= client.i
      BY <1>3, <2>2, FrameThreadAssumption DEF Slots
    <3>2. p'[k] = p[k]
      BY <1>4, <3>1
    <3> QED
      BY <1>5, <3>1, <3>2 DEF Inv, FreeInv, Unused
  <2> QED
    BY <1>2, <1>5, <2>1, <2>2 DEF FreeInv, Freeing
<1>14. EofMeansDrained'
  BY <1>5, <1>2, <1>3, <1>4 DEF Inv, EofMeansDrained, DrainingDone
<1> QED
  BY <1>6, <1>7, <1>8, <1>9, <1>10, <1>11, <1>12, <1>13, <1>14 DEF Inv

LEMMA InitFailsInv == ASSUME Inv, InitSlot, UNCHANGED p PROVE Inv'
<1>1. /\ client.pc = "init" /\ client.call = "init" /\ owed = {}
      /\ client \in ClientContext /\ client.i \in Slots
      /\ \A k \in Slots : k >= client.i => Unused(k)
  BY DEF InitSlot, At, Inv, TypeOK, FreeInv
<1>2. client' = [client EXCEPT !.pc = "park", !.call = "free", !.i = 0, !.slots = client.i + 1]
  <2>1. p[client.i].thread = "none" /\ p \in [Slots -> PerThreadContext]
    BY <1>1, FrameThreadAssumption DEF Unused, Slots, Inv, TypeOK
  <2>2. p # [p EXCEPT ![client.i].thread = "start"]
    BY <1>1, <2>1 DEF PerThreadContext
  <2> QED
    BY <2>2 DEF InitSlot
<1>3. /\ client' \in ClientContext
      /\ client'.pc = "park" /\ client'.call = "free" /\ client'.i = 0
      /\ client'.slots = client.i + 1 /\ client'.draining = client.draining
  <2>1. client.i + 1 \in 1 .. N
    BY <1>1, FrameThreadAssumption DEF Slots
  <2> QED
    BY <1>1, <1>2, <2>1, ClientConstants DEF ClientContext, ClientPcs, Calls
<1>4. UNCHANGED <<codec, fctx, p, buffer_mutex, progress, waits, submitted, owed, yield>>
  BY DEF InitSlot, workerSide, history
<1>5. TypeOK'
  BY <1>3, <1>4 DEF Inv, TypeOK
<1>6. \A j \in Slots : SlotInv(j)' /\ YieldInv(j)'
  BY <1>1, <1>3, <1>4 DEF Inv, SlotInv, YieldInv, Nd
<1>7. CallInv' /\ RingInv' /\ OrderInv'
  BY <1>1, <1>3, <1>4 DEF Inv, CallInv, RingInv, OrderInv, Calling, Nd
<1>8. SetupInv' /\ EofMeansDrained'
  BY <1>1, <1>3, <1>4 DEF Inv, SetupInv, EofMeansDrained, InSetup, Nd
<1>9. FreeInv'
  <2>1. \A k \in Slots : k >= client.i + 1 => k >= client.i
    BY <1>1, FrameThreadAssumption DEF Slots
  <2>2. \A k \in Slots : p[k].state = "INPUT_READY"
    BY <1>1 DEF Inv, SlotInv
  <2>3. 0 <= client.i + 1 /\ \A k \in Slots : ~(k < 0)
    BY <1>1, FrameThreadAssumption DEF Slots
  <2> QED
    BY <1>1, <1>3, <1>4, <2>1, <2>2, <2>3 DEF FreeInv, Unused, Freeing
<1> QED
  BY <1>5, <1>6, <1>7, <1>8, <1>9 DEF Inv

\* The slot that gets the next packet owes nothing and its worker waits.
LEMMA NextSlotIsFree ==
  ASSUME Inv, client.pc = "prev"
  PROVE  /\ Nd \in Slots /\ Nd \notin owed /\ fctx.next_finished \in Slots
         /\ p[Nd].thread \notin Decoding \cup {"loop"} /\ p[Nd].mutex = "client"
         /\ submitted \in Nat /\ submitted + 1 \in Ids /\ yield[submitted + 1] = "?"
         /\ \A j \in Slots : ~InSetup(j) \/ PrevSettingUp
<1>1. Nd \in Slots /\ fctx.next_finished \in Slots /\ submitted \in Nat /\ submitted < MaxIds
  BY FrameThreadAssumption DEF Inv, TypeOK, CallInv, Nd, Slots
<1>2. submitted + 1 \in Ids /\ submitted + 1 > submitted
  BY <1>1, FrameThreadAssumption DEF Ids
<1>3. yield[submitted + 1] = "?"
  BY <1>2 DEF Inv, CallInv
<1>4. Nd \notin owed
  <2>1. Pos(Nd, fctx.next_finished) \in Int
    BY <1>1, FrameThreadAssumption DEF Pos, Slots
  <2> QED
    BY <2>1 DEF Inv, RingInv
<1>5. p[Nd].mutex = "client" /\ p[Nd].thread \notin Decoding \cup {"loop"}
  BY <1>1 DEF Inv, SlotInv
<1>6. ASSUME NEW j \in Slots, InSetup(j) PROVE PrevSettingUp
  <2>1. j = fctx.prev_thread /\ p[j].state \notin Asking /\ j # NoSlot
    BY <1>6, FrameThreadAssumption DEF Inv, SetupInv, NoSlot, Slots
  <2> QED
    BY <1>6, <2>1 DEF InSetup, PrevSettingUp
<1> QED
  BY <1>1, <1>2, <1>3, <1>4, <1>5, <1>6

LEMMA SubmitPacketInv == ASSUME Inv, SubmitPacket PROVE Inv'
<1> DEFINE q == [p[Nd] EXCEPT !.avpkt = submitted + 1, !.state = "SETTING_UP",
                              !.ref = Reference, !.mutex = "free"]
<1>1. /\ client.pc = "prev" /\ ~PrevSettingUp
      /\ client' = [client EXCEPT !.pc = "serve"]
      /\ waits' \in Signalled(waits, InputCond(Nd))
      /\ submitted' = submitted + 1 /\ owed' = owed \cup {Nd}
      /\ progress' \subseteq progress
      /\ UNCHANGED <<codec, buffer_mutex, fctx, yield>>
  BY DEF SubmitPacket, At, Goto
<1>2. /\ client' \in ClientContext /\ client'.pc = "serve"
      /\ client'.call = client.call /\ client'.i = client.i /\ client'.slots = client.slots
      /\ client'.draining = client.draining /\ client'.ret = client.ret
  BY <1>1 DEF Inv, TypeOK, ClientContext, ClientPcs
<1>3. /\ Nd \in Slots /\ Nd \notin owed /\ fctx.next_finished \in Slots
      /\ p[Nd].thread \notin Decoding \cup {"loop"}
      /\ submitted \in Nat /\ submitted + 1 \in Ids /\ yield[submitted + 1] = "?"
      /\ \A j \in Slots : ~InSetup(j)
  BY <1>1, NextSlotIsFree
<1>4. Reference \in [id : 0 .. MaxIds, slot : 0 .. N] /\ (Reference # NoRef => Reference.slot \in Slots)
  <2>1. fctx.prev_thread # NoSlot => fctx.prev_thread \in Slots /\ fctx.prev_thread \in 0 .. N
    BY FrameThreadAssumption DEF Inv, TypeOK, NoSlot, Slots
  <2>2. NoRef \in [id : 0 .. MaxIds, slot : 0 .. N]
    BY FrameThreadAssumption DEF NoRef, NoId, NoSlot
  <2>3. \A j \in Slots : p[j].avpkt \in 0 .. MaxIds
    BY DEF Inv, TypeOK, PerThreadContext
  <2> QED
    BY <2>1, <2>2, <2>3 DEF Reference
<1>5. /\ p' \in [Slots -> PerThreadContext] /\ \A j \in Slots : j # Nd => p'[j] = p[j]
      /\ p'[Nd].avpkt = submitted + 1 /\ p'[Nd].state = "SETTING_UP"
      /\ p'[Nd].ref = Reference /\ p'[Nd].mutex = "free"
      /\ p'[Nd].thread = p[Nd].thread /\ p'[Nd].released = p[Nd].released
  <2>1. p \in [Slots -> PerThreadContext] /\ p[Nd] \in PerThreadContext
    BY <1>3 DEF Inv, TypeOK
  <2>2. p' = [p EXCEPT ![Nd] = q]
    BY <1>3, <2>1 DEF SubmitPacket
  <2>3. q \in PerThreadContext
    <3>1. submitted + 1 \in 0 .. MaxIds /\ "SETTING_UP" \in States
      BY <1>3, FrameThreadAssumption DEF Ids, States
    <3> QED
      BY <1>4, <2>1, <3>1 DEF PerThreadContext
  <2>4. p'[Nd] = q /\ p' \in [Slots -> PerThreadContext] /\ \A j \in Slots : j # Nd => p'[j] = p[j]
    <3> HIDE DEF q
    <3> QED
      BY <1>3, <2>1, <2>2, <2>3
  <2> QED
    BY <2>1, <2>4 DEF PerThreadContext
<1>6. OnlyWakes(waits, waits')
  BY <1>1, WaitsType, SignalledOnlyWakes
<1>7. TypeOK'
  BY <1>1, <1>2, <1>3, <1>5, <1>6, FrameThreadAssumption DEF Inv, TypeOK, OnlyWakes, Ids
<1>8. \A j \in Slots : SlotInv(j)'
  <2>1. ASSUME NEW j \in Slots, j = Nd PROVE SlotInv(j)'
    <3>1. waits'[j] \in {waits[j], Awake} /\ SlotInv(j)
      BY <1>6, FrameThreadAssumption DEF Inv, OnlyWakes, Slots
    <3>2. submitted + 1 \in 1 .. submitted + 1 /\ j \in owed'
      BY <1>1, <1>3, <2>1
    <3> QED
      BY <1>1, <1>2, <1>3, <1>4, <1>5, <2>1, <3>1, <3>2 DEF SlotInv
  <2>2. ASSUME NEW j \in Slots, j # Nd PROVE SlotInv(j)'
    <3>1. waits'[j] \in {waits[j], Awake} /\ SlotInv(j) /\ p'[j] = p[j]
      BY <1>5, <1>6, <2>2, FrameThreadAssumption DEF Inv, OnlyWakes, Slots
    <3>2. 1 .. submitted \subseteq 1 .. submitted + 1 /\ (j \in owed' <=> j \in owed)
      BY <1>1, <1>3, <2>2
    <3>3. submitted' = submitted + 1 /\ p[j].mutex # "client" /\ client'.pc = "serve"
      BY <1>1, <1>2, <2>2, <3>1 DEF SlotInv
    <3> QED
      BY <3>1, <3>2, <3>3 DEF SlotInv
  <2> QED
    BY <2>1, <2>2
<1>9. \A j \in Slots : YieldInv(j)'
  <2>1. ASSUME NEW j \in Slots, j = Nd PROVE YieldInv(j)'
    BY <1>1, <1>3, <1>5, <2>1 DEF YieldInv, Decoding
  <2>2. ASSUME NEW j \in Slots, j # Nd PROVE YieldInv(j)'
    BY <1>1, <1>2, <1>5, <2>2 DEF Inv, YieldInv, Freeing
  <2> QED
    BY <2>1, <2>2
<1>10. CallInv'
  <2>1. \A id \in Ids : id > submitted + 1 => id > submitted
    BY <1>3, FrameThreadAssumption DEF Ids
  <2> QED
    BY <1>1, <1>2, <2>1 DEF Inv, CallInv, Calling, Nd
<1>11. RingInv'
  <2>1. \A k \in Slots : Pos(k, fctx.next_finished) \in Int
    BY <1>3, FrameThreadAssumption DEF Pos, Slots
  <2>2. \A k \in owed' : Pos(k, fctx.next_finished) <= Pos(Nd, fctx.next_finished)
    BY <1>1, <1>3, <2>1 DEF Inv, TypeOK, RingInv
  <2> QED
    BY <1>1, <1>2, <2>2 DEF Inv, RingInv, Nd
<1>12. OrderInv'
  <2> DEFINE base == fctx.next_finished
  <2>1. \A k \in Slots : Pos(k, base) \in Int
    BY <1>3, FrameThreadAssumption DEF Pos, Slots
  <2>2. \A k \in owed : /\ p'[k].avpkt = p[k].avpkt /\ Pos(k, base) < Pos(Nd, base)
                        /\ p[k].avpkt < submitted + 1 /\ k \in Slots
    BY <1>1, <1>3, <1>5 DEF Inv, TypeOK, RingInv, SlotInv
  <2>3. \A j, k \in owed : Pos(j, base) < Pos(k, base) => p[j].avpkt < p[k].avpkt
    BY <1>1 DEF Inv, OrderInv, Oldest
  <2>4. \A j, k \in owed \cup {Nd} : Pos(j, base) < Pos(k, base) => p'[j].avpkt < p'[k].avpkt
    BY <1>3, <1>5, <2>1, <2>2, <2>3
  <2> QED
    BY <1>1, <1>2, <2>4 DEF OrderInv, Oldest
<1>13. SetupInv'
  <2>1. buffer_mutex # NoSlot => buffer_mutex \in Slots
    BY FrameThreadAssumption DEF Inv, TypeOK, NoSlot, Slots
  <2> QED
    BY <1>1, <1>2, <1>3, <1>5, <2>1 DEF Inv, SetupInv, InSetup, Asking, Nd
<1>14. FreeInv'
  <2>1. client.slots = N /\ client.call # "free"
    BY <1>1 DEF Inv, FreeInv, Freeing
  <2>2. \A k \in Slots : ~(k >= N)
    BY FrameThreadAssumption DEF Slots
  <2> QED
    BY <1>2, <2>1, <2>2 DEF FreeInv
<1>15. EofMeansDrained'
  BY <1>2 DEF EofMeansDrained
<1> QED
  BY <1>7, <1>8, <1>9, <1>10, <1>11, <1>12, <1>13, <1>14, <1>15 DEF Inv


\* Of the slots passed over in the ring none owes an answer; the one looked at
\* then owes the oldest packet in flight.
LEMMA SubmittedInv == ASSUME Inv, Submitted PROVE Inv'
<1> DEFINE nf == fctx.next_finished
<1>1. /\ client.pc = "serve" /\ SetupOver
      /\ fctx' = [fctx EXCEPT !.prev_thread = Nd, !.next_decoding = Nd + 1, !.delaying = StillDelaying]
      /\ client' = IF StillDelaying /\ client.call = "packet"
                   THEN [client EXCEPT !.pc = "idle", !.ret = Nothing]
                   ELSE [client EXCEPT !.pc = "output", !.i = nf]
      /\ UNCHANGED <<codec, p, buffer_mutex, progress, waits, submitted, owed, yield>>
  BY DEF Submitted, At, workerSide, history, Return, GotoSlot
<1>2. /\ fctx \in [next_decoding : 0 .. N, next_finished : Slots, delaying : BOOLEAN, prev_thread : 0 .. N]
      /\ client \in ClientContext /\ Nd \in Slots /\ nf \in Slots
      /\ client.call \in {"packet", "drain"} /\ client.ret = Nothing /\ client.slots = N
  BY <1>1, FrameThreadAssumption DEF Inv, TypeOK, CallInv, FreeInv, Calling, Freeing, Nd, Slots
<1>3. /\ Nd + 1 \in 0 .. N /\ nf \in 0 .. N /\ Nd \in 0 .. N
      /\ StillDelaying \in BOOLEAN /\ (StillDelaying => fctx.delaying /\ Nd + 1 <= N - 1)
  BY <1>2, FrameThreadAssumption DEF StillDelaying, Slots
<1>4. /\ fctx' \in [next_decoding : 0 .. N, next_finished : Slots, delaying : BOOLEAN, prev_thread : 0 .. N]
      /\ fctx'.next_decoding = Nd + 1 /\ fctx'.next_finished = nf
      /\ fctx'.prev_thread = Nd /\ fctx'.delaying = StillDelaying
  BY <1>1, <1>2, <1>3 DEF Nd
<1>5. /\ client' \in ClientContext /\ client'.call = client.call /\ client'.slots = client.slots
      /\ client'.draining = client.draining /\ client'.ret = Nothing
      /\ \/ client'.pc = "idle" /\ client'.call = "packet" /\ StillDelaying
         \/ client'.pc = "output" /\ client'.i = nf /\ (client'.call = "packet" => ~StillDelaying)
  BY <1>1, <1>2, <1>3, ClientConstants DEF ClientContext, ClientPcs
<1>6. /\ UNCHANGED <<codec, p, buffer_mutex, progress, waits, submitted, owed, yield>>
      /\ client.pc = "serve" /\ SetupOver
  BY <1>1
<1> HIDE DEF nf
<1>7. TypeOK'
  BY <1>2, <1>4, <1>5, <1>6 DEF Inv, TypeOK
<1>8. \A j \in Slots : SlotInv(j)'
  <2>1. \A j \in Slots : p[j].mutex # "client"
    BY <1>6 DEF Inv, SlotInv
  <2> QED
    BY <1>5, <1>6, <2>1 DEF Inv, SlotInv
<1>9. \A j \in Slots : YieldInv(j)'
  BY <1>5, <1>6 DEF Inv, YieldInv, Freeing
<1>10. CallInv'
  <2>1. StillDelaying => Nd + 1 < N
    BY <1>2, <1>3, FrameThreadAssumption DEF Slots
  <2> QED
    BY <1>2, <1>4, <1>5, <1>6, <2>1 DEF Inv, CallInv, Calling, Nd
<1>11. RingInv'
  <2>1. \A k \in owed : k \in Slots /\ Pos(k, nf) <= Pos(Nd, nf)
    BY <1>6 DEF Inv, TypeOK, RingInv, nf
  <2>2. fctx.delaying => nf <= Nd
    BY DEF Inv, RingInv, nf
  <2>3. StillDelaying => nf <= Nd + 1 /\ Nd + 1 # N /\ \A k \in owed : k < Nd + 1
    BY <1>2, <1>3, <2>2, FrameThreadAssumption DEF Inv, TypeOK, RingInv, Slots
  <2>4. StillDelaying => \A k \in owed : Pos(k, nf) < Pos(Nd + 1, nf)
    BY <1>2, <1>3, <2>1, <2>2, FrameThreadAssumption DEF Slots, Pos
  <2> DEFINE end == IF Nd + 1 = N THEN 0 ELSE Nd + 1
  <2>5. end # nf => \A k \in owed : Pos(k, nf) < Pos(end, nf)
    <3>1. end \in Slots
      BY <1>2, FrameThreadAssumption DEF Slots
    <3>2. end # nf => Pos(Nd, nf) < Pos(end, nf) /\ Pos(Nd, nf) \in Int /\ Pos(end, nf) \in Int
      BY <1>2, FrameThreadAssumption DEF Pos, Slots
    <3>3. \A k \in Slots : Pos(k, nf) \in Int
      BY <1>2, FrameThreadAssumption DEF Pos, Slots
    <3> HIDE DEF end
    <3> QED
      BY <2>1, <3>2, <3>3
  <2>6. \A k \in Slots : Pos(nf, nf) <= Pos(k, nf)
    BY <1>2, FrameThreadAssumption DEF Pos, Slots
  <2>7. end = IF Nd' = N THEN 0 ELSE Nd'
    BY <1>4 DEF Nd
  <2> HIDE DEF end
  <2>8. client'.pc = "output" => /\ \A k \in owed : Pos(client'.i, nf) <= Pos(k, nf)
                                 /\ \/ client'.i = end /\ nf = end
                                    \/ \A k \in owed : Pos(k, client'.i) < Pos(end, client'.i)
    BY <1>5, <2>1, <2>5, <2>6
  <2> QED
    BY <1>4, <1>5, <1>6, <2>3, <2>4, <2>7, <2>8 DEF RingInv, Nd
<1>12. OrderInv'
  <2>1. Oldest = nf /\ Oldest' = nf
    BY <1>4, <1>5, <1>6 DEF Oldest, nf
  <2> QED
    BY <1>6, <2>1 DEF Inv, OrderInv
<1>13. SetupInv'
  <2>1. codec.ask = {} => \A i \in Slots : p[i].state \notin Asking
    BY DEF Inv, SetupInv
  <2>2. ASSUME NEW i \in Slots, InSetup(i) PROVE i = Nd /\ codec.ask = {}
    BY <1>6, <2>2 DEF Inv, SetupInv, InSetup, SetupOver, Asking
  <2> QED
    BY <1>4, <1>5, <1>6, <2>1, <2>2 DEF Inv, SetupInv, InSetup, Nd
<1>14. FreeInv'
  <2>1. \A k \in Slots : ~(k >= N)
    BY FrameThreadAssumption DEF Slots
  <2> QED
    BY <1>2, <1>5, <2>1 DEF FreeInv
<1>15. EofMeansDrained'
  BY <1>5 DEF EofMeansDrained, DrainingDone, Nothing, Empty
<1> QED
  BY <1>7, <1>8, <1>9, <1>10, <1>11, <1>12, <1>13, <1>14, <1>15 DEF Inv


-----------------------------------------------------------------------------
(* Looking at the next slot of the ring *)

LEMMA NextSlotInRing ==
  ASSUME NEW i \in Slots
  PROVE  NextSlot(i) \in Slots /\ NextSlot(i) = IF i = N - 1 THEN 0 ELSE i + 1
BY SMT, FrameThreadAssumption DEF NextSlot, Slots

\* What comes before end in the ring comes before it also after a step of the
\* base, and in the same order.
LEMMA RingMoves ==
  ASSUME NEW i \in Slots, NEW end \in Slots, NEW k \in Slots, k # i,
         i = end \/ Pos(k, i) < Pos(end, i)
  PROVE  Pos(k, NextSlot(i)) < Pos(end, NextSlot(i))
<1> DEFINE n == NextSlot(i)
<1>1. n = IF i = N - 1 THEN 0 ELSE i + 1
  BY NextSlotInRing
<1> HIDE DEF n
<1> QED
  BY <1>1, FrameThreadAssumption DEF Pos, Slots, n

LEMMA RingOrder ==
  ASSUME NEW i \in Slots, NEW j \in Slots, NEW k \in Slots, j # i, k # i
  PROVE  Pos(j, NextSlot(i)) < Pos(k, NextSlot(i)) <=> Pos(j, i) < Pos(k, i)
<1> DEFINE n == NextSlot(i)
<1>1. n = IF i = N - 1 THEN 0 ELSE i + 1
  BY NextSlotInRing
<1> HIDE DEF n
<1> QED
  BY <1>1, FrameThreadAssumption DEF Pos, Slots, n

\* The last slot of the ring is the one before its first.
LEMMA RingEnds ==
  ASSUME NEW i \in Slots, NEW first \in Slots, NEW k \in Slots, k # i,
         Pos(i, first) <= Pos(k, first)
  PROVE  NextSlot(i) # first /\ Pos(NextSlot(i), first) <= Pos(k, first)
<1> DEFINE n == NextSlot(i)
<1>1. n = IF i = N - 1 THEN 0 ELSE i + 1
  BY NextSlotInRing
<1> HIDE DEF n
<1> QED
  BY <1>1, FrameThreadAssumption DEF Pos, Slots, n

\* What the slot client.i gives, and where the client goes then.
Got == IF p[client.i].frame # NoId THEN <<p[client.i].frame, "frame">>
       ELSE <<p[client.i].avpkt, p[client.i].result>>
IsEmpty == Got[2] = "ok"

LEMMA CollectFacts ==
  ASSUME Inv, CollectOutput
  PROVE  /\ client.pc = "output" /\ client.i \in Slots /\ p[client.i].state = "INPUT_READY"
         /\ client.call \in {"packet", "drain"} /\ client.ret = Nothing /\ client.slots = N
         /\ fctx.next_finished \in Slots /\ client.call # "free" /\ client.pc \notin Freeing
         /\ UNCHANGED <<codec, buffer_mutex, progress, waits, submitted>>
         /\ owed' = owed \ {client.i}
         /\ yield' = IF client.i \in owed THEN [yield EXCEPT ![p[client.i].avpkt] = "?"] ELSE yield
         /\ client.i \notin owed => IsEmpty
         /\ IsEmpty \/ (Got \in Returns /\ Got[2] \in {"frame", "error"})
<1>1. client.pc = "output" /\ client.i \in Slots
  BY DEF CollectOutput, At, Inv, TypeOK
<1>2. /\ p[client.i].state = "INPUT_READY" /\ owed' = owed \ {client.i}
      /\ yield' = IF client.i \in owed THEN [yield EXCEPT ![p[client.i].avpkt] = "?"] ELSE yield
      /\ UNCHANGED <<codec, buffer_mutex, progress, waits, submitted>>
  BY DEF CollectOutput, workerSide
<1>3. p[client.i] \in PerThreadContext /\ fctx.next_finished \in Slots
  BY <1>1 DEF Inv, TypeOK
<1>4. /\ client.call \in {"packet", "drain"} /\ client.ret = Nothing /\ client.slots = N
      /\ client.call # "free" /\ client.pc \notin Freeing
  BY <1>1 DEF Inv, CallInv, FreeInv, Calling, Freeing
<1>5. client.i \notin owed => IsEmpty
  BY <1>1 DEF Inv, SlotInv, IsEmpty, Got
<1>6. IsEmpty \/ (Got \in Returns /\ Got[2] \in {"frame", "error"})
  BY <1>3 DEF PerThreadContext, Returns, IsEmpty, Got
<1> QED
  BY <1>1, <1>2, <1>3, <1>4, <1>5, <1>6

LEMMA CollectOutputInv == ASSUME Inv, CollectOutput PROVE Inv'
<1> DEFINE i == client.i
           n == NextSlot(client.i)
           nf == fctx.next_finished
           end == IF Nd = N THEN 0 ELSE Nd
           more == client.call = "drain" /\ IsEmpty /\ n # nf
<1>1. /\ client.pc = "output" /\ i \in Slots /\ p[i].state = "INPUT_READY"
      /\ client.call \in {"packet", "drain"} /\ client.ret = Nothing /\ client.slots = N
      /\ nf \in Slots /\ client.call # "free" /\ client.pc \notin Freeing
      /\ UNCHANGED <<codec, buffer_mutex, progress, waits, submitted>>
      /\ owed' = owed \ {i}
      /\ yield' = IF i \in owed THEN [yield EXCEPT ![p[i].avpkt] = "?"] ELSE yield
      /\ i \notin owed => IsEmpty
      /\ IsEmpty \/ (Got \in Returns /\ Got[2] \in {"frame", "error"})
  BY CollectFacts
<1>2. n \in Slots /\ end \in Slots /\ (Nd = N => end = 0) /\ (Nd # N => end = Nd)
  <2>1. Nd \in 0 .. N /\ N \in Nat \ {0}
    BY FrameThreadAssumption DEF Inv, TypeOK, Nd
  <2>2. end \in Slots /\ (Nd = N => end = 0) /\ (Nd # N => end = Nd)
    <3> HIDE DEF Nd
    <3> QED
      BY <2>1 DEF Slots
  <2>3. n \in Slots
    BY <1>1, NextSlotInRing
  <2> QED
    BY <2>2, <2>3
<1>3. /\ p' \in [Slots -> PerThreadContext] /\ \A j \in Slots : j # i => p'[j] = p[j]
      /\ p'[i].frame = NoId /\ p'[i].result = "ok"
      /\ p'[i].thread = p[i].thread /\ p'[i].mutex = p[i].mutex /\ p'[i].state = p[i].state
      /\ p'[i].avpkt = p[i].avpkt /\ p'[i].ref = p[i].ref /\ p'[i].released = p[i].released
  <2> DEFINE q == [p[i] EXCEPT !.frame = NoId, !.result = "ok"]
  <2>1. p \in [Slots -> PerThreadContext] /\ p[i] \in PerThreadContext
    BY <1>1 DEF Inv, TypeOK
  <2>2. p' = [p EXCEPT ![i] = q]
    BY <1>1, <2>1 DEF CollectOutput, Taken
  <2>3. q \in PerThreadContext
    <3>1. NoId \in 0 .. MaxIds
      BY FrameThreadAssumption DEF NoId
    <3> HIDE DEF i
    <3> QED
      BY <2>1, <3>1 DEF PerThreadContext
  <2>4. p'[i] = q /\ p' \in [Slots -> PerThreadContext] /\ \A j \in Slots : j # i => p'[j] = p[j]
    <3> HIDE DEF q, i
    <3> QED
      BY <1>1, <2>1, <2>2, <2>3
  <2> QED
    BY <2>1, <2>4 DEF PerThreadContext
<1>4. /\ IF more THEN client' = [client EXCEPT !.pc = "output", !.i = n] /\ fctx' = fctx
                 ELSE /\ client' = [client EXCEPT !.pc = "idle", !.ret = IF IsEmpty THEN Empty ELSE Got]
                      /\ fctx' = [fctx EXCEPT !.next_finished = n, !.next_decoding = IF @ >= N THEN 0 ELSE @]
  BY DEF CollectOutput, KeepLooking, GotoSlot, Return, IsEmpty, Got
<1>5. /\ client' \in ClientContext /\ client'.call = client.call /\ client'.slots = N
      /\ client'.draining = client.draining
      /\ more => client'.pc = "output" /\ client'.i = n /\ client'.ret = Nothing
      /\ ~more => client'.pc = "idle" /\ client'.ret = IF IsEmpty THEN Empty ELSE Got
  <2>1. client \in ClientContext /\ n \in 0 .. N
    BY <1>2, FrameThreadAssumption DEF Inv, TypeOK, Slots
  <2>2. Empty \in Returns /\ (~IsEmpty => Got \in Returns)
    BY <1>1, ClientConstants
  <2> HIDE DEF n, more
  <2>3. CASE more
    BY <1>1, <1>4, <2>1, <2>3 DEF ClientContext, ClientPcs
  <2>4. CASE ~more
    <3> DEFINE r == IF IsEmpty THEN Empty ELSE Got
    <3>1. r \in Returns
      BY <2>2
    <3>2. client' = [client EXCEPT !.pc = "idle", !.ret = r]
      BY <1>4, <2>4
    <3> HIDE DEF r
    <3>3. /\ client' \in ClientContext /\ client'.call = client.call /\ client'.slots = client.slots
          /\ client'.draining = client.draining /\ client'.pc = "idle" /\ client'.ret = r
      BY <2>1, <3>1, <3>2 DEF ClientContext, ClientPcs
    <3> QED
      BY <1>1, <2>4, <3>3 DEF r
  <2> QED
    BY <2>3, <2>4
<1>6. /\ fctx' \in [next_decoding : 0 .. N, next_finished : Slots, delaying : BOOLEAN, prev_thread : 0 .. N]
      /\ fctx'.delaying = fctx.delaying /\ fctx'.prev_thread = fctx.prev_thread
      /\ more => fctx' = fctx
      /\ ~more => fctx'.next_finished = n /\ fctx'.next_decoding = end
  <2>1. /\ fctx \in [next_decoding : 0 .. N, next_finished : Slots, delaying : BOOLEAN, prev_thread : 0 .. N]
        /\ (IF Nd >= N THEN 0 ELSE Nd) = end /\ end \in 0 .. N
    BY <1>2, FrameThreadAssumption DEF Inv, TypeOK, Nd, Slots
  <2> HIDE DEF n, more, end
  <2> QED
    BY <1>2, <1>4, <2>1 DEF Nd
<1> HIDE DEF n, nf, end, more
<1>7. TypeOK'
  BY <1>1, <1>2, <1>3, <1>5, <1>6 DEF Inv, TypeOK
<1>8. \A j \in Slots : SlotInv(j)'
  <2>1. client'.pc \notin {"release", "prev"} /\ client.pc \notin {"release", "prev"}
    BY <1>1, <1>5
  <2>2. ASSUME NEW j \in Slots, j = i PROVE SlotInv(j)'
    <3>1. waits'[j] = waits[j] /\ SlotInv(j) /\ j \notin owed'
      BY <1>1, <2>2 DEF Inv
    <3>2. /\ p'[j].frame = NoId /\ p'[j].result = "ok"
          /\ p'[j].thread = p[j].thread /\ p'[j].mutex = p[j].mutex /\ p'[j].state = "INPUT_READY"
          /\ p[j].state = "INPUT_READY" /\ p'[j].ref = p[j].ref
      BY <1>1, <1>3, <2>2
    <3> QED
      BY <2>1, <3>1, <3>2 DEF SlotInv
  <2>3. ASSUME NEW j \in Slots, j # i PROVE SlotInv(j)'
    <3>1. /\ waits'[j] = waits[j] /\ SlotInv(j) /\ (j \in owed' <=> j \in owed) /\ submitted' = submitted
          /\ p'[j] = p[j]
      BY <1>1, <1>3, <2>3 DEF Inv
    <3> QED
      BY <2>1, <3>1 DEF SlotInv
  <2> QED
    BY <2>2, <2>3
<1>9. \A j \in Slots : YieldInv(j)'
  <2>1. ASSUME NEW j \in Slots, j \in owed' PROVE YieldInv(j)'
    <3>1. j # i /\ j \in owed /\ p'[j] = p[j] /\ YieldInv(j)
      BY <1>1, <1>3, <2>1 DEF Inv
    <3>2. yield'[p[j].avpkt] = yield[p[j].avpkt]
      <4>1. p[j].avpkt \in Ids /\ yield \in [Ids -> {"?", "frame", "none", "error"}]
        BY <3>1, FrameThreadAssumption DEF Inv, TypeOK, SlotInv, Ids
      <4>2. i \in owed => p[i].avpkt # p[j].avpkt
        BY <3>1, DifferentPackets
      <4> QED
        BY <1>1, <4>1, <4>2
    <3> QED
      BY <1>1, <3>1, <3>2 DEF YieldInv
  <2> QED
    BY <2>1 DEF YieldInv
<1>10. CallInv'
  <2>1. \A id \in Ids : id > submitted => yield'[id] = "?"
    BY <1>1 DEF Inv, TypeOK, CallInv
  <2>2. end < N
    BY <1>2, FrameThreadAssumption DEF Slots
  <2>3. ~more => fctx'.next_decoding < N
    BY <1>6, <2>2
  <2>4. client.draining => client.call = "drain"
    BY <1>1 DEF Inv, CallInv
  <2>5. more => client.call = "drain"
    BY DEF more
  <2> QED
    BY <1>1, <1>5, <1>6, <2>1, <2>3, <2>4, <2>5 DEF Inv, CallInv, Calling, Nd
<1>11. /\ \A k \in owed \ {i} : k \in Slots /\ n # nf /\ Pos(n, nf) <= Pos(k, nf)
       /\ \A k \in owed \ {i} : Pos(k, n) < Pos(end, n)
  <2>1. ASSUME NEW k \in owed, k # i
        PROVE  k \in Slots /\ n # nf /\ Pos(n, nf) <= Pos(k, nf) /\ Pos(k, n) < Pos(end, n)
    <3>1. k \in Slots /\ Pos(i, nf) <= Pos(k, nf) /\ (i = end \/ Pos(k, i) < Pos(end, i))
      BY <1>1 DEF Inv, TypeOK, RingInv, nf, end
    <3>2. n # nf /\ Pos(n, nf) <= Pos(k, nf)
      BY <1>1, <2>1, <3>1, RingEnds DEF n
    <3>3. Pos(k, n) < Pos(end, n)
      BY <1>1, <1>2, <2>1, <3>1, RingMoves DEF n
    <3> QED
      BY <3>1, <3>2, <3>3
  <2> QED
    BY <2>1
<1>12. RingInv'
  <2>1. fctx.delaying => nf <= Nd /\ \A k \in owed : k < Nd
    BY <1>1 DEF Inv, RingInv, nf
  <2>2. fctx.delaying => Nd < N /\ end = Nd
    BY <1>2, FrameThreadAssumption DEF Inv, CallInv
  <2>3. fctx.delaying /\ ~more => n <= end
    <3>1. CASE i \in owed /\ fctx.delaying
      <4>1. n = IF i = N - 1 THEN 0 ELSE i + 1
        BY <1>1, NextSlotInRing DEF n
      <4>2. i < Nd /\ Nd < N /\ end = Nd
        BY <2>1, <2>2, <3>1
      <4>3. i \in 0 .. N - 1 /\ Nd \in 0 .. N
        BY <1>1 DEF Slots, Inv, TypeOK, Nd
      <4> HIDE DEF i, Nd
      <4> QED
        BY <4>1, <4>2, <4>3, FrameThreadAssumption
    <3>2. CASE i \notin owed /\ fctx.delaying
      <4>1. client.call = "drain" /\ IsEmpty
        BY <1>1, <3>2 DEF Inv, CallInv
      <4> QED
        BY <2>1, <2>2, <4>1 DEF more
    <3> QED
      BY <3>1, <3>2
  <2>4. CASE more
    <3>1. /\ fctx' = fctx /\ client'.pc = "output" /\ client'.i = n /\ owed' = owed \ {i}
      BY <1>1, <1>5, <1>6, <2>4
    <3> QED
      BY <1>11, <2>1, <3>1 DEF RingInv, Nd, nf, end
  <2>5. CASE ~more
    <3>1. /\ fctx'.delaying = fctx.delaying /\ fctx'.next_finished = n /\ fctx'.next_decoding = end
          /\ client'.pc = "idle" /\ owed' = owed \ {i}
      BY <1>1, <1>5, <1>6, <2>5
    <3> QED
      BY <1>11, <2>1, <2>2, <2>3, <2>5, <3>1 DEF RingInv, Nd
  <2> QED
    BY <2>4, <2>5
<1>13. OrderInv'
  <2>1. Oldest = i /\ Oldest' = n
    BY <1>1, <1>5, <1>6 DEF Oldest
  <2>2. ASSUME NEW j \in owed', NEW k \in owed', Pos(j, n) < Pos(k, n) PROVE p'[j].avpkt < p'[k].avpkt
    <3>1. j \in Slots /\ k \in Slots /\ j \in owed /\ k \in owed /\ j # i /\ k # i
      BY <1>1 DEF Inv, TypeOK
    <3>2. Pos(j, i) < Pos(k, i)
      BY <1>1, <2>2, <3>1, RingOrder DEF n
    <3> QED
      BY <1>3, <2>1, <3>1, <3>2 DEF Inv, OrderInv
  <2> QED
    BY <2>1, <2>2 DEF OrderInv
<1>14. SetupInv'
  <2>1. \A j \in Slots : p'[j].state = p[j].state /\ p'[j].thread = p[j].thread
    BY <1>3
  <2>2. buffer_mutex # NoSlot => buffer_mutex \in Slots
    BY FrameThreadAssumption DEF Inv, TypeOK, NoSlot, Slots
  <2> QED
    BY <1>1, <1>5, <1>6, <2>1, <2>2 DEF Inv, SetupInv, InSetup
<1>15. FreeInv'
  <2>1. \A k \in Slots : ~(k >= N)
    BY FrameThreadAssumption DEF Slots
  <2> QED
    BY <1>1, <1>5, <2>1 DEF FreeInv
<1>16. EofMeansDrained'
  <2>1. ASSUME client'.pc = "idle", client'.draining, client'.ret = Empty PROVE owed' = {}
    <3>1. IsEmpty /\ ~more
      BY <1>1, <1>5, <2>1 DEF Empty
    <3>2. client.call = "drain"
      BY <1>1, <1>5, <2>1 DEF Inv, CallInv
    <3>3. n = nf
      BY <3>1, <3>2 DEF more
    <3> QED
      BY <1>1, <1>11, <3>3
  <2> QED
    BY <2>1 DEF EofMeansDrained, DrainingDone
<1> QED
  BY <1>7, <1>8, <1>9, <1>10, <1>12, <1>13, <1>14, <1>15, <1>16 DEF Inv

LEMMA FlushSlotsInv == ASSUME Inv, FlushSlots PROVE Inv'
<1>1. /\ client.pc = "park" /\ client.call = "flush" /\ client.i = N
      /\ UNCHANGED <<codec, buffer_mutex, progress, waits, submitted>>
      /\ owed' = {} /\ yield' = [id \in Ids |-> "?"]
      /\ client' = [client EXCEPT !.pc = "idle", !.draining = FALSE]
      /\ fctx' = FreshFctx
  BY DEF FlushSlots, At, workerSide, Inv, FreeInv
<1>2. PICK again \in {0, 1} : p' = [i \in Slots |-> [p[i] EXCEPT !.frame = NoId, !.result = "ok", !.released = again]]
  BY DEF FlushSlots
<1>3. /\ p' \in [Slots -> PerThreadContext]
      /\ \A j \in Slots : /\ p'[j].frame = NoId /\ p'[j].result = "ok" /\ p'[j].thread = p[j].thread
                          /\ p'[j].mutex = p[j].mutex /\ p'[j].state = p[j].state
                          /\ p'[j].ref = p[j].ref
  <2>1. ASSUME NEW j \in Slots
        PROVE  /\ p'[j] \in PerThreadContext
               /\ p'[j].frame = NoId /\ p'[j].result = "ok" /\ p'[j].thread = p[j].thread
               /\ p'[j].mutex = p[j].mutex /\ p'[j].state = p[j].state /\ p'[j].ref = p[j].ref
    <3>1. p[j] \in PerThreadContext /\ p'[j] = [p[j] EXCEPT !.frame = NoId, !.result = "ok", !.released = again]
      BY <1>2 DEF Inv, TypeOK
    <3>2. NoId \in 0 .. MaxIds /\ again \in 0 .. 1
      BY FrameThreadAssumption DEF NoId
    <3> QED
      BY <3>1, <3>2 DEF PerThreadContext
  <2>2. p' = [j \in Slots |-> p'[j]]
    BY <1>2
  <2> QED
    BY <2>1, <2>2
<1>4. \A j \in Slots : p[j].state = "INPUT_READY"
  BY <1>1, FrameThreadAssumption DEF Inv, FreeInv, Slots
<1>5. /\ client' \in ClientContext /\ client'.pc = "idle" /\ client'.call = "flush" /\ client'.slots = N
      /\ ~client'.draining
  BY <1>1 DEF Inv, TypeOK, FreeInv, ClientContext, ClientPcs
<1>6. /\ fctx' \in [next_decoding : 0 .. N, next_finished : Slots, delaying : BOOLEAN, prev_thread : 0 .. N]
      /\ fctx'.next_decoding = 0 /\ fctx'.next_finished = 0
  BY <1>1, FrameThreadAssumption DEF FreshFctx, Slots, NoSlot
<1>7. TypeOK'
  BY <1>1, <1>3, <1>5, <1>6 DEF Inv, TypeOK
<1>8. \A j \in Slots : SlotInv(j)'
  <2>1. ASSUME NEW j \in Slots PROVE SlotInv(j)'
    <3>1. SlotInv(j) /\ p[j].mutex # "client"
      BY <1>1 DEF Inv, SlotInv
    <3>2. client'.pc \notin {"release", "prev"} /\ waits' = waits /\ owed' = {}
      BY <1>1, <1>5
    <3> QED
      BY <1>3, <1>4, <3>1, <3>2 DEF SlotInv
  <2> QED
    BY <2>1
<1>9. \A j \in Slots : YieldInv(j)'
  BY <1>1 DEF YieldInv
<1>10. CallInv'
  BY <1>1, <1>5, <1>6, FrameThreadAssumption DEF CallInv, Calling, Nd
<1>11. RingInv' /\ OrderInv'
  BY <1>1, <1>5, <1>6 DEF RingInv, OrderInv, Nd
<1>12. SetupInv'
  <2>1. \A j \in Slots : p'[j].state = "INPUT_READY" /\ p'[j].thread = p[j].thread
    BY <1>3, <1>4
  <2>2. buffer_mutex # NoSlot => buffer_mutex \in Slots
    BY FrameThreadAssumption DEF Inv, TypeOK, NoSlot, Slots
  <2> QED
    BY <1>1, <2>1, <2>2 DEF Inv, SetupInv, InSetup, Asking
<1>13. FreeInv'
  <2>1. \A k \in Slots : ~(k >= N)
    BY FrameThreadAssumption DEF Slots
  <2> QED
    BY <1>5, <2>1 DEF FreeInv
<1>14. EofMeansDrained'
  BY <1>1 DEF EofMeansDrained
<1> QED
  BY <1>7, <1>8, <1>9, <1>10, <1>11, <1>12, <1>13, <1>14 DEF Inv


-----------------------------------------------------------------------------
(* The invariant *)

LEMMA InitInv == Init => Inv
<1> SUFFICES ASSUME Init PROVE Inv
  OBVIOUS
<1>1. /\ codec \in Codecs /\ fctx = FreshFctx /\ p = [i \in Slots |-> FreshSlot]
      /\ buffer_mutex = NoSlot /\ progress = {} /\ waits = [t \in 0 .. N |-> Awake]
      /\ client = [pc |-> "init", call |-> "init", i |-> 0, slots |-> N,
                   draining |-> FALSE, ret |-> Nothing]
      /\ submitted = 0 /\ owed = {} /\ yield = [id \in Ids |-> "?"]
  BY DEF Init
<1>2. FreshSlot \in PerThreadContext
  BY FrameThreadAssumption DEF FreshSlot, PerThreadContext, States, NoRef, NoId, NoSlot
<1>3. client \in ClientContext
  BY <1>1, ClientConstants, FrameThreadAssumption DEF ClientContext, ClientPcs, Calls
<1>4. fctx \in [next_decoding : 0 .. N, next_finished : Slots, delaying : BOOLEAN, prev_thread : 0 .. N]
  BY <1>1, FrameThreadAssumption DEF FreshFctx, Slots, NoSlot
<1>5. \A i \in Slots : p[i] = FreshSlot /\ p[i].state = "INPUT_READY" /\ p[i].thread = "none"
                       /\ p[i].mutex = "free" /\ waits[i] = Awake
  BY <1>1, FrameThreadAssumption DEF FreshSlot, Slots
<1>6. TypeOK
  BY <1>1, <1>2, <1>3, <1>4, FrameThreadAssumption DEF TypeOK, Places, NoSlot
<1>7. \A i \in Slots : SlotInv(i) /\ YieldInv(i)
  BY <1>1, <1>5 DEF SlotInv, YieldInv, Decoding, FreshSlot
<1>8. CallInv /\ RingInv /\ OrderInv
  BY <1>1, FrameThreadAssumption DEF CallInv, RingInv, OrderInv, Calling, Nd, FreshFctx
<1>9. SetupInv /\ EofMeansDrained
  BY <1>1, <1>5 DEF SetupInv, InSetup, Asking, EofMeansDrained
<1>10. FreeInv
  BY <1>1, <1>5, FrameThreadAssumption DEF FreeInv, Unused, FreshSlot, Freeing, Slots
<1> QED
  BY <1>6, <1>7, <1>8, <1>9, <1>10 DEF Inv

LEMMA StutterInv == ASSUME Inv, UNCHANGED vars PROVE Inv'
<1>1. UNCHANGED <<codec, fctx, p, buffer_mutex, progress, waits, client, submitted, owed, yield>>
  BY DEF vars
<1>2. TypeOK' /\ CallInv' /\ RingInv' /\ OrderInv'
  BY <1>1 DEF Inv, TypeOK, CallInv, RingInv, OrderInv, Oldest, Nd
<1>3. \A i \in Slots : SlotInv(i)' /\ YieldInv(i)'
  BY <1>1 DEF Inv, SlotInv, YieldInv, Nd
<1>4. SetupInv' /\ EofMeansDrained'
  BY <1>1 DEF Inv, SetupInv, InSetup, Nd, EofMeansDrained, DrainingDone
<1>5. FreeInv'
  BY <1>1 DEF Inv, FreeInv, Unused, Gone
<1> QED
  BY <1>2, <1>3, <1>4, <1>5 DEF Inv

LEMMA InCallInv == ASSUME Inv, InCall PROVE Inv'
<1>1. CASE InitSlot
  BY <1>1, CreateThreadInv, InitFailsInv
<1>2. CASE SubmitLock \/ UserUpdateFails \/ ReleaseDelayed \/ AwaitPrevSetup \/ SubmitPacket \/ SubmitFails
  BY <1>2, SubmitLockInv, UserUpdateFailsInv, ReleaseDelayedInv, AwaitPrevSetupInv, SubmitPacketInv, SubmitFailsInv
<1>3. CASE ServeWait \/ ServeCallback \/ Submitted
  BY <1>3, ServeWaitInv, ServeCallbackInv, SubmittedInv
<1>4. CASE AwaitOutput("output") \/ CollectOutput \/ AwaitOutput("park")
  BY <1>4, AwaitOutputInv, CollectOutputInv
<1>5. CASE Park \/ FlushSlots \/ StartFree \/ Die \/ Join
  BY <1>5, ParkInv, FlushSlotsInv, StartFreeInv, DieInv, JoinInv
<1> QED
  BY <1>1, <1>2, <1>3, <1>4, <1>5 DEF InCall

LEMMA NextInv == Inv /\ [Next]_vars => Inv'
<1> SUFFICES ASSUME Inv, [Next]_vars PROVE Inv'
  OBVIOUS
<1>1. CASE DecodePacket \/ DrainPackets \/ Flush \/ Free
  BY <1>1, DecodePacketInv, DrainInv, FlushInv, FreeInvariant
<1>2. CASE InCall
  BY <1>2, InCallInv
<1>3. CASE \E i \in Slots : Worker(i)
  BY <1>3, WorkerInv
<1>4. CASE Freed \/ UNCHANGED vars
  BY <1>4, StutterInv DEF Freed
<1> QED
  BY <1>1, <1>2, <1>3, <1>4 DEF Next


-----------------------------------------------------------------------------
(* What the invariant gives *)

\* A frame-threaded decoder has always the state its declarations promise.
THEOREM TypeCorrect == Spec => []TypeOK
<1>1. Inv => TypeOK
  BY DEF Inv
<1> QED
  BY <1>1, InitInv, NextInv, PTL DEF Spec

\* However many threads there are and whatever the codec asks of the client,
\* no two of them are ever in their setup.
THEOREM SetupsExclude == Spec => []OneSetupAtATime
<1>1. Inv => OneSetupAtATime
  BY DEF Inv, SetupInv, OneSetupAtATime
<1> QED
  BY <1>1, InitInv, NextInv, PTL DEF Spec

\* The end of the stream is reported only when every packet was answered.
THEOREM EofIsDrained == Spec => []EofMeansDrained
<1>1. Inv => EofMeansDrained
  BY DEF Inv
<1> QED
  BY <1>1, InitInv, NextInv, PTL DEF Spec

\* Between calls at most thread_count - 1 packets are unanswered: the slot that
\* is used next owes nothing.
THEOREM DelayIsBounded == Spec => []DelayBound
<1>1. ASSUME Inv, client.pc = "idle" PROVE Cardinality(owed) <= N - 1
  <2>1. Nd \in Slots /\ owed \subseteq Slots /\ fctx.next_finished \in Slots
    BY <1>1, FrameThreadAssumption DEF Inv, TypeOK, CallInv, Nd, Slots
  <2>2. Nd \notin owed
    <3>1. Pos(Nd, fctx.next_finished) \in Int
      BY <2>1, FrameThreadAssumption DEF Pos, Slots
    <3> QED
      BY <1>1, <3>1 DEF Inv, RingInv
  <2>3. IsFiniteSet(Slots) /\ Cardinality(Slots) = N
    BY FS_Interval, FrameThreadAssumption DEF Slots
  <2>4. IsFiniteSet(Slots \ {Nd}) /\ Cardinality(Slots \ {Nd}) = N - 1
    BY <2>1, <2>3, FS_RemoveElement
  <2> QED
    BY <2>1, <2>2, <2>4, FS_Subset
<1>2. Inv => DelayBound
  BY <1>1 DEF DelayBound
<1> QED
  BY <1>2, InitInv, NextInv, PTL DEF Spec

\* Freeing leaves no thread, no lock, no sleeper and no delayed buffer behind,
\* also when it follows an initialization that failed half way.
THEOREM FreeingIsComplete == Spec => []FreedCompletely
<1>1. ASSUME Inv, client.pc = "freed"
      PROVE  /\ \A i \in Slots : p[i].thread \in {"none", "exited"} /\ p[i].released = 0
             /\ buffer_mutex = NoSlot
             /\ \A t \in 0 .. N : waits[t] = Awake
  <2>1. /\ \A i \in Slots : p[i].thread \in {"none", "exited"} /\ p[i].released = 0
        /\ waits[Client] = Awake
    BY <1>1 DEF Inv, FreeInv, Gone
  <2>2. buffer_mutex = NoSlot
    <3>1. buffer_mutex # NoSlot => buffer_mutex \in Slots
      BY <1>1, FrameThreadAssumption DEF Inv, TypeOK, NoSlot, Slots
    <3>2. buffer_mutex # NoSlot => p[buffer_mutex].thread = "answer"
      BY <1>1 DEF Inv, SetupInv
    <3> QED
      BY <2>1, <3>1, <3>2
  <2>3. \A t \in 0 .. N : t \in Slots \/ t = Client
    BY FrameThreadAssumption DEF Slots, Client
  <2>4. \A i \in Slots : waits[i] = Awake
    BY <1>1, <2>1 DEF Inv, SlotInv
  <2> QED
    BY <2>1, <2>2, <2>3, <2>4
<1>2. Inv => FreedCompletely
  BY <1>1 DEF FreedCompletely
<1> QED
  BY <1>2, InitInv, NextInv, PTL DEF Spec

-----------------------------------------------------------------------------
(* The order of the packets: what each step does to FrameOrder *)

Pending == {p[i].avpkt : i \in owed}
Returned == IF client.ret[1] = NoId THEN Nothing ELSE client.ret

OrderStep == Order!Next \/ UNCHANGED Order!vars

\* Only the client answers or submits: what it got stays or is looked at.
QuietStep ==
  /\ UNCHANGED <<submitted, owed, yield>>
  /\ \A i \in Slots : p'[i].avpkt = p[i].avpkt
  /\ client'.ret = client.ret \/ client'.ret[1] = NoId

LEMMA QuietStepRefines ==
  ASSUME Inv, QuietStep
  PROVE  OrderStep
<1>1. Pending' = Pending
  BY DEF QuietStep, Pending, Inv, TypeOK
<1>2. Returned' = Returned \/ Returned' = Nothing
  BY DEF QuietStep, Returned
<1>3. submitted' = submitted /\ yield' = yield
  BY DEF QuietStep
<1> QED
  BY <1>1, <1>2, <1>3 DEF OrderStep, Order!Next, Order!Call, Order!vars, Order!Nothing,
                          Pending, Returned, Nothing, NoId

LEMMA ClientType ==
  ASSUME Inv
  PROVE  /\ p \in [Slots -> PerThreadContext] /\ client \in ClientContext
         /\ Nothing[1] = NoId /\ NotSubmitted[1] = NoId /\ Empty[1] = NoId
BY DEF Inv, TypeOK, Nothing, NotSubmitted, Empty

LEMMA SameSlotsQuiet ==
  ASSUME Inv, UNCHANGED <<p, history>>, client'.ret = client.ret \/ client'.ret[1] = NoId
  PROVE  QuietStep
BY DEF QuietStep, history

LEMMA StartsAreQuiet ==
  ASSUME Inv, DecodePacket \/ DrainPackets \/ Flush \/ Free \/ UserUpdateFails \/ StartFree
  PROVE  QuietStep
<1>1. UNCHANGED <<p, history>> /\ client \in ClientContext
  BY ClientType DEF DecodePacket, DrainPackets, Flush, Free, UserUpdateFails, StartFree
<1>2. client'.ret = client.ret \/ client'.ret[1] = NoId
  BY <1>1, ClientType DEF DecodePacket, DrainPackets, Flush, Free, UserUpdateFails, StartFree,
     Begin, Return, GotoSlot, ClientContext
<1> QED
  BY <1>1, <1>2, SameSlotsQuiet

LEMMA WaitsAreQuiet ==
  ASSUME Inv, AwaitPrevSetup \/ ServeWait \/ AwaitOutput("output") \/ AwaitOutput("park") \/ Submitted
  PROVE  QuietStep
<1>1. UNCHANGED <<p, history>> /\ client \in ClientContext
  BY ClientType DEF AwaitPrevSetup, ServeWait, AwaitOutput, Submitted
<1>2. client'.ret = client.ret \/ client'.ret[1] = NoId
  BY <1>1, ClientType DEF AwaitPrevSetup, ServeWait, AwaitOutput, Submitted,
     Return, GotoSlot, ClientContext
<1> QED
  BY <1>1, <1>2, SameSlotsQuiet

LEMMA SlotChangesAreQuiet ==
  ASSUME Inv, InitSlot \/ SubmitLock \/ ReleaseDelayed \/ SubmitFails \/ ServeCallback
              \/ Park \/ Die \/ Join
  PROVE  QuietStep
<1>1. p \in [Slots -> PerThreadContext] /\ client \in ClientContext
  BY ClientType
<1>2. UNCHANGED <<submitted, owed, yield>>
  BY DEF InitSlot, SubmitLock, ReleaseDelayed, SubmitFails, ServeCallback, Park, Die, Join, history
<1>3. client'.ret = client.ret \/ client'.ret[1] = NoId
  BY <1>1, ClientType DEF InitSlot, SubmitLock, ReleaseDelayed, SubmitFails, ServeCallback,
     Park, Die, Join, Return, Goto, GotoSlot, ClientContext
<1>4. \A i \in Slots : p'[i].avpkt = p[i].avpkt
  BY <1>1 DEF InitSlot, SubmitLock, ReleaseDelayed, SubmitFails, ServeCallback,
     Park, Die, Join, Closed, PerThreadContext
<1> QED
  BY <1>2, <1>3, <1>4 DEF QuietStep


\* Decoding tells what becomes of a packet in flight, and nothing else a
\* worker does shows.
LEMMA WorkerRefines ==
  ASSUME Inv, NEW i \in Slots, Worker(i)
  PROVE  OrderStep
<1> DEFINE r == p[i]
           q == p'[i]
<1>1. SlotStep(i, r, q) /\ YieldStep(i, r, q) /\ UNCHANGED <<client, submitted, owed>>
  BY WorkerSteps DEF WorkerStep, clientSide
<1>2. p \in [Slots -> PerThreadContext] /\ q.avpkt = r.avpkt /\ p' = [p EXCEPT ![i] = q]
  BY <1>1, ClientType DEF SlotStep, LocalStep
<1>3. \A j \in Slots : p'[j].avpkt = p[j].avpkt
  BY <1>2
<1>4. Pending' = Pending /\ Returned' = Returned
  BY <1>1, <1>3 DEF Pending, Returned, Inv, TypeOK
<1>5. CASE yield' = yield
  BY <1>1, <1>4, <1>5 DEF OrderStep, Order!vars, Pending, Returned
<1>6. CASE r.thread = "decode" /\ yield' = [yield EXCEPT ![r.avpkt] = YieldOf(q)]
  <2>1. i \in owed /\ r.avpkt \in Ids /\ r.state # "INPUT_READY"
    BY <1>6, DecodingFacts DEF Decoding
  <2>2. yield[r.avpkt] = "?" /\ r.avpkt \in Pending
    BY <1>6, <2>1 DEF Inv, YieldInv, Pending
  <2>3. YieldOf(q) \in Order!Outcomes
    BY DEF YieldOf, Order!Outcomes
  <2> HIDE DEF r, q
  <2>4. Order!Decode(r.avpkt)
    BY <1>1, <1>4, <1>6, <2>2, <2>3 DEF Order!Decode, Pending, Returned
  <2> QED
    BY <2>1, <2>4 DEF OrderStep, Order!Next
<1> QED
  BY <1>1, <1>5, <1>6 DEF YieldStep

LEMMA SubmitPacketRefines ==
  ASSUME Inv, SubmitPacket
  PROVE  OrderStep
<1>1. /\ submitted' = submitted + 1 /\ owed' = owed \cup {Nd}
      /\ client'.ret = client.ret /\ UNCHANGED yield /\ client.pc = "prev"
  BY ClientType DEF SubmitPacket, At, Goto, ClientContext
<1>2. Nd \in Slots /\ Nd \notin owed /\ submitted + 1 \in Ids /\ owed \subseteq Slots
  BY <1>1, NextSlotIsFree DEF Inv, TypeOK
<1>3. /\ p'[Nd].avpkt = submitted + 1
      /\ \A j \in Slots : j # Nd => p'[j].avpkt = p[j].avpkt
  BY <1>2, ClientType DEF SubmitPacket, PerThreadContext
<1>4. Pending' = Pending \cup {submitted + 1}
  BY <1>1, <1>2, <1>3 DEF Pending
<1>5. Returned' = Returned
  BY <1>1 DEF Returned
<1> QED
  BY <1>1, <1>2, <1>4, <1>5 DEF OrderStep, Order!Next, Order!Submit, Pending, Returned

\* The slot client.i, if it owes an answer, owes the oldest packet.
LEMMA OldestIsAnswered ==
  ASSUME Inv, client.pc = "output", client.i \in owed
  PROVE  \A k \in owed : p[client.i].avpkt <= p[k].avpkt
<1>1. client.i \in 0 .. N - 1 /\ Oldest = client.i
  BY DEF Inv, TypeOK, Oldest, Slots
<1>2. ASSUME NEW k \in owed, k # client.i PROVE p[client.i].avpkt < p[k].avpkt
  <2>1. k \in 0 .. N - 1
    BY DEF Inv, TypeOK, Slots
  <2>2. Pos(client.i, client.i) < Pos(k, client.i)
    BY <1>1, <1>2, <2>1, FrameThreadAssumption DEF Pos
  <2> QED
    BY <1>1, <2>2 DEF Inv, OrderInv
<1>3. \A k \in owed : p[k].avpkt \in Int
  BY DEF Inv, TypeOK, SlotInv
<1> QED
  BY <1>2, <1>3

LEMMA CollectOutputRefines ==
  ASSUME Inv, CollectOutput
  PROVE  OrderStep
<1> DEFINE i == client.i
           id == p[client.i].avpkt
<1>1. /\ client.pc = "output" /\ i \in Slots /\ p[i].state = "INPUT_READY"
      /\ client.ret = Nothing /\ client.pc \notin Freeing /\ submitted' = submitted
      /\ owed' = owed \ {i} /\ owed \subseteq Slots
      /\ yield' = IF i \in owed THEN [yield EXCEPT ![id] = "?"] ELSE yield
      /\ i \notin owed => IsEmpty
      /\ p \in [Slots -> PerThreadContext] /\ client \in ClientContext
  BY CollectFacts, ClientType DEF Inv, TypeOK
<1>2. \A j \in Slots : p'[j].avpkt = p[j].avpkt
  BY <1>1 DEF CollectOutput, Taken, PerThreadContext
<1>3. client'.ret = IF IsEmpty THEN client'.ret ELSE Got
  BY <1>1 DEF CollectOutput, KeepLooking, Return, IsEmpty, Got, ClientContext
<1>4. IsEmpty => client'.ret[1] = NoId
  BY <1>1, ClientType DEF CollectOutput, KeepLooking, Return, GotoSlot, IsEmpty, Got, ClientContext
<1>5. Returned = Nothing /\ (IsEmpty => Returned' = Nothing)
  BY <1>1, <1>4, ClientType DEF Returned
<1>6. CASE i \notin owed
  <2>1. owed' = owed
    BY <1>1, <1>6
  <2>2. Pending' = Pending
    BY <1>1, <1>2, <2>1 DEF Pending
  <2> QED
    BY <1>1, <1>5, <1>6, <2>2 DEF OrderStep, Order!vars, Pending, Returned
<1>7. CASE i \in owed
  <2>1. id \in Ids /\ id # NoId
    BY <1>7, FrameThreadAssumption DEF Inv, TypeOK, SlotInv, Ids, NoId
  <2>2. /\ p[i].frame \in {NoId, id} /\ p[i].result \in {"ok", "error"}
        /\ yield[id] = YieldOf(p[i])
    BY <1>1, <1>7 DEF Inv, YieldInv, YieldOf, PerThreadContext
  <2>3. id \in Pending /\ \A x \in Pending : id <= x
    BY <1>1, <1>7, OldestIsAnswered DEF Pending
  <2>4. Pending' = Pending \ {id}
    <3>1. \A j \in owed : j # i => p[j].avpkt # id
      BY <1>7, DifferentPackets
    <3> QED
      BY <1>1, <1>2, <1>7, <3>1 DEF Pending
  <2>5. /\ IsEmpty <=> yield[id] = "none"
        /\ ~IsEmpty => Got = <<id, yield[id]>>
    BY <2>1, <2>2 DEF IsEmpty, Got, YieldOf
  <2>6. Returned' = IF yield[id] = "none" THEN Nothing ELSE <<id, yield[id]>>
    <3>1. CASE IsEmpty
      BY <1>5, <2>5, <3>1
    <3>2. CASE ~IsEmpty
      BY <1>3, <2>1, <2>5, <3>2 DEF Returned
    <3> QED
      BY <3>1, <3>2
  <2>7. yield[id] \in Order!Outcomes
    BY <2>2 DEF YieldOf, Order!Outcomes
  <2> HIDE DEF id
  <2>8. ASSUME NEW x \in Ids, x = id PROVE Order!Answer(x)
    BY <1>1, <1>5, <1>7, <2>3, <2>4, <2>6, <2>7, <2>8
       DEF Order!Answer, Order!Nothing, Pending, Returned, Nothing, NoId
  <2> QED
    BY <2>1, <2>8 DEF OrderStep, Order!Next
<1> QED
  BY <1>6, <1>7

LEMMA FlushSlotsRefines ==
  ASSUME Inv, FlushSlots
  PROVE  OrderStep
<1>1. /\ submitted' = submitted /\ owed' = {} /\ yield' = [id \in Ids |-> "?"]
      /\ client'.ret = client.ret
  BY ClientType DEF FlushSlots, workerSide, ClientContext
<1>2. Pending' = {} /\ Returned' = Returned
  BY <1>1 DEF Pending, Returned
<1> QED
  BY <1>1, <1>2 DEF OrderStep, Order!Next, Order!Flush, Pending, Returned

\* Whatever the workers do, in whatever order, the client gets the frames and
\* errors of its packets in their order, each once and none skipped, at most
\* one for each call, until a flush drops what was not returned.
THEOREM FramesInOrder == Spec => InOrder
<1>1. Init => Order!Init
  BY DEF Init, Order!Init, Order!Nothing, Nothing, NoId
<1>2. ASSUME Inv, [Next]_vars PROVE OrderStep
  <2>1. CASE DecodePacket \/ DrainPackets \/ Flush \/ Free
    BY <1>2, <2>1, StartsAreQuiet, QuietStepRefines
  <2>2. CASE InCall
    <3>1. CASE SubmitPacket \/ CollectOutput \/ FlushSlots
      BY <1>2, <3>1, SubmitPacketRefines, CollectOutputRefines, FlushSlotsRefines
    <3>2. CASE UserUpdateFails \/ StartFree
      BY <1>2, <3>2, StartsAreQuiet, QuietStepRefines
    <3>3. CASE AwaitPrevSetup \/ ServeWait \/ AwaitOutput("output") \/ AwaitOutput("park") \/ Submitted
      BY <1>2, <3>3, WaitsAreQuiet, QuietStepRefines
    <3>4. CASE InitSlot \/ SubmitLock \/ ReleaseDelayed \/ SubmitFails \/ ServeCallback \/ Park \/ Die \/ Join
      BY <1>2, <3>4, SlotChangesAreQuiet, QuietStepRefines
    <3> QED
      BY <1>2, <2>2, <3>1, <3>2, <3>3, <3>4 DEF InCall
  <2>3. CASE \E i \in Slots : Worker(i)
    BY <1>2, <2>3, WorkerRefines
  <2>4. CASE Freed \/ UNCHANGED vars
    BY <1>2, <2>4 DEF Freed, vars, OrderStep, Order!vars
  <2> QED
    BY <1>2, <2>1, <2>2, <2>3, <2>4 DEF Next
<1>3. Inv /\ [Next]_vars => [Order!Next]_(Order!vars)
  BY <1>2 DEF OrderStep
<1> QED
  BY <1>1, <1>3, InitInv, NextInv, PTL DEF Spec, InOrder, Order!Spec

\* The context a packet starts from is that of a thread whose setup is over.
THEOREM ContextIsSettled == Spec => ContextSettled
<1> DEFINE A == submitted' # submitted /\ fctx.prev_thread # NoSlot => ~InSetup(fctx.prev_thread)
<1>1. ASSUME Inv, [Next]_vars, submitted' # submitted, fctx.prev_thread # NoSlot
      PROVE  ~InSetup(fctx.prev_thread)
  <2>1. SubmitPacket
    <3>1. ~(DecodePacket \/ DrainPackets \/ Flush \/ Free \/ UserUpdateFails \/ StartFree)
      BY <1>1, StartsAreQuiet DEF QuietStep
    <3>2. ~(AwaitPrevSetup \/ ServeWait \/ AwaitOutput("output") \/ AwaitOutput("park") \/ Submitted)
      BY <1>1, WaitsAreQuiet DEF QuietStep
    <3>3. ~(InitSlot \/ SubmitLock \/ ReleaseDelayed \/ SubmitFails \/ ServeCallback \/ Park \/ Die \/ Join)
      BY <1>1, SlotChangesAreQuiet DEF QuietStep
    <3>4. ~(\E i \in Slots : Worker(i))
      BY <1>1, WorkerSteps DEF WorkerStep, clientSide
    <3>5. ~(CollectOutput \/ FlushSlots \/ Freed \/ UNCHANGED vars)
      BY <1>1 DEF CollectOutput, FlushSlots, Freed, vars
    <3> QED
      BY <1>1, <3>1, <3>2, <3>3, <3>4, <3>5 DEF Next, InCall
  <2>2. client.pc = "prev" /\ ~PrevSettingUp
    BY <2>1 DEF SubmitPacket, At
  <2>3. fctx.prev_thread \in Slots
    BY <1>1, FrameThreadAssumption DEF Inv, TypeOK, NoSlot, Slots
  <2> QED
    BY <1>1, <2>2, <2>3, NextSlotIsFree
<1>2. Inv /\ [Next]_vars => [A]_vars
  BY <1>1
<1> QED
  BY <1>2, InitInv, NextInv, PTL DEF Spec, ContextSettled

-----------------------------------------------------------------------------
(* ParseDecode.                                                             *)

\* A byte of the input, and a byte of the buffer that was never filled.
StreamByte == [frame : Nat, start : BOOLEAN, end : BOOLEAN]

\* Frames 1, 2, ... one after the other, the last of them perhaps cut short.
Stream(f) ==
  /\ f \in Seq(StreamByte)
  /\ f # <<>> => f[1].frame = 1 /\ f[1].start
  /\ \A i \in 1 .. Len(f) - 1 :
       /\ f[i + 1].start <=> f[i].end
       /\ f[i + 1].frame = IF f[i].end THEN f[i].frame + 1 ELSE f[i].frame

\* The bytes that the parser has consumed.
Cursor == read - dataSize

\* The packets that were cut, and the bytes of the file that they are.
Packets == out \o decoder.held
Base == Cursor - Len(pending)

TypeInv ==
  /\ ParseTypeOK
  /\ Stream(file)
  /\ inbuf \in [1 .. InbufSize -> StreamByte]
  /\ pending \in Seq(StreamByte)
  /\ decoder \in Codec(Seq(StreamByte)) /\ out \in Seq(Seq(StreamByte))

\* What the buffer holds, and how far the file was read.
BufferInv ==
  /\ Cursor >= 0
  /\ \A i \in 1 .. dataSize : inbuf[data + i] = file[Cursor + i]
  /\ feof \/ pc \in {"flush", "done", "crash"} => read = Len(file)
  /\ pc \in {"fill", "flush", "done", "crash"} => dataSize = 0
  /\ pc = "fill" /\ program = "audio" => read = 0
  /\ pc = "refill" => program = "audio"

\* The frame to decode to is missing only before a byte was parsed.
FrameInv ==
  /\ ~frame => program = "audio" /\ pc # "refill"
  /\ pc = "crash" \/ (pc = "flush" /\ ~frame) => file = <<>>

\* Packets and pending bytes are what was consumed.
BytesInv == FlattenSeq(Packets) \o pending = SubSeq(file, 1, Cursor)

\* Byte i does not end a frame that the parser holds.
Inside(i) == i < Cursor \/ program = "audio" => ~file[i].end

IsFrame(k, packet) ==
  \E a \in DOMAIN file, b \in DOMAIN file :
    /\ file[a].frame = k /\ file[a].start /\ file[b].frame = k /\ file[b].end
    /\ packet = SubSeq(file, a, b)

CutInv ==
  /\ Base >= 0
  /\ pending = SubSeq(file, Base + 1, Cursor)
  /\ Base = 0 => Packets = <<>>
  /\ Base > 0 => file[Base].end /\ file[Base].frame = Len(Packets)
  /\ \A i \in Base + 1 .. Cursor : Inside(i)
  /\ \A k \in DOMAIN Packets : IsFrame(k, Packets[k])
  /\ pc = "done" => decoder.held = <<>>

StreamInv == TypeInv /\ BufferInv /\ FrameInv /\ BytesInv /\ CutInv

-----------------------------------------------------------------------------
(* The frames of a stream.                                                  *)

(* The elements of a stream.                                                *)
LEMMA StreamBytes ==
  ASSUME NEW f, Stream(f)
  PROVE  /\ Len(f) \in Nat /\ DOMAIN f = 1 .. Len(f)
         /\ \A i \in 1 .. Len(f) : f[i].frame \in Nat /\ f[i].start \in BOOLEAN /\ f[i].end \in BOOLEAN
<1>1. f \in Seq(StreamByte)
  BY DEF Stream
<1>2. \A b \in StreamByte : b.frame \in Nat /\ b.start \in BOOLEAN /\ b.end \in BOOLEAN
  BY DEF StreamByte
<1> HIDE DEF StreamByte
<1>3. Len(f) \in Nat /\ DOMAIN f = 1 .. Len(f) /\ \A i \in 1 .. Len(f) : f[i] \in StreamByte
  BY <1>1
<1> QED
  BY <1>2, <1>3

(* Numbers of frames do not decrease, and a frame is not left once its end  *)
(* was seen, nor entered again at another start.                            *)
Ordered(f, i, j) ==
  /\ f[i].frame <= f[j].frame
  /\ i < j /\ f[i].frame = f[j].frame => ~f[i].end /\ ~f[j].start

(* One byte further.                                                        *)
LEMMA OrderedNext ==
  ASSUME NEW f, Stream(f), NEW i \in 1 .. Len(f), NEW j \in 1 .. Len(f) - 1, i <= j, Ordered(f, i, j)
  PROVE  Ordered(f, i, j + 1)
<1>1. /\ Len(f) \in Nat
      /\ f[i].frame \in Nat /\ f[j].frame \in Nat
  BY StreamBytes
<1>2. /\ f[j + 1].start <=> f[j].end
      /\ f[j + 1].frame = IF f[j].end THEN f[j].frame + 1 ELSE f[j].frame
  BY DEF Stream
<1>3. CASE f[j].end
  <2>1. f[j + 1].frame = f[j].frame + 1 /\ f[i].frame <= f[j].frame
    BY <1>2, <1>3 DEF Ordered
  <2>2. f[i].frame <= f[j + 1].frame /\ f[i].frame # f[j + 1].frame
    BY <1>1, <2>1
  <2> QED
    BY <2>2 DEF Ordered
<1>4. CASE ~f[j].end
  <2>1. f[j + 1].frame = f[j].frame /\ ~f[j + 1].start
    BY <1>2, <1>4
  <2>2. CASE i = j
    BY <1>4, <2>1, <2>2, <1>1 DEF Ordered
  <2>3. CASE i < j
    BY <2>1, <2>3 DEF Ordered
  <2> QED
    BY <2>2, <2>3
<1> QED
  BY <1>3, <1>4

(* Any number of bytes further.                                             *)
LEMMA StreamOrdered ==
  ASSUME NEW f, Stream(f), NEW i \in 1 .. Len(f), NEW j \in 1 .. Len(f), i <= j
  PROVE  Ordered(f, i, j)
<1> DEFINE M == {d \in Nat : i + d <= Len(f) => Ordered(f, i, i + d)}
<1>0. Len(f) \in Nat /\ f[i].frame \in Nat
  BY StreamBytes
<1>1. 0 \in M
  BY <1>0 DEF Ordered
<1>2. ASSUME NEW d \in Nat, d \in M
      PROVE  d + 1 \in M
  <2> SUFFICES ASSUME i + (d + 1) <= Len(f) PROVE Ordered(f, i, i + (d + 1))
    OBVIOUS
  <2> DEFINE k == i + d
  <2>1. k \in 1 .. Len(f) - 1 /\ i <= k /\ k <= Len(f) /\ i + (d + 1) = k + 1
    BY <1>0
  <2>2. Ordered(f, i, k)
    BY <1>2, <2>1
  <2> HIDE DEF k
  <2> QED
    BY <2>1, <2>2, OrderedNext
<1>3. Nat \subseteq M
  <2> HIDE DEF M
  <2> QED
    BY <1>1, <1>2, SetInduction
<1>4. j - i \in Nat /\ i + (j - i) = j /\ i + (j - i) <= Len(f)
  BY <1>0
<1>5. j - i \in M
  BY <1>3, <1>4
<1> QED
  BY <1>4, <1>5

(* Bytes with no end before the last of them are of one frame.              *)
LEMMA SameFrame ==
  ASSUME NEW f, Stream(f), NEW i \in 1 .. Len(f), NEW j \in 1 .. Len(f), i <= j,
         \A m \in i .. j - 1 : ~f[m].end
  PROVE  f[j].frame = f[i].frame
<1> DEFINE M == {d \in Nat : i + d <= j => f[i + d].frame = f[i].frame}
<1>0. Len(f) \in Nat
  BY StreamBytes
<1>1. 0 \in M
  OBVIOUS
<1>2. ASSUME NEW d \in Nat, d \in M
      PROVE  d + 1 \in M
  <2> SUFFICES ASSUME i + (d + 1) <= j PROVE f[i + (d + 1)].frame = f[i].frame
    OBVIOUS
  <2> DEFINE k == i + d
  <2>1. k \in 1 .. Len(f) - 1 /\ k \in i .. j - 1 /\ k <= j /\ i + (d + 1) = k + 1
    BY <1>0
  <2>2. f[k].frame = f[i].frame
    BY <1>2, <2>1
  <2> HIDE DEF k
  <2>3. f[k + 1].frame = f[k].frame
    BY <2>1 DEF Stream
  <2> QED
    BY <2>1, <2>2, <2>3
<1>3. Nat \subseteq M
  <2> HIDE DEF M
  <2> QED
    BY <1>1, <1>2, SetInduction
<1>4. j - i \in Nat /\ i + (j - i) = j /\ i + (j - i) <= j
  BY <1>0
<1>5. j - i \in M
  BY <1>3, <1>4
<1> QED
  BY <1>4, <1>5

(* A stream whose last frame, the k-th, is complete.                        *)
Whole(f, k) ==
  /\ Stream(f)
  /\ k = 0 => f = <<>>
  /\ k > 0 => f # <<>> /\ f[Len(f)].end /\ f[Len(f)].frame = k

(* What is left of a stream that is cut short is a stream.                  *)
LEMMA StreamCut ==
  ASSUME NEW f, Stream(f), NEW n \in 0 .. Len(f)
  PROVE  Stream(SubSeq(f, 1, n))
<1> DEFINE g == SubSeq(f, 1, n)
<1>1. f \in Seq(StreamByte) /\ Len(f) \in Nat /\ n \in Nat /\ n <= Len(f)
  BY StreamBytes DEF Stream
<1>2. g \in Seq(StreamByte) /\ Len(g) = n /\ \A i \in 1 .. n : g[i] = f[i]
  BY <1>1
<1>3. f # <<>> => f[1].frame = 1 /\ f[1].start
  BY DEF Stream
<1>4. \A i \in 1 .. Len(f) - 1 :
        /\ f[i + 1].start <=> f[i].end
        /\ f[i + 1].frame = IF f[i].end THEN f[i].frame + 1 ELSE f[i].frame
  BY DEF Stream
<1> HIDE DEF g
<1>5. g # <<>> => g[1].frame = 1 /\ g[1].start
  <2> SUFFICES ASSUME g # <<>> PROVE g[1].frame = 1 /\ g[1].start
    OBVIOUS
  <2>1. n # 0
    BY <1>2
  <2>2. 1 \in 1 .. n /\ Len(f) # 0
    BY <1>1, <2>1
  <2>3. f # <<>>
    BY <2>2
  <2> QED
    BY <1>2, <1>3, <2>2, <2>3
<1>6. ASSUME NEW i \in 1 .. n - 1
      PROVE  /\ g[i + 1].start <=> g[i].end
             /\ g[i + 1].frame = IF g[i].end THEN g[i].frame + 1 ELSE g[i].frame
  <2>1. i \in 1 .. n /\ i + 1 \in 1 .. n /\ i \in 1 .. Len(f) - 1
    BY <1>1
  <2> QED
    BY <1>2, <1>4, <2>1
<1> QED
  BY <1>2, <1>5, <1>6 DEF Stream, g

(* The bytes of one frame.                                                  *)
LEMMA FrameBytesType ==
  ASSUME NEW k \in Nat, NEW size \in Nat \ {0}
  PROVE  /\ FrameBytes(k, size) \in Seq(StreamByte) /\ Len(FrameBytes(k, size)) = size
         /\ \A i \in 1 .. size : FrameBytes(k, size)[i] = [frame |-> k, start |-> i = 1, end |-> i = size]
<1>1. \A i \in 1 .. size : [frame |-> k, start |-> i = 1, end |-> i = size] \in StreamByte
  BY DEF StreamByte
<1> HIDE DEF StreamByte
<1> QED
  BY <1>1 DEF FrameBytes

(* The elements of two sequences, one behind the other.                     *)
LEMMA PartsOfCat ==
  ASSUME NEW S, NEW s \in Seq(S), NEW t \in Seq(S)
  PROVE  /\ s \o t \in Seq(S) /\ Len(s \o t) = Len(s) + Len(t)
         /\ \A i \in 1 .. Len(s) : (s \o t)[i] = s[i]
         /\ \A i \in 1 .. Len(t) : (s \o t)[Len(s) + i] = t[i]
  OBVIOUS

(* A complete stream and one more frame.                                    *)
LEMMA StreamGrows ==
  ASSUME NEW k \in Nat, NEW f, Whole(f, k), NEW size \in Nat \ {0}
  PROVE  Whole(f \o FrameBytes(k + 1, size), k + 1)
<1> DEFINE b == FrameBytes(k + 1, size)
           g == f \o b
           n == Len(f)
<1>1. f \in Seq(StreamByte) /\ n \in Nat /\ Stream(f)
  BY StreamBytes DEF Whole, Stream
<1>2. /\ b \in Seq(StreamByte) /\ Len(b) = size
      /\ \A i \in 1 .. size : b[i].frame = k + 1 /\ (b[i].start <=> i = 1) /\ (b[i].end <=> i = size)
  <2>1. \A i \in 1 .. size : b[i] = [frame |-> k + 1, start |-> i = 1, end |-> i = size]
    BY FrameBytesType
  <2>2. b \in Seq(StreamByte) /\ Len(b) = size
    BY FrameBytesType
  <2> HIDE DEF b
  <2>3. ASSUME NEW i \in 1 .. size
        PROVE  b[i].frame = k + 1 /\ (b[i].start <=> i = 1) /\ (b[i].end <=> i = size)
    <3> DEFINE first == i = 1
               last == i = size
    <3>1. b[i] = [frame |-> k + 1, start |-> first, end |-> last]
      BY <2>1
    <3>2. first \in BOOLEAN /\ last \in BOOLEAN
      OBVIOUS
    <3> HIDE DEF first, last
    <3>3. b[i].frame = k + 1 /\ (b[i].start <=> first) /\ (b[i].end <=> last)
      BY <3>1, <3>2
    <3> QED
      BY <3>3 DEF first, last
  <2> QED
    BY <2>2, <2>3
<1> HIDE DEF b
<1>3. /\ g \in Seq(StreamByte) /\ Len(g) = n + size
      /\ \A i \in 1 .. n : g[i] = f[i]
      /\ \A i \in 1 .. size : g[n + i] = b[i]
  <2> HIDE DEF StreamByte
  <2>1. /\ f \o b \in Seq(StreamByte) /\ Len(f \o b) = Len(f) + Len(b)
        /\ \A i \in 1 .. Len(f) : (f \o b)[i] = f[i]
        /\ \A i \in 1 .. Len(b) : (f \o b)[Len(f) + i] = b[i]
    <3>1. f \in Seq(StreamByte) /\ b \in Seq(StreamByte)
      BY <1>1, <1>2
    <3> QED
      BY <3>1, PartsOfCat
  <2>2. Len(b) = size
    BY <1>2
  <2> QED
    BY <2>1, <2>2, Zenon
<1>4. /\ n = 0 => k = 0
      /\ n > 0 => k > 0 /\ f[n].end /\ f[n].frame = k /\ f[1].frame = 1 /\ f[1].start
      /\ \A i \in 1 .. n - 1 :
           /\ f[i + 1].start <=> f[i].end
           /\ f[i + 1].frame = IF f[i].end THEN f[i].frame + 1 ELSE f[i].frame
  <2>1. f = <<>> <=> n = 0
    BY <1>1
  <2>2. f # <<>> => f[1].frame = 1 /\ f[1].start
    BY <1>1 DEF Stream
  <2>3. (k = 0 => f = <<>>) /\ (k > 0 => f # <<>> /\ f[n].end /\ f[n].frame = k)
    BY DEF Whole
  <2>4. \A i \in 1 .. n - 1 :
           /\ f[i + 1].start <=> f[i].end
           /\ f[i + 1].frame = IF f[i].end THEN f[i].frame + 1 ELSE f[i].frame
    BY <1>1 DEF Stream
  <2> HIDE DEF n
  <2> QED
    BY <1>1, <2>1, <2>2, <2>3, <2>4
<1> HIDE DEF g, n
<1>5. g[1].frame = 1 /\ g[1].start
  <2>1. CASE n = 0
    <3>1. g[n + 1] = b[1] /\ b[1].frame = k + 1 /\ b[1].start
      BY <1>2, <1>3
    <3> QED
      BY <1>4, <2>1, <3>1
  <2>2. CASE n > 0
    BY <1>1, <1>3, <1>4, <2>2
  <2> QED
    BY <1>1, <2>1, <2>2
<1>6. ASSUME NEW i \in 1 .. n + size - 1
      PROVE  /\ g[i + 1].start <=> g[i].end
             /\ g[i + 1].frame = IF g[i].end THEN g[i].frame + 1 ELSE g[i].frame
  <2>1. CASE i < n
    <3>1. i \in 1 .. n - 1 /\ i \in 1 .. n /\ i + 1 \in 1 .. n
      BY <1>1, <2>1
    <3> QED
      BY <1>3, <1>4, <3>1
  <2>2. CASE i = n
    <3>1. i \in 1 .. n /\ 1 \in 1 .. size /\ n > 0
      BY <1>1, <2>2
    <3>2. g[i] = f[n] /\ g[i + 1] = b[1]
      BY <1>3, <2>2, <3>1
    <3> QED
      BY <1>2, <1>4, <3>1, <3>2
  <2>3. CASE i > n
    <3> DEFINE m == i - n
    <3>1. m \in 1 .. size /\ m + 1 \in 1 .. size /\ i = n + m /\ i + 1 = n + (m + 1) /\ m # size /\ m + 1 # 1
      BY <1>1, <2>3
    <3> HIDE DEF m
    <3>2. g[i] = b[m] /\ g[i + 1] = b[m + 1]
      BY <1>3, <3>1
    <3>3. b[m].frame = k + 1 /\ b[m + 1].frame = k + 1 /\ ~b[m].end /\ ~b[m + 1].start
      BY <1>2, <3>1
    <3> QED
      BY <3>2, <3>3
  <2> QED
    BY <1>1, <2>1, <2>2, <2>3
<1>7. Stream(g)
  BY <1>1, <1>3, <1>5, <1>6 DEF Stream
<1>8. g # <<>> /\ g[Len(g)].end /\ g[Len(g)].frame = k + 1
  <2>1. size \in 1 .. size /\ Len(g) # 0
    BY <1>1, <1>3
  <2>2. g[n + size] = b[size]
    BY <1>3, <2>1
  <2>3. g # <<>>
    BY <2>1
  <2> QED
    BY <1>2, <1>3, <2>1, <2>2, <2>3
<1> QED
  BY <1>7, <1>8 DEF Whole, g, b

(* Frames of any sizes, one after the other, are a stream.                  *)
LEMMA FramesAreWhole ==
  ASSUME NEW n \in Nat, NEW sizes \in [1 .. n -> 1 .. MaxFrameSize]
  PROVE  Whole(FlattenSeq([k \in DOMAIN sizes |-> FrameBytes(k, sizes[k])]), n)
<1> DEFINE Cut(z) == [k \in DOMAIN z |-> FrameBytes(k, z[k])]
           M == {m \in Nat : \A z \in [1 .. m -> 1 .. MaxFrameSize] : Whole(FlattenSeq(Cut(z)), m)}
<1>1. 0 \in M
  <2> SUFFICES ASSUME NEW z \in [1 .. 0 -> 1 .. MaxFrameSize] PROVE Whole(FlattenSeq(Cut(z)), 0)
    OBVIOUS
  <2>1. Cut(z) = <<>>
    OBVIOUS
  <2>2. Stream(<<>>)
    <3>1. <<>> \in Seq(StreamByte) /\ 1 .. Len(<<>>) - 1 = {}
      OBVIOUS
    <3> QED
      BY <3>1, Zenon DEF Stream
  <2>3. Whole(<<>>, 0)
    BY <2>2 DEF Whole
  <2> HIDE DEF Cut
  <2> QED
    BY <2>1, <2>3, FlattenEmpty
<1>2. ASSUME NEW m \in Nat, m \in M
      PROVE  m + 1 \in M
  <2> SUFFICES ASSUME NEW z \in [1 .. m + 1 -> 1 .. MaxFrameSize] PROVE Whole(FlattenSeq(Cut(z)), m + 1)
    OBVIOUS
  <2> DEFINE w == [k \in 1 .. m |-> z[k]]
             last == FrameBytes(m + 1, z[m + 1])
  <2>1. w \in [1 .. m -> 1 .. MaxFrameSize]
    OBVIOUS
  <2>2. Whole(FlattenSeq(Cut(w)), m)
    BY <1>2, <2>1
  <2>3. z[m + 1] \in Nat \ {0} /\ \A k \in 1 .. m : z[k] \in Nat \ {0}
    BY ParseAssumption
  <2>4. Cut(w) = [k \in 1 .. m |-> FrameBytes(k, z[k])]
    BY <2>1
  <2>5. Cut(z) = [k \in 1 .. m + 1 |-> FrameBytes(k, z[k])]
    OBVIOUS
  <2>6. \A k \in 1 .. m : FrameBytes(k, z[k]) \in Seq(StreamByte)
    BY <2>3, FrameBytesType
  <2>7. last \in Seq(StreamByte)
    BY <2>3, FrameBytesType
  <2>8. Cut(w) \in Seq(Seq(StreamByte)) /\ Cut(z) = Append(Cut(w), last)
    <3> DEFINE Of(k) == FrameBytes(k, z[k])
               s == [k \in 1 .. m |-> Of(k)]
               t == [k \in 1 .. m + 1 |-> Of(k)]
    <3>1. Cut(w) = s /\ Cut(z) = t /\ last = Of(m + 1) /\ \A k \in 1 .. m : Of(k) \in Seq(StreamByte)
      BY <2>4, <2>5, <2>6
    <3>2. Of(m + 1) \in Seq(StreamByte)
      BY <2>7
    <3> HIDE DEF Of
    <3>3. s \in Seq(Seq(StreamByte)) /\ t \in Seq(Seq(StreamByte)) /\ Len(s) = m /\ Len(t) = m + 1
      BY <3>1, <3>2
    <3>4. t = Append(s, Of(m + 1))
      BY <3>2, <3>3
    <3> QED
      BY <3>1, <3>3, <3>4, Zenon
  <2> HIDE DEF Cut, w
  <2>9. FlattenSeq(Cut(z)) = FlattenSeq(Cut(w)) \o last
    BY <2>7, <2>8, FlattenAppend
  <2> QED
    BY <2>2, <2>3, <2>9, StreamGrows
<1>3. Nat \subseteq M
  <2> HIDE DEF M
  <2> QED
    BY <1>1, <1>2, SetInduction
<1>4. n \in M
  BY <1>3
<1> QED
  BY <1>4

(* Every input is a stream.                                                 *)
LEMMA FilesAreStreams == ASSUME file \in Files PROVE Stream(file)
<1> DEFINE Cut(z) == [k \in DOMAIN z |-> FrameBytes(k, z[k])]
           All == UNION {[1 .. n -> 1 .. MaxFrameSize] : n \in 0 .. MaxFrames}
<1>0. file \in UNION {{SubSeq(bytes, 1, n) : n \in 0 .. Len(bytes)} :
                        bytes \in {FlattenSeq(Cut(sizes)) : sizes \in All}}
  BY DEF Files
<1>1. PICK sizes \in All :
        file \in {SubSeq(FlattenSeq(Cut(sizes)), 1, n) : n \in 0 .. Len(FlattenSeq(Cut(sizes)))}
  <2> HIDE DEF All, Cut
  <2> QED
    BY <1>0
<1>2. PICK m \in 0 .. MaxFrames : sizes \in [1 .. m -> 1 .. MaxFrameSize]
  OBVIOUS
<1>3. m \in Nat
  BY ParseAssumption
<1>4. Stream(FlattenSeq(Cut(sizes)))
  BY <1>2, <1>3, FramesAreWhole DEF Whole
<1> HIDE DEF Cut
<1>5. PICK n \in 0 .. Len(FlattenSeq(Cut(sizes))) : file = SubSeq(FlattenSeq(Cut(sizes)), 1, n)
  BY <1>1
<1> QED
  BY <1>4, <1>5, StreamCut

-----------------------------------------------------------------------------
(* What the steps of the two programs do to the buffer and the decoder.     *)

(* Numbers have a least one among them.                                     *)
LEMMA LeastExists ==
  ASSUME NEW T \in SUBSET Nat, T # {}
  PROVE  Min(T) \in T /\ \A y \in T : Min(T) <= y
<1> DEFINE R == {ss \in Nat \X Nat : ss[1] < ss[2]}
<1>0. IsWellFoundedOn(R, Nat)
  BY NatLessThanWellFounded, Zenon DEF OpToRel
<1>1. PICK x \in T : \A y \in T : <<y, x>> \notin R
  <2> HIDE DEF R
  <2> QED
    BY <1>0, WFMin, Zenon
<1>2. \A y \in T : x <= y
  <2> SUFFICES ASSUME NEW y \in T PROVE x <= y
    OBVIOUS
  <2>1. x \in Nat /\ y \in Nat /\ <<y, x>> \notin R
    BY <1>1
  <2>2. ~(y < x)
    BY <2>1
  <2> QED
    BY <2>1, <2>2
<1> QED
  BY <1>1, <1>2 DEF Min

(* Two neighbouring parts of a sequence.                                    *)
LEMMA NeighboursJoin ==
  ASSUME NEW S, NEW s \in Seq(S), NEW m \in 0 .. Len(s), NEW k \in m .. Len(s), NEW n \in k .. Len(s)
  PROVE  SubSeq(s, m + 1, k) \o SubSeq(s, k + 1, n) = SubSeq(s, m + 1, n)
<1>1. m + 1 \in 1 .. Len(s) + 1 /\ k \in m + 1 - 1 .. Len(s)
  OBVIOUS
<1> QED
  BY <1>1, ConcatAdjacentSubSeq

(* Parts of a sequence.                                                     *)
LEMMA PartOf ==
  ASSUME NEW S, NEW s \in Seq(S), NEW m \in 0 .. Len(s), NEW n \in m .. Len(s)
  PROVE  /\ SubSeq(s, m + 1, n) \in Seq(S) /\ Len(SubSeq(s, m + 1, n)) = n - m
         /\ \A i \in 1 .. n - m : SubSeq(s, m + 1, n)[i] = s[m + i]
<1>1. Len(s) \in Nat /\ m \in Nat /\ n \in Nat /\ m <= n /\ n <= Len(s)
  OBVIOUS
<1>2. Len(SubSeq(s, m + 1, n)) = n - m
  BY <1>1
<1>3. \A i \in 1 .. n - m : SubSeq(s, m + 1, n)[i] = s[m + i]
  BY <1>1
<1>4. SubSeq(s, m + 1, n) \in Seq(S)
  BY <1>1
<1> QED
  BY <1>2, <1>3, <1>4

(* The front of a sequence.                                                 *)
LEMMA FrontOf ==
  ASSUME NEW S, NEW s \in Seq(S), NEW n \in 0 .. Len(s)
  PROVE  /\ SubSeq(s, 1, n) \in Seq(S) /\ Len(SubSeq(s, 1, n)) = n
         /\ \A i \in 1 .. n : SubSeq(s, 1, n)[i] = s[i]
<1>1. Len(s) \in Nat /\ n \in Nat /\ n <= Len(s)
  OBVIOUS
<1> QED
  BY <1>1

(* The whole of a sequence.                                                 *)
LEMMA AllOf ==
  ASSUME NEW S, NEW s \in Seq(S)
  PROVE  SubSeq(s, 1, Len(s)) = s
<1>1. Len(s) \in 0 .. Len(s)
  OBVIOUS
<1>2. /\ SubSeq(s, 1, Len(s)) \in Seq(S) /\ Len(SubSeq(s, 1, Len(s))) = Len(s)
      /\ \A i \in 1 .. Len(s) : SubSeq(s, 1, Len(s))[i] = s[i]
  BY <1>1, FrontOf
<1> QED
  BY <1>2, SeqEqual

(* What fread gives.                                                        *)
LEMMA GivenIs ==
  ASSUME TypeInv, NEW n \in Nat
  PROVE  /\ Given(n) \in Nat /\ Given(n) <= n /\ read + Given(n) \in 0 .. Len(file)
         /\ Given(n) = n \/ (Given(n) < n /\ read + Given(n) = Len(file))
<1>1. read \in Nat /\ Len(file) \in Nat /\ read <= Len(file)
  BY StreamBytes DEF TypeInv, ParseTypeOK
<1> DEFINE rest == Len(file) - read
<1>2. rest \in Nat /\ read + rest = Len(file)
  BY <1>1
<1> HIDE DEF rest
<1>3. Given(n) \in {n, rest} /\ Given(n) <= n /\ Given(n) <= rest
  <2>1. {n, rest} \in SUBSET Nat /\ {n, rest} # {}
    BY <1>2
  <2>2. Given(n) = Min({n, rest})
    BY DEF Given, rest
  <2> HIDE DEF Given
  <2>3. Min({n, rest}) \in {n, rest} /\ \A y \in {n, rest} : Min({n, rest}) <= y
    BY <2>1, LeastExists
  <2> QED
    BY <2>2, <2>3
<1> HIDE DEF Given
<1> QED
  BY <1>1, <1>2, <1>3

(* The buffer as numbers and as bytes.                                      *)
LEMMA BufferTypes ==
  ASSUME TypeInv, Cursor >= 0
  PROVE  /\ InbufSize \in Nat \ {0} /\ data \in Nat /\ dataSize \in Nat /\ data + dataSize <= InbufSize
         /\ read \in Nat /\ Len(file) \in Nat /\ read <= Len(file) /\ Cursor \in Nat
         /\ read = Cursor + dataSize /\ file \in Seq(StreamByte)
<1>1. /\ data \in Nat /\ dataSize \in Nat /\ data + dataSize <= InbufSize /\ read \in 0 .. Len(file)
      /\ file \in Seq(StreamByte)
  BY DEF TypeInv, ParseTypeOK, Stream
<1>2. Len(file) \in Nat
  BY <1>1
<1> QED
  BY <1>1, <1>2, ParseAssumption DEF Cursor

(* The window holds the bytes between those consumed and those read.        *)
LEMMA WindowIs ==
  ASSUME TypeInv, BufferInv
  PROVE  /\ Window = SubSeq(file, Cursor + 1, read)
         /\ Window \in Seq(StreamByte) /\ Len(Window) = dataSize
         /\ \A i \in 1 .. dataSize : Window[i] = file[Cursor + i]
<1>1. Cursor >= 0 /\ \A i \in 1 .. dataSize : inbuf[data + i] = file[Cursor + i]
  BY DEF BufferInv
<1>2. /\ InbufSize \in Nat \ {0} /\ data \in Nat /\ dataSize \in Nat /\ data + dataSize <= InbufSize
      /\ read \in Nat /\ Len(file) \in Nat /\ read <= Len(file) /\ Cursor \in Nat
      /\ read = Cursor + dataSize /\ file \in Seq(StreamByte)
  BY <1>1, BufferTypes
<1>3. inbuf \in Seq(StreamByte) /\ Len(inbuf) = InbufSize
  <2>1. inbuf \in [1 .. InbufSize -> StreamByte]
    BY DEF TypeInv
  <2> HIDE DEF StreamByte
  <2> QED
    BY <1>2, <2>1
<1> HIDE DEF Cursor
<1> DEFINE to == data + dataSize
           part == SubSeq(file, Cursor + 1, read)
<1>4. data \in 0 .. Len(inbuf) /\ to \in data .. Len(inbuf) /\ to - data = dataSize
      /\ Cursor \in 0 .. Len(file) /\ read \in Cursor .. Len(file) /\ read - Cursor = dataSize
  BY <1>2, <1>3
<1> HIDE DEF to
<1>5. /\ SubSeq(inbuf, data + 1, to) \in Seq(StreamByte) /\ Len(SubSeq(inbuf, data + 1, to)) = dataSize
      /\ \A i \in 1 .. dataSize : SubSeq(inbuf, data + 1, to)[i] = inbuf[data + i]
  BY <1>3, <1>4, PartOf
<1>6. Window = SubSeq(inbuf, data + 1, to)
  BY DEF Window, to
<1>7. /\ part \in Seq(StreamByte) /\ Len(part) = dataSize
      /\ \A i \in 1 .. dataSize : part[i] = file[Cursor + i]
  BY <1>2, <1>4, PartOf
<1> HIDE DEF part, Window
<1>8. Window = part
  <2>1. Window \in Seq(StreamByte) /\ Len(Window) = Len(part) /\ \A i \in 1 .. Len(part) : Window[i] = part[i]
    BY <1>1, <1>5, <1>6, <1>7
  <2> QED
    BY <1>7, <2>1, SeqEqual
<1> QED
  BY <1>7, <1>8 DEF part

(* Receiving moves packets from the decoder to the output, all of them at   *)
(* the end.                                                                 *)
LEMMA ReceivedAll ==
  ASSUME out \in Seq(Seq(StreamByte)), NEW c \in Codec(Seq(StreamByte)), ReceiveAll(c)
  PROVE  /\ out' \in Seq(Seq(StreamByte)) /\ decoder' \in Codec(Seq(StreamByte))
         /\ Packets' = out \o c.held
         /\ c.draining => decoder'.held = <<>>
<1> DEFINE h == c.held
           given == IF c.draining THEN Len(h)
                    ELSE IF Len(h) > DecoderDelay THEN Len(h) - DecoderDelay ELSE 0
           first == SubSeq(h, 1, given)
           rest == SubSeq(h, given + 1, Len(h))
<1>1. h \in Seq(Seq(StreamByte)) /\ c.draining \in BOOLEAN
  BY DEF Codec
<1>2. out' = out \o first /\ decoder' = [c EXCEPT !.held = rest]
  BY DEF ReceiveAll
<1>3. given \in 0 .. Len(h) /\ (c.draining => given = Len(h))
  BY <1>1, ParseAssumption
<1>4. decoder' = [held |-> rest, draining |-> c.draining]
  BY <1>2, HeldReplaced, Zenon
<1> HIDE DEF given, h
<1>5. /\ first \in Seq(Seq(StreamByte)) /\ rest \in Seq(Seq(StreamByte)) /\ first \o rest = h
      /\ given = Len(h) => rest = <<>>
  <2> DEFINE P == Seq(StreamByte)
  <2>1. h \in Seq(P)
    BY <1>1
  <2> HIDE DEF P
  <2>2. first \in Seq(P) /\ rest \in Seq(P) /\ (given = Len(h) => rest = <<>>)
    BY <1>3, <2>1
  <2>3. first \o rest = h
    BY <1>3, <2>1, CutTogether
  <2> QED
    BY <2>2, <2>3 DEF P
<1> HIDE DEF first, rest
<1>6. decoder'.held = rest /\ decoder' \in Codec(Seq(StreamByte))
  BY <1>1, <1>4, <1>5 DEF Codec
<1>7. (out \o first) \o rest = out \o h /\ out \o first \in Seq(Seq(StreamByte))
  <2> DEFINE P == Seq(StreamByte)
  <2>1. out \in Seq(P) /\ first \in Seq(P) /\ rest \in Seq(P)
    BY <1>5
  <2> HIDE DEF P
  <2>2. (out \o first) \o rest = out \o (first \o rest) /\ out \o first \in Seq(P)
    BY <2>1, CatAssoc
  <2> QED
    BY <1>5, <2>2 DEF P
<1> QED
  BY <1>2, <1>3, <1>5, <1>6, <1>7 DEF Packets, h

(* A packet more in the decoder, and a decoder that drains.                 *)
LEMMA DecoderChanged ==
  ASSUME TypeInv, NEW x \in Seq(StreamByte)
  PROVE  /\ Accept(decoder, x) \in Codec(Seq(StreamByte)) /\ Accept(decoder, x).held = Append(decoder.held, x)
         /\ Drain(decoder) \in Codec(Seq(StreamByte)) /\ Drain(decoder).held = decoder.held
         /\ Drain(decoder).draining = TRUE
<1> DEFINE P == Seq(StreamByte)
           c == decoder
<1>1. c \in Codec(P) /\ x \in P
  BY DEF TypeInv
<1> HIDE DEF P, c
<1>2. c.held \in Seq(P) /\ c.draining \in BOOLEAN
  BY <1>1 DEF Codec
<1>3. Accept(c, x) = [held |-> Append(c.held, x), draining |-> c.draining]
  BY <1>1, HeldReplaced, Zenon DEF Accept
<1>4. Drain(c) = [held |-> c.held, draining |-> TRUE]
  BY <1>1, DrainingReplaced, Zenon DEF Drain
<1>5. Append(c.held, x) \in Seq(P)
  BY <1>1, <1>2
<1>6. Accept(c, x) \in Codec(P) /\ Accept(c, x).held = Append(c.held, x)
  BY <1>2, <1>3, <1>5 DEF Codec
<1>7. Drain(c) \in Codec(P) /\ Drain(c).held = c.held /\ Drain(c).draining = TRUE
  BY <1>2, <1>4 DEF Codec
<1> QED
  BY <1>6, <1>7 DEF c, P

-----------------------------------------------------------------------------
(* Where the parser cuts.                                                   *)

(* Consumed is the first cut, or the whole window.                          *)
LEMMA ConsumedIs ==
  ASSUME TypeInv
  PROVE  /\ Consumed \in 0 .. dataSize
         /\ Cuts = {} => Consumed = dataSize
         /\ Cuts # {} => Consumed \in Cuts /\ \A m \in Cuts : Consumed <= m
<1>1. dataSize \in Nat /\ Cuts \in SUBSET (0 .. dataSize)
  BY DEF TypeInv, ParseTypeOK, Cuts
<1> HIDE DEF Cuts
<1>2. CASE Cuts = {}
  BY <1>1, <1>2 DEF Consumed
<1>3. CASE Cuts # {}
  <2>1. Cuts \in SUBSET Nat
    BY <1>1
  <2>2. Min(Cuts) \in Cuts /\ \A m \in Cuts : Min(Cuts) <= m
    BY <1>3, <2>1, LeastExists
  <2>3. Consumed = Min(Cuts)
    BY <1>3 DEF Consumed
  <2> QED
    BY <1>1, <1>3, <2>2, <2>3
<1> QED
  BY <1>2, <1>3

(* What the parser has after the bytes it consumes: those of one frame from *)
(* the byte after the packets before. Only the last can be its end.         *)
LEMMA ParsedIs ==
  ASSUME StreamInv
  PROVE  /\ Parsed = SubSeq(file, Base + 1, Cursor + Consumed) /\ Parsed \in Seq(StreamByte)
         /\ Base \in 0 .. Cursor /\ Cursor + Consumed \in Cursor .. read /\ read <= Len(file)
         /\ Cursor \in Nat /\ read \in Nat /\ Len(file) \in Nat
         /\ \A i \in Base + 1 .. Cursor + Consumed - 1 : ~file[i].end
<1>1. TypeInv /\ BufferInv /\ CutInv
  BY DEF StreamInv
<1>2. Cursor >= 0 /\ pending = SubSeq(file, Base + 1, Cursor) /\ Base >= 0 /\ pending \in Seq(StreamByte)
  BY <1>1 DEF TypeInv, BufferInv, CutInv
<1>3. /\ dataSize \in Nat /\ read \in Nat /\ Len(file) \in Nat /\ read <= Len(file) /\ Cursor \in Nat
      /\ read = Cursor + dataSize /\ file \in Seq(StreamByte)
  BY <1>1, <1>2, BufferTypes
<1>4. /\ Window = SubSeq(file, Cursor + 1, read) /\ Window \in Seq(StreamByte) /\ Len(Window) = dataSize
      /\ \A i \in 1 .. dataSize : Window[i] = file[Cursor + i]
  BY <1>1, WindowIs
<1>5. /\ Consumed \in 0 .. dataSize
      /\ Cuts = {} => Consumed = dataSize
      /\ Cuts # {} => Consumed \in Cuts /\ \A m \in Cuts : Consumed <= m
  BY <1>1, ConsumedIs
<1>6. Base \in 0 .. Cursor /\ (pending = <<>> => Base = Cursor)
  <2>1. Len(pending) \in Nat /\ Base = Cursor - Len(pending)
    BY <1>2 DEF Base
  <2>2. pending = <<>> => Len(pending) = 0
    OBVIOUS
  <2> HIDE DEF Base, Cursor
  <2> QED
    BY <1>2, <1>3, <2>1, <2>2
<1>7. \A i \in Base + 1 .. Cursor : Inside(i)
  BY <1>1 DEF CutInv
<1> DEFINE c == Consumed
           to == Cursor + c
<1> HIDE DEF Base, Cursor, c
<1>8. SubSeq(Window, 1, c) = SubSeq(file, Cursor + 1, to)
  <2> DEFINE u == SubSeq(Window, 1, c)
             v == SubSeq(file, Cursor + 1, to)
  <2>1. c \in 0 .. dataSize /\ c \in 0 .. Len(Window) /\ 0 \in 0 .. Len(Window) /\ c - 0 = c /\ 0 + 1 = 1
    BY <1>3, <1>4, <1>5 DEF c
  <2>2. u \in Seq(StreamByte) /\ Len(u) = c /\ \A i \in 1 .. c : u[i] = Window[i]
    BY <1>4, <2>1, FrontOf
  <2>3. Cursor \in 0 .. Len(file) /\ to \in Cursor .. Len(file) /\ to - Cursor = c
    BY <1>3, <2>1
  <2>4. v \in Seq(StreamByte) /\ Len(v) = c /\ \A i \in 1 .. c : v[i] = file[Cursor + i]
    BY <1>3, <2>3, PartOf
  <2>5. \A i \in 1 .. c : Window[i] = file[Cursor + i]
    BY <1>3, <1>4, <2>1
  <2> HIDE DEF u, v
  <2>6. \A i \in 1 .. Len(v) : u[i] = v[i]
    BY <2>2, <2>4, <2>5
  <2>7. u = v
    BY <2>2, <2>4, <2>6, SeqEqual
  <2> QED
    BY <2>7 DEF u, v
<1>9. /\ to \in Cursor .. read /\ Base \in 0 .. Len(file) /\ Cursor \in Base .. Len(file) /\ to \in Cursor .. Len(file)
      /\ to \in Base .. Len(file)
  BY <1>3, <1>5, <1>6 DEF c
<1>10. Parsed = SubSeq(file, Base + 1, to) /\ Parsed \in Seq(StreamByte)
  <2>1. Parsed = SubSeq(file, Base + 1, Cursor) \o SubSeq(file, Cursor + 1, to)
    BY <1>2, <1>8 DEF Parsed, c
  <2> HIDE DEF to
  <2>2. SubSeq(file, Base + 1, Cursor) \o SubSeq(file, Cursor + 1, to) = SubSeq(file, Base + 1, to)
    BY <1>3, <1>9, NeighboursJoin
  <2>3. SubSeq(file, Base + 1, to) \in Seq(StreamByte)
    BY <1>3, <1>9, PartOf
  <2> QED
    BY <2>1, <2>2, <2>3
<1>11. ASSUME NEW i \in Base + 1 .. Cursor + Consumed - 1
       PROVE  ~file[i].end
  <2>0. i \in Base + 1 .. to - 1
    BY <1>3, <1>5, <1>6 DEF c
  <2>1. i \in Nat /\ i >= Base + 1 /\ i < to /\ i \in 1 .. Len(file) - 1
    BY <1>3, <1>9, <2>0
  <2>2. CASE i < Cursor
    <3>1. i \in Base + 1 .. Cursor
      BY <1>3, <2>1, <2>2, <1>6
    <3> QED
      BY <1>7, <2>2, <3>1 DEF Inside
  <2>3. CASE i >= Cursor /\ program = "audio"
    <3>1. CASE i = Cursor
      <4>1. i \in Base + 1 .. Cursor
        BY <1>3, <2>1, <3>1, <1>6
      <4> QED
        BY <1>7, <2>3, <4>1 DEF Inside
    <3>2. CASE i > Cursor
      <4> DEFINE m == i - Cursor
      <4>1. m \in 1 .. dataSize /\ m < c /\ Cursor + m = i
        BY <1>3, <1>5, <2>1, <3>2 DEF c
      <4> HIDE DEF m
      <4>2. m \notin Cuts
        BY <1>3, <1>5, <4>1 DEF c
      <4>3. ~Window[m].end
        BY <2>3, <4>1, <4>2 DEF Cuts
      <4>4. Window[m] = file[i]
        BY <1>4, <4>1
      <4> QED
        BY <4>3, <4>4
    <3> QED
      BY <1>3, <2>1, <2>3, <3>1, <3>2
  <2>4. CASE i >= Cursor /\ program # "audio"
    <3> DEFINE m == i - Cursor
    <3>1. m \in 0 .. dataSize - 1 /\ m + 1 \in 1 .. dataSize /\ m < c /\ Cursor + (m + 1) = i + 1
          /\ (m > 0 \/ i = Cursor)
      BY <1>3, <1>5, <2>1, <2>4 DEF c
    <3> HIDE DEF m
    <3>2. m > 0 \/ pending # <<>>
      <4>1. i # Base
        BY <1>6, <2>1
      <4> QED
        BY <1>6, <3>1, <4>1
    <3>3. m \notin Cuts
      BY <1>3, <1>5, <3>1 DEF c
    <3>4. ~Window[m + 1].start
      BY <2>4, <3>1, <3>2, <3>3 DEF Cuts
    <3>5. Window[m + 1] = file[i + 1]
      BY <1>4, <3>1
    <3>6. file[i + 1].start <=> file[i].end
      BY <1>1, <2>1 DEF TypeInv, Stream
    <3> QED
      BY <3>4, <3>5, <3>6
  <2> QED
    BY <1>3, <2>1, <2>2, <2>3, <2>4
<1>12. Base \in 0 .. Cursor /\ to \in Cursor .. read /\ read <= Len(file)
       /\ Cursor \in Nat /\ read \in Nat /\ Len(file) \in Nat
  BY <1>3, <1>6, <1>9
<1>13. to = Cursor + Consumed
  BY DEF c
<1> HIDE DEF to, Parsed, Consumed
<1>14. Parsed = SubSeq(file, Base + 1, Cursor + Consumed) /\ Cursor + Consumed \in Cursor .. read
  BY <1>10, <1>12, <1>13, Zenon
<1> QED
  BY <1>10, <1>11, <1>12, <1>14

-----------------------------------------------------------------------------
(* One lemma for each step.                                                 *)

Labels == {"fill", "parse", "refill", "flush", "done", "failed", "crash"}

(* The types after a step.                                                  *)
LEMMA TypesKept ==
  ASSUME TypeInv, UNCHANGED <<program, file>>, read' \in 0 .. Len(file), feof' \in BOOLEAN,
         inbuf' \in [1 .. InbufSize -> StreamByte], data' \in Nat, dataSize' \in Nat,
         data' + dataSize' <= InbufSize, pending' \in Seq(StreamByte),
         decoder' \in Codec(Seq(StreamByte)), out' \in Seq(Seq(StreamByte)),
         frame' \in BOOLEAN, pc' \in Labels
  PROVE  TypeInv'
<1>1. decoder'.draining \in BOOLEAN
  BY DEF Codec
<1>2. Stream(file)' /\ file' = file
  <2>1. Stream(file) /\ file' = file
    BY DEF TypeInv
  <2> QED
    BY <2>1 DEF Stream
<1>3. DOMAIN inbuf' = 1 .. InbufSize
  OBVIOUS
<1>4. ParseTypeOK'
  BY <1>1, <1>2, <1>3 DEF TypeInv, ParseTypeOK, Labels, Files
<1> QED
  BY <1>2, <1>4 DEF TypeInv

(* What the variables that most steps keep satisfy.                         *)
LEMMA TypesBefore ==
  ASSUME TypeInv
  PROVE  /\ read \in 0 .. Len(file) /\ feof \in BOOLEAN /\ inbuf \in [1 .. InbufSize -> StreamByte]
         /\ data \in Nat /\ dataSize \in Nat /\ data + dataSize <= InbufSize
         /\ pending \in Seq(StreamByte) /\ decoder \in Codec(Seq(StreamByte))
         /\ out \in Seq(Seq(StreamByte)) /\ frame \in BOOLEAN
  BY DEF TypeInv, ParseTypeOK

(* A step that does not parse.                                              *)
LEMMA PacketsKept ==
  ASSUME BytesInv, CutInv, Cursor' = Cursor, Packets' = Packets, UNCHANGED <<file, program, pending>>,
         pc' = "done" => decoder'.held = <<>>
  PROVE  BytesInv' /\ CutInv'
<1>2. Base' = Base
  BY DEF Base
<1>3. BytesInv'
  BY DEF BytesInv
<1>4. \A i : Inside(i)' = Inside(i)
  BY DEF Inside
<1>5. \A k, packet : IsFrame(k, packet)' = IsFrame(k, packet)
  BY DEF IsFrame
<1> HIDE DEF Packets, Base, Cursor, Inside, IsFrame
<1>6. CutInv'
  BY <1>2, <1>4, <1>5 DEF CutInv
<1> QED
  BY <1>3, <1>6

(* A step that neither parses nor receives.                                 *)
LEMMA SamePlace ==
  ASSUME BytesInv, CutInv, Cursor' = Cursor, UNCHANGED <<file, program, pending, decoder, out>>, pc' # "done"
  PROVE  BytesInv' /\ CutInv'
<1>1. Packets' = Packets
  BY DEF Packets
<1> QED
  BY <1>1, PacketsKept

(* The rest of the buffer is read behind the bytes that are kept.           *)
LEMMA Loaded ==
  ASSUME TypeInv, BufferInv, NEW buffer \in [1 .. InbufSize -> StreamByte],
         NEW n \in Nat \ {0}, dataSize + n = InbufSize, Fread(buffer, dataSize, n),
         \A i \in 1 .. dataSize : buffer[i] = inbuf[data + i],
         data' = 0, dataSize' = dataSize + Given(n), UNCHANGED file
  PROVE  /\ inbuf' \in [1 .. InbufSize -> StreamByte] /\ read' \in 0 .. Len(file)
         /\ feof' \in BOOLEAN /\ dataSize' \in Nat /\ data' + dataSize' <= InbufSize
         /\ Cursor' = Cursor /\ \A i \in 1 .. dataSize' : inbuf'[data' + i] = file'[Cursor' + i]
         /\ feof' => read' = Len(file)
         /\ ~Remains(dataSize') => dataSize' = 0 /\ read' = Len(file)
<1>1. /\ Cursor >= 0 /\ (\A i \in 1 .. dataSize : inbuf[data + i] = file[Cursor + i])
      /\ feof => read = Len(file)
  BY DEF BufferInv
<1>2. /\ InbufSize \in Nat \ {0} /\ dataSize \in Nat /\ read \in Nat /\ Len(file) \in Nat
      /\ read <= Len(file) /\ Cursor \in Nat /\ read = Cursor + dataSize /\ file \in Seq(StreamByte)
  BY <1>1, BufferTypes
<1> DEFINE g == Given(n)
<1>3. /\ g \in Nat /\ g <= n /\ read + g \in 0 .. Len(file)
      /\ g = n \/ (g < n /\ read + g = Len(file))
  BY GivenIs
<1>4. /\ inbuf' = [i \in 1 .. InbufSize |->
                    IF i \in dataSize + 1 .. dataSize + g THEN file[read + i - dataSize] ELSE buffer[i]]
      /\ read' = read + g /\ feof' = (feof \/ g < n) /\ dataSize' = dataSize + g
  BY DEF Fread
<1>5. feof \in BOOLEAN
  BY TypesBefore
<1> HIDE DEF g
<1>6. Cursor' = Cursor
  <2>1. Cursor' = read' - dataSize'
    BY DEF Cursor
  <2> HIDE DEF Cursor
  <2> QED
    BY <1>2, <1>3, <1>4, <2>1
<1> HIDE DEF Cursor
<1>7. inbuf' \in [1 .. InbufSize -> StreamByte]
  <2>1. ASSUME NEW i \in 1 .. InbufSize, i \in dataSize + 1 .. dataSize + g
        PROVE  file[read + i - dataSize] \in StreamByte
    <3> DEFINE m == read + i - dataSize
    <3>1. m \in 1 .. Len(file)
      BY <1>2, <1>3, <2>1
    <3> HIDE DEF m, StreamByte
    <3>2. file[m] \in StreamByte
      BY <1>2, <3>1
    <3> QED
      BY <3>2 DEF m
  <2> HIDE DEF StreamByte
  <2> QED
    BY <1>4, <2>1
<1>8. ASSUME NEW i \in 1 .. dataSize + g
      PROVE  inbuf'[i] = file[Cursor + i]
  <2>1. i \in 1 .. InbufSize
    BY <1>2, <1>3
  <2>2. CASE i <= dataSize
    <3>1. i \in 1 .. dataSize /\ i \notin dataSize + 1 .. dataSize + g
      BY <1>2, <1>3, <2>2
    <3>2. inbuf'[i] = buffer[i]
      BY <1>4, <2>1, <3>1
    <3> QED
      BY <1>1, <3>1, <3>2
  <2>3. CASE i > dataSize
    <3>1. i \in dataSize + 1 .. dataSize + g /\ read + i - dataSize = Cursor + i
      BY <1>2, <1>3, <2>3
    <3> QED
      BY <1>4, <2>1, <3>1
  <2> QED
    BY <1>2, <2>2, <2>3
<1>9. \A i \in 1 .. dataSize' : inbuf'[data' + i] = file'[Cursor' + i]
  <2> SUFFICES ASSUME NEW i \in 1 .. dataSize' PROVE inbuf'[data' + i] = file'[Cursor' + i]
    OBVIOUS
  <2>1. data' + i = i /\ i \in 1 .. dataSize + g
    BY <1>2, <1>3, <1>4
  <2> QED
    BY <1>6, <1>8, <2>1
<1>10. feof' \in BOOLEAN /\ (feof' => read' = Len(file))
  <2>1. CASE g = n
    <3>1. feof' = feof
      BY <1>2, <1>3, <1>4, <1>5, <2>1
    <3>2. feof => read + g = Len(file)
      BY <1>1, <1>2, <1>3
    <3> QED
      BY <1>4, <1>5, <3>1, <3>2
  <2>2. CASE g < n /\ read + g = Len(file)
    BY <1>4, <1>5, <2>2
  <2> QED
    BY <1>3, <2>1, <2>2
<1>11. ~Remains(dataSize') => dataSize' = 0 /\ read' = Len(file)
  <2> SUFFICES ASSUME ~(dataSize' > 0) PROVE dataSize' = 0 /\ read' = Len(file)
    BY DEF Remains
  <2>1. dataSize = 0 /\ g = 0
    BY <1>2, <1>3, <1>4
  <2>2. g # n
    BY <2>1
  <2> QED
    BY <1>2, <1>3, <1>4, <2>1, <2>2
<1>12. read' \in 0 .. Len(file) /\ dataSize' \in Nat /\ data' + dataSize' <= InbufSize
  BY <1>2, <1>3, <1>4
<1> QED
  BY <1>6, <1>7, <1>9, <1>10, <1>11, <1>12

(* The first and, for video, every read of a buffer.                        *)
LEMMA FillInv ==
  ASSUME StreamInv, FillAudio \/ FillVideo
  PROVE  StreamInv'
<1>1. TypeInv /\ BufferInv /\ FrameInv /\ BytesInv /\ CutInv
  BY DEF StreamInv
<1>2. /\ pc = "fill" /\ UNCHANGED <<program, file, pending, decoder, frame, out>>
      /\ pc' \in {"parse", "flush"} /\ program \in {"audio", "video"}
      /\ \/ feof /\ program = "video" /\ pc' = "flush" /\ UNCHANGED <<read, feof, inbuf, data, dataSize>>
         \/ /\ Fread(inbuf, 0, InbufSize) /\ dataSize' = Given(InbufSize) /\ data' = 0
            /\ pc' = IF Remains(dataSize') THEN "parse" ELSE "flush"
  BY DEF FillAudio, FillVideo, bufferVars
<1>3. /\ dataSize = 0 /\ Cursor >= 0 /\ \A i \in 1 .. dataSize : inbuf[data + i] = file[Cursor + i]
      /\ program = "audio" => read = 0
      /\ feof => read = Len(file)
  BY <1>1, <1>2 DEF BufferInv
<1>4. /\ read \in 0 .. Len(file) /\ feof \in BOOLEAN /\ inbuf \in [1 .. InbufSize -> StreamByte]
      /\ data \in Nat /\ dataSize \in Nat /\ data + dataSize <= InbufSize
      /\ pending \in Seq(StreamByte) /\ decoder \in Codec(Seq(StreamByte))
      /\ out \in Seq(Seq(StreamByte)) /\ frame \in BOOLEAN
  BY <1>1, TypesBefore
<1>5. ~frame => program = "audio"
  BY <1>1 DEF FrameInv
<1>6. file \in Seq(StreamByte) /\ Len(file) \in Nat /\ (Len(file) = 0 => file = <<>>)
  <2>1. file \in Seq(StreamByte)
    BY <1>1 DEF TypeInv, Stream
  <2> HIDE DEF StreamByte
  <2> QED
    BY <2>1
<1>7. CASE /\ feof /\ program = "video" /\ pc' = "flush"
           /\ UNCHANGED <<read, feof, inbuf, data, dataSize>>
  <2>1. TypeInv'
    BY <1>1, <1>2, <1>4, <1>7, TypesKept DEF Labels
  <2>2. Cursor' = Cursor
    BY <1>7 DEF Cursor
  <2>3. BufferInv'
    BY <1>2, <1>3, <1>7, <2>2 DEF BufferInv
  <2>4. FrameInv'
    BY <1>2, <1>5, <1>7 DEF FrameInv
  <2>5. BytesInv' /\ CutInv'
    BY <1>1, <1>2, <1>7, <2>2, SamePlace
  <2> QED
    BY <2>1, <2>3, <2>4, <2>5 DEF StreamInv
<1>8. CASE /\ Fread(inbuf, 0, InbufSize) /\ dataSize' = Given(InbufSize) /\ data' = 0
           /\ pc' = IF Remains(dataSize') THEN "parse" ELSE "flush"
  <2>1. InbufSize \in Nat \ {0} /\ Given(InbufSize) \in Nat
    BY <1>1, GivenIs, ParseAssumption
  <2>2. /\ dataSize + InbufSize = InbufSize /\ dataSize' = dataSize + Given(InbufSize)
        /\ Fread(inbuf, dataSize, InbufSize)
        /\ \A i \in 1 .. dataSize : inbuf[i] = inbuf[data + i]
    BY <1>3, <1>8, <2>1
  <2>3. /\ inbuf' \in [1 .. InbufSize -> StreamByte] /\ read' \in 0 .. Len(file)
        /\ feof' \in BOOLEAN /\ dataSize' \in Nat /\ data' + dataSize' <= InbufSize
        /\ Cursor' = Cursor /\ \A i \in 1 .. dataSize' : inbuf'[data' + i] = file'[Cursor' + i]
        /\ feof' => read' = Len(file)
        /\ ~Remains(dataSize') => dataSize' = 0 /\ read' = Len(file)
    BY <1>1, <1>2, <1>4, <1>8, <2>1, <2>2, Loaded
  <2>4. TypeInv'
    BY <1>1, <1>2, <1>4, <2>3, TypesKept DEF Labels
  <2>5. pc' = "flush" => dataSize' = 0 /\ read' = Len(file)
    BY <1>8, <2>3
  <2>6. BufferInv'
    BY <1>2, <1>3, <2>3, <2>5 DEF BufferInv
  <2>7. pc' = "flush" /\ ~frame => file = <<>>
    <3> SUFFICES ASSUME pc' = "flush", ~frame PROVE Len(file) = 0
      BY <1>6
    <3>1. read = 0 /\ dataSize' = 0 /\ read' = Len(file)
      BY <1>3, <1>5, <2>5
    <3>2. read' = read + Given(InbufSize) /\ dataSize' = Given(InbufSize)
      BY <1>8 DEF Fread
    <3> QED
      BY <2>1, <3>1, <3>2
  <2>8. FrameInv'
    BY <1>2, <1>5, <2>7 DEF FrameInv
  <2>9. BytesInv' /\ CutInv'
    BY <1>1, <1>2, <2>3, SamePlace
  <2> QED
    BY <2>4, <2>6, <2>8, <2>9 DEF StreamInv
<1> QED
  BY <1>2, <1>7, <1>8

(* The bytes that are left are moved to the front, the rest is refilled.    *)
LEMMA RefillInv ==
  ASSUME StreamInv, RefillAudio
  PROVE  StreamInv'
<1>1. TypeInv /\ BufferInv /\ FrameInv /\ BytesInv /\ CutInv
  BY DEF StreamInv
<1>2. /\ pc = "refill" /\ UNCHANGED <<program, file, pending, decoder, frame, out>>
      /\ IF dataSize < RefillThresh
         THEN Fread(Moved, dataSize, Room) /\ data' = 0 /\ dataSize' = dataSize + Given(Room)
         ELSE UNCHANGED <<read, feof, inbuf, data, dataSize>>
      /\ pc' = IF Remains(dataSize') THEN "parse" ELSE "flush"
  BY DEF RefillAudio, bufferVars
<1>3. /\ Cursor >= 0 /\ (\A i \in 1 .. dataSize : inbuf[data + i] = file[Cursor + i])
      /\ feof => read = Len(file)
  BY <1>1 DEF BufferInv
<1>4. /\ read \in 0 .. Len(file) /\ feof \in BOOLEAN /\ inbuf \in [1 .. InbufSize -> StreamByte]
      /\ data \in Nat /\ dataSize \in Nat /\ data + dataSize <= InbufSize
      /\ pending \in Seq(StreamByte) /\ decoder \in Codec(Seq(StreamByte))
      /\ out \in Seq(Seq(StreamByte)) /\ frame \in BOOLEAN
  BY <1>1, TypesBefore
<1>5. InbufSize \in Nat \ {0} /\ RefillThresh \in 1 .. InbufSize
  BY ParseAssumption
<1>6. frame
  BY <1>1, <1>2 DEF FrameInv
<1>7. /\ inbuf' \in [1 .. InbufSize -> StreamByte] /\ read' \in 0 .. Len(file)
      /\ feof' \in BOOLEAN /\ data' \in Nat /\ dataSize' \in Nat /\ data' + dataSize' <= InbufSize
      /\ Cursor' = Cursor /\ \A i \in 1 .. dataSize' : inbuf'[data' + i] = file'[Cursor' + i]
      /\ feof' => read' = Len(file)
      /\ ~Remains(dataSize') => dataSize' = 0 /\ read' = Len(file)
  <2>1. CASE dataSize < RefillThresh
    <3>1. Room \in Nat \ {0} /\ dataSize + Room = InbufSize
      BY <1>4, <1>5, <2>1 DEF Room
    <3>2. Moved \in [1 .. InbufSize -> StreamByte]
      <4> HIDE DEF StreamByte
      <4> QED
        BY <1>4, <1>5 DEF Moved
    <3>3. \A i \in 1 .. dataSize : Moved[i] = inbuf[data + i]
      BY <1>4, <1>5 DEF Moved
    <3>4. Fread(Moved, dataSize, Room) /\ data' = 0 /\ dataSize' = dataSize + Given(Room) /\ UNCHANGED file
      BY <1>2, <2>1
    <3> HIDE DEF Moved, Room
    <3>5. data' \in Nat
      BY <3>4
    <3> QED
      BY <1>1, <3>1, <3>2, <3>3, <3>4, <3>5, Loaded
  <2>2. CASE ~(dataSize < RefillThresh)
    <3>1. UNCHANGED <<read, feof, inbuf, data, dataSize, file>>
      BY <1>2, <2>2
    <3>2. Remains(dataSize')
      BY <1>4, <1>5, <2>2, <3>1 DEF Remains
    <3>3. Cursor' = Cursor
      BY <3>1 DEF Cursor
    <3> QED
      BY <1>3, <1>4, <3>1, <3>2, <3>3
  <2> QED
    BY <2>1, <2>2
<1>8. pc' \in {"parse", "flush"} /\ (pc' = "flush" => dataSize' = 0 /\ read' = Len(file))
  BY <1>2, <1>7
<1>9. TypeInv'
  BY <1>1, <1>2, <1>4, <1>7, <1>8, TypesKept DEF Labels
<1>10. BufferInv'
  BY <1>2, <1>3, <1>7, <1>8 DEF BufferInv
<1>11. FrameInv'
  BY <1>2, <1>6, <1>8 DEF FrameInv
<1>12. BytesInv' /\ CutInv'
  BY <1>1, <1>2, <1>7, <1>8, SamePlace
<1> QED
  BY <1>9, <1>10, <1>11, <1>12 DEF StreamInv

(* The packets that were cut.                                               *)
LEMMA PacketsType ==
  ASSUME TypeInv
  PROVE  Packets \in Seq(Seq(StreamByte))
<1> DEFINE P == Seq(StreamByte)
<1>1. out \in Seq(P) /\ decoder.held \in Seq(P)
  BY DEF TypeInv, Codec
<1> HIDE DEF P
<1>2. out \o decoder.held \in Seq(P)
  BY <1>1
<1> QED
  BY <1>2 DEF Packets, P

(* Parsing moves the window on, by what was consumed.                       *)
LEMMA WindowMoves ==
  ASSUME StreamInv, Parse
  PROVE  /\ Cursor' = Cursor + Consumed /\ BufferInv' /\ FrameInv'
         /\ data' \in Nat /\ dataSize' \in Nat /\ data' + dataSize' <= InbufSize
         /\ pc' \in {"refill", "parse", "fill"} /\ frame' = TRUE
         /\ UNCHANGED <<program, file, read, feof, inbuf>>
<1>1. TypeInv /\ BufferInv
  BY DEF StreamInv
<1>2. /\ pc = "parse" /\ frame' = TRUE /\ data' = data + Consumed /\ dataSize' = dataSize - Consumed
      /\ UNCHANGED <<program, file, read, feof, inbuf>>
      /\ pc' = CASE program = "audio" -> "refill"
                 [] program = "video" /\ Remains(dataSize') -> "parse"
                 [] OTHER -> "fill"
  BY DEF Parse, FrameInLoop
<1>3. /\ Cursor >= 0 /\ (\A i \in 1 .. dataSize : inbuf[data + i] = file[Cursor + i])
      /\ feof => read = Len(file)
  BY <1>1 DEF BufferInv
<1>4. /\ data \in Nat /\ dataSize \in Nat /\ data + dataSize <= InbufSize /\ InbufSize \in Nat
      /\ read \in Nat /\ Cursor \in Nat /\ read = Cursor + dataSize
  BY <1>1, <1>3, BufferTypes
<1>5. Consumed \in 0 .. dataSize
  BY <1>1, ConsumedIs
<1>6. Cursor' = Cursor + Consumed
  <2>1. Cursor' = read' - dataSize'
    BY DEF Cursor
  <2> HIDE DEF Cursor, Consumed
  <2> QED
    BY <1>2, <1>4, <1>5, <2>1
<1> HIDE DEF Cursor, Consumed
<1>7. data' \in Nat /\ dataSize' \in Nat /\ data' + dataSize' <= InbufSize
  BY <1>2, <1>4, <1>5
<1>8. \A i \in 1 .. dataSize' : inbuf'[data' + i] = file'[Cursor' + i]
  <2> SUFFICES ASSUME NEW i \in 1 .. dataSize' PROVE inbuf[data' + i] = file[Cursor' + i]
    BY <1>2
  <2>1. Consumed + i \in 1 .. dataSize /\ data' + i = data + (Consumed + i) /\ Cursor' + i = Cursor + (Consumed + i)
    BY <1>2, <1>4, <1>5, <1>6
  <2> QED
    BY <1>3, <2>1
<1>9. program \in {"audio", "video"}
  BY <1>1, ParseAssumption DEF TypeInv, ParseTypeOK
<1>10. /\ pc' \in {"refill", "parse", "fill"} /\ (pc' = "fill" => program = "video" /\ ~Remains(dataSize'))
       /\ pc' = "refill" => program = "audio"
  BY <1>2, <1>9
<1>11. pc' = "fill" => dataSize' = 0
  BY <1>7, <1>10 DEF Remains
<1>12. BufferInv'
  <2>1. Cursor' >= 0
    BY <1>4, <1>5, <1>6
  <2>2. feof' => read' = Len(file')
    BY <1>2, <1>3
  <2> QED
    BY <1>2, <1>8, <1>10, <1>11, <2>1, <2>2 DEF BufferInv
<1>13. FrameInv'
  BY <1>2, <1>10 DEF FrameInv
<1> QED
  BY <1>2, <1>6, <1>7, <1>10, <1>12, <1>13

(* What the parser has comes behind the packets that were cut.              *)
LEMMA ParsedOrder ==
  ASSUME StreamInv
  PROVE  FlattenSeq(Packets) \o Parsed = SubSeq(file, 1, Cursor + Consumed)
<1>1. TypeInv /\ BytesInv /\ CutInv
  BY DEF StreamInv
<1>2. /\ Parsed = SubSeq(file, Base + 1, Cursor + Consumed)
      /\ Base \in 0 .. Cursor /\ Cursor + Consumed \in Cursor .. read /\ read <= Len(file)
      /\ Cursor \in Nat /\ read \in Nat /\ Len(file) \in Nat
  BY ParsedIs
<1>3. file \in Seq(StreamByte)
  BY <1>1 DEF TypeInv, Stream
<1>4. FlattenSeq(Packets) \in Seq(StreamByte)
  BY <1>1, PacketsType, FlattenType
<1>5. FlattenSeq(Packets) \o pending = SubSeq(file, 1, Cursor)
  BY <1>1 DEF BytesInv
<1>6. pending = SubSeq(file, Base + 1, Cursor) /\ pending \in Seq(StreamByte)
  BY <1>1 DEF CutInv, TypeInv
<1> DEFINE to == Cursor + Consumed
           part == SubSeq(file, Cursor + 1, to)
<1> HIDE DEF Packets, Base, Cursor, Consumed, Parsed
<1>7. /\ Base \in 0 .. Len(file) /\ 0 \in 0 .. Len(file) /\ Cursor \in Base .. Len(file) /\ Cursor \in 0 .. Len(file)
      /\ to \in Cursor .. Len(file) /\ 0 + 1 = 1
  BY <1>2
<1>8. Parsed = SubSeq(file, Base + 1, to)
  BY <1>2
<1> HIDE DEF to
<1>9. part \in Seq(StreamByte)
  BY <1>3, <1>7, PartOf
<1>10. Parsed = pending \o part
  BY <1>3, <1>6, <1>7, <1>8, NeighboursJoin
<1>11. SubSeq(file, 1, Cursor) \o part = SubSeq(file, 1, to)
  <2>1. SubSeq(file, 0 + 1, Cursor) \o SubSeq(file, Cursor + 1, to) = SubSeq(file, 0 + 1, to)
    BY <1>3, <1>7, NeighboursJoin
  <2> QED
    BY <1>7, <2>1
<1> HIDE DEF part, StreamByte
<1>12. (FlattenSeq(Packets) \o pending) \o part = FlattenSeq(Packets) \o (pending \o part)
  <2> DEFINE cut == FlattenSeq(Packets)
  <2>1. cut \in Seq(StreamByte) /\ pending \in Seq(StreamByte) /\ part \in Seq(StreamByte)
    BY <1>4, <1>6, <1>9
  <2> HIDE DEF cut
  <2>2. (cut \o pending) \o part = cut \o (pending \o part)
    BY <2>1, CatAssoc
  <2> QED
    BY <2>2 DEF cut
<1> QED
  BY <1>5, <1>10, <1>11, <1>12 DEF to

(* A frame that is not complete is kept.                                    *)
LEMMA FrameKept ==
  ASSUME StreamInv, Parse, Cuts = {}
  PROVE  StreamInv'
<1>1. TypeInv /\ BytesInv /\ CutInv
  BY DEF StreamInv
<1>2. /\ Cursor' = Cursor + Consumed /\ BufferInv' /\ FrameInv'
      /\ data' \in Nat /\ dataSize' \in Nat /\ data' + dataSize' <= InbufSize
      /\ pc' \in {"refill", "parse", "fill"} /\ frame' = TRUE
      /\ UNCHANGED <<program, file, read, feof, inbuf>>
  BY WindowMoves
<1>3. pending' = Parsed /\ UNCHANGED <<decoder, out>>
  BY DEF Parse, Packet
<1>4. /\ Parsed = SubSeq(file, Base + 1, Cursor + Consumed) /\ Parsed \in Seq(StreamByte)
      /\ Base \in 0 .. Cursor /\ Cursor + Consumed \in Cursor .. read /\ read <= Len(file)
      /\ Cursor \in Nat /\ read \in Nat /\ Len(file) \in Nat
      /\ \A i \in Base + 1 .. Cursor + Consumed - 1 : ~file[i].end
  BY ParsedIs
<1>5. file \in Seq(StreamByte)
  BY <1>1 DEF TypeInv, Stream
<1>6. TypeInv'
  BY <1>1, <1>2, <1>3, <1>4, TypesBefore, TypesKept DEF Labels
<1> DEFINE to == Cursor + Consumed
<1>7. to \in Nat /\ to \in Cursor .. read /\ to \in Base .. Len(file) /\ Base \in Nat /\ Cursor \in Base .. Len(file)
      /\ Base \in 0 .. Len(file) /\ 0 \in 0 .. Len(file)
  BY <1>4
<1>8. Consumed = dataSize /\ read = Cursor + dataSize /\ dataSize \in Nat
  <2>1. dataSize \in Nat /\ Consumed = dataSize
    BY <1>1, ConsumedIs DEF TypeInv, ParseTypeOK
  <2> HIDE DEF Consumed
  <2> QED
    BY <1>4, <2>1 DEF Cursor
<1>9. Packets' = Packets
  BY <1>3 DEF Packets
<1>10. /\ Cursor' = to /\ pending' = SubSeq(file, Base + 1, to) /\ \A i \in Base + 1 .. to - 1 : ~file[i].end
       /\ to = Cursor + dataSize
  <2> HIDE DEF Consumed, Cursor, Base, Parsed
  <2> QED
    BY <1>2, <1>3, <1>4, <1>8
<1>11. Base' = Base
  <2>1. Len(pending') = to - Base
    BY <1>5, <1>7, <1>10, PartOf
  <2>2. Base' = Cursor' - Len(pending')
    BY DEF Base
  <2> HIDE DEF Base, to
  <2> QED
    BY <1>7, <1>10, <2>1, <2>2
<1> HIDE DEF Packets, Base, Cursor, to
<1>12. ASSUME NEW i \in Base + 1 .. to PROVE Inside(i)'
  <2>1. CASE i < to
    <3>1. i \in Base + 1 .. to - 1
      BY <1>7, <2>1
    <3>2. ~file'[i].end
      BY <1>2, <1>10, <3>1
    <3> QED
      BY <3>2 DEF Inside
  <2>2. CASE i = to /\ i = Cursor
    <3>1. i \in Base + 1 .. Cursor
      BY <2>2
    <3>2. Inside(i) /\ ~(i < Cursor) /\ ~(i < Cursor')
      BY <1>1, <1>10, <1>4, <2>2, <3>1 DEF CutInv
    <3> QED
      BY <1>2, <3>2 DEF Inside
  <2>3. CASE i = to /\ i # Cursor /\ program = "audio"
    <3>1. dataSize \in 1 .. dataSize /\ to = Cursor + dataSize
      BY <1>4, <1>7, <1>8, <1>10, <2>3
    <3>2. ~Window[dataSize].end
      BY <2>3, <3>1 DEF Cuts
    <3>3. Window[dataSize] = file[Cursor + dataSize]
      <4>1. TypeInv /\ BufferInv
        BY DEF StreamInv
      <4> QED
        BY <3>1, <4>1, WindowIs
    <3>4. ~file'[i].end
      BY <1>2, <2>3, <3>1, <3>2, <3>3
    <3> QED
      BY <3>4 DEF Inside
  <2>4. CASE i = to /\ program # "audio"
    <3>1. ~(i < Cursor')
      BY <1>7, <1>10, <2>4
    <3> QED
      BY <1>2, <2>4, <3>1 DEF Inside
  <2> QED
    BY <1>7, <2>1, <2>2, <2>3, <2>4
<1>13. BytesInv'
  <2>1. FlattenSeq(Packets) \o Parsed = SubSeq(file, 1, Cursor + Consumed)
    BY ParsedOrder
  <2> HIDE DEF Parsed, Consumed
  <2> QED
    BY <1>2, <1>3, <1>9, <2>1 DEF BytesInv
<1>14. CutInv'
  <2>1. \A i \in Base' + 1 .. Cursor' : Inside(i)'
    BY <1>10, <1>11, <1>12
  <2>2. \A k, packet : IsFrame(k, packet)' = IsFrame(k, packet)
    BY <1>2 DEF IsFrame
  <2>3. pc' # "done"
    BY <1>2
  <2> HIDE DEF Inside, IsFrame
  <2>4. Base' >= 0 /\ pending' = SubSeq(file', Base' + 1, Cursor')
    <3>1. Base' >= 0
      BY <1>7, <1>11
    <3>2. pending' = SubSeq(file', Base' + 1, Cursor')
      BY <1>2, <1>10, <1>11, Zenon
    <3> QED
      BY <3>1, <3>2
  <2>5. /\ Base' = 0 => Packets' = <<>>
        /\ Base' > 0 => file'[Base'].end /\ file'[Base'].frame = Len(Packets')
    BY <1>1, <1>2, <1>9, <1>11 DEF CutInv
  <2>6. (\A k \in DOMAIN Packets : IsFrame(k, Packets[k]))'
    BY <1>1, <1>9, <2>2 DEF CutInv
  <2> QED
    BY <2>1, <2>3, <2>4, <2>5, <2>6 DEF CutInv
<1> QED
  BY <1>2, <1>6, <1>13, <1>14 DEF StreamInv

(* The bytes up to the cut are one frame, the next.                         *)
LEMMA CutIsFrame ==
  ASSUME StreamInv, Cuts # {}
  PROVE  /\ Base + 1 \in DOMAIN file /\ Cursor + Consumed \in DOMAIN file /\ Base < Cursor + Consumed
         /\ file[Base + 1].start /\ file[Base + 1].frame = Len(Packets) + 1
         /\ file[Cursor + Consumed].end /\ file[Cursor + Consumed].frame = Len(Packets) + 1
<1>1. TypeInv /\ BufferInv /\ CutInv
  BY DEF StreamInv
<1>2. /\ Base \in 0 .. Cursor /\ Cursor + Consumed \in Cursor .. read /\ read <= Len(file)
      /\ Cursor \in Nat /\ read \in Nat /\ Len(file) \in Nat
      /\ \A i \in Base + 1 .. Cursor + Consumed - 1 : ~file[i].end
  BY ParsedIs
<1>3. Consumed \in Cuts /\ Consumed \in 0 .. dataSize
  BY <1>1, ConsumedIs
<1>4. /\ dataSize \in Nat /\ pending \in Seq(StreamByte)
      /\ Stream(file) /\ DOMAIN file = 1 .. Len(file)
  BY <1>1, StreamBytes DEF TypeInv, ParseTypeOK
<1>5. read = Cursor + dataSize /\ Len(pending) \in Nat /\ Base = Cursor - Len(pending) /\ (Len(pending) = 0 => pending = <<>>)
  <2>1. Len(pending) \in Nat /\ (Len(pending) = 0 => pending = <<>>)
    <3> HIDE DEF StreamByte
    <3> QED
      BY <1>4
  <2>2. read = Cursor + dataSize
    BY <1>2, <1>4 DEF Cursor
  <2> QED
    BY <2>1, <2>2 DEF Base
<1>6. \A i \in 1 .. dataSize : Window[i] = file[Cursor + i]
  BY <1>1, WindowIs
<1> DEFINE to == Cursor + Consumed
           a == Base + 1
<1>7. \A i \in a .. to - 1 : ~file[i].end
  <2>1. Consumed \in Nat
    BY <1>3, <1>4
  <2> HIDE DEF Cursor, Base, Consumed
  <2>2. to - 1 = Cursor + Consumed - 1
    BY <1>2, <2>1
  <2> QED
    BY <1>2, <2>2
<1>8. to > Base /\ to \in 1 .. Len(file) /\ file[to].end
  <2>1. CASE program = "audio"
    <3>1. Consumed \in 1 .. dataSize /\ Window[Consumed].end
      BY <1>3, <2>1 DEF Cuts
    <3> HIDE DEF Cursor, Base, Consumed
    <3>2. to > Base /\ to \in 1 .. Len(file)
      BY <1>2, <3>1
    <3>3. Window[Consumed] = file[to]
      BY <1>6, <3>1
    <3> QED
      BY <3>1, <3>2, <3>3
  <2>2. CASE program # "audio"
    <3>1. /\ Consumed \in 0 .. dataSize - 1 /\ Window[Consumed + 1].start
          /\ Consumed > 0 \/ pending # <<>>
      BY <1>3, <2>2 DEF Cuts
    <3> HIDE DEF Cursor, Base, Consumed
    <3>2. Consumed > 0 \/ Base < Cursor
      BY <1>2, <1>5, <3>1
    <3>3. to > Base /\ to \in 1 .. Len(file) - 1 /\ to \in 1 .. Len(file)
      BY <1>2, <1>4, <1>5, <3>1, <3>2
    <3>4. Consumed + 1 \in 1 .. dataSize /\ Cursor + (Consumed + 1) = to + 1
      BY <1>2, <1>4, <3>1
    <3>5. file[to + 1].start
      BY <1>6, <3>1, <3>4
    <3> HIDE DEF to
    <3>6. file[to + 1].start <=> file[to].end
      BY <1>4, <3>3 DEF Stream
    <3> QED
      BY <3>3, <3>5, <3>6
  <2> QED
    BY <2>1, <2>2
<1>9. /\ Base = 0 => Packets = <<>>
      /\ Base > 0 => file[Base].end /\ file[Base].frame = Len(Packets)
  BY <1>1 DEF CutInv
<1> HIDE DEF Packets, Base, Cursor, Consumed, to
<1>10. a \in 1 .. Len(file) /\ a <= to /\ a \in Nat /\ Base \in Nat
  BY <1>2, <1>8
<1>11. file[a].start /\ file[a].frame = Len(Packets) + 1
  <2>1. CASE Base = 0
    <3>1. file # <<>>
      <4>1. Len(file) # 0 /\ Len(<<>>) = 0
        BY <1>10
      <4> QED
        BY <4>1, Zenon
    <3>2. a = 1 /\ Len(Packets) + 1 = 1
      BY <1>9, <2>1
    <3> QED
      BY <1>4, <3>1, <3>2 DEF Stream
  <2>2. CASE Base > 0
    <3>1. Base \in 1 .. Len(file) - 1
      BY <1>10, <2>2
    <3>2. (file[Base + 1].start <=> file[Base].end) /\ file[Base + 1].frame = IF file[Base].end THEN file[Base].frame + 1 ELSE file[Base].frame
      BY <1>4, <3>1 DEF Stream
    <3> QED
      BY <1>9, <2>2, <3>2
  <2> QED
    BY <1>10, <2>1, <2>2
<1>12. file[to].frame = file[a].frame
  <2> HIDE DEF a
  <2> QED
    BY <1>4, <1>7, <1>8, <1>10, SameFrame
<1> QED
  BY <1>4, <1>8, <1>10, <1>11, <1>12 DEF to

(* A packet is cut, and the decoder takes it.                               *)
LEMMA FrameSent ==
  ASSUME StreamInv, Parse, Cuts # {}
  PROVE  StreamInv'
<1>1. TypeInv /\ CutInv
  BY DEF StreamInv
<1>2. /\ Cursor' = Cursor + Consumed /\ BufferInv' /\ FrameInv'
      /\ data' \in Nat /\ dataSize' \in Nat /\ data' + dataSize' <= InbufSize
      /\ pc' \in {"refill", "parse", "fill"} /\ frame' = TRUE
      /\ UNCHANGED <<program, file, read, feof, inbuf>>
  BY WindowMoves
<1>3. /\ Parsed = SubSeq(file, Base + 1, Cursor + Consumed) /\ Parsed \in Seq(StreamByte)
      /\ Base \in 0 .. Cursor /\ Cursor + Consumed \in Cursor .. read /\ read <= Len(file)
      /\ Cursor \in Nat /\ read \in Nat /\ Len(file) \in Nat
  BY ParsedIs
<1>4. /\ Base + 1 \in DOMAIN file /\ Cursor + Consumed \in DOMAIN file /\ Base < Cursor + Consumed
      /\ file[Base + 1].start /\ file[Base + 1].frame = Len(Packets) + 1
      /\ file[Cursor + Consumed].end /\ file[Cursor + Consumed].frame = Len(Packets) + 1
  BY CutIsFrame
<1>5. FlattenSeq(Packets) \o Parsed = SubSeq(file, 1, Cursor + Consumed)
  BY ParsedOrder
<1>6. file \in Seq(StreamByte) /\ Packets \in Seq(Seq(StreamByte)) /\ out \in Seq(Seq(StreamByte))
  BY <1>1, PacketsType DEF TypeInv, Stream
<1>7. Parsed # <<>>
  <2> HIDE DEF Parsed, Base, Cursor, Consumed
  <2> DEFINE to == Cursor + Consumed
  <2>1. Base \in 0 .. Len(file) /\ to \in Base .. Len(file) /\ to - Base # 0 /\ Parsed = SubSeq(file, Base + 1, to)
    BY <1>3, <1>4
  <2> HIDE DEF to
  <2>2. Len(Parsed) = to - Base
    BY <1>6, <2>1, PartOf
  <2>3. Len(Parsed) # 0 /\ Len(<<>>) = 0
    BY <2>1, <2>2
  <2> QED
    BY <2>3, Zenon
<1>8. Packet = Parsed
  BY DEF Packet
<1>9. pending' = <<>> /\ ReceiveAll(Accept(decoder, Parsed))
  BY <1>7, <1>8 DEF Parse
<1> DEFINE to == Cursor + Consumed
           x == Parsed
           c == Accept(decoder, x)
           P == Seq(StreamByte)
<1>10. c \in Codec(P) /\ c.held = Append(decoder.held, x) /\ decoder.held \in Seq(P) /\ x \in P
  BY <1>1, <1>3, DecoderChanged DEF TypeInv, Codec
<1>11. out' \in Seq(P) /\ decoder' \in Codec(P) /\ Packets' = out \o c.held
  <2> HIDE DEF c, x
  <2> QED
    BY <1>6, <1>9, <1>10, ReceivedAll DEF c, x
<1>12. Packets' = Append(Packets, x)
  <2> HIDE DEF P, c, x
  <2>1. out \o Append(decoder.held, x) = Append(out \o decoder.held, x)
    <3> DEFINE h == decoder.held
    <3>1. out \in Seq(P) /\ h \in Seq(P) /\ x \in P
      BY <1>6, <1>10 DEF P
    <3> HIDE DEF h
    <3>2. out \o Append(h, x) = Append(out \o h, x)
      BY ONLY <3>1
    <3> QED
      BY <3>2 DEF h
  <2> QED
    BY <1>10, <1>11, <2>1 DEF Packets
<1>13. pending' \in Seq(StreamByte)
  <2> HIDE DEF StreamByte
  <2> QED
    BY <1>9
<1>14. TypeInv'
  BY <1>1, <1>2, <1>11, <1>13, TypesBefore, TypesKept DEF Labels
<1>15. Base' = to /\ to \in Nat /\ to > 0 /\ Cursor' = to
  <2>1. Base' = Cursor' - Len(pending') /\ Len(pending') = 0
    BY <1>9 DEF Base
  <2>2. Cursor' = to /\ Base \in Nat /\ Cursor \in Nat /\ to \in Cursor .. read /\ read \in Nat /\ Base < to
    BY <1>2, <1>3, <1>4
  <2> HIDE DEF Base, Cursor, to
  <2> QED
    BY <2>1, <2>2
<1>16. x = SubSeq(file, Base + 1, to) /\ FlattenSeq(Packets) \o x = SubSeq(file, 1, to)
       /\ IsFrame(Len(Packets) + 1, x)
  <2> DEFINE a == Base + 1
             k == Len(Packets) + 1
  <2>1. /\ x = SubSeq(file, a, to) /\ FlattenSeq(Packets) \o x = SubSeq(file, 1, to)
        /\ a \in DOMAIN file /\ to \in DOMAIN file
        /\ file[a].start /\ file[a].frame = k /\ file[to].end /\ file[to].frame = k
    BY <1>3, <1>4, <1>5
  <2> HIDE DEF a, to, x, k
  <2>2. IsFrame(k, x)
    BY <2>1 DEF IsFrame
  <2> QED
    BY <2>1, <2>2 DEF a, k
<1>17. file[to].end /\ file[to].frame = Len(Packets) + 1
  BY <1>4
<1> HIDE DEF Packets, Base, Cursor, to, x, c, Consumed, P
<1>18. BytesInv'
  <2>1. FlattenSeq(Packets') = FlattenSeq(Packets) \o x
    <3>1. Packets \in Seq(Seq(StreamByte)) /\ x \in Seq(StreamByte)
      BY <1>6, <1>10 DEF P
    <3> QED
      BY <1>12, <3>1, FlattenAppend
  <2>2. FlattenSeq(Packets') \in Seq(StreamByte)
    <3>1. Packets' \in Seq(Seq(StreamByte))
      <4>1. Packets \in Seq(P)
        BY <1>6 DEF P
      <4>2. Append(Packets, x) \in Seq(P)
        BY <1>10, <4>1
      <4> QED
        BY <1>12, <4>2 DEF P
    <3> QED
      BY <3>1, FlattenType
  <2>3. FlattenSeq(Packets') \o <<>> = FlattenSeq(Packets')
    <3> HIDE DEF StreamByte
    <3> QED
      BY <2>2
  <2> QED
    BY <1>2, <1>9, <1>15, <1>16, <2>1, <2>3, Zenon DEF BytesInv
<1>19. CutInv'
  <2>1. \A k, packet : IsFrame(k, packet)' = IsFrame(k, packet)
    BY <1>2 DEF IsFrame
  <2>2. Base' >= 0 /\ ~(Base' = 0) /\ \A i \in Base' + 1 .. Cursor' : FALSE
    BY <1>15
  <2>3. pending' = SubSeq(file', Base' + 1, Cursor')
    <3>1. SubSeq(file, to + 1, to) = <<>>
      BY <1>6, <1>15
    <3> QED
      BY <1>2, <1>9, <1>15, <3>1
  <2> DEFINE n == Len(Packets)
  <2>4. /\ n \in Nat /\ Len(Packets') = n + 1 /\ DOMAIN Packets = 1 .. n /\ DOMAIN Packets' = 1 .. n + 1
        /\ \A k \in 1 .. n : Packets'[k] = Packets[k]
        /\ Packets'[n + 1] = x
    <3>1. Packets \in Seq(P)
      BY <1>6 DEF P
    <3> QED
      BY <1>12, <3>1
  <2>5. file'[Base'].end /\ file'[Base'].frame = Len(Packets')
    BY <1>2, <1>15, <1>17, <2>4
  <2>6. IsFrame(n + 1, x)
    BY <1>16
  <2> HIDE DEF IsFrame, n
  <2>7. \A k \in DOMAIN Packets : IsFrame(k, Packets[k])
    BY <1>1 DEF CutInv
  <2>8. \A k \in DOMAIN Packets' : IsFrame(k, Packets'[k])
    <3> SUFFICES ASSUME NEW k \in 1 .. n + 1 PROVE IsFrame(k, Packets'[k])
      BY <2>4
    <3>1. CASE k \in 1 .. n
      BY <2>4, <2>7, <3>1
    <3>2. CASE k = n + 1
      BY <2>4, <2>6, <3>2
    <3> QED
      BY <2>4, <3>1, <3>2
  <2>9. (\A k \in DOMAIN Packets : IsFrame(k, Packets[k]))'
    BY <2>1, <2>8
  <2>10. pc' # "done"
    BY <1>2
  <2>11. (\A i \in Base + 1 .. Cursor : Inside(i))'
    BY <2>2
  <2> HIDE DEF Inside
  <2> QED
    BY <2>2, <2>3, <2>5, <2>9, <2>10, <2>11 DEF CutInv
<1> QED
  BY <1>2, <1>14, <1>18, <1>19 DEF StreamInv

(* Parsing.                                                                 *)
LEMMA ParseInv == ASSUME StreamInv, Parse PROVE StreamInv'
  BY FrameKept, FrameSent

(* At the end the decoder gives what it holds, unless there is no frame.    *)
LEMMA FlushDecoderInv ==
  ASSUME StreamInv, FlushDecoder
  PROVE  StreamInv'
<1>1. TypeInv /\ BufferInv /\ FrameInv /\ BytesInv /\ CutInv
  BY DEF StreamInv
<1>2. /\ pc = "flush" /\ UNCHANGED <<program, file, read, feof, inbuf, data, dataSize, pending, frame>>
      /\ \/ frame /\ ReceiveAll(Drain(decoder)) /\ pc' = "done"
         \/ ~frame /\ decoder' = Drain(decoder) /\ pc' = "crash" /\ UNCHANGED out
  BY DEF FlushDecoder, bufferVars
<1>3. read = Len(file) /\ dataSize = 0
  BY <1>1, <1>2 DEF BufferInv
<1> DEFINE P == Seq(StreamByte)
           c == Drain(decoder)
<1>4. c \in Codec(P) /\ c.held = decoder.held /\ c.draining = TRUE /\ out \in Seq(P)
  <2>1. <<>> \in Seq(StreamByte)
    <3> HIDE DEF StreamByte
    <3> QED
      OBVIOUS
  <2> QED
    BY <1>1, <2>1, DecoderChanged DEF TypeInv
<1>5. /\ out' \in Seq(P) /\ decoder' \in Codec(P) /\ Packets' = Packets
      /\ pc' = "done" => decoder'.held = <<>>
  <2> HIDE DEF P, c
  <2>1. CASE ReceiveAll(c)
    <3>1. /\ out' \in Seq(P) /\ decoder' \in Codec(P) /\ Packets' = out \o c.held
          /\ decoder'.held = <<>>
      BY <1>4, <2>1, ReceivedAll DEF P
    <3> QED
      BY <1>4, <3>1 DEF Packets
  <2>2. CASE decoder' = c /\ pc' = "crash" /\ UNCHANGED out
    BY <1>4, <2>2 DEF Packets
  <2> QED
    BY <1>2, <2>1, <2>2 DEF c
<1>6. TypeInv'
  BY <1>1, <1>2, <1>5, TypesBefore, TypesKept DEF Labels
<1>7. Cursor' = Cursor
  BY <1>2 DEF Cursor
<1>8. BufferInv'
  BY <1>1, <1>2, <1>3, <1>7 DEF BufferInv
<1>9. FrameInv'
  BY <1>1, <1>2 DEF FrameInv
<1>10. BytesInv' /\ CutInv'
  BY <1>1, <1>2, <1>5, <1>7, PacketsKept
<1> QED
  BY <1>6, <1>8, <1>9, <1>10 DEF StreamInv

(* A failed call ends the program, and no step changes nothing.             *)
LEMMA FailInv ==
  ASSUME StreamInv, (Fail \/ UNCHANGED parseVars)
  PROVE  StreamInv'
<1>1. TypeInv /\ BufferInv /\ FrameInv /\ BytesInv /\ CutInv
  BY DEF StreamInv
<1>2. /\ UNCHANGED <<program, file, read, feof, inbuf, data, dataSize, pending, decoder, frame, out>>
      /\ pc' = "failed" \/ pc' = pc
  BY DEF Fail, bufferVars, parseVars
<1>3. pc \in Labels
  BY <1>1 DEF TypeInv, ParseTypeOK, Labels
<1>4. TypeInv'
  <2>1. pc' \in Labels
    BY <1>2, <1>3 DEF Labels
  <2> QED
    BY <1>1, <1>2, <2>1, TypesBefore, TypesKept
<1>5. Cursor' = Cursor /\ Packets' = Packets
  BY <1>2 DEF Cursor, Packets
<1>6. BufferInv'
  BY <1>1, <1>2, <1>5 DEF BufferInv
<1>7. FrameInv'
  BY <1>1, <1>2 DEF FrameInv
<1>8. pc' = "done" => decoder'.held = <<>>
  BY <1>1, <1>2 DEF CutInv
<1>9. BytesInv' /\ CutInv'
  BY <1>1, <1>2, <1>5, <1>8, PacketsKept
<1> QED
  BY <1>4, <1>6, <1>7, <1>9 DEF StreamInv

(* Before the first read.                                                   *)
LEMMA StreamInit == ASSUME ParseInit PROVE StreamInv
<1>1. /\ program \in Programs /\ file \in Files
      /\ read = 0 /\ feof = FALSE
      /\ inbuf = [i \in 1 .. InbufSize |-> Junk]
      /\ data = 0 /\ dataSize = 0
      /\ pending = <<>> /\ decoder = [held |-> <<>>, draining |-> FALSE]
      /\ frame = (program = "video")
      /\ out = <<>> /\ pc = "fill"
  BY DEF ParseInit, Fresh
<1>2. Stream(file) /\ Len(file) \in Nat /\ file \in Seq(StreamByte)
  BY <1>1, FilesAreStreams, StreamBytes DEF Stream
<1>3. inbuf \in [1 .. InbufSize -> StreamByte] /\ DOMAIN inbuf = 1 .. InbufSize
  <2>1. Junk \in StreamByte
    BY DEF Junk, StreamByte
  <2> HIDE DEF StreamByte
  <2> QED
    BY <1>1, <2>1
<1>4. pending \in Seq(StreamByte) /\ decoder \in Codec(Seq(StreamByte)) /\ out \in Seq(Seq(StreamByte))
  <2> DEFINE P == Seq(StreamByte)
  <2>1. pending \in P
    <3> HIDE DEF StreamByte
    <3> QED
      BY <1>1
  <2> HIDE DEF P
  <2>2. decoder \in Codec(P) /\ out \in Seq(P)
    BY <1>1 DEF Codec
  <2> QED
    BY <2>1, <2>2 DEF P
<1>5. TypeInv
  <2>1. program \in {"audio", "video"} /\ InbufSize \in Nat
    BY <1>1, ParseAssumption
  <2>2. decoder.draining \in BOOLEAN /\ frame \in BOOLEAN
    BY <1>1
  <2>3. ParseTypeOK
    <3>1. program \in Programs /\ file \in Files /\ feof \in BOOLEAN
      BY <1>1
    <3>2. /\ read \in 0 .. Len(file) /\ data \in Nat /\ dataSize \in Nat /\ data + dataSize <= InbufSize
          /\ pc \in {"fill", "parse", "refill", "flush", "done", "failed", "crash"}
      BY <1>1, <1>2, <2>1
    <3> QED
      BY <1>3, <2>2, <3>1, <3>2, Zenon DEF ParseTypeOK
  <2> QED
    BY <1>2, <1>3, <1>4, <2>3 DEF TypeInv
<1>6. Cursor = 0 /\ Base = 0 /\ Packets = <<>>
  <2>1. Packets = <<>>
    BY <1>1 DEF Packets
  <2>2. Cursor = 0 /\ Len(pending) = 0
    BY <1>1 DEF Cursor
  <2> QED
    BY <2>1, <2>2 DEF Base
<1>7. BufferInv
  BY <1>1, <1>6 DEF BufferInv
<1>8. FrameInv
  BY <1>1, ParseAssumption DEF FrameInv
<1>9. SubSeq(file, 1, 0) = <<>>
  BY <1>2
<1>10. BytesInv
  <2>1. FlattenSeq(<<>>) \o <<>> = <<>>
    BY FlattenEmpty
  <2> QED
    BY <1>1, <1>6, <1>9, <2>1 DEF BytesInv
<1>11. CutInv
  BY <1>1, <1>6, <1>9 DEF CutInv
<1> QED
  BY <1>5, <1>7, <1>8, <1>10, <1>11 DEF StreamInv

(* The invariant holds in every behaviour of the two programs.              *)
THEOREM StreamInvHolds == ParseSpec => []StreamInv
<1>1. ParseInit => StreamInv
  BY StreamInit
<1>2. StreamInv /\ [ParseNext]_parseVars => StreamInv'
  BY FillInv, ParseInv, RefillInv, FlushDecoderInv, FailInv DEF ParseNext, Advance, Ended
<1> QED
  BY <1>1, <1>2, PTL DEF ParseSpec

(* BytesInOrder: nothing that was read is skipped, repeated or overwritten. *)
THEOREM NoByteIsLost == ParseSpec => []BytesInOrder
<1>1. ASSUME StreamInv PROVE BytesInOrder
  <2>1. TypeInv /\ BufferInv /\ BytesInv
    BY <1>1 DEF StreamInv
  <2>2. Window = SubSeq(file, Cursor + 1, read)
    BY <2>1, WindowIs
  <2>3. /\ dataSize \in Nat /\ read \in Nat /\ Len(file) \in Nat /\ read <= Len(file) /\ Cursor \in Nat
        /\ read = Cursor + dataSize /\ file \in Seq(StreamByte)
    BY <2>1, BufferTypes DEF BufferInv
  <2>4. FlattenSeq(Packets) = FlattenSeq(out) \o FlattenSeq(decoder.held)
    <3>1. out \in Seq(Seq(StreamByte)) /\ decoder.held \in Seq(Seq(StreamByte))
      BY <2>1 DEF TypeInv, Codec
    <3> QED
      BY <3>1, FlattenCat DEF Packets
  <2>5. FlattenSeq(Packets) \o pending = SubSeq(file, 1, Cursor)
    BY <2>1 DEF BytesInv
  <2> HIDE DEF Cursor, Window
  <2>6. SubSeq(file, 1, Cursor) \o SubSeq(file, Cursor + 1, read) = SubSeq(file, 1, read)
    <3>1. 0 \in 0 .. Len(file) /\ Cursor \in 0 .. Len(file) /\ read \in Cursor .. Len(file) /\ 0 + 1 = 1
      BY <2>3
    <3>2. SubSeq(file, 0 + 1, Cursor) \o SubSeq(file, Cursor + 1, read) = SubSeq(file, 0 + 1, read)
      BY <2>3, <3>1, NeighboursJoin
    <3> QED
      BY <3>1, <3>2
  <2>7. ParseTypeOK
    BY <2>1 DEF TypeInv
  <2> QED
    BY <2>2, <2>4, <2>5, <2>6, <2>7, Zenon DEF BytesInOrder
<1> QED
  BY <1>1, StreamInvHolds, PTL

(* The packet of frame k is the bytes from the start of the frame to its    *)
(* end, of which a stream has one each.                                     *)
LEMMA FrameIsBytes ==
  ASSUME Stream(file), NEW k, NEW packet, IsFrame(k, packet)
  PROVE  packet = BytesOf(k)
<1>1. PICK a \in DOMAIN file, b \in DOMAIN file :
        /\ file[a].frame = k /\ file[a].start /\ file[b].frame = k /\ file[b].end
        /\ packet = SubSeq(file, a, b)
  BY DEF IsFrame
<1>2. DOMAIN file = 1 .. Len(file) /\ Len(file) \in Nat
  BY StreamBytes
<1>3. ASSUME NEW i \in DOMAIN file, NEW j \in DOMAIN file, file[i].frame = file[j].frame, i < j
      PROVE  ~file[i].end /\ ~file[j].start
  <2>1. i \in 1 .. Len(file) /\ j \in 1 .. Len(file) /\ i <= j
    BY <1>2, <1>3
  <2>2. Ordered(file, i, j)
    BY <2>1, StreamOrdered
  <2> QED
    BY <1>3, <2>2 DEF Ordered
<1> DEFINE from == CHOOSE i \in DOMAIN file : file[i].frame = k /\ file[i].start
           to == CHOOSE i \in DOMAIN file : file[i].frame = k /\ file[i].end
<1>4. from \in DOMAIN file /\ file[from].frame = k /\ file[from].start
  BY <1>1
<1>5. to \in DOMAIN file /\ file[to].frame = k /\ file[to].end
  BY <1>1
<1>6. BytesOf(k) = SubSeq(file, from, to)
  BY DEF BytesOf
<1> HIDE DEF from, to
<1>7. \A i \in DOMAIN file, j \in DOMAIN file : i = j \/ i < j \/ j < i
  BY <1>2
<1>8. from = a
  BY <1>1, <1>3, <1>4, <1>7
<1>9. to = b
  BY <1>1, <1>3, <1>5, <1>7
<1> QED
  BY <1>1, <1>6, <1>8, <1>9

(* At the end the last byte is the end of the last packet, or of the frame  *)
(* behind it, whose end only a video parser can have overlooked.            *)
LEMMA LastByte ==
  ASSUME StreamInv, pc = "done", file # <<>>
  PROVE  /\ Packets = out /\ Len(file) \in Nat \ {0} /\ Base \in 0 .. Len(file)
         /\ Base > 0 => file[Base].end /\ file[Base].frame = Len(out)
         /\ Base = 0 => out = <<>>
         /\ \A i \in Base + 1 .. Len(file) : (i < Len(file) \/ program = "audio") => ~file[i].end
         /\ Base < Len(file) => file[Len(file)].frame = Len(out) + 1
<1>1. TypeInv /\ BufferInv /\ CutInv
  BY DEF StreamInv
<1>2. decoder.held = <<>> /\ dataSize = 0 /\ read = Len(file)
  BY <1>1 DEF CutInv, BufferInv
<1>3. Packets = out
  <2> DEFINE P == Seq(StreamByte)
  <2>1. out \in Seq(P)
    BY <1>1 DEF TypeInv
  <2> HIDE DEF P
  <2> QED
    BY <1>2, <2>1 DEF Packets
<1>4. Stream(file) /\ Len(file) \in Nat /\ DOMAIN file = 1 .. Len(file) /\ Len(file) # 0
  <2>1. Stream(file) /\ file \in Seq(StreamByte)
    BY <1>1 DEF TypeInv, Stream
  <2> HIDE DEF StreamByte
  <2> QED
    BY <2>1, StreamBytes
<1>5. Cursor = Len(file)
  BY <1>2, <1>4 DEF Cursor
<1>6. Base \in 0 .. Cursor
  BY ParsedIs
<1>7. /\ Base > 0 => file[Base].end /\ file[Base].frame = Len(out)
      /\ Base = 0 => out = <<>>
      /\ \A i \in Base + 1 .. Cursor : Inside(i)
  BY <1>1, <1>3 DEF CutInv
<1> HIDE DEF Base, Cursor
<1>8. \A i \in Base + 1 .. Len(file) : (i < Len(file) \/ program = "audio") => ~file[i].end
  BY <1>5, <1>7 DEF Inside
<1>9. ASSUME Base < Len(file) PROVE file[Len(file)].frame = Len(out) + 1
  <2> DEFINE a == Base + 1
             n == Len(file)
  <2>1. a \in 1 .. n /\ n \in 1 .. n /\ a <= n /\ Base \in Nat
    BY <1>4, <1>5, <1>6, <1>9
  <2>2. \A i \in a .. n - 1 : ~file[i].end
    BY <1>4, <1>8, <2>1
  <2>3. file[n].frame = file[a].frame
    <3> HIDE DEF a
    <3> QED
      BY <1>4, <2>1, <2>2, SameFrame
  <2>4. file[a].frame = Len(out) + 1
    <3>1. CASE Base = 0
      <4>1. a = 1 /\ Len(out) + 1 = 1
        BY <1>7, <3>1
      <4> QED
        BY <1>4, <4>1 DEF Stream
    <3>2. CASE Base > 0
      <4>1. Base \in 1 .. Len(file) - 1
        BY <1>4, <1>9, <2>1, <3>2
      <4> QED
        BY <1>4, <1>7, <3>2, <4>1 DEF Stream
    <3> QED
      BY <2>1, <3>1, <3>2
  <2> QED
    BY <2>3, <2>4
<1> QED
  BY <1>3, <1>4, <1>5, <1>6, <1>7, <1>8, <1>9

(* The greatest of numbers that have one.                                   *)
LEMMA GreatestIs ==
  ASSUME NEW T \in SUBSET Nat, NEW x \in T, \A y \in T : y <= x
  PROVE  Max(T) = x
<1>1. \A y \in T : x >= y
  OBVIOUS
<1>2. Max(T) \in T /\ \A y \in T : Max(T) >= y
  BY <1>1 DEF Max
<1>3. Max(T) <= x /\ Max(T) >= x
  BY <1>2
<1>4. Max(T) \in Nat /\ x \in Nat
  BY <1>2
<1> QED
  BY <1>3, <1>4

(* How many frames are complete: those that were decoded and, of video,     *)
(* perhaps one more.                                                        *)
LEMMA WholeFramesAre ==
  ASSUME StreamInv, pc = "done"
  PROVE  \E n \in {Len(out), Len(out) + 1} :
           /\ WholeFrames = [k \in 1 .. n |-> BytesOf(k)]
           /\ program = "audio" => n = Len(out)
<1> DEFINE Ends == {i \in DOMAIN file : file[i].end}
           last == IF Ends = {} THEN 0 ELSE file[Max(Ends)].frame
<1>1. WholeFrames = [k \in 1 .. last |-> BytesOf(k)]
  BY DEF WholeFrames
<1>2. TypeInv
  BY DEF StreamInv
<1>3. DOMAIN file = 1 .. Len(file) /\ Len(file) \in Nat
  BY <1>2, StreamBytes DEF TypeInv
<1>4. last \in {Len(out), Len(out) + 1} /\ (program = "audio" => last = Len(out))
  <2>1. CASE file = <<>>
    <3>1. Ends = {}
      BY <2>1
    <3>2. out = <<>>
      <4>1. Base = 0
        <5>1. Base \in 0 .. Cursor /\ Cursor + Consumed \in Cursor .. read /\ read <= Len(file) /\ Cursor \in Nat /\ read \in Nat
          BY ParsedIs
        <5> HIDE DEF Base, Cursor, Consumed
        <5>2. Len(file) = 0
          BY <2>1
        <5> QED
          BY <5>1, <5>2
      <4>2. Packets = <<>> /\ decoder.held = <<>>
        BY <4>1 DEF StreamInv, CutInv
      <4> DEFINE P == Seq(StreamByte)
      <4>3. out \in Seq(P)
        BY <1>2 DEF TypeInv
      <4> HIDE DEF P
      <4>4. out \o <<>> = out
        BY <4>3
      <4> QED
        BY <4>2, <4>4 DEF Packets
    <3>3. Len(out) = 0
      BY <3>2
    <3> QED
      BY <3>1, <3>3
  <2>2. CASE file # <<>>
    <3> DEFINE L == Len(file)
    <3>1. /\ L \in Nat \ {0} /\ Base \in 0 .. L
          /\ Base > 0 => file[Base].end /\ file[Base].frame = Len(out)
          /\ Base = 0 => out = <<>>
          /\ \A i \in Base + 1 .. L : (i < L \/ program = "audio") => ~file[i].end
          /\ Base < L => file[L].frame = Len(out) + 1
      BY <2>2, LastByte
    <3> HIDE DEF Base
    <3>2. Ends \in SUBSET Nat
      BY <1>3
    <3>3. CASE Base < L /\ file[L].end
      <4>1. program # "audio" /\ L \in Ends /\ \A i \in Ends : i <= L
        BY <1>3, <3>1, <3>3
      <4> HIDE DEF Ends
      <4>2. Max(Ends) = L /\ Ends # {}
        BY <3>2, <4>1, GreatestIs
      <4> QED
        BY <3>1, <3>3, <4>1, <4>2
    <3>4. CASE ~(Base < L /\ file[L].end)
      <4>1. \A i \in Ends : i <= Base
        <5> SUFFICES ASSUME NEW i \in Ends, i > Base PROVE FALSE
          BY <3>1, <3>2
        <5>1. i \in Base + 1 .. L /\ file[i].end
          BY <1>3, <3>1
        <5>2. i = L
          BY <3>1, <5>1
        <5> QED
          BY <3>1, <3>4, <5>1, <5>2
      <4>2. CASE Base = 0
        <5>1. Ends = {}
          <6> SUFFICES ASSUME NEW i \in Ends PROVE FALSE
            OBVIOUS
          <6>1. i <= 0 /\ i >= 1
            BY <1>3, <4>1, <4>2
          <6> QED
            BY <6>1, <3>2
        <5>2. Len(out) = 0
          BY <3>1, <4>2
        <5> QED
          BY <5>1, <5>2
      <4>3. CASE Base > 0
        <5>1. Base \in Ends
          BY <1>3, <3>1, <4>3
        <5> HIDE DEF Ends
        <5>2. Max(Ends) = Base /\ Ends # {}
          BY <3>2, <4>1, <5>1, GreatestIs
        <5> QED
          BY <3>1, <4>3, <5>2
      <4> QED
        BY <3>1, <4>2, <4>3
    <3> QED
      BY <3>3, <3>4
  <2> QED
    BY <2>1, <2>2
<1> QED
  BY <1>1, <1>4

(* OnlyLastFrameLost: every complete frame of an audio file is decoded, of  *)
(* a video file all but the last.                                           *)
THEOREM DecodesWholeFrames == ParseSpec => []OnlyLastFrameLost
<1>1. ASSUME StreamInv PROVE OnlyLastFrameLost
  <2>1. TypeInv /\ FrameInv
    BY <1>1 DEF StreamInv
  <2>2. pc = "crash" => file = <<>>
    BY <2>1 DEF FrameInv
  <2>3. ASSUME pc = "done"
        PROVE  /\ program = "audio" => out = WholeFrames
               /\ IsPrefix(out, WholeFrames)
    <3> DEFINE P == Seq(StreamByte)
               K == Len(out)
    <3>1. out \in Seq(P)
      BY <2>1 DEF TypeInv
    <3>2. PICK n \in {Len(out), Len(out) + 1} :
            /\ WholeFrames = [k \in 1 .. n |-> BytesOf(k)]
            /\ program = "audio" => n = Len(out)
      BY <1>1, <2>3, WholeFramesAre
    <3> HIDE DEF P
    <3>3. K \in Nat /\ n \in Nat /\ K <= n /\ DOMAIN out = 1 .. K
      BY <3>1, <3>2
    <3>4. ASSUME NEW k \in 1 .. K PROVE out[k] = BytesOf(k)
      <4>1. Packets = out
        BY <1>1, <2>3, <3>1 DEF StreamInv, CutInv, Packets
      <4>2. IsFrame(k, out[k])
        BY <1>1, <3>3, <4>1 DEF StreamInv, CutInv
      <4> QED
        BY <2>1, <4>2, FrameIsBytes DEF TypeInv
    <3>5. out = [k \in 1 .. K |-> BytesOf(k)]
      <4> DEFINE Of(k) == BytesOf(k)
      <4>1. \A k \in 1 .. K : out[k] = Of(k)
        BY <3>4
      <4> HIDE DEF Of
      <4>2. out = [k \in 1 .. K |-> out[k]]
        BY <3>1, <3>3
      <4>3. [k \in 1 .. K |-> out[k]] = [k \in 1 .. K |-> Of(k)]
        <5> HIDE DEF K
        <5> QED
          BY <4>1
      <4> QED
        BY <4>2, <4>3, Zenon DEF Of
    <3>6. program = "audio" => out = WholeFrames
      BY <3>2, <3>5
    <3>7. IsPrefix(out, WholeFrames)
      <4> DEFINE Of(k) == BytesOf(k)
                 s == [k \in 1 .. n |-> Of(k)]
      <4>1. out = [k \in 1 .. K |-> Of(k)] /\ WholeFrames = s
        BY <3>2, <3>5
      <4> HIDE DEF Of
      <4>2. Len(s) = n /\ SubSeq(s, 1, K) = [k \in 1 .. K |-> Of(k)]
        <5> HIDE DEF K
        <5>1. Len(s) = n
          BY <3>3
        <5>2. SubSeq(s, 1, K) = [k \in 1 .. K |-> s[k]]
          BY <3>3, <5>1
        <5>3. \A k \in 1 .. K : s[k] = Of(k)
          BY <3>3
        <5> HIDE DEF s
        <5> QED
          BY <5>1, <5>2, <5>3
      <4>3. SubSeq(out, 1, K) = out
        BY <3>1, AllOf
      <4> HIDE DEF s
      <4> QED
        BY <3>3, <4>1, <4>2, <4>3 DEF IsPrefix
    <3> QED
      BY <3>6, <3>7
  <2>4. ASSUME pc = "done", file # <<>>
        PROVE  Len(out) >= Last(file).frame - 1
    <3> DEFINE L == Len(file)
    <3>1. /\ L \in Nat \ {0} /\ Base \in 0 .. L
          /\ Base > 0 => file[Base].end /\ file[Base].frame = Len(out)
          /\ Base < L => file[L].frame = Len(out) + 1
      BY <1>1, <2>4, LastByte
    <3>2. Len(out) \in Nat
      <4> DEFINE P == Seq(StreamByte)
      <4>1. out \in Seq(P)
        BY <2>1 DEF TypeInv
      <4> HIDE DEF P
      <4> QED
        BY <4>1
    <3> HIDE DEF Base
    <3>3. file[L].frame \in {Len(out), Len(out) + 1}
      BY <3>1
    <3>4. Last(file) = file[L]
      BY DEF Last
    <3> QED
      BY <3>2, <3>3, <3>4
  <2> QED
    BY <2>2, <2>3, <2>4, Zenon DEF OnlyLastFrameLost
<1> QED
  BY <1>1, StreamInvHolds, PTL

=============================================================================
