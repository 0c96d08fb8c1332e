---------------------------- MODULE FrameThread ----------------------------
(***************************************************************************)
(* libavcodec/pthread_frame.c: frame-threaded decoding.  A client thread   *)
(* hands packets round-robin to N worker threads and collects their frames *)
(* in the same order; the oldest of up to N packets in flight is waited    *)
(* for.  Waiting is on condition variables, modelled with their wait sets: *)
(* a signal nobody waits for is lost, one that wakes the wrong thread is   *)
(* used up.  Short critical sections are one step; the mutexes held while  *)
(* blocking (a worker's mutex, buffer_mutex) are explicit.                 *)
(*                                                                         *)
(* The codec is external: it may ask for a format and a buffer, finish its *)
(* setup, wait for its reference picture and report its own, in the order  *)
(* doc/multithreading.txt requires, and returns a frame, nothing or an     *)
(* error.  The build has no hwaccel (CONFIG_HWACCELS 0): hwaccel_mutex is  *)
(* never taken and async_lock by nobody but the client.                    *)
(***************************************************************************)
EXTENDS Naturals, FiniteSets

CONSTANTS
    N,          \* avctx->thread_count
    MaxPackets, \* bound: packets with data the client submits
    MaxIds,     \* bound: packets it submits, the empty ones of draining included
    Codecs      \* the codecs and clients looked at: records with the fields
                \*   update: the codec has update_thread_context
                \*   ask:    what the workers must ask the client for
                \*   delay:  AV_CODEC_CAP_DELAY

ASSUME FrameThreadAssumption ==
    /\ N \in Nat /\ N > 1
    /\ MaxPackets \in Nat /\ MaxIds \in Nat /\ MaxPackets <= MaxIds
    /\ Codecs \subseteq [update : BOOLEAN, delay : BOOLEAN,
                      ask : SUBSET {"GET_BUFFER", "GET_FORMAT"}]

VARIABLES
    codec,        \* the one used, fixed at the start
    fctx,         \* FrameThreadContext
    p,            \* p[i]: PerThreadContext of thread i
    buffer_mutex, \* the worker that holds it, or NoSlot
    progress,     \* packets whose picture was reported complete
    waits,        \* the condition variable each thread sleeps on, or Awake
    client,       \* where the client thread is, see ClientPcs
    submitted,    \* packets submitted
    owed,         \* slots whose packet the client has not been answered for
    yield         \* what decoding each of those packets gave, "?" before

vars == <<codec, fctx, p, buffer_mutex, progress, waits, client,
          submitted, owed, yield>>
history == <<submitted, owed, yield>>

Slots == 0..(N - 1)
NoSlot == N
Client == N                    \* the client's place in waits
Ids == 1..MaxIds
NoId == 0

Awake == <<"awake", N>>
InputCond(i) == <<"input_cond", i>>
ProgressCond(i) == <<"progress_cond", i>>
OutputCond(i) == <<"output_cond", i>>

Sleep(t, c) == waits' = [waits EXCEPT ![t] = c]
Woken(w, c) == [t \in 0..N |-> IF w[t] = c THEN Awake ELSE w[t]]
Broadcast(c) == waits' = Woken(waits, c)

\* The wait sets a pthread_cond_signal of c may leave behind.
Signalled(w, c) ==
    LET waiting == {t \in 0..N : w[t] = c}
    IN  IF waiting = {} THEN {w} ELSE {[w EXCEPT ![t] = Awake] : t \in waiting}

\* THREAD_SAFE_CALLBACKS: the client set thread_safe_callbacks, or left
\* get_buffer2 at its default.
SafeCallbacks == "GET_BUFFER" \notin codec.ask

Asking == {"GET_BUFFER", "GET_FORMAT"}
States == {"INPUT_READY", "SETTING_UP", "SETUP_FINISHED"} \cup Asking
NoRef == [id |-> NoId, slot |-> NoSlot]

\* thread: "none", "start" (wants mutex), "loop" (has it), "decode", "answer"
\* and "await" (in a callback of the codec), "done", "exited".
FreshSlot ==
    [thread |-> "none", mutex |-> "free", state |-> "INPUT_READY", avpkt |-> NoId,
     frame |-> NoId, result |-> "ok", die |-> FALSE, buf |-> "no", ref |-> NoRef,
     released |-> 0]

FreshFctx ==
    [next_decoding |-> 0, next_finished |-> 0, delaying |-> TRUE, prev_thread |-> NoSlot]

\* What a call returns to the client: a packet's frame or error, the end of
\* the stream (or nothing yet), a packet that could not be submitted.
Nothing == <<NoId, "none">>
Empty == <<NoId, "empty">>
NotSubmitted == <<NoId, "error">>

ClientPcs == {"init", "idle", "lock", "release", "prev", "serve", "output",
              "park", "die", "join", "freed"}
Calls == {"init", "packet", "drain", "flush", "free"}

\* i: the slot the client is at; slots: thread_count for ff_frame_thread_free;
\* draining: avci->draining of decode.c; ret: what the last call returned.
Init ==
    /\ codec \in Codecs
    /\ fctx = FreshFctx
    /\ p = [i \in Slots |-> FreshSlot]
    /\ buffer_mutex = NoSlot
    /\ progress = {}
    /\ waits = [t \in 0..N |-> Awake]
    /\ client = [pc |-> "init", call |-> "init", i |-> 0, slots |-> N,
                 draining |-> FALSE, ret |-> Nothing]
    /\ submitted = 0 /\ owed = {}
    /\ yield = [id \in Ids |-> "?"]

(***************************************************************************)
(* frame_worker_thread and the calls a codec makes on it.                  *)
(***************************************************************************)

Runs(i, place) == p[i].thread = place /\ waits[i] = Awake
clientSide == <<codec, fctx, client, submitted, owed>>

\* The thread has its mutex, or takes it on starting and on waking up.
HasMutex(i) ==
    \/ Runs(i, "loop")
    \/ Runs(i, "start") /\ p[i].mutex = "free"

\* pthread_cond_wait gives the mutex up while asleep.
WaitInput(i) ==
    /\ HasMutex(i) /\ p[i].state = "INPUT_READY" /\ ~p[i].die
    /\ p' = [p EXCEPT ![i].thread = "start", ![i].mutex = "free"]
    /\ Sleep(i, InputCond(i))
    /\ UNCHANGED <<clientSide, buffer_mutex, progress, yield>>

Exit(i) ==
    /\ HasMutex(i) /\ p[i].die
    /\ p' = [p EXCEPT ![i].thread = "exited", ![i].mutex = "free"]
    /\ UNCHANGED <<clientSide, buffer_mutex, progress, waits, yield>>

\* ff_thread_finish_setup of slot i, as a value of p and of waits.
FinishedSetup(q, i) == [q EXCEPT ![i].state = "SETUP_FINISHED"]

\* A codec without update_thread_context has nothing to set up.
StartDecode(i) ==
    /\ HasMutex(i) /\ p[i].state # "INPUT_READY" /\ ~p[i].die
    /\ LET q == [p EXCEPT ![i].thread = "decode", ![i].mutex = "worker",
                          ![i].frame = NoId, ![i].buf = "no"]
       IN  IF ~codec.update /\ SafeCallbacks
              THEN p' = FinishedSetup(q, i) /\ Broadcast(ProgressCond(i))
              ELSE p' = q /\ UNCHANGED waits
    /\ UNCHANGED <<clientSide, buffer_mutex, progress, yield>>

\* ff_thread_get_buffer: with thread-safe callbacks the worker allocates,
\* otherwise it keeps buffer_mutex and asks the client.
GetBuffer(i) ==
    /\ Runs(i, "decode") /\ p[i].buf \in {"no", "asked"}
    /\ p[i].state = "SETTING_UP" \/ (~codec.update /\ SafeCallbacks)
    /\ buffer_mutex = NoSlot
    /\ IF SafeCallbacks
          THEN /\ p' = [p EXCEPT ![i].buf = "yes"]
               /\ UNCHANGED <<buffer_mutex, waits>>
          ELSE /\ p' = [p EXCEPT ![i].thread = "answer", ![i].state = "GET_BUFFER"]
               /\ buffer_mutex' = i
               /\ Broadcast(ProgressCond(i))
    /\ UNCHANGED <<clientSide, progress, yield>>

\* ff_thread_get_format (once per packet).
GetFormat(i) ==
    /\ Runs(i, "decode") /\ p[i].buf = "no"
    /\ "GET_FORMAT" \in codec.ask /\ p[i].state = "SETTING_UP"
    /\ p' = [p EXCEPT ![i].thread = "answer", ![i].state = "GET_FORMAT", ![i].buf = "asked"]
    /\ Broadcast(ProgressCond(i))
    /\ UNCHANGED <<clientSide, buffer_mutex, progress, yield>>

AwaitAnswer(i) ==
    /\ Runs(i, "answer") /\ p[i].state # "SETTING_UP"
    /\ Sleep(i, ProgressCond(i))
    /\ UNCHANGED <<clientSide, p, buffer_mutex, progress, yield>>

\* The client answered, for a buffer with success or an error.
TakeAnswer(i) ==
    /\ Runs(i, "answer") /\ p[i].state = "SETTING_UP"
    /\ IF buffer_mutex = i
          THEN \E got \in {"failed", "yes"} :
                 LET q == [p EXCEPT ![i].thread = "decode", ![i].buf = got]
                 IN  /\ buffer_mutex' = NoSlot
                     /\ IF codec.update
                           THEN p' = q /\ UNCHANGED waits
                           ELSE p' = FinishedSetup(q, i) /\ Broadcast(ProgressCond(i))
          ELSE /\ p' = [p EXCEPT ![i].thread = "decode"]
               /\ UNCHANGED <<buffer_mutex, waits>>
    /\ UNCHANGED <<clientSide, progress, yield>>

\* The codec calls ff_thread_finish_setup.
FinishSetup(i) ==
    /\ Runs(i, "decode") /\ codec.update /\ p[i].state = "SETTING_UP"
    /\ p' = FinishedSetup(p, i)
    /\ Broadcast(ProgressCond(i))
    /\ UNCHANGED <<clientSide, buffer_mutex, progress, yield>>

\* ff_thread_await_progress on the reference picture, which may belong to any
\* slot: the thread sleeps on the owner's condition variable.
AwaitProgress(i) ==
    /\ Runs(i, "decode") \/ Runs(i, "await")
    /\ p[i].state = "SETUP_FINISHED" /\ p[i].ref # NoRef
    /\ IF p[i].ref.id \in progress
          THEN p' = [p EXCEPT ![i].thread = "decode", ![i].ref = NoRef] /\ UNCHANGED waits
          ELSE p' = [p EXCEPT ![i].thread = "await"] /\ Sleep(i, ProgressCond(p[i].ref.slot))
    /\ UNCHANGED <<clientSide, buffer_mutex, progress, yield>>

ReportProgress(i) ==
    /\ Runs(i, "decode") /\ codec.update
    /\ p[i].buf = "yes" /\ p[i].avpkt \notin progress
    /\ progress' = progress \cup {p[i].avpkt}
    /\ Broadcast(ProgressCond(i))
    /\ UNCHANGED <<clientSide, p, buffer_mutex, yield>>

\* ff_thread_release_buffer, when the buffer cannot be freed here (at most one
\* frame per slot waits to be freed).
ReleaseBuffer(i) ==
    /\ Runs(i, "decode") /\ ~SafeCallbacks /\ buffer_mutex = NoSlot
    /\ p[i].released = 0
    /\ p' = [p EXCEPT ![i].released = 1]
    /\ UNCHANGED <<clientSide, buffer_mutex, progress, waits, yield>>

\* codec->decode returns; if the setup is not finished by now it is finished
\* here.  A codec that let others reference its picture has reported it.
ReturnFromDecode(i) ==
    /\ Runs(i, "decode")
    /\ codec.update /\ p[i].buf = "yes" => p[i].avpkt \in progress
    /\ \E what \in {"none", "error"} \cup (IF p[i].buf = "yes" THEN {"frame"} ELSE {}) :
         LET q == [p EXCEPT ![i].thread = "done",
                            ![i].frame = IF what = "frame" THEN p[i].avpkt ELSE NoId,
                            ![i].result = IF what = "error" THEN "error" ELSE "ok",
                            ![i].ref = NoRef]
         IN  /\ yield' = [yield EXCEPT ![p[i].avpkt] = what]
             /\ IF p[i].state = "SETTING_UP"
                   THEN p' = FinishedSetup(q, i) /\ Broadcast(ProgressCond(i))
                   ELSE p' = q /\ UNCHANGED waits
    /\ UNCHANGED <<clientSide, buffer_mutex, progress>>

\* The result is there: wake whoever waits for progress or for the output.
OutputReady(i) ==
    /\ Runs(i, "done")
    /\ p' = [p EXCEPT ![i].thread = "loop", ![i].state = "INPUT_READY"]
    /\ waits' \in Signalled(Woken(waits, ProgressCond(i)), OutputCond(i))
    /\ UNCHANGED <<clientSide, buffer_mutex, progress, yield>>

(***************************************************************************)
(* The client thread: ff_frame_thread_init, ff_thread_decode_frame (as     *)
(* decode.c calls it), ff_thread_flush and ff_frame_thread_free.           *)
(***************************************************************************)

At(place) == client.pc = place /\ waits[Client] = Awake
Goto(place) == client' = [client EXCEPT !.pc = place]
GotoSlot(place, i) == client' = [client EXCEPT !.pc = place, !.i = i]
Begin(call, place, i) ==
    client' = [client EXCEPT !.pc = place, !.call = call, !.i = i, !.ret = Nothing]
Return(ret) == client' = [client EXCEPT !.pc = "idle", !.ret = ret]
workerSide == <<codec, buffer_mutex, progress>>

\* One turn of the loop of ff_frame_thread_init, which may fail anywhere in
\* it, pthread_create included: then the slots made so far are freed.
InitSlot ==
    /\ At("init")
    /\ \/ /\ p' = [p EXCEPT ![client.i].thread = "start"]
          /\ IF client.i = N - 1 THEN Return(Nothing) ELSE GotoSlot("init", client.i + 1)
       \/ /\ client' = [client EXCEPT !.pc = "park", !.call = "free", !.i = 0,
                                      !.slots = client.i + 1]
          /\ UNCHANGED p
    /\ UNCHANGED <<workerSide, fctx, waits, history>>

Nd == fctx.next_decoding

DecodePacket ==
    /\ At("idle") /\ ~client.draining /\ submitted < MaxPackets
    /\ Begin("packet", "lock", 0)
    /\ UNCHANGED <<workerSide, fctx, p, waits, history>>

\* Neither a frame nor an error while draining: decode.c asks no more.
DrainingDone == client.draining /\ client.ret = Empty

\* An empty packet; a codec without AV_CODEC_CAP_DELAY is not given it.
DrainPackets ==
    /\ At("idle") /\ ~DrainingDone
    /\ client' = [client EXCEPT !.call = "drain", !.draining = TRUE, !.ret = Nothing,
                     !.pc = IF codec.delay THEN "lock" ELSE "output",
                     !.i = fctx.next_finished]
    /\ codec.delay => submitted < MaxIds
    /\ UNCHANGED <<workerSide, fctx, p, waits, history>>

\* submit_packet takes the mutex of the worker, which is not decoding.
SubmitLock ==
    /\ At("lock") /\ p[Nd].mutex = "free"
    /\ p' = [p EXCEPT ![Nd].mutex = "client"]
    /\ Goto(IF p[Nd].released > 0 THEN "release" ELSE "prev")
    /\ UNCHANGED <<workerSide, fctx, waits, history>>

\* It copies the user's settings into the worker's context, or has no memory
\* for them, gives the mutex back and submits nothing.
UserUpdateFails ==
    /\ At("lock") /\ p[Nd].mutex = "free"
    /\ Return(NotSubmitted)
    /\ UNCHANGED <<workerSide, fctx, p, waits, history>>

ReleaseDelayed ==
    /\ At("release") /\ buffer_mutex = NoSlot
    /\ p' = [p EXCEPT ![Nd].released = 0]
    /\ Goto("prev")
    /\ UNCHANGED <<workerSide, fctx, waits, history>>

NeverSettingUp == FALSE
PrevSettingUp ==
    fctx.prev_thread # NoSlot /\ p[fctx.prev_thread].state = "SETTING_UP"

AwaitPrevSetup ==
    /\ At("prev") /\ PrevSettingUp
    /\ Sleep(Client, ProgressCond(fctx.prev_thread))
    /\ UNCHANGED <<workerSide, fctx, p, client, history>>

\* The next thread gets the previous one's context, and with it the picture
\* the previous packet decodes into, as a reference.  (Progress that nobody
\* can refer to any more is forgotten with its picture.)
Reference ==
    IF codec.update /\ fctx.prev_thread # NoSlot /\ p[fctx.prev_thread].buf = "yes"
       THEN [id |-> p[fctx.prev_thread].avpkt, slot |-> fctx.prev_thread]
       ELSE NoRef

SubmitPacket ==
    /\ At("prev") /\ ~PrevSettingUp
    /\ p' = [p EXCEPT ![Nd].avpkt = submitted + 1, ![Nd].state = "SETTING_UP",
                      ![Nd].ref = Reference, ![Nd].mutex = "free"]
    /\ waits' \in Signalled(waits, InputCond(Nd))
    /\ submitted' = submitted + 1
    /\ owed' = owed \cup {Nd}
    /\ Goto("serve")
    /\ progress' = progress \cap UNION {{p'[i].avpkt, p'[i].ref.id} : i \in Slots}
    /\ UNCHANGED <<codec, buffer_mutex, fctx, yield>>

\* update_context_from_thread or av_packet_ref fails.
SubmitFails ==
    /\ At("prev") /\ ~PrevSettingUp
    /\ p' = [p EXCEPT ![Nd].mutex = "free"]
    /\ Return(NotSubmitted)
    /\ UNCHANGED <<workerSide, fctx, waits, history>>

\* What the workers ask for the client serves, until the setup is over.
ServeWait ==
    /\ At("serve") /\ codec.ask # {} /\ p[Nd].state = "SETTING_UP"
    /\ Sleep(Client, ProgressCond(Nd))
    /\ UNCHANGED <<workerSide, fctx, p, client, history>>

ServeCallback ==
    /\ At("serve") /\ codec.ask # {} /\ p[Nd].state \in Asking
    /\ p' = [p EXCEPT ![Nd].state = "SETTING_UP"]
    /\ waits' \in Signalled(waits, ProgressCond(Nd))
    /\ UNCHANGED <<workerSide, fctx, client, history>>

NoLongerSettingUp == codec.ask = {} \/ p[Nd].state # "SETTING_UP"
SetupOver == codec.ask = {} \/ p[Nd].state \in {"SETUP_FINISHED", "INPUT_READY"}

\* The first N - 1 packets are not waited for.
DelayingOneMore == fctx.delaying /\ Nd + 1 <= N
StillDelaying == fctx.delaying /\ Nd + 1 <= N - 1

\* submit_packet is over.
Submitted ==
    /\ At("serve") /\ SetupOver
    /\ LET delaying == StillDelaying
       IN  /\ fctx' = [fctx EXCEPT !.prev_thread = Nd, !.next_decoding = Nd + 1,
                                   !.delaying = delaying]
           /\ IF delaying /\ client.call = "packet"
                 THEN Return(Nothing)
                 ELSE GotoSlot("output", fctx.next_finished)
    /\ UNCHANGED <<workerSide, p, waits, history>>

AwaitOutput(place) ==
    /\ At(place) /\ client.i < client.slots /\ p[client.i].state # "INPUT_READY"
    /\ Sleep(Client, OutputCond(client.i))
    /\ UNCHANGED <<workerSide, fctx, p, client, history>>

NextSlotUnwrapped(i) == i + 1
NextSlot(i) == (i + 1) % N

\* Slot i after its frame and its error were taken out of it.
TakenButError(i) == [p EXCEPT ![i].frame = NoId]
Taken(i) == [p EXCEPT ![i].frame = NoId, ![i].result = "ok"]

\* At the end of the stream, slots that gave nothing are passed over, up to
\* all of them.
KeepsLookingForever(empty, finished) == client.call = "drain" /\ empty
LooksOnce(empty, finished) == FALSE
KeepLooking(empty, finished) ==
    client.call = "drain" /\ empty /\ finished # fctx.next_finished

\* One turn of the loop that looks for a frame or an error to return.
CollectOutput ==
    LET i == client.i
        got == IF p[i].frame # NoId THEN <<p[i].frame, "frame">>
               ELSE <<p[i].avpkt, p[i].result>>
        empty == got[2] = "ok"
        finished == NextSlot(i)
    IN  /\ At("output") /\ p[i].state = "INPUT_READY"
        /\ p' = Taken(i)
        /\ owed' = owed \ {i}
        /\ yield' = IF i \in owed THEN [yield EXCEPT ![p[i].avpkt] = "?"] ELSE yield
        /\ IF KeepLooking(empty, finished)
              THEN GotoSlot("output", finished) /\ UNCHANGED fctx
              ELSE /\ fctx' = [fctx EXCEPT !.next_finished = finished,
                                           !.next_decoding = IF @ >= N THEN 0 ELSE @]
                   /\ Return(IF empty THEN Empty ELSE got)
        /\ UNCHANGED <<workerSide, waits, submitted>>

\* ff_thread_flush and ff_frame_thread_free wait for all workers first.
Flush ==
    /\ At("idle") /\ Begin("flush", "park", 0)
    /\ UNCHANGED <<workerSide, fctx, p, waits, history>>

Free ==
    /\ At("idle") /\ Begin("free", "park", 0)
    /\ UNCHANGED <<workerSide, fctx, p, waits, history>>

Park ==
    /\ At("park") /\ client.i < client.slots /\ p[client.i].state = "INPUT_READY"
    /\ p' = [p EXCEPT ![client.i].frame = NoId]
    /\ GotoSlot("park", client.i + 1)
    /\ UNCHANGED <<workerSide, fctx, waits, history>>

\* The codec's flush may release buffers again, after the delayed ones went.
FlushSlots ==
    /\ At("park") /\ client.call = "flush" /\ client.i = client.slots
    /\ buffer_mutex = NoSlot
    /\ fctx' = FreshFctx
    /\ \E again \in IF SafeCallbacks THEN {0} ELSE {0, 1} :
          p' = [i \in Slots |-> [p[i] EXCEPT !.frame = NoId, !.result = "ok",
                                            !.released = again]]
    /\ owed' = {} /\ yield' = [id \in Ids |-> "?"]
    /\ client' = [client EXCEPT !.pc = "idle", !.draining = FALSE]
    /\ UNCHANGED <<workerSide, waits, submitted>>

StartFree ==
    /\ At("park") /\ client.call = "free" /\ client.i = client.slots
    /\ GotoSlot("die", 0)
    /\ UNCHANGED <<workerSide, fctx, p, waits, history>>

Die ==
    /\ At("die") /\ p[client.i].mutex = "free"
    /\ p' = [p EXCEPT ![client.i].die = TRUE]
    /\ waits' \in Signalled(waits, InputCond(client.i))
    /\ Goto("join")
    /\ UNCHANGED <<workerSide, fctx, history>>

\* codec->close may release more buffers: the delayed ones go after it.
ReleasedBeforeClose(i) == [p EXCEPT ![i].released = IF SafeCallbacks THEN 0 ELSE 1]
Closed(i) == [p EXCEPT ![i].released = 0]

\* pthread_join of a thread that was created, and the codec is closed.
Join ==
    /\ At("join") /\ p[client.i].thread \in {"none", "exited"}
    /\ p' = Closed(client.i)
    /\ IF client.i + 1 = client.slots THEN Goto("freed") ELSE GotoSlot("die", client.i + 1)
    /\ UNCHANGED <<workerSide, fctx, waits, history>>

Worker(i) ==
    \/ WaitInput(i) \/ Exit(i) \/ StartDecode(i)
    \/ GetBuffer(i) \/ GetFormat(i) \/ AwaitAnswer(i) \/ TakeAnswer(i)
    \/ FinishSetup(i) \/ AwaitProgress(i) \/ ReportProgress(i) \/ ReleaseBuffer(i)
    \/ ReturnFromDecode(i) \/ OutputReady(i)

InCall ==
    \/ InitSlot
    \/ SubmitLock \/ UserUpdateFails \/ ReleaseDelayed \/ AwaitPrevSetup \/ SubmitPacket \/ SubmitFails
    \/ ServeWait \/ ServeCallback \/ Submitted
    \/ AwaitOutput("output") \/ CollectOutput
    \/ AwaitOutput("park") \/ Park \/ FlushSlots \/ StartFree \/ Die \/ Join

\* After avcodec_close nothing is left to run.
Freed == client.pc = "freed" /\ UNCHANGED vars

Next ==
    \/ DecodePacket \/ DrainPackets \/ Flush \/ Free \/ InCall
    \/ \E i \in Slots : Worker(i)
    \/ Freed

Spec == Init /\ [][Next]_vars

\* Every thread that can run is scheduled, and decoding a packet ends.
FairSpec == Spec /\ WF_vars(InCall) /\ \A i \in Slots : WF_vars(Worker(i))

(***************************************************************************)
(* Properties.                                                             *)
(***************************************************************************)

PerThreadContext ==
    [thread : {"none", "start", "loop", "decode", "answer", "await", "done", "exited"},
     mutex : {"free", "worker", "client"}, state : States,
     avpkt : 0..MaxIds, frame : 0..MaxIds, result : {"ok", "error"},
     die : BOOLEAN, buf : {"no", "asked", "failed", "yes"},
     ref : [id : 0..MaxIds, slot : 0..N], released : 0..1]
Returns == (0..MaxIds) \X {"none", "empty", "frame", "error"}
ClientContext ==
    [pc : ClientPcs, call : Calls, i : 0..N, slots : 1..N, draining : BOOLEAN, ret : Returns]
Places == {Awake} \cup UNION {{InputCond(i), ProgressCond(i), OutputCond(i)} : i \in Slots}

TypeOK ==
    /\ codec \in Codecs
    /\ fctx \in [next_decoding : 0..N, next_finished : Slots, delaying : BOOLEAN,
                 prev_thread : 0..N]
    /\ p \in [Slots -> PerThreadContext]
    /\ buffer_mutex \in 0..N
    /\ progress \subseteq Ids
    /\ waits \in [0..N -> Places]
    /\ client \in ClientContext
    /\ client.pc = "output" => client.i \in Slots
    /\ submitted \in 0..MaxIds
    /\ owed \subseteq Slots
    /\ yield \in [Ids -> {"?", "frame", "none", "error"}]

InSetup(i) == p[i].state \in {"SETTING_UP"} \cup Asking

\* thread.h:64-71, ff_thread_finish_setup lets the next thread start: no two
\* threads are ever in their setup, where they read and change the context
\* that is handed from one to the next.
OneSetupAtATime == \A i, j \in Slots : InSetup(i) /\ InSetup(j) => i = j

\* The context a packet starts from is that of a thread whose setup is over,
\* not of one stopped in a callback.
ContextSettled ==
    [][submitted' # submitted /\ fctx.prev_thread # NoSlot
         => ~InSetup(fctx.prev_thread)]_vars

\* A drained decoder is empty: decode.c takes a call that returns neither a
\* frame nor an error for the end of the stream, so no packet may be left
\* unanswered then (the comment at pthread_frame.c:509-514).
EofMeansDrained ==
    client.pc = "idle" /\ DrainingDone => owed = {}

\* doc/multithreading.txt: decoded pictures are delayed by N - 1 packets.
DelayBound == client.pc = "idle" => Cardinality(owed) <= N - 1

\* Freeing leaves nothing behind: no thread, no lock, no sleeper, no buffer
\* whose release was delayed, also after an init that failed half way.
FreedCompletely ==
    client.pc = "freed" =>
        /\ \A i \in Slots : p[i].thread \in {"none", "exited"} /\ p[i].released = 0
        /\ buffer_mutex = NoSlot
        /\ \A t \in 0..N : waits[t] = Awake

\* No call hangs: every wait of the client and of the workers it waits for is
\* woken, by a signal that reaches the right thread.
CallsReturn == client.pc # "idle" ~> client.pc \in {"idle", "freed"}

(***************************************************************************)
(* Packets are answered in order, none twice and none skipped: the slots   *)
(* that owe an answer hold the packets that FrameOrder calls pending.      *)
(***************************************************************************)

Order == INSTANCE FrameOrder WITH
            pending <- {p[i].avpkt : i \in owed},
            returned <- IF client.ret[1] = NoId THEN Nothing ELSE client.ret
InOrder == Order!Spec
=============================================================================
