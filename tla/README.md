# MkPlayer: TLA+ models, checks and proofs

MkPlayer is the shell of an Android video player: a Java class `PlayerNative`
over a native library, `libPlayerCore`, that links FFmpeg 4.0.2 whole
(`src/Core/jni/Android.mk:93,98`). Most of the repository is vendored FFmpeg.
The code of its own is small, but it sits where a process is easiest to break:
library loading, class initialization, and threads that come and go between C++
and the JVM. These modules model that code; the frame-threaded decoder, which is
the vendored code that the library runs on threads of its own; the two builds
that produce the library; and the programs that use FFmpeg's API, which the
repository keeps beside the headers and archives of the player
(`Core/libFFmpeg-min/share/ffmpeg/examples`) and after which a player's own
demuxing, decoding and encoding loops will be written.

All source paths below are relative to `src/`. `FF` is `third-party/ffmpeg-4.0.2`,
`EX` the directory of the examples, `INC` is `Core/libFFmpeg-min/include`.

## 1. Inventory

| Component | State | Operations | Talks to | Hard because | Correct when |
|---|---|---|---|---|---|
| JNI environment (`Core/jni/JniUtil.cpp`) | `g_key`, `g_jvm`, a thread's value under `g_key`, its attachment to the JVM | `JNI_EnvInit`, `JNI_EnvDeInit`, `JNI_GetThreadEnv`, destructor `_detachCurrentThread` | pthread keys, JVM; called by JniMgr and by any native thread | the detach runs in a TLS destructor, among the destructors of other components, in rounds | exactly the attachments the library made are undone, before the thread is gone |
| Library load (`Core/jni/JniMgr.cpp`, `MediaPlayer.cpp`) | methods registered, library loaded or not | `JNI_OnLoad`, `_JNI_Init`, `Player_native_init` | JniUtil, JVM, PlayerNative | fails at four places, undoes nothing | a failed load is never taken for a good one |
| `PlayerNative`, `MainActivity` (Java) | class state, instances | static initializer, constructor, `native_init`, `prepareAsync` | library load | concurrent first use; the load error is swallowed | an instance implies a library that is up, initialized once |
| Frame threads (`FF/libavcodec/pthread_frame.c`) | slots with a worker, a packet, a frame, a state; positions of the client | init, submit, decode, callbacks, collect, drain, flush, free | codec, client, `decode.c` | N workers and a client, 3 condition variables per slot, 2 mutexes held while blocking, callbacks that cross threads | output in packet order, nothing lost or repeated, no hang, nothing left after free |
| Draining (`FF/libavcodec/decode.c`) | `draining`, `draining_done` | `decode_simple_internal`, `avcodec_flush_buffers` | frame threads | end of stream is inferred from an empty answer | end is reported when, and only when, nothing is left |
| Decoding API (`FF/libavcodec/decode.c`) | one buffered packet, one buffered frame, bitstream filter queue | `avcodec_send_packet`, `avcodec_receive_frame` | client, frame threads or a codec | EAGAIN from either side, draining and EOF by the order of calls | a packet accepted is decoded; never EAGAIN from both sides |
| Slice threads (`FF/libavutil/slicethread.c`) | job counter, workers done | execute, worker, free | codecs | lock-free job counter with mutex rendezvous | each job runs once; execute returns after all |
| Buffers and pools (`FF/libavutil/buffer.c`) | reference counts, free list | ref, unref, pool get, pool uninit | frames, codecs | the pool outlives its owner while buffers are out | freed once, after the last reference |
| Player build (`Core/jni/build.sh`, `Android.mk`) | `obj/local`, `libs-min`, `libs-full`, `app_libs` | build min or full, rebuild | FFmpeg build, `ndk-build` | incremental builds over shared directories, unchecked copies | what is installed is what was asked for |
| FFmpeg build (`FF/_build_*.sh`) | object directory per configuration, one install prefix per ABI (`_build_NDK_path.sh:71`) | configure, make, install | player build | last install wins; archives are installed one by one, unchecked | as above |
| Decoding loops (`EX/extract_mvs.c`, `hw_decode.c`, `qsvdec.c`, `filtering_*.c`, `demuxing_decoding.c`) | demuxer position, a decoder per stream, `ret`, what is allocated | set up, read, send, receive, flush, clean up | codecs, muxers | a failure at any call; the flush runs after a failure too | a clean run decodes everything; nothing twice; nothing left allocated |
| Parsing loops (`EX/decode_audio.c`, `decode_video.c`) | input buffer, window, parser's pending bytes | refill, parse, decode, flush | parser, decoder | frames fall anywhere on the buffer | every byte is parsed once and in order; the loop ends |
| Encoding loops (`EX/encode_audio.c`, `encode_video.c`, `vaapi_encode.c`) | one frame or a pool of surfaces, references | fill, send, receive, flush | encoder | the encoder still reads what the loop writes next | what is encoded is what was sent |
| Transcoders (`EX/transcode_aac.c`, `transcoding.c`, `vaapi_transcode.c`) | decoders, encoders, FIFO or filters, output file | decode, convert or filter, encode, mux, flush, clean up | codecs, muxer | two codecs that delay, a lazy set-up, cleanup after a failed set-up | the input, in order, between header and trailer; the exit status tells |
| Other examples (`EX/remuxing.c`, `muxing.c`, filters, scaling, I/O) | — | — | — | straight-line | not modelled |
| Inline arithmetic (`INC/libavutil/common.h`, `rational.h`, `mem.h`, `fifo.h`, `bswap.h`) | — | clips, saturated sums, sizes, rationals, swaps, UTF-16 | everything | bit tests and wrapping sums | equal to the exact operation, for every argument |
| Codecs, demuxers, scaling | — | — | — | signal processing | not modelled |
| UI, resources, Gradle | — | — | — | declarative | not modelled |

Interaction in one line: `MainActivity` → `PlayerNative` static initializer →
`System.loadLibrary` → `JNI_OnLoad` → `_JNI_Init` → (`JNI_EnvInit`,
`JNI_GetThreadEnv`, `RegisterNatives`) → `native_init`; native threads call
`JNI_GetThreadEnv` at any time afterwards and exit when they like; a decoder
opened in the library runs its own workers under `ff_thread_decode_frame`.

`PROJECT.json` lists under `hazards` what can go wrong in this code that a test
would hardly reach, each at its line with the properties that would show it.

## 2. Modules

| Module | Models | Kind |
|---|---|---|
| `JniUtil` | `JniUtil.cpp`, and the pthread keys and JVM attachments it relies on | component |
| `PlayerLoad` | `PlayerNative.java`, `MainActivity.java`, `JniMgr.cpp`, `MediaPlayer.cpp`; EXTENDS `JniUtil` | composition |
| `FrameOrder` | what a frame-threaded decoder promises (`FF/libavcodec/thread.h:50-61`, `FF/doc/multithreading.txt:9-12`) | abstract specification |
| `FrameThread` | `pthread_frame.c`, and `decode.c` as far as it drives it; implements `FrameOrder` | component |
| `BuildPipeline` | `build.sh`, `_build_NDK_one_lib.sh` and the directories they share | composition |
| `AvCodec` | the send and receive contract of a codec as `FF/libavcodec/decode.c`, `encode.c` and `INC/libavcodec/avcodec.h` have it | component, operators only |
| `DemuxDecode` | `extract_mvs.c`, `hw_decode.c`, `qsvdec.c`, `filtering_video.c`, `filtering_audio.c`, `demuxing_decoding.c`; EXTENDS `AvCodec`, as do the next five | composition |
| `ParseDecode` | `decode_audio.c`, `decode_video.c` | composition |
| `EncodeFrames` | `encode_audio.c`, `encode_video.c`, `vaapi_encode.c` | composition |
| `TranscodeAac` | `transcode_aac.c` | composition |
| `Transcoding` | `transcoding.c` | composition |
| `VaapiTranscode` | `vaapi_transcode.c` | composition |
| `AvUtil` | integer functions that libavutil's headers define | pure operators |
| `MC...` | the instance looked at: model values, codecs and clients, types of configurations | model checking |
| `Player_proofs` (JniUtil, PlayerLoad, BuildPipeline), `Decoding_proofs` (FrameThread, ParseDecode), `DemuxDecode_proofs`, `EncodeFrames_proofs`, `Transcoding_proofs`, `TranscodeAac_proofs`, `VaapiTranscode_proofs` | theorems about components and their proofs | proofs |
| `Libav_proofs` | theorems about `AvUtil`, and the lemmas on codecs and sequences that the proofs about the examples share | proofs |

### JniUtil

Variables: `g_jvm` (set or not), `g_key`, the table `keys` of pthread keys with
the owner of each destructor, `tls[t]` (keys with a non-NULL value of thread
`t`), `att[t]` (who attached `t`), `op[t]` (where `t` is in `JNI_GetThreadEnv`),
`phase`, `sweep` and `round` of an exiting thread, and `dead` (the process died).

| Action | Code |
|---|---|
| `JNI_EnvInit`, `EnvInitFails` | `JniUtil.cpp:26-36`, and what `_JNI_Init` makes of a failure (`JniMgr.cpp:49-51`): it ignores it and calls through a NULL `g_jvm` |
| `JNI_GetThreadEnv`, `AttachCurrentThread`, `StoreEnv` | 44-67, cut at the three calls that other threads can interleave with |
| `detachCurrentThread` | 11-24 |
| `ThreadExit`, `SkipKey`, `ForeignDestructor`, `NextRound` | external: the C library visits the keys of an exiting thread in any order, clears a value and calls its destructor, and starts over while values are left, at most `Rounds` times |
| `ForeignCreateKey`, `ForeignDeleteKey`, `ForeignSet`, `ForeignAttach` | external: other native components, which detach only what they attached |

`JNI_EnvDeInit` (38-42) is not an action: nothing in the repository calls it. A
caller would find that `g_key` and `g_jvm` stay set when the key is gone.

Two choices are worth naming. A foreign destructor may store its value again
and may call `JNI_GetThreadEnv` on the exiting thread: both are usual, and they
are what makes `_detachCurrentThread` hard to get right. It may do so only in
rounds up to `ForeignRounds < Rounds`: a component that attaches in the last
round cannot be helped by any destructor (the C library drops the value), so
that is an assumption on the others, named in `JniUtilAssumption`.

### PlayerLoad

EXTENDS `JniUtil` with the class state `cls`, the library state `lib`, the
`registered` methods, `inits` (runs of `Player_native_init`), `pc[t]` and the
threads that hold an instance. `loadLibrary`, `OnLoadEnv`, `OnLoadFindClass`,
`OnLoadRegister` and `native_init` are the steps of the static initializer in
order, each with its failure; `OnLoadEnv` contains JniUtil's `JNI_EnvInit`.
`Elsewhere` lets every thread outside the initializer take JniUtil's steps, those
of `JNI_GetThreadEnv` only when the library is loaded (`InNative`), and the other
components theirs. JniUtil has no run of its own: its properties are checked
here, over a library that loads and fails to load as it really does.
The JVM rules used (external): one thread runs a static initializer while
others wait, an escaping error makes the class erroneous for good, an unbound
native method throws.

### FrameThread

`p[i]` is the `PerThreadContext` of worker `i`, `fctx` the `FrameThreadContext`.
Condition variables are modelled with their wait sets: `waits[t]` names the one
thread `t` sleeps on, `Broadcast` wakes everybody there and `Signalled` one of
them, any; a signal that nobody waits for is lost. A critical section without a
wait inside is one step, and the locks held while blocking are state: `p[i].mutex`
(the worker holds it while decoding) and `buffer_mutex` (a worker holds it while
the client allocates for it). `p[i].thread` and `client.pc` are program counters.

The codec is external and does on its thread what `doc/multithreading.txt` asks
of it, in any order allowed: ask for a format and a buffer, finish its setup,
wait for the picture it refers to, report its own picture, release buffers,
return a frame, nothing or an error. `Codecs` are records: does the codec have
`update_thread_context`, is it given empty packets (`AV_CODEC_CAP_DELAY`), and
which callbacks of the client must run on the client's thread.

Ghost variables: `owed` (slots whose packet is not answered) and `yield` (what
decoding a packet gave). They are only written.

### FrameOrder

The packets that were submitted and not answered, by number, decoded in any
order; the one with the lowest number is answered, in silence when it gave
nothing; a flush empties the set. `FrameThread!InOrder` maps the slots that owe an
answer to the packets in them, so it says nothing of the ring: that the slot the
client looks at next has the oldest packet is what has to be shown. The step that
collects a slot while draining maps to `Answer`, the passing of an empty slot to a
stutter.

### BuildPipeline

State: the object directory and run of each configuration, the install `prefix`
and `core` (what a developer copied to `libFFmpeg-<type>`), archive by archive;
`obj`, `libs`, `out[type]`, `symbols[type]` and `app` of the player build; `job`,
the run of `build.sh`. A file is the configuration it was built in. Timestamps
are reduced to `newer`: are the archives of a type newer than the linked
library? `NdkBuild` links when they are, or when there is no library
(`MustLink`): that is make's rule and all of `ndk-build` that matters here. Each
`cp` may fail without anybody looking; `job.lost` remembers it for the
properties. Builds of several configurations interleave, as nothing in the
scripts prevents it.

### AvCodec and the example programs

`AvCodec` has a codec as a record: the inputs it holds and whether it drains.
A codec answers in order, one output per input, and holds up to a delay back.
`SendPacketRet`, `SendFrameRet`, `Drain` and their kin are what the programs see
of `avcodec_send_packet`, `avcodec_receive_frame` and the other two, EAGAIN and
EOF included.

In each program an action is a call, or a run of calls whose failures are
handled alike, with everything the program does around it. Every call may fail,
so a module has pairs like `OpenInput` and `OpenInputFails`, and set-up code is a
table of steps with where its failure goes (`SetupOf`). Frames are named by the
packet they come from and packets by their place in the file, so that a lost,
repeated or reordered frame is seen as such. `open`, `failed` and, in
`TranscodeAac`, `decoded` and `input` are history or allocation ghosts.
Programs that share their loop share a module and differ in operators that
test `program`.

- `DemuxDecode`: `streams[i]` is the stream of packet `i`; `SkipStream` is a
  stream that a program which wants two (demuxing) does not find; `Flushed` are
  the decoders that the end of the program drains; `ret` is kept as negative,
  zero or positive, since qsvdec and demuxing test it differently.
- `ParseDecode`: a byte is a unit of size and knows its frame. `Moved`, `Fread`
  and `RefillAudio` are the memmove and the refill; the parser keeps `pending`.
- `EncodeFrames`: a buffer's content is the turn that wrote it, `refs` its
  references; `Encode` reads the content when the encoder gets round to it,
  which is the point of the module.
- `TranscodeAac`: samples are numbered. The program asks for one frame after each
  packet (`transcode_aac.c:399`), and the modelled decoder has no more to give.
- `Transcoding`: `graph[s]` is "unset" for memory that `av_malloc_array` did not
  clear, and cleanup may do anything with it (`CleanupCrashes`).
- `VaapiTranscode`: `dec_enc` sets the encoder up when the first frame arrives;
  `attempts` counts how often.

### AvUtil

Operators only. A conversion to unsigned is `%`, a test of high bits is
`\div`, `a >> 31` is a mask of signs. Sizes are parametrised by the root of
their range, powers of two by the power.

## 3. Runs

| Run | Cfg | Bounds | Checks |
|---|---|---|---|
| `player_load` | `MCPlayerLoad.cfg` | 2 threads, 2 keys, 4 rounds (bionic's `PTHREAD_DESTRUCTOR_ITERATIONS`), foreign rounds 3 | `JniTypeOK`, `NoThreadGoneAttached`, `ValueMarksOwnAttachment`, `TypeOK`, `InstanceMeansReady`, `FailedLoadIsFatal`, `ExitEndsDetached` (liveness) |
| `unbound_method` | `UnboundMethod.cfg` | 2 threads | `NativeMethodsBound` is violated (below) |
| `frame_order` | `FrameOrder3.cfg` | 3 workers, 4 packets | `TypeOK`, `EofMeansDrained`, `DelayBound`, `InOrder` (refinement) |
| `frame_callbacks` | `FrameCallbacks.cfg` | 2 workers, 3 packets, clients with and without callbacks on their thread | `OneSetupAtATime`, `FreedCompletely`, `ContextSettled` (action), `CallsReturn` (liveness) |
| `build` | `MCBuildPipeline.cfg` | 2 types, 2 configurations, 2 archives, 3 runs of `build.sh`, 2 of the other script | `RebuildDelivers`, `SameTypeDelivers`, `ShippedMatchesSymbols` |
| `demux_decode` | `DemuxDecode.cfg` | 5 programs, 4 packets of 3 streams, decoders hold 2 back | `CleanRunDecodesAll`, `OutputIncreasing`, `ReleasedAtExit` |
| `parse_decode` | `ParseDecode.cfg` | 4 frames of 1 to 5 bytes, buffer of 4, threshold 2, delay 2 | `BytesInOrder`, `OnlyLastFrameLost`, `Terminates` (liveness) |
| `encode_frames` | `EncodeFrames.cfg` | 3 programs, 5 turns, delay 0 to 3, pool of 3, lists of up to 1 | `EncodedAsSent`, `ReferencesCounted`, `PoolSuffices` |
| `highest_rate` | `HighestRate.cfg` | encode_audio, lists of up to 2 of 3 rates | `HighestRate` is violated (below) |
| `transcode_aac` | `MCTranscodeAac.cfg` | frame size 2, 4 input frames of 1 to 3 samples, delays 0 to 2 | `SamplesConserved`, `FramesFullAndTimed`, `WholeInputWritten`, `ReleasedAtExit`, `Terminates` (liveness) |
| `transcoding` | `Transcoding.cfg` | 2 streams, 4 packets, delays 0 and 1 | `WrittenAsRead`, `StatusTellsEncoding`, `CleanupMeetsSetUp` |
| `vaapi_transcode` | `VaapiTranscode.cfg` | 5 packets of 2 streams, decoder delay 2, encoder delay 1 | `OutputWellFormed`, `CleanRunTranscodesAll`, `RetriedOnlyByDrain` |

Where a module has a `TypeOK` that is not listed, it is a conjunct of the first
invariant. Every property of a passing run has a mutant in `PROJECT.json`: a changed definition
under which the run finds the property violated.

Why the bounds are enough for what they are used for:

- Two threads are enough for JniUtil: threads meet only in `g_key`, `g_jvm` and
  the key table. Two keys are the library's own and a foreign one with a
  destructor that runs before or after it, or one that is created, deleted and
  taken again while a thread exits. The invariants are also proved for all
  values of the constants.
- Two threads in PlayerLoad: one that initializes, and one that waits for it or
  comes after. Also proved for all values.
- Three workers and four packets: the first slot is used a second time, one
  frame is returned while another is being decoded and a third is waiting, the
  ring wraps while draining, and a draining call passes over empty slots and
  the slot it started from. With callbacks, two workers are enough for the
  client to wait for the previous setup while a worker waits for the client, and
  for a worker to wait on the condition variable of the other.
- Three builds: one type, then the other, then either of them again; two FFmpeg
  builds are enough for archives of two configurations to be mixed below the
  prefix and in `libFFmpeg-<type>`.
- The examples: more packets than the codecs hold together, so that packets are
  sent before the first frame, between frames and after the last; a failure at
  each call at each of these times; with two streams, and in `DemuxDecode` a
  third that nobody decodes, packets of one between those of another. In
  `ParseDecode` a frame may be larger than the buffer, span three refills, or end
  with it. In `EncodeFrames` delays go from 0 to one more than the pool lasts.
  In `TranscodeAac` the input's frames are smaller and larger than the encoder's.
- `MaxPackets` and `MaxIds` (in FrameThread) bound the packets submitted, with data and in all
  (draining submits empty ones); they appear as guards in `DecodePacket` and
  `DrainPackets`. A slot has at most one delayed buffer (`ReleaseBuffer`).

Deadlock is checked in the FrameThread runs and those of the examples: the only
states without another step are the ends, which stutter by themselves. The
PlayerLoad and BuildPipeline runs say `CHECK_DEADLOCK FALSE`: the
process stops when it died (`dead`), and when all threads are gone and nothing
is left to create; builds stop when nobody starts another.

### Fairness

- `PlayerLoad!FairSpec`: a thread inside `JNI_GetThreadEnv` and an exiting thread
  take their next step (weak fairness for each thread). Neither blocks: the code
  calls the JVM and the C library, and the C library's rounds are a loop. No
  fairness for the static initializer, the callers or the environment.
- `FrameThread!FairSpec`: weak fairness of the client's steps inside a call and
  of each worker. The client need not call. That decoding one packet ends is
  assumed with the worker's fairness: each thing a codec may do is done at most
  once per packet, so there is no other way than to return. Mutexes need no
  strong fairness: the owner of each is at rest or bound to release it, and no
  two threads compete for one again and again without the loser's step staying
  enabled in between.
- `ParseFairSpec` of `ParseDecode` and `TranscodeAac!FairSpec`: weak fairness of the
  program's own steps (`Advance`), which are one thread that no step of another
  can disable. Failures are not forced: that a program ends does not depend on
  one happening.

### What the runs found

`unbound_method`: `JniMgr.cpp:53` says that what follows registers the player's
native methods; `gPlayerMethods` has `native_init` only, `PlayerNative.java:50`
also declares `prepareAsync`. The counterexample is a normal load, a constructed
player, and a call that throws.

`highest_rate`: `encode_audio.c:54` says that `select_sample_rate` picks the
highest supported rate; the comparison (65) picks the one nearest to 44100. The
counterexample is an encoder that lists a higher rate farther away.

The other properties hold; what they had to except, or what the models show on
the way, is worth knowing:

- JNI: a failing `pthread_key_create` kills the process (`EnvInitFails`); that
  `FailedLoadIsFatal` holds is due to `native_init()` being outside the `try`
  (its mutant `initCaught` shows what moving it would do). Not modelled, but seen:
  `JNI_UnLoad` (`JniMgr.cpp:79`) is not a name the JVM calls; the results of
  `JNI_GetThreadEnv` (54) and `pthread_setspecific` (`JniUtil.cpp:59`) are unused.
- Builds: against the help text (`build.sh:39-41`), a full build in a tree of a
  min build ships the min library as `libs-full`, unless the archives are newer
  or `rebuild` is asked for. `RebuildDelivers` and `SameTypeDelivers` say when a
  build does deliver. `make install` and the `cp`s are unchecked, and min and full
  of one ABI install to one prefix.
- Decoding: filtering never flushes its decoder; demuxing flushes the decoder of
  stream 0 only, whatever stream that is, because the empty packet's index is 0
  (`demuxing_decoding.c:344`, `FF/libavformat/utils.c:1574`); extract_mvs, hw_decode
  and qsvdec may exit with 0 after a decoding error. `CleanRunDecodesAll` states
  exactly what is missing. Leaks: extract_mvs loses a decoder whose open failed,
  demuxing the options it would have opened one with, and filtering the packet at
  which it leaves its loop after a failure, past the `av_packet_unref`
  (`filtering_video.c:236-240`, `247-248`, `265-266` past 274, and the same in
  `filtering_audio.c`). `ReleasedAtExit` says in which runs each stays, and that
  nothing else does.
- Parsing: decode_video does not send its parser the empty buffer that
  `INC/libavcodec/avcodec.h:5242` asks for, and loses the last picture;
  decode_audio dereferences NULL on an empty file.
- Encoding: vaapi_encode's status is always an error, EOF having become -1 on the
  way.
- transcode_aac: a decoder or encoder that delays loses its last frames, against
  the comments at 361 and 853; the codecs it is used with do not delay by more
  than one. When the storage for the converted samples cannot be allocated,
  `init_converted_samples` frees the array of pointers (462-463) and its caller
  reads and frees it again (595-597): a double free, after which the process is
  killed or goes on (`FreeConverted`); `pc = "aborted"` is the first. A packet that
  could not be sent, and an I/O context without a format context, are leaked.
  `ReleasedAtExit` says what is left in each case.
- transcoding: decoders are not drained; errors of reading and decoding end with
  status 0 and a file that is only copied ends with status 1, because the flush
  sets `ret` again; after three failures of the set-up the cleanup follows a NULL
  or unset pointer.
- vaapi_transcode: the trailer is written also when there was no header
  (against `INC/libavformat/avformat.h:2653`); a set-up of the encoder that failed
  is tried once more by the drain and adds a second stream.

## 4. Proofs

Checked by TLAPS for every value of the constants, each component's theorems
from the one assumption on constants that its module names (`JniUtilAssumption`,
`FrameThreadAssumption`, ...). TLC evaluates these assumptions in the runs.

`Player_proofs`, first part: JniUtil. The invariants are not inductive: that
a value under `g_key` marks an attachment of the library depends on where
threads are in `JNI_GetThreadEnv` and in their destructor rounds. The inductive
invariant is

    JniInv == /\ JniTypeOK /\ KeysInv /\ CallInv /\ ExitInv
              /\ ValueMarksOwnAttachment /\ NoThreadGoneAttached

`KeysInv`: no thread has a value under a free key, and the key that belongs to the
library is `g_key`, which is never deleted. `CallInv`: a thread about to attach is detached, one about to store
was attached by the library, and neither happens before the library is loaded.
`ExitInv`: what an exiting thread still has to do fits in the rounds it has
left: foreign values, and calls of `JNI_GetThreadEnv` from their destructors,
exist only up to round `ForeignRounds`, and a value under `g_key` is either
still to be visited in this round or has another round to come. One lemma per
action shows that it keeps `JniInv`; `JniInvariant` puts them together, and
`JniTypeCorrect`, `DestructorDetachesOwn` and `DetachedOnExit` follow.

`Player_proofs`, second part: PlayerLoad. Every step of `PlayerLoad` is a step of
`JniUtil` or leaves its variables alone (`StepRefinesJni`), so
`LoadImplementsJni` (`Spec => JniSpec`) and with it everything proved of
JniUtil, as `LoadedThreadsDetach` shows for one property. For its own properties
the invariant `LoadInv` says that at most one thread is in the initializer
(`OneInitializer`), what is set up at each of its steps (`LoadProgress`) and
what the class state implies once it left (`Outcome`). `LoadTypeCorrect`,
`InstancesAreReady` and `FailedLoadsAreFatal` follow.

`Decoding_proofs`, first part: FrameThread, for any number of workers, packets and any codec. What a
promise about the answer needs is where packets can be in the ring at every step
of a call, so the inductive invariant is

    Inv == /\ TypeOK /\ \A i \in Slots : SlotInv(i) /\ YieldInv(i)
           /\ CallInv /\ RingInv /\ OrderInv /\ SetupInv /\ FreeInv
           /\ EofMeansDrained

`SlotInv`: what a worker's place says of its slot's state and of who has its
mutex. `YieldInv`: a packet's outcome is known exactly when its decoding is
over, and the slot keeps it. `RingInv`: with `Pos(k, base)` the distance of slot
`k` from `base` in the ring, all slots that owe an answer lie between
`next_finished` and `next_decoding`. `OrderInv`: in that order their packets are
in order. `SetupInv`: whoever is in its setup is the worker last submitted to.
`FreeInv`: how far the initialization and the freeing came. The thirteen actions
of a worker change only its own slot in ways that `WorkerStep` sums up, so the
ring is shown to survive them once; each action of the client has its lemma.
`TypeCorrect`, `SetupsExclude`, `EofIsDrained`, `DelayIsBounded` (the slot
that is used next owes nothing), `FreeingIsComplete` and `ContextIsSettled`
follow. `FramesInOrder` proves the refinement `Spec => InOrder`: initial states
map to initial states, `ReturnFromDecode` to `Decode`, `SubmitPacket` to
`Submit`, `CollectOutput` to `Answer` or a stutter, `FlushSlots` to `Flush`, and
every other step to `Call` or a stutter.

`Player_proofs`, third part: BuildPipeline, for any types, configurations and archives, any
interleaving of builds and any lost copy. `BuildInv` is `TypeOK`, `FreshObj`
(while this tree built one type only, what is in `obj` is that type's or must be
linked again), `LinkInv` (what `ndk-build` left is what it looked at) and
`CopyInv` (what each directory reached so far has, unless a copy was lost).
`RebuildIsFresh`, `SameTypeIsFresh` and `SymbolsMatch` follow.

`DemuxDecode_proofs`. `OutputInOrder`: `Behind` says of one stream that what is
written and then what its decoder holds are increasing packets of that stream;
it survives a cut and an append, whatever other streams do (`FramesMove`,
`OthersMove` and `FramesGrow` of `Libav_proofs`). `CleanupReleasesAll`: each
program's table of set-up steps is `Regular` (what it allocates, leaves and
where its failures go fit together), shown row by row, and from there `SetupInv`
carries what is allocated at each place; `PacketInv` says when the packet that
filtering was at is among it: never inside the loop, and at its end exactly when
decoding or filtering failed. `CleanRunsComplete` adds that the
packets read are written or held (`CoverInv`), and how far reading and the flush
are (`EndInv`).

`VaapiTranscode_proofs`. The output, what waits in the encoder or in `dec_enc`,
and what the decoder holds form a `Chain` of increasing sequences, each before
the next; `EncoderInv` and `AttemptInv` say when the encoder can be set up
again. `FramesInOrder`, `SetUpTriedTwiceAtMost`; `CleanRunsComplete` with
`CoverInv` and `DrainInv` as above.

`EncodeFrames_proofs`, for any delay of the encoder, any number of turns and
any pool the modelled buffers have room for. The property that references are counted is not inductive, since it
does not say that the encoder holds a buffer once only, which make_writable's
copy relies on. The inductive invariant is `Inv`: `HeldInv` (the buffers held
are distinct, no more than the delay, and every reference has its user),
`FrameInv` (where main has a frame, that it is not among those held when it is
sent, what is allocated) and `ContentInv` (what is encoded and then what is in
the buffers held count up from 1 without a gap to the turn that was sent last).
`CopyHasRoom` and `PoolLasts` rest on counting: a sequence shorter than a set
misses an element of it (`OneLeft`). `AsSent`, `Counted` and `PoolLasts` follow.
`RateIsNearest` (of `RateNearestFirst`, which is stated beside it) is about what the
loop over the supported rates leaves, for any list of them: the first of those
nearest to 44100.

`Transcoding_proofs`. `StatusTellsEncoding` and `CleanupMeetsSetUp` for any
number of streams and packets and any delays. What the cleanup finds depends on
how far the set-up came, and the status on whether anything was left to flush,
so the inductive invariant is `SetUpInv` (what is set up at each `pc`),
`FailureInv` (which failures can have happened before it) and `CleanupInv` (what
a failure leaves in `ret`, in the arrays and in `lost`). One step per action.
`StreamsInOrder` is about the packets themselves: of each stream those that are
written, are on their way to or in the encoder, are held by the decoder or could
not be decoded are all that were read (`Tracked`, in `TrackInv`), without
repetition and in order (`OrderInv`), with the types of the queues in `QueueInv`
and which encoders are already empty in `EncodedInv`.

`Decoding_proofs`, second part: ParseDecode, for any sizes of the buffer, of the
threshold, of the frames and of the file, and any delay of the decoder. That
bytes stay in order is not enough to know what a packet is; the inductive
invariant is

    StreamInv == TypeInv /\ BufferInv /\ FrameInv /\ BytesInv /\ CutInv

with `Cursor` the bytes that the parser has consumed and `Base` those of them
that were cut into packets. `BufferInv`: the window holds the bytes of the file
behind `Cursor`, and the end of the file is known only when all was read.
`BytesInv`: the packets and what the parser keeps are the first `Cursor` bytes.
`CutInv`: packet k is frame k of the file, `Base` is the end of the last of
them, and between `Base` and `Cursor` no frame ends (but for video perhaps at
`Cursor` itself, which the parser sees only in the next byte). A file is a
`Stream`: frame numbers rise by one at each end and nowhere else, so that bytes
without an end between them are of one frame (`SameFrame`) and a frame has one
start and one end (`StreamOrdered`); `FilesAreStreams` shows it of every input
`Files` has. A turn of the parser moves the window (`WindowMoves`) and either
keeps the frame (`FrameKept`) or cuts it (`FrameSent`); `NoByteIsLost` and
`DecodesWholeFrames` follow.

`TranscodeAac_proofs`, for any frame size, any input and any delays. Frames that
were sent, in the file or still in the encoder, are one sequence, `Sent`. The
inductive invariant is

    Inv == TypeInv /\ OpenInv /\ HeldInv /\ SampleInv /\ FrameInv

`OpenInv`: what is allocated where main is, and where the double free can end it. `HeldInv`: how many packets and
frames the codecs hold, when they drain and when the FIFO is empty. `SampleInv`:
what was sent and then the FIFO is what the decoder gave, and with what the
decoder holds it is what was read; once the input is finished, all but a rest
that is empty when the decoder does not delay. `FrameInv`: each frame is timed
where those before it end, and all but the last are full. `SamplesAreConserved`,
`FramesAreFullAndTimed`, `WholeInputIsWritten` and `CleanupReleases` follow.

`Libav_proofs`, the part on `AvUtil`. Each clip equals the comparison with its
bounds for every argument, saturated sums are the exact ones clipped,
`av_size_mult` refuses exactly the products that do not fit a `size_t` of any
width, `av_fifo_peek2` stays inside, `av_cmp_q` never overflows, is a transitive
order for positive denominators and undefined exactly for 0/0, swaps reverse
bytes, and UTF-16 reading and writing are inverse on code points and refuse lone
surrogates. Widths above 2^31 are products of names there and are never expanded
to numerals: tlapm 1.4.5 multiplies numerals in machine integers, and what it
would then prove about 2^62 and more could not be trusted.

`Libav_proofs`, the part on sequences. The library states induction for a
predicate, which the provers here cannot instantiate. For a set it can be had:
the naturals missing from a set have a least element, by the well-foundedness
of `<` (`SetInduction`). `FlattenSeq` is then unfolded by the function it
chooses, which exists and is unique (`JoinsExist`, `JoinsAgree`), and so
`FlattenAppend`, `FlattenCat`, `FlattenHead` and `FlattenType` hold for every
sequence of sequences; the proofs on bytes and samples rest on them.

Only model-checked:

- the liveness properties (`ExitEndsDetached`, `CallsReturn`, `Terminates`): the prover does not reason about fairness;
- what the findings say of the code: they rest on TLC's counterexamples and on
  the lines they quote.

## 5. Not modelled

- `hwaccel_mutex` and the workers' use of `async_lock`: the shipped
  `Core/libFFmpeg-min/config.h:572` has `CONFIG_HWACCELS 0`, so
  `avctx->hwaccel` is NULL. `CONFIG_FFV1_DECODER` is 0 as well: the FFV1 term of
  the delay (`pthread_frame.c:498`) is 0.
- Spurious wake-ups of condition variables: every wait is in a loop that tests
  its condition again, so they only add a turn. In the model a woken thread also
  tests again.
- Progress of rows and fields: a picture is reported complete or not. Waiting
  for a row is waiting for a condition that becomes true no later.
- The error limit while draining (`decode.c:553-561`): it is above 20 errors.
- The fields copied between codec contexts (`pthread_frame.c:249-299`,
  323-357): only who may read or write them when (`OneSetupAtATime`).
- Allocation failures inside a worker; those of the client are failures of
  `InitSlot`, `SubmitLock` and `SubmitFails`.
- `JNI_EnvDeInit`, which nothing calls, and whether a constructor call returns: the
  latter is the JVM's rule of class initialization and not this code's doing.
- The empty methods of `PlayerNative`, UI, Gradle, codecs, demuxers, protocols,
  scaling: no control state, or third-party code nothing in the player calls yet.
- `decode.c`'s API, `slicethread.c` and `buffer.c` as programs of their own:
  vendored code that the player drives only through frame threads, which are
  modelled. `AvCodec` has the first's contract.
- In the build: the copy to `libFFmpeg-<type>` is the developer's (the script's
  lines for it are commented out) and is an external action.
- In the examples: pixel and sample data, timestamps (but `TranscodeAac`'s,
  which count samples), formats, printing. Streams that appear after the header
  (`transcoding.c`) and a decoder that gives several frames per packet
  (`TranscodeAac`).
- `remuxing.c`: its loop is that of `Transcoding`'s copied streams, one thread
  and no flush; besides, it uses `ofmt` in its cleanup also when the mapping
  could not be allocated, where it is still NULL. `muxing.c`: its encoders follow
  `EncodeFrames`' protocol; the choice of the stream that is behind is one
  comparison. The filter, scaling, resampling, I/O, directory, metadata and HTTP
  server examples are straight lines around one library call.
- The rest of `Core/libFFmpeg-min/include` and its `config.h`: of the lines beside
  the player most by far are declarations with their documentation and generated
  constants. There is nothing in them to translate, and so the share of lines the
  modules stand for stays small however much of the control is modelled.
- Floating point, bit counts and UTF-8 of libavutil's headers.

## 6. Plan

1. Done: the modules of section 2, their runs, and the proofs of section 4: every
   safety invariant and the refinements that a passing run checks are proved.
2. If the player comes to call them: `DecodeApi` for `decode.c` over `FrameOrder`,
   `BufferPool` for `buffer.c`.

## 7. Running

    tlasany FrameThread.tla
    tlc -workers 2 -config FrameOrder3.cfg MCFrameThread
    tlapm Player_proofs.tla
