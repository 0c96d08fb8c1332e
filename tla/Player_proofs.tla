---------------------------- MODULE Player_proofs ----------------------------
(***************************************************************************)
(* Proofs about the player's own code: JniUtil and PlayerLoad, for any     *)
(* number of threads, keys and destructor rounds, and BuildPipeline, for   *)
(* any types, configurations and archives and any number of runs of the    *)
(* two scripts.                                                            *)
(*                                                                         *)
(* The safety properties of JniUtil are not inductive. What carries them   *)
(* is that the key is never deleted, that a value is stored only under a   *)
(* key that exists, and a count of rounds: other components' values are    *)
(* gone after round ForeignRounds, so nothing re-attaches the thread in    *)
(* the last round, and a value stored by a re-attachment has a round left  *)
(* in which _detachCurrentThread is called for it.                         *)
(*                                                                         *)
(* Loading the library behaves towards JniUtil as JniUtil allows, so what  *)
(* is proved there holds here; and a PlayerNative exists only over a       *)
(* library that was loaded and initialized once. The argument is that of   *)
(* class initialization: one thread at most is in the static initializer,  *)
(* and the class leaves "initializing" only through native_init, which     *)
(* fails unless RegisterNatives succeeded.                                 *)
(***************************************************************************)
EXTENDS PlayerLoad, BuildPipeline, TLAPS

-----------------------------------------------------------------------------
(* JniUtil.                                                                 *)


\* The library's key is never deleted, and values exist only under keys that do.
KeysInv ==
    /\ g_jvm <=> g_key \in Keys
    /\ g_jvm => keys[g_key] = "jni"
    /\ \A k \in Keys : keys[k] = "jni" => k = g_key
    /\ \A t \in Threads : \A k \in tls[t] : keys[k] # "free"

\* The thread's place in JNI_GetThreadEnv agrees with its attachment.
CallInv ==
    \A t \in Threads :
        /\ op[t] = "attach" => att[t] = "no"
        /\ op[t] = "store" => att[t] = "jni"
        /\ op[t] # "none" => g_jvm /\ phase[t] # "gone"
        /\ att[t] = "jni" => g_jvm
        /\ phase[t] = "gone" => tls[t] = {}

\* What is left to do for an exiting thread fits in the rounds it has left.
ExitInv ==
    \A t \in Threads : phase[t] = "sweep" =>
        /\ op[t] # "none" => round[t] <= ForeignRounds
        /\ g_key \in tls[t] => g_key \in sweep[t] \/ round[t] <= ForeignRounds
        /\ \A k \in tls[t] : keys[k] = "other" =>
              \/ k \in sweep[t] /\ round[t] <= ForeignRounds
              \/ round[t] < ForeignRounds

JniInv ==
    /\ JniTypeOK
    /\ KeysInv
    /\ CallInv
    /\ ExitInv
    /\ ValueMarksOwnAttachment
    /\ NoThreadGoneAttached

\* Every conjunct holds at the start: no key, no attachment, nobody exiting.
LEMMA InitEstablishes == JniInit => JniInv
<1> SUFFICES ASSUME JniInit PROVE JniInv
    OBVIOUS
<1>1. JniTypeOK
  <2>1. g_jvm \in BOOLEAN /\ dead \in BOOLEAN
    BY DEF JniInit
  <2>2. att \in [Threads -> Attachers]
    BY DEF JniInit, Attachers
  <2>3. keys \in [Keys -> Owners] /\ round \in [Threads -> 0..Rounds]
    BY JniUtilAssumption DEF JniInit, Owners
  <2> QED
    BY <2>1, <2>2, <2>3 DEF JniInit, JniTypeOK
<1>2. KeysInv /\ CallInv
    BY JniUtilAssumption DEF JniInit, KeysInv, CallInv
<1>3. ValueMarksOwnAttachment /\ NoThreadGoneAttached
    BY DEF JniInit, ValueMarksOwnAttachment, NoThreadGoneAttached
<1>4. ExitInv
    BY DEF JniInit, ExitInv
<1> QED
    BY <1>1, <1>2, <1>3, <1>4 DEF JniInv

\* The key was free, so nobody has a value under it, and before g_jvm is set
\* no thread is attached by the library.
LEMMA JNI_EnvInitKeeps ==
    ASSUME JniInv, NEW t \in Threads, JNI_EnvInit(t)
    PROVE  JniInv'
<1>1. JniTypeOK'
    BY JniUtilAssumption DEF JniInv, JniTypeOK, Owners, JNI_EnvInit
<1>2. KeysInv'
    BY DEF JniInv, JniTypeOK, KeysInv, JNI_EnvInit
<1>3. CallInv'
    BY DEF JniInv, CallInv, JNI_EnvInit
<1>4. ExitInv'
    BY DEF JniInv, KeysInv, ExitInv, JNI_EnvInit
<1>5. ValueMarksOwnAttachment'
    BY DEF JniInv, KeysInv, CallInv, ValueMarksOwnAttachment, JNI_EnvInit
<1>6. NoThreadGoneAttached'
    BY DEF JniInv, CallInv, NoThreadGoneAttached, JNI_EnvInit
<1> QED
    BY <1>1, <1>2, <1>3, <1>4, <1>5, <1>6 DEF JniInv

\* Nothing changes but dead.
LEMMA EnvInitFailsKeeps ==
    ASSUME JniInv, NEW t \in Threads, EnvInitFails(t)
    PROVE  JniInv'
<1>1. JniTypeOK'
    BY DEF JniInv, JniTypeOK, EnvInitFails
<1>2. KeysInv'
    BY DEF JniInv, JniTypeOK, KeysInv, EnvInitFails
<1>3. CallInv'
    BY DEF JniInv, CallInv, EnvInitFails
<1>4. ExitInv'
    BY DEF JniInv, ExitInv, EnvInitFails
<1>5. ValueMarksOwnAttachment'
    BY DEF JniInv, ValueMarksOwnAttachment, EnvInitFails
<1>6. NoThreadGoneAttached'
    BY DEF JniInv, NoThreadGoneAttached, EnvInitFails
<1> QED
    BY <1>1, <1>2, <1>3, <1>4, <1>5, <1>6 DEF JniInv

\* The thread runs and is detached.
LEMMA JNI_GetThreadEnvKeeps ==
    ASSUME JniInv, NEW t \in Threads, JNI_GetThreadEnv(t)
    PROVE  JniInv'
<1>1. JniTypeOK'
    BY DEF JniInv, JniTypeOK, JNI_GetThreadEnv
<1>2. KeysInv'
    BY DEF JniInv, JniTypeOK, KeysInv, JNI_GetThreadEnv
<1>3. CallInv'
    BY DEF JniInv, CallInv, JNI_GetThreadEnv, Idle
<1>4. ExitInv'
    BY DEF JniInv, ExitInv, JNI_GetThreadEnv, Idle
<1>5. ValueMarksOwnAttachment'
    BY DEF JniInv, ValueMarksOwnAttachment, JNI_GetThreadEnv
<1>6. NoThreadGoneAttached'
    BY DEF JniInv, NoThreadGoneAttached, JNI_GetThreadEnv
<1> QED
    BY <1>1, <1>2, <1>3, <1>4, <1>5, <1>6 DEF JniInv

\* The thread was detached, so it had no value under g_key; it gets one
\* in the next step.
LEMMA AttachCurrentThreadKeeps ==
    ASSUME JniInv, NEW t \in Threads, AttachCurrentThread(t)
    PROVE  JniInv'
<1>1. JniTypeOK'
    BY DEF JniInv, JniTypeOK, Attachers, AttachCurrentThread
<1>2. KeysInv'
    BY DEF JniInv, JniTypeOK, KeysInv, AttachCurrentThread
<1>3. CallInv'
    BY DEF JniInv, JniTypeOK, CallInv, AttachCurrentThread
<1>4. ExitInv'
    BY DEF JniInv, JniTypeOK, ExitInv, AttachCurrentThread
<1>5. ValueMarksOwnAttachment'
    BY DEF JniInv, JniTypeOK, CallInv, ValueMarksOwnAttachment, AttachCurrentThread
<1>6. NoThreadGoneAttached'
    BY DEF JniInv, JniTypeOK, CallInv, NoThreadGoneAttached, AttachCurrentThread
<1> QED
    BY <1>1, <1>2, <1>3, <1>4, <1>5, <1>6 DEF JniInv

\* The key takes the value; a thread that is exiting still is in a round
\* in which other destructors run, so another round follows.
LEMMA StoreEnvKeeps ==
    ASSUME JniInv, NEW t \in Threads, StoreEnv(t)
    PROVE  JniInv'
<1>1. JniTypeOK'
    BY DEF JniInv, JniTypeOK, KeysInv, CallInv, StoreEnv
<1>2. KeysInv'
    BY DEF JniInv, JniTypeOK, KeysInv, CallInv, StoreEnv
<1>3. CallInv'
    BY DEF JniInv, CallInv, StoreEnv
<1>4. ExitInv'
    BY DEF JniInv, JniTypeOK, KeysInv, CallInv, ExitInv, StoreEnv
<1>5. ValueMarksOwnAttachment'
    BY DEF JniInv, JniTypeOK, CallInv, ValueMarksOwnAttachment, StoreEnv
<1>6. NoThreadGoneAttached'
    BY DEF JniInv, NoThreadGoneAttached, StoreEnv
<1> QED
    BY <1>1, <1>2, <1>3, <1>4, <1>5, <1>6 DEF JniInv

\* Every value has round 1 before it, and ForeignRounds is at least 1.
LEMMA ThreadExitKeeps ==
    ASSUME JniInv, NEW t \in Threads, ThreadExit(t)
    PROVE  JniInv'
<1>1. JniTypeOK'
    BY JniUtilAssumption DEF JniInv, JniTypeOK, Attachers, ThreadExit
<1>2. KeysInv'
    BY DEF JniInv, JniTypeOK, KeysInv, ThreadExit
<1>3. CallInv'
    BY DEF JniInv, CallInv, ThreadExit
<1>4. ExitInv'
    BY JniUtilAssumption DEF JniInv, JniTypeOK, ExitInv, ThreadExit
<1>5. ValueMarksOwnAttachment'
    BY DEF JniInv, ValueMarksOwnAttachment, ThreadExit, Idle
<1>6. NoThreadGoneAttached'
    BY DEF JniInv, NoThreadGoneAttached, ThreadExit
<1> QED
    BY <1>1, <1>2, <1>3, <1>4, <1>5, <1>6 DEF JniInv

\* Keys with a value exist, so a key that is skipped has none.
LEMMA SkipKeyKeeps ==
    ASSUME JniInv, NEW t \in Threads, NEW k \in Keys, SkipKey(t, k)
    PROVE  JniInv'
<1>1. JniTypeOK'
    BY DEF JniInv, JniTypeOK, SkipKey
<1>2. KeysInv'
    BY DEF JniInv, JniTypeOK, KeysInv, SkipKey
<1>3. CallInv'
    BY DEF JniInv, CallInv, SkipKey
<1>4. ExitInv'
    BY DEF JniInv, KeysInv, ExitInv, SkipKey, Armed
<1>5. ValueMarksOwnAttachment'
    BY DEF JniInv, ValueMarksOwnAttachment, SkipKey
<1>6. NoThreadGoneAttached'
    BY DEF JniInv, NoThreadGoneAttached, SkipKey
<1> QED
    BY <1>1, <1>2, <1>3, <1>4, <1>5, <1>6 DEF JniInv

\* The key is g_key; value and attachment go together.
LEMMA detachCurrentThreadKeeps ==
    ASSUME JniInv, NEW t \in Threads, NEW k \in Keys, detachCurrentThread(t, k)
    PROVE  JniInv'
<1>1. JniTypeOK'
    BY DEF JniInv, JniTypeOK, Attachers, detachCurrentThread
<1>2. KeysInv'
    BY DEF JniInv, JniTypeOK, KeysInv, detachCurrentThread
<1>3. CallInv'
    BY DEF JniInv, CallInv, detachCurrentThread, Visiting
<1>4. ExitInv'
    BY DEF JniInv, JniTypeOK, ExitInv, detachCurrentThread
<1>5. ValueMarksOwnAttachment'
    BY DEF JniInv, JniTypeOK, KeysInv, ValueMarksOwnAttachment, detachCurrentThread
<1>6. NoThreadGoneAttached'
    BY DEF JniInv, NoThreadGoneAttached, detachCurrentThread
<1> QED
    BY <1>1, <1>2, <1>3, <1>4, <1>5, <1>6 DEF JniInv

\* The key is not g_key.  Whatever the destructor leaves behind, its value or a
\* new attachment, falls in a round with another one after it.
LEMMA ForeignDestructorKeeps ==
    ASSUME JniInv, NEW t \in Threads, NEW k \in Keys, ForeignDestructor(t, k)
    PROVE  JniInv'
<1>1. JniTypeOK'
    BY DEF JniInv, JniTypeOK, Attachers, ForeignDestructor
<1>2. KeysInv'
    BY DEF JniInv, JniTypeOK, KeysInv, ForeignDestructor
<1>3. CallInv'
    BY DEF JniInv, JniTypeOK, CallInv, ForeignDestructor, Armed
<1>4. ExitInv'
    BY JniUtilAssumption DEF JniInv, JniTypeOK, ExitInv, ForeignDestructor, Armed
<1>5. ValueMarksOwnAttachment'
    BY DEF JniInv, KeysInv, JniTypeOK, ValueMarksOwnAttachment, ForeignDestructor
<1>6. NoThreadGoneAttached'
    BY DEF JniInv, NoThreadGoneAttached, ForeignDestructor
<1> QED
    BY <1>1, <1>2, <1>3, <1>4, <1>5, <1>6 DEF JniInv

\* All keys were visited: a value that is left was set in a round before the
\* last, so a thread that is gone has none under g_key and is not attached.
LEMMA NextRoundKeeps ==
    ASSUME JniInv, NEW t \in Threads, NextRound(t)
    PROVE  JniInv'
<1>1. JniTypeOK'
    BY JniUtilAssumption DEF JniInv, JniTypeOK, NextRound
<1>2. KeysInv'
    BY DEF JniInv, JniTypeOK, KeysInv, NextRound
<1>3. CallInv'
    BY DEF JniInv, JniTypeOK, CallInv, NextRound
<1>4. ExitInv'
    BY JniUtilAssumption DEF JniInv, JniTypeOK, ExitInv, NextRound
<1>5. ValueMarksOwnAttachment'
    BY DEF JniInv, JniTypeOK, ValueMarksOwnAttachment, NextRound
<1>6. NoThreadGoneAttached'
    BY JniUtilAssumption DEF JniInv, KeysInv, JniTypeOK, ExitInv, ValueMarksOwnAttachment,
       NoThreadGoneAttached, NextRound, Armed
<1> QED
    BY <1>1, <1>2, <1>3, <1>4, <1>5, <1>6 DEF JniInv

\* A free key has no values, and g_key is not free once it was created.
LEMMA ForeignCreateKeyKeeps ==
    ASSUME JniInv, NEW k \in Keys, ForeignCreateKey(k)
    PROVE  JniInv'
<1>1. JniTypeOK'
    BY DEF JniInv, JniTypeOK, Owners, ForeignCreateKey
<1>2. KeysInv'
    BY DEF JniInv, JniTypeOK, KeysInv, ForeignCreateKey
<1>3. CallInv'
    BY DEF JniInv, CallInv, ForeignCreateKey
<1>4. ExitInv'
    BY DEF JniInv, KeysInv, ExitInv, ForeignCreateKey
<1>5. ValueMarksOwnAttachment'
    BY DEF JniInv, ValueMarksOwnAttachment, ForeignCreateKey
<1>6. NoThreadGoneAttached'
    BY DEF JniInv, NoThreadGoneAttached, ForeignCreateKey
<1> QED
    BY <1>1, <1>2, <1>3, <1>4, <1>5, <1>6 DEF JniInv

\* A key of another component is not g_key.
LEMMA ForeignDeleteKeyKeeps ==
    ASSUME JniInv, NEW k \in Keys, ForeignDeleteKey(k)
    PROVE  JniInv'
<1>1. JniTypeOK'
    BY DEF JniInv, JniTypeOK, Owners, ForeignDeleteKey, DeleteKey
<1>2. KeysInv'
    BY DEF JniInv, JniTypeOK, KeysInv, ForeignDeleteKey, DeleteKey
<1>3. CallInv'
    BY DEF JniInv, CallInv, ForeignDeleteKey, DeleteKey
<1>4. ExitInv'
    BY DEF JniInv, ExitInv, ForeignDeleteKey, DeleteKey
<1>5. ValueMarksOwnAttachment'
    BY DEF JniInv, JniTypeOK, KeysInv, ValueMarksOwnAttachment, ForeignDeleteKey, DeleteKey
<1>6. NoThreadGoneAttached'
    BY DEF JniInv, NoThreadGoneAttached, ForeignDeleteKey, DeleteKey
<1> QED
    BY <1>1, <1>2, <1>3, <1>4, <1>5, <1>6 DEF JniInv

\* Only running threads set values, under keys that exist.
LEMMA ForeignSetKeeps ==
    ASSUME JniInv, NEW t \in Threads, NEW k \in Keys, ForeignSet(t, k)
    PROVE  JniInv'
<1>1. JniTypeOK'
    BY DEF JniInv, JniTypeOK, ForeignSet
<1>2. KeysInv'
    BY DEF JniInv, JniTypeOK, KeysInv, ForeignSet
<1>3. CallInv'
    BY DEF JniInv, CallInv, ForeignSet, Idle
<1>4. ExitInv'
    BY DEF JniInv, ExitInv, ForeignSet, Idle
<1>5. ValueMarksOwnAttachment'
    BY DEF JniInv, JniTypeOK, KeysInv, ValueMarksOwnAttachment, ForeignSet
<1>6. NoThreadGoneAttached'
    BY DEF JniInv, NoThreadGoneAttached, ForeignSet
<1> QED
    BY <1>1, <1>2, <1>3, <1>4, <1>5, <1>6 DEF JniInv

\* The library's attachments are left alone.
LEMMA ForeignAttachKeeps ==
    ASSUME JniInv, NEW t \in Threads, ForeignAttach(t)
    PROVE  JniInv'
<1>1. JniTypeOK'
    BY DEF JniInv, JniTypeOK, Attachers, ForeignAttach
<1>2. KeysInv'
    BY DEF JniInv, JniTypeOK, KeysInv, ForeignAttach
<1>3. CallInv'
    BY DEF JniInv, CallInv, ForeignAttach, Idle
<1>4. ExitInv'
    BY DEF JniInv, ExitInv, ForeignAttach
<1>5. ValueMarksOwnAttachment'
    BY DEF JniInv, ValueMarksOwnAttachment, ForeignAttach
<1>6. NoThreadGoneAttached'
    BY DEF JniInv, NoThreadGoneAttached, ForeignAttach
<1> QED
    BY <1>1, <1>2, <1>3, <1>4, <1>5, <1>6 DEF JniInv

\* A step of any thread, or of the process after the library was loaded.
LEMMA ProcessStepKeeps == JniInv /\ ProcessStep => JniInv'
<1> SUFFICES ASSUME JniInv, ProcessStep PROVE JniInv'
    OBVIOUS
<1>1. CASE \E k \in Keys : ForeignCreateKey(k) \/ ForeignDeleteKey(k)
    BY <1>1, ForeignCreateKeyKeeps, ForeignDeleteKeyKeeps
<1>2. ASSUME NEW t \in Threads, ThreadStep(t) PROVE JniInv'
  <2>1. CASE JNI_GetThreadEnv(t) \/ GetEnvSteps(t)
    BY <2>1, JNI_GetThreadEnvKeeps, AttachCurrentThreadKeeps, StoreEnvKeeps DEF GetEnvSteps
  <2>2. CASE ThreadExit(t) \/ ForeignAttach(t)
    BY <2>2, ThreadExitKeeps, ForeignAttachKeeps
  <2>3. CASE ExitSteps(t)
    BY <2>3, NextRoundKeeps, SkipKeyKeeps, detachCurrentThreadKeeps, ForeignDestructorKeeps
       DEF ExitSteps
  <2>4. CASE \E k \in Keys : ForeignSet(t, k)
    BY <2>4, ForeignSetKeeps
  <2> QED
    BY <1>2, <2>1, <2>2, <2>3, <2>4 DEF ThreadStep
<1> QED
    BY <1>1, <1>2 DEF ProcessStep

LEMMA NextKeeps == JniInv /\ [JniNext]_jniVars => JniInv'
<1> SUFFICES ASSUME JniInv, [JniNext]_jniVars PROVE JniInv'
    OBVIOUS
<1>1. CASE \E t \in Threads : JNI_EnvInit(t) \/ EnvInitFails(t)
    BY <1>1, JNI_EnvInitKeeps, EnvInitFailsKeeps
<1>2. CASE ProcessStep
    BY <1>2, ProcessStepKeeps
<1>3. CASE UNCHANGED jniVars
    BY <1>3 DEF JniInv, JniTypeOK, KeysInv, CallInv, ExitInv, ValueMarksOwnAttachment,
       NoThreadGoneAttached, jniVars
<1> QED
    BY <1>1, <1>2, <1>3 DEF JniNext

\* The inductive invariant.
THEOREM JniInvariant == JniSpec => []JniInv
<1>1. JniInit => JniInv
    BY InitEstablishes
<1>2. JniInv /\ [JniNext]_jniVars => JniInv'
    BY NextKeeps
<1> QED
    BY <1>1, <1>2, PTL DEF JniSpec

\* The variables of JniUtil keep their types.
THEOREM JniTypeCorrect == JniSpec => []JniTypeOK
<1>1. JniInv => JniTypeOK
    BY DEF JniInv
<1> QED
    BY <1>1, JniInvariant, PTL

\* _detachCurrentThread only ever undoes an attachment of JNI_GetThreadEnv: a
\* value under g_key stands for exactly one of those.
THEOREM DestructorDetachesOwn == JniSpec => []ValueMarksOwnAttachment
<1>1. JniInv => ValueMarksOwnAttachment
    BY DEF JniInv
<1> QED
    BY <1>1, JniInvariant, PTL

\* A thread that JNI_GetThreadEnv attached is detached before it is gone, also
\* when destructors of other components had it attached again.
THEOREM DetachedOnExit == JniSpec => []NoThreadGoneAttached
<1>1. JniInv => NoThreadGoneAttached
    BY DEF JniInv
<1> QED
    BY <1>1, JniInvariant, PTL

-----------------------------------------------------------------------------
(* PlayerLoad.                                                              *)

\* Every step is one of JniUtil or leaves its variables alone.
LEMMA StepRefinesJni == [Next]_vars => [JniNext]_jniVars
<1> SUFFICES ASSUME [Next]_vars PROVE [JniNext]_jniVars
    OBVIOUS
<1>1. ASSUME NEW t \in Threads, NewPlayer(t) \/ ClinitStep(t) \/ prepareAsync(t), ~dead
      PROVE  [JniNext]_jniVars
  <2>1. CASE OnLoadEnv(t)
    BY <1>1, <2>1 DEF OnLoadEnv, JniNext
  <2>2. CASE ~OnLoadEnv(t)
    BY <1>1, <2>2 DEF NewPlayer, ClinitStep, prepareAsync, EnterClinit, Construct, NoClassDef,
       loadLibrary, OnLoadFindClass, OnLoadRegister, native_init, At
  <2> QED
    BY <2>1, <2>2
<1>2. ASSUME Elsewhere, ~dead PROVE [JniNext]_jniVars
    BY <1>2 DEF Elsewhere, JniNext, ProcessStep
<1>3. CASE UNCHANGED vars
    BY <1>3 DEF vars
<1> QED
    BY <1>1, <1>2, <1>3 DEF Next

\* What the class initializer does to the library is what JniUtil models.
THEOREM LoadImplementsJni == Spec => JniSpec
<1>1. Init => JniInit
    BY DEF Init
<1> QED
    BY <1>1, StepRefinesJni, PTL DEF Spec, JniSpec

\* Threads of the loaded player are detached when they are gone.
THEOREM LoadedThreadsDetach == Spec => []NoThreadGoneAttached
    BY LoadImplementsJni, DetachedOnExit, PTL

InClinit(t) == pc[t] \in Clinit

\* One thread at most is in the static initializer, while it is initializing.
OneInitializer ==
    \A t \in Threads : InClinit(t) =>
        /\ cls = "initializing"
        /\ \A u \in Threads : InClinit(u) => u = t

\* How far the load is, from the initializing thread's place in it.
LoadProgress ==
    \A t \in Threads :
        /\ pc[t] \in {"loadLibrary", "EnvInit", "FindClass", "RegisterNatives"} =>
              lib = "unloaded" /\ registered = {}
        /\ pc[t] \in {"FindClass", "RegisterNatives"} => g_jvm
        /\ pc[t] = "native_init" =>
              \/ lib = "loaded" /\ registered = gPlayerMethods /\ g_jvm
              \/ lib = "failed" /\ registered = {}

Outcome ==
    /\ cls = "linked" => lib = "unloaded" /\ registered = {}
    /\ cls # "initialized" => inits = 0 /\ holds = {}
    /\ cls = "initialized" =>
          lib = "loaded" /\ registered = gPlayerMethods /\ inits = 1 /\ g_jvm

LoadInv == TypeOK /\ OneInitializer /\ LoadProgress /\ Outcome

LEMMA LoadInit == Init => LoadInv
<1> SUFFICES ASSUME Init PROVE LoadInv
    OBVIOUS
<1>1. JniTypeOK
    BY InitEstablishes DEF Init, JniInv
<1>2. TypeOK
    BY <1>1 DEF Init, TypeOK, PcLabels
<1>3. OneInitializer /\ LoadProgress /\ Outcome
    BY DEF Init, OneInitializer, InClinit, Clinit, LoadProgress, Outcome
<1> QED
    BY <1>2, <1>3 DEF LoadInv

\* g_jvm is set once and stays.
LEMMA JvmStays == ASSUME g_jvm, [JniNext]_jniVars PROVE g_jvm'
    BY DEF jniVars, JniNext, JNI_EnvInit, EnvInitFails, ProcessStep, DeleteKey,
       ForeignCreateKey, ForeignDeleteKey, ThreadStep, JNI_GetThreadEnv, GetEnvSteps,
       AttachCurrentThread, StoreEnv, ThreadExit, ExitSteps, NextRound, SkipKey,
       detachCurrentThread, ForeignDestructor, ForeignAttach, ForeignSet

\* Native code, other components and exiting threads do not touch the load.
LEMMA ElsewhereKeeps == LoadInv /\ JniTypeOK' /\ Elsewhere /\ ~dead => LoadInv'
<1> SUFFICES ASSUME LoadInv, JniTypeOK', Elsewhere, ~dead PROVE LoadInv'
    OBVIOUS
<1>1. UNCHANGED loadVars
    BY DEF Elsewhere, InNative
<1>2. g_jvm => g_jvm'
    BY JvmStays DEF Elsewhere, JniNext, ProcessStep
<1> QED
    BY <1>1, <1>2 DEF LoadInv, TypeOK, OneInitializer, InClinit, LoadProgress, Outcome, loadVars

\* The steps of the thread that constructs a PlayerNative.
LEMMA ClinitKeeps ==
    ASSUME LoadInv, JniTypeOK', NEW t \in Threads,
           NewPlayer(t) \/ ClinitStep(t) \/ prepareAsync(t)
    PROVE  LoadInv'
<1>1. CASE NewPlayer(t)
  <2>1. TypeOK'
    BY <1>1 DEF LoadInv, TypeOK, PcLabels, Clinit, NewPlayer, Goto, At, jniVars
  <2>2. OneInitializer'
    BY <1>1 DEF LoadInv, TypeOK, OneInitializer, InClinit, Outcome, Clinit, NewPlayer, Goto, At,
       jniVars
  <2>3. LoadProgress'
    BY <1>1 DEF LoadInv, TypeOK, OneInitializer, InClinit, LoadProgress, Outcome, Clinit,
       NewPlayer, Goto, At, jniVars
  <2>4. Outcome'
    BY <1>1 DEF LoadInv, TypeOK, OneInitializer, InClinit, LoadProgress, Outcome, Clinit,
       NewPlayer, Goto, At, jniVars
  <2> QED
    BY <2>1, <2>2, <2>3, <2>4 DEF LoadInv
<1>2. CASE EnterClinit(t)
  <2>1. TypeOK'
    BY <1>2 DEF LoadInv, TypeOK, PcLabels, Clinit, EnterClinit, Goto, At, jniVars
  <2>2. OneInitializer'
    BY <1>2 DEF LoadInv, OneInitializer, InClinit, EnterClinit, Goto
  <2>3. LoadProgress'
    BY <1>2 DEF LoadInv, LoadProgress, Outcome, EnterClinit, Goto, At, jniVars
  <2>4. Outcome'
    BY <1>2 DEF LoadInv, Outcome, EnterClinit
  <2> QED
    BY <2>1, <2>2, <2>3, <2>4 DEF LoadInv
<1>3. CASE Construct(t)
  <2>1. TypeOK'
    BY <1>3 DEF LoadInv, TypeOK, PcLabels, Construct, Goto
  <2>2. OneInitializer'
    BY <1>3 DEF LoadInv, OneInitializer, InClinit, Clinit, Construct, Goto
  <2>3. LoadProgress'
    BY <1>3 DEF LoadInv, LoadProgress, Construct, Goto, At, jniVars
  <2>4. Outcome'
    BY <1>3 DEF LoadInv, Outcome, Construct, At, jniVars
  <2> QED
    BY <2>1, <2>2, <2>3, <2>4 DEF LoadInv
<1>4. CASE NoClassDef(t)
  <2>1. TypeOK'
    BY <1>4 DEF LoadInv, TypeOK, PcLabels, NoClassDef, Goto
  <2>2. OneInitializer'
    BY <1>4 DEF LoadInv, OneInitializer, InClinit, Clinit, NoClassDef, Goto
  <2>3. LoadProgress'
    BY <1>4 DEF LoadInv, LoadProgress, NoClassDef, Goto, At, jniVars
  <2>4. Outcome'
    BY <1>4 DEF LoadInv, Outcome, NoClassDef
  <2> QED
    BY <2>1, <2>2, <2>3, <2>4 DEF LoadInv
<1>5. CASE loadLibrary(t)
  <2>1. TypeOK'
    BY <1>5 DEF LoadInv, TypeOK, PcLabels, Clinit, loadLibrary, Goto
  <2>2. OneInitializer'
    BY <1>5 DEF LoadInv, TypeOK, OneInitializer, InClinit, Clinit, loadLibrary, Goto, At
  <2>3. LoadProgress'
    BY <1>5 DEF LoadInv, TypeOK, OneInitializer, InClinit, LoadProgress, Clinit, loadLibrary,
       Goto, At
  <2>4. Outcome'
    BY <1>5 DEF LoadInv, OneInitializer, InClinit, Outcome, Clinit, loadLibrary, At
  <2> QED
    BY <2>1, <2>2, <2>3, <2>4 DEF LoadInv
<1>6. CASE OnLoadEnv(t)
  <2>1. TypeOK'
    BY <1>6 DEF LoadInv, TypeOK, PcLabels, Clinit, OnLoadEnv, Goto
  <2>2. OneInitializer'
    BY <1>6 DEF LoadInv, TypeOK, OneInitializer, InClinit, Clinit, OnLoadEnv, Goto
  <2>3. LoadProgress'
    BY <1>6 DEF LoadInv, TypeOK, LoadProgress, OnLoadEnv, Goto, JNI_EnvInit, EnvInitFails
  <2>4. Outcome'
    BY <1>6 DEF LoadInv, Outcome, OnLoadEnv, JNI_EnvInit, EnvInitFails
  <2> QED
    BY <2>1, <2>2, <2>3, <2>4 DEF LoadInv
<1>7. CASE OnLoadFindClass(t)
  <2>1. TypeOK'
    BY <1>7 DEF LoadInv, TypeOK, PcLabels, Clinit, OnLoadFindClass, Goto
  <2>2. OneInitializer'
    BY <1>7 DEF LoadInv, TypeOK, OneInitializer, InClinit, Clinit, OnLoadFindClass, Goto, At
  <2>3. LoadProgress'
    BY <1>7 DEF LoadInv, TypeOK, OneInitializer, InClinit, LoadProgress, Clinit, OnLoadFindClass,
       Goto, At, jniVars
  <2>4. Outcome'
    BY <1>7 DEF LoadInv, OneInitializer, InClinit, Outcome, Clinit, OnLoadFindClass, At
  <2> QED
    BY <2>1, <2>2, <2>3, <2>4 DEF LoadInv
<1>8. CASE OnLoadRegister(t)
  <2>1. TypeOK'
    BY <1>8 DEF LoadInv, TypeOK, PcLabels, Clinit, OnLoadRegister, Goto, gPlayerMethods,
       NativeMethods
  <2>2. OneInitializer'
    BY <1>8 DEF LoadInv, OneInitializer, InClinit, Clinit, OnLoadRegister, Goto, At
  <2>3. LoadProgress'
    BY <1>8 DEF LoadInv, TypeOK, OneInitializer, InClinit, LoadProgress, Clinit, OnLoadRegister,
       Goto, At, jniVars
  <2>4. Outcome'
    BY <1>8 DEF LoadInv, OneInitializer, InClinit, Outcome, Clinit, OnLoadRegister, At
  <2> QED
    BY <2>1, <2>2, <2>3, <2>4 DEF LoadInv
<1>9. CASE native_init(t)
  <2>1. TypeOK'
    BY <1>9 DEF LoadInv, TypeOK, PcLabels, native_init, Player_native_init, Goto
  <2>2. OneInitializer'
    BY <1>9 DEF LoadInv, TypeOK, OneInitializer, InClinit, Clinit, native_init,
       Player_native_init, Goto, At
  <2>3. LoadProgress'
    BY <1>9 DEF LoadInv, TypeOK, LoadProgress, native_init, Player_native_init, Goto, At, jniVars
  <2>4. Outcome'
    BY <1>9 DEF LoadInv, OneInitializer, InClinit, LoadProgress, Outcome, Clinit, native_init,
       Player_native_init,
       At, jniVars
  <2> QED
    BY <2>1, <2>2, <2>3, <2>4 DEF LoadInv
<1>10. CASE prepareAsync(t)
  <2>1. TypeOK'
    BY <1>10 DEF LoadInv, TypeOK, PcLabels, prepareAsync, Goto
  <2>2. OneInitializer'
    BY <1>10 DEF LoadInv, OneInitializer, InClinit, Clinit, prepareAsync, Goto
  <2>3. LoadProgress'
    BY <1>10 DEF LoadInv, LoadProgress, prepareAsync, Goto, At, jniVars
  <2>4. Outcome'
    BY <1>10 DEF LoadInv, Outcome, prepareAsync, At, jniVars
  <2> QED
    BY <2>1, <2>2, <2>3, <2>4 DEF LoadInv
<1> QED
    BY <1>1, <1>2, <1>3, <1>4, <1>5, <1>6, <1>7, <1>8, <1>9, <1>10 DEF ClinitStep

THEOREM LoadInvariant == Spec => []LoadInv
<1>1. LoadInv /\ JniTypeOK' /\ [Next]_vars => LoadInv'
  <2> SUFFICES ASSUME LoadInv, JniTypeOK', [Next]_vars PROVE LoadInv'
      OBVIOUS
  <2>1. CASE UNCHANGED vars
      BY <2>1 DEF vars, jniVars, loadVars, LoadInv, TypeOK, OneInitializer, InClinit,
         LoadProgress, Outcome
  <2> QED
      BY <2>1, ElsewhereKeeps, ClinitKeeps DEF Next
<1>2. Spec => []JniTypeOK
    BY LoadImplementsJni, JniTypeCorrect, PTL
<1> QED
    BY LoadInit, <1>1, <1>2, PTL DEF Spec

\* Every thread is somewhere in new PlayerNative(), the class and the library
\* are in a state of theirs, and only declared methods are ever bound.
THEOREM LoadTypeCorrect == Spec => []TypeOK
<1>1. LoadInv => TypeOK
    BY DEF LoadInv
<1> QED
    BY <1>1, LoadInvariant, PTL

\* A PlayerNative exists only over a library loaded and initialized once.
THEOREM InstancesAreReady == Spec => []InstanceMeansReady
<1>1. LoadInv => InstanceMeansReady
    BY DEF LoadInv, Outcome, InstanceMeansReady
<1> QED
    BY <1>1, LoadInvariant, PTL

\* The initializer's catch never makes a failed load usable.
THEOREM FailedLoadsAreFatal == Spec => []FailedLoadIsFatal
<1>1. LoadInv => FailedLoadIsFatal
    BY DEF LoadInv, Outcome, FailedLoadIsFatal
<1> QED
    BY <1>1, LoadInvariant, PTL

-----------------------------------------------------------------------------
(* BuildPipeline: the inductive invariant.                                  *)

Linked == {"copy", "app", "symbols", "complete"}
Copied == {"app", "symbols", "complete"}

\* The library in obj/local is stale at most until the next ndk-build, as long
\* as this tree only ever built one type.
FreshObj == \A t \in Types : ran \subseteq {t} => MustLink(t) \/ obj = core[t]

\* What ndk-build left behind belongs to the archives it looked at.
LinkInv ==
  /\ job.pc = "ndk" /\ job.rebuild => obj = Missing
  /\ job.pc \in Linked => libs = obj
  /\ job.pc \in Linked /\ (job.rebuild \/ ran = {job.type}) => libs = job.linked

\* Until a copy is lost, every directory reached so far has that library.
CopyInv ==
  ~job.lost =>
    /\ job.pc \in Copied => out[job.type] = libs
    /\ job.pc \in {"symbols", "complete"} => app = libs
    /\ job.pc = "complete" => symbols[job.type] = obj

BuildInv == BuildTypeOK /\ FreshObj /\ LinkInv /\ CopyInv

LEMMA BuildInitInv == BuildInit => BuildInv
<1> SUFFICES ASSUME BuildInit PROVE BuildInv
  OBVIOUS
<1>1. Missing \in Content /\ \A c \in Configs : [a \in Archives |-> c] \in Content
  BY DEF Missing, Content
<1>2. core \in [Types -> Content] /\ newer \subseteq Types
  BY <1>1 DEF BuildInit
<1>3. job = NoJob /\ NoJob \in Jobs
  BY <1>1 DEF BuildInit, NoJob, Jobs
<1>4. BuildTypeOK
  BY <1>1, <1>2, <1>3, BuildAssumption DEF BuildInit, BuildTypeOK, NoJob
<1> QED
  BY <1>4 DEF BuildInit, BuildInv, FreshObj, MustLink, LinkInv, CopyInv, NoJob, Linked, Copied

\* _build_NDK_one_lib.sh does not touch what build.sh made.
LEMMA OneLibInv ==
  ASSUME BuildInv, NEW c \in Configs,
         \/ \E rebuild \in BOOLEAN : OneLib(c, rebuild)
         \/ Make(c) \/ Done(c)
         \/ \E a \in Archives : InstallArchive(c, a)
  PROVE  BuildInv'
<1>1. UNCHANGED <<core, newer, obj, libs, out, symbols, app, job, ran, runs>>
  BY DEF OneLib, Make, Done, InstallArchive, playerVars
<1>2. /\ objdir' \in [Configs -> {"bare", "configured", "built"}]
      /\ one_lib' \in [Configs -> {"idle", "make", "install", "done"}]
  BY DEF BuildInv, BuildTypeOK, OneLib, Make, Done, InstallArchive
<1>3. prefix' \in Content
  BY DEF BuildInv, BuildTypeOK, Content, OneLib, Make, Done, InstallArchive
<1>4. libRuns' \in 0 .. MaxLibRuns
  BY BuildAssumption DEF BuildInv, BuildTypeOK, OneLib, Make, Done, InstallArchive
<1>5. BuildTypeOK'
  BY <1>1, <1>2, <1>3, <1>4 DEF BuildInv, BuildTypeOK
<1> QED
  BY <1>1, <1>5 DEF BuildInv, FreshObj, MustLink, LinkInv, CopyInv

\* New archives are newer than the library.
LEMMA CopyToCoreInv ==
  ASSUME BuildInv, NEW c \in Configs, CopyToCore(c)
  PROVE  BuildInv'
<1>1. /\ core' = [core EXCEPT ![TypeOf[c]] = prefix] /\ newer' = newer \cup {TypeOf[c]}
      /\ one_lib' = [one_lib EXCEPT ![c] = "idle"] /\ TypeOf[c] \in Types
      /\ UNCHANGED <<objdir, prefix, libRuns, obj, libs, out, symbols, app, job, ran, runs>>
  BY BuildAssumption DEF CopyToCore
<1>2. BuildTypeOK'
  BY <1>1 DEF BuildInv, BuildTypeOK
<1>3. FreshObj'
  BY <1>1 DEF BuildInv, BuildTypeOK, FreshObj, MustLink
<1> QED
  BY <1>1, <1>2, <1>3 DEF BuildInv, LinkInv, CopyInv

\* Where build.sh stands, and what it knows.
LEMMA JobFacts ==
  ASSUME BuildInv
  PROVE  /\ job.pc # "idle" => job.type \in Types /\ job.type \in ran /\ core[job.type] \in Content
         /\ job \in Jobs
         /\ Missing \in Content /\ NoJob.pc = "idle"
         /\ NoJob \in Jobs
<1>1. Missing \in Content
  BY DEF Missing, Content
<1> QED
  BY <1>1 DEF BuildInv, BuildTypeOK, NoJob, Jobs

LEMMA BuildStartInv ==
  ASSUME BuildInv, NEW t \in Types, NEW rebuild \in BOOLEAN, Build(t, rebuild)
  PROVE  BuildInv'
<1>1. /\ ran' = ran \cup {t} /\ obj' = AfterRm(t, rebuild) /\ runs < MaxRuns /\ runs' = runs + 1
      /\ UNCHANGED <<objdir, one_lib, prefix, libRuns, core, newer, libs, out, symbols, app>>
  BY DEF Build, ffmpegVars
<1>2. /\ job'.pc = "ndk" /\ job'.type = t /\ job'.rebuild = rebuild
      /\ job' \in Jobs
  BY JobFacts DEF Build, Jobs
<1>3. BuildTypeOK'
  BY <1>1, <1>2, JobFacts, BuildAssumption DEF BuildInv, BuildTypeOK, AfterRm
<1>4. FreshObj'
  BY <1>1 DEF BuildInv, FreshObj, MustLink, AfterRm
<1> QED
  BY <1>1, <1>2, <1>3, <1>4 DEF BuildInv, LinkInv, CopyInv, Linked, Copied, AfterRm

LEMMA NdkBuildInv == ASSUME BuildInv, NdkBuild PROVE BuildInv'
<1>1. /\ job.pc = "ndk" /\ job.type \in Types /\ job.type \in ran /\ core[job.type] \in Content
      /\ libs' = obj'
      /\ IF MustLink(job.type) THEN obj' = core[job.type] /\ newer' = {} ELSE UNCHANGED <<obj, newer>>
      /\ UNCHANGED <<objdir, one_lib, prefix, libRuns, core, out, symbols, app, ran, runs>>
  BY JobFacts DEF NdkBuild, ffmpegVars
<1>2. /\ job'.pc = "copy" /\ job'.type = job.type /\ job'.rebuild = job.rebuild
      /\ job'.linked = core[job.type]
      /\ job' \in Jobs
  BY <1>1, JobFacts DEF NdkBuild, Jobs
<1>3. BuildTypeOK'
  BY <1>1, <1>2 DEF BuildInv, BuildTypeOK
<1>4. ran \subseteq {job.type} => obj' = core[job.type]
  BY <1>1 DEF BuildInv, FreshObj
<1>5. FreshObj'
  BY <1>1, <1>4 DEF FreshObj, MustLink
<1>6. job.rebuild => obj' = core[job.type]
  BY <1>1 DEF BuildInv, LinkInv, MustLink
<1> QED
  BY <1>1, <1>2, <1>3, <1>4, <1>5, <1>6 DEF BuildInv, LinkInv, CopyInv, Linked, Copied

LEMMA NdkBuildFailsInv == ASSUME BuildInv, NdkBuildFails PROVE BuildInv'
<1>1. /\ job' = NoJob
      /\ UNCHANGED <<objdir, one_lib, prefix, libRuns, core, newer, obj, libs, out, symbols, app, ran, runs>>
  BY DEF NdkBuildFails, ffmpegVars
<1>2. BuildTypeOK'
  BY <1>1, JobFacts DEF BuildInv, BuildTypeOK
<1> QED
  BY <1>1, <1>2, JobFacts DEF BuildInv, FreshObj, MustLink, LinkInv, CopyInv, Linked, Copied

\* The three copies; job' differs in pc, and says when one was lost.
LEMMA CopiesInv ==
  ASSUME BuildInv, CopyLibs \/ CopyApp \/ CopySymbols
  PROVE  BuildInv'
<1>1. /\ job.pc \in {"copy", "app", "symbols"} /\ job.type \in Types /\ job.type \in ran
      /\ UNCHANGED <<objdir, one_lib, prefix, libRuns, core, newer, obj, libs, ran, runs>>
  BY JobFacts DEF CopyLibs, CopyApp, CopySymbols, ffmpegVars
<1>2. /\ job'.pc = IF job.pc = "copy" THEN "app" ELSE IF job.pc = "app" THEN "symbols" ELSE "complete"
      /\ job'.type = job.type /\ job'.rebuild = job.rebuild /\ job'.linked = job.linked
      /\ ~job'.lost => ~job.lost
      /\ job' \in Jobs
  BY JobFacts DEF CopyLibs, CopyApp, CopySymbols, Jobs
<1>3. /\ out' \in [Types -> Content] /\ symbols' \in [Types -> Content] /\ app' \in Content
  BY <1>1 DEF BuildInv, BuildTypeOK, CopyLibs, CopyApp, CopySymbols
<1>4. BuildTypeOK'
  BY <1>1, <1>2, <1>3 DEF BuildInv, BuildTypeOK
<1>5. FreshObj'
  BY <1>1 DEF BuildInv, FreshObj, MustLink
<1>6. LinkInv'
  BY <1>1, <1>2 DEF BuildInv, LinkInv, Linked
<1>7. CopyInv'
  <2>1. CASE CopyLibs
    BY <1>1, <1>2, <2>1 DEF BuildInv, BuildTypeOK, Jobs, CopyInv, Copied, CopyLibs
  <2>2. CASE CopyApp
    BY <1>1, <1>2, <2>2, JobFacts DEF BuildInv, BuildTypeOK, Jobs, CopyInv, Copied, CopyApp
  <2>3. CASE CopySymbols
    BY <1>1, <1>2, <2>3, JobFacts DEF BuildInv, BuildTypeOK, Jobs, CopyInv, Copied, CopySymbols
  <2> QED
    BY <2>1, <2>2, <2>3
<1> QED
  BY <1>4, <1>5, <1>6, <1>7 DEF BuildInv

LEMMA BuildNextInv == BuildInv /\ [BuildNext]_buildVars => BuildInv'
<1> SUFFICES ASSUME BuildInv, [BuildNext]_buildVars PROVE BuildInv'
  OBVIOUS
<1>1. ASSUME NEW c \in Configs,
             \/ \E rebuild \in BOOLEAN : OneLib(c, rebuild)
             \/ Make(c) \/ Done(c) \/ CopyToCore(c)
             \/ \E a \in Archives : InstallArchive(c, a)
      PROVE  BuildInv'
  BY <1>1, OneLibInv, CopyToCoreInv
<1>2. CASE \E t \in Types, rebuild \in BOOLEAN : Build(t, rebuild)
  BY <1>2, BuildStartInv
<1>3. CASE NdkBuild \/ NdkBuildFails \/ CopyLibs \/ CopyApp \/ CopySymbols
  BY <1>3, NdkBuildInv, NdkBuildFailsInv, CopiesInv
<1>4. CASE UNCHANGED buildVars
  BY <1>4 DEF buildVars, BuildInv, BuildTypeOK, FreshObj, MustLink, LinkInv, CopyInv
<1> QED
  BY <1>1, <1>2, <1>3, <1>4 DEF BuildNext

-----------------------------------------------------------------------------
(* What follows *)

\* After "rebuild", and when no copy was lost, libs-<type> has the archives
\* that ndk-build found, whatever was built in this tree before.
THEOREM RebuildIsFresh == BuildSpec => []RebuildDelivers
<1>1. BuildInv => RebuildDelivers
  BY DEF BuildInv, LinkInv, CopyInv, RebuildDelivers, Completed, Linked, Copied
<1> QED
  BY <1>1, BuildInitInv, BuildNextInv, PTL DEF BuildSpec

\* Without it, too, in a tree that only ever built this type, however many
\* runs failed or lost a copy.
THEOREM SameTypeIsFresh == BuildSpec => []SameTypeDelivers
<1>1. BuildInv => SameTypeDelivers
  BY DEF BuildInv, LinkInv, CopyInv, SameTypeDelivers, Completed, Linked, Copied
<1> QED
  BY <1>1, BuildInitInv, BuildNextInv, PTL DEF BuildSpec

\* What is shipped is the stripped form of the library kept for debugging.
THEOREM SymbolsMatch == BuildSpec => []ShippedMatchesSymbols
<1>1. BuildInv => ShippedMatchesSymbols
  BY DEF BuildInv, LinkInv, CopyInv, ShippedMatchesSymbols, Completed, Linked, Copied
<1> QED
  BY <1>1, BuildInitInv, BuildNextInv, PTL DEF BuildSpec

==============================================================================
