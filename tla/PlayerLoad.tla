---------------------------- MODULE PlayerLoad ----------------------------
(***************************************************************************)
(* How PlayerNative and libPlayerCore come up together: the static         *)
(* initializer of PlayerNative.java, System.loadLibrary, JNI_OnLoad and    *)
(* _JNI_Init of JniMgr.cpp (which calls JniUtil.cpp), Player_native_init   *)
(* of MediaPlayer.cpp, and the callers that construct a PlayerNative, as   *)
(* MainActivity.onCreate does.                                             *)
(*                                                                         *)
(* The JVM is external: it runs a static initializer on one thread while   *)
(* the others wait, an error escaping from it makes the class erroneous    *)
(* for good, and a native method that is not bound throws                  *)
(* UnsatisfiedLinkError.  A thread inside JNI_OnLoad is a Java thread, so  *)
(* its JNI_GetThreadEnv finds JNI_OK and changes nothing.                  *)
(***************************************************************************)
EXTENDS JniUtil

\* The methods the class declares native, and those JniMgr.cpp has code for.
NativeMethods == {"native_init", "prepareAsync"}
misspeltMethods == {"native_int"}
gPlayerMethods == {"native_init"}

VARIABLES
    cls,         \* PlayerNative: "linked", "initializing", "initialized", "erroneous"
    lib,         \* libPlayerCore_neon: "unloaded", "loaded" or "failed"
    registered,  \* native methods bound by RegisterNatives
    inits,       \* how often Player_native_init has run
    pc,          \* where each thread is in new PlayerNative() and below
    holds        \* threads that got a PlayerNative

loadVars == <<cls, lib, registered, inits, pc, holds>>
vars == <<jniVars, loadVars>>

\* The steps of the static initializer, in order.
Clinit == {"loadLibrary", "EnvInit", "FindClass", "RegisterNatives", "native_init"}
PcLabels == {"idle", "new", "error", "unbound"} \cup Clinit

Goto(t, label) == pc' = [pc EXCEPT ![t] = label]
At(t, label) == pc[t] = label /\ UNCHANGED jniVars

Init ==
    /\ JniInit
    /\ cls = "linked" /\ lib = "unloaded"
    /\ registered = {} /\ inits = 0
    /\ pc = [t \in Threads |-> "idle"]
    /\ holds = {}

\* MainActivity.onCreate, or any Java code: new PlayerNative().
NewPlayer(t) ==
    /\ At(t, "idle") /\ Idle(t) /\ att[t] = "java" /\ t \notin holds
    /\ Goto(t, "new")
    /\ UNCHANGED <<cls, lib, registered, inits, holds>>

\* The first thread to get here runs the static initializer.
EnterClinit(t) ==
    /\ At(t, "new") /\ cls = "linked"
    /\ cls' = "initializing"
    /\ Goto(t, "loadLibrary")
    /\ UNCHANGED <<lib, registered, inits, holds>>

\* The constructor is empty.
Construct(t) ==
    /\ At(t, "new") /\ cls = "initialized"
    /\ holds' = holds \cup {t}
    /\ Goto(t, "idle")
    /\ UNCHANGED <<cls, lib, registered, inits>>

\* NoClassDefFoundError, for every later use of the class.
NoClassDef(t) ==
    /\ At(t, "new") /\ cls = "erroneous"
    /\ Goto(t, "error")
    /\ UNCHANGED <<cls, lib, registered, inits, holds>>

\* The library for this device's ABI is found, or the UnsatisfiedLinkError is
\* caught and logged; either way native_init() is called next.
loadLibrary(t) ==
    /\ At(t, "loadLibrary")
    /\ \/ Goto(t, "EnvInit") /\ UNCHANGED lib
       \/ Goto(t, "native_init") /\ lib' = "failed"
    /\ UNCHANGED <<cls, registered, inits, holds>>

\* _JNI_Init: JNI_EnvInit, whose result it ignores, then JNI_GetThreadEnv.
OnLoadEnv(t) ==
    /\ pc[t] = "EnvInit"
    /\ \/ JNI_EnvInit(t) /\ Goto(t, "FindClass")
       \/ EnvInitFails(t) /\ UNCHANGED pc
    /\ UNCHANGED <<cls, lib, registered, inits, holds>>

\* FindClass fails: JNI_OnLoad returns JNI_ERR, loadLibrary throws, the
\* initializer catches.  Nothing undoes JNI_EnvInit.
OnLoadFindClass(t) ==
    /\ At(t, "FindClass")
    /\ \/ Goto(t, "RegisterNatives") /\ UNCHANGED lib
       \/ Goto(t, "native_init") /\ lib' = "failed"
    /\ UNCHANGED <<cls, registered, inits, holds>>

\* JNI_OnLoad may still fail once the methods are registered.
OnLoadFailsLate(t) ==
    /\ At(t, "RegisterNatives")
    /\ registered' = gPlayerMethods
    /\ lib' \in {"loaded", "failed"}
    /\ Goto(t, "native_init")
    /\ UNCHANGED <<cls, inits, holds>>

OnLoadRegister(t) ==
    /\ At(t, "RegisterNatives")
    /\ \/ registered' = gPlayerMethods /\ lib' = "loaded"
       \/ lib' = "failed" /\ UNCHANGED registered
    /\ Goto(t, "native_init")
    /\ UNCHANGED <<cls, inits, holds>>

\* native_init() called inside the try.
initCaught(t) ==
    /\ At(t, "native_init")
    /\ inits' = IF "native_init" \in registered THEN inits + 1 ELSE inits
    /\ cls' = "initialized"
    /\ Goto(t, "new")
    /\ UNCHANGED <<lib, registered, holds>>

\* It does nothing yet but to be called.
Player_native_init == inits' = inits + 1

\* native_init() stands outside the try: not being bound, it throws, and the
\* error leaves the static initializer.
native_init(t) ==
    /\ At(t, "native_init")
    /\ IF "native_init" \in registered
          THEN /\ Player_native_init
               /\ cls' = "initialized"
               /\ Goto(t, "new")
          ELSE /\ cls' = "erroneous"
               /\ Goto(t, "error")
               /\ UNCHANGED inits
    /\ UNCHANGED <<lib, registered, holds>>

\* A call on an instance: a method nothing is bound to throws.
prepareAsync(t) ==
    /\ At(t, "idle") /\ Idle(t) /\ t \in holds
    /\ Goto(t, IF "prepareAsync" \in registered THEN "idle" ELSE "unbound")
    /\ UNCHANGED <<cls, lib, registered, inits, holds>>

\* Threads that are not inside the class initializer run native code, which
\* there is once the library is loaded, and exit as in JniUtil.
InNative(t) ==
    /\ pc[t] \in {"idle", "error", "unbound"}
    /\ lib = "loaded" \/ op'[t] = "none"
    /\ UNCHANGED loadVars

Elsewhere ==
    \/ \E t \in Threads : ThreadStep(t) /\ InNative(t)
    \/ /\ \E k \in Keys : ForeignCreateKey(k) \/ ForeignDeleteKey(k)
       /\ UNCHANGED loadVars

ClinitStep(t) ==
    \/ EnterClinit(t) \/ Construct(t) \/ NoClassDef(t) \/ loadLibrary(t)
    \/ OnLoadEnv(t) \/ OnLoadFindClass(t) \/ OnLoadRegister(t) \/ native_init(t)

Next ==
    /\ ~dead
    /\ \/ \E t \in Threads : NewPlayer(t) \/ ClinitStep(t) \/ prepareAsync(t)
       \/ Elsewhere

Spec == Init /\ [][Next]_vars

\* A thread inside JNI_GetThreadEnv or exiting runs code that blocks on
\* nothing; the C library visits every key of a round.
FairSpec ==
    /\ Spec
    /\ \A t \in Threads :
          WF_vars(~dead /\ (GetEnvSteps(t) \/ ExitSteps(t)) /\ InNative(t))

(***************************************************************************)
(* Properties.                                                             *)
(***************************************************************************)

TypeOK ==
    /\ JniTypeOK
    /\ cls \in {"linked", "initializing", "initialized", "erroneous"}
    /\ lib \in {"unloaded", "loaded", "failed"}
    /\ registered \subseteq NativeMethods
    /\ inits \in Nat
    /\ pc \in [Threads -> PcLabels]
    /\ holds \subseteq Threads

\* A PlayerNative exists only over a loaded library whose Player_native_init
\* has run exactly once, however many threads asked for one at the same time
\* and although the initializer swallows the failure to load.
InstanceMeansReady ==
    holds # {} => lib = "loaded" /\ registered = gPlayerMethods /\ inits = 1 /\ g_jvm

\* A failed load is never papered over by the catch: the class does not become
\* usable, and no thread of the library runs.
FailedLoadIsFatal ==
    lib = "failed" => cls # "initialized" /\ holds = {} /\ inits = 0

\* JniMgr.cpp:53 says _JNI_Init registers the player's native methods: a
\* thread that has a PlayerNative can call each of them.
NativeMethodsBound == \A t \in Threads : pc[t] # "unbound"
=============================================================================
