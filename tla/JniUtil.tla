------------------------------ MODULE JniUtil ------------------------------
(***************************************************************************)
(* Core/jni/JniUtil.cpp: how a thread of the player process gets a JNIEnv, *)
(* and how a thread that the library attached to the JVM is detached when  *)
(* it exits.                                                               *)
(*                                                                         *)
(* The library attaches a thread only when GetEnv answers JNI_EDETACHED,   *)
(* stores the env under the pthread key g_key, and leaves the detach to    *)
(* the destructor of that key, which the C library runs while the thread   *)
(* exits.  The C library and the JVM are external: their keys, destructor  *)
(* rounds and attachments are modelled as far as JniUtil.cpp uses them.    *)
(* Other native components of the process have keys and attachments of     *)
(* their own; they detach only what they attached, but their destructors   *)
(* may call back into JNI_GetThreadEnv on an exiting thread.               *)
(*                                                                         *)
(* JNI_EnvDeInit, which would delete the key, is left out: nothing calls   *)
(* it.                                                                     *)
(***************************************************************************)
EXTENDS Naturals

CONSTANTS
    Threads,        \* threads of the process, Java and native
    Keys,           \* the entries of the C library's table of pthread keys
    NoKey,          \* g_key before JNI_EnvInit: static zero, never a valid key
    Rounds,         \* PTHREAD_DESTRUCTOR_ITERATIONS of the C library
    ForeignRounds   \* rounds in which other components' destructors may run

ASSUME JniUtilAssumption ==
    /\ NoKey \notin Keys
    /\ Rounds \in Nat
    /\ ForeignRounds \in Nat
    /\ 1 <= ForeignRounds /\ ForeignRounds < Rounds

VARIABLES
    g_jvm,    \* g_jvm # NULL
    g_key,    \* the library's pthread key
    keys,     \* whose destructor each key runs: "free", "jni" or "other"
    tls,      \* tls[t]: the keys under which t holds a value that is not NULL
    att,      \* who attached t to the JVM: "no", "java", "jni" or "other"
    op,       \* the step of JNI_GetThreadEnv t is at: "none", "attach", "store"
    phase,    \* "run", "sweep" (running key destructors) or "gone"
    sweep,    \* the keys t has yet to visit in the current destructor round
    round,    \* the destructor round t is in
    dead      \* the process was killed by a call through a NULL g_jvm

jniVars == <<g_jvm, g_key, keys, tls, att, op, phase, sweep, round, dead>>

Owners == {"free", "jni", "other"}
Attachers == {"no", "java", "jni", "other"}

\* The values whose destructors the C library still has to call for t.
Armed(t) == {k \in tls[t] : keys[k] # "free"}

Idle(t) == phase[t] = "run" /\ op[t] = "none"

JniInit ==
    /\ g_jvm = FALSE
    /\ g_key = NoKey
    /\ keys = [k \in Keys |-> "free"]
    /\ tls = [t \in Threads |-> {}]
    /\ att \in [Threads -> {"no", "java"}]
    /\ op = [t \in Threads |-> "none"]
    /\ phase = [t \in Threads |-> "run"]
    /\ sweep = [t \in Threads |-> {}]
    /\ round = [t \in Threads |-> 0]
    /\ dead = FALSE

(***************************************************************************)
(* Setting the library up.                                                 *)
(***************************************************************************)

\* JNI_OnLoad runs on the Java thread that loads the library, once.
JNI_EnvInit(t) ==
    /\ ~g_jvm /\ Idle(t) /\ att[t] = "java"
    /\ \E k \in Keys :
          /\ keys[k] = "free"
          /\ keys' = [keys EXCEPT ![k] = "jni"]
          /\ g_key' = k
    /\ g_jvm' = TRUE
    /\ UNCHANGED <<tls, att, op, phase, sweep, round, dead>>

\* The assignment of g_jvm moved before pthread_key_create.
EnvInitSetsJvmFirst(t) ==
    /\ ~g_jvm /\ Idle(t) /\ att[t] = "java"
    /\ \A k \in Keys : keys[k] # "free"
    /\ g_jvm' = TRUE
    /\ UNCHANGED <<g_key, keys, tls, att, op, phase, sweep, round, dead>>

\* pthread_key_create fails: JNI_EnvInit returns -1 with g_jvm still NULL,
\* _JNI_Init drops the result, and JNI_GetThreadEnv calls through NULL.
EnvInitFails(t) ==
    /\ ~g_jvm /\ Idle(t) /\ att[t] = "java"
    /\ \A k \in Keys : keys[k] # "free"
    /\ dead' = TRUE
    /\ UNCHANGED <<g_jvm, g_key, keys, tls, att, op, phase, sweep, round>>

\* Deleting a key drops every thread's value without a destructor call.
DeleteKey(k) ==
    /\ keys' = [keys EXCEPT ![k] = "free"]
    /\ tls' = [t \in Threads |-> tls[t] \ {k}]
    /\ UNCHANGED <<g_jvm, g_key, att, op, phase, sweep, round, dead>>

(***************************************************************************)
(* JNI_GetThreadEnv, in the three calls it makes.                          *)
(***************************************************************************)

\* The env of a thread that was attached already is stored as well.
GetThreadEnvStoresAlways(t) ==
    /\ g_jvm /\ Idle(t)
    /\ op' = [op EXCEPT ![t] = IF att[t] = "no" THEN "attach" ELSE "store"]
    /\ UNCHANGED <<g_jvm, g_key, keys, tls, att, phase, sweep, round, dead>>

\* GetEnv says JNI_EDETACHED.  (When it says JNI_OK the env is returned and
\* nothing changes.)  Callers exist only once the library is loaded.
JNI_GetThreadEnv(t) ==
    /\ g_jvm /\ Idle(t) /\ att[t] = "no"
    /\ op' = [op EXCEPT ![t] = "attach"]
    /\ UNCHANGED <<g_jvm, g_key, keys, tls, att, phase, sweep, round, dead>>

\* AttachCurrentThread succeeds, or fails and NULL is returned.
AttachCurrentThread(t) ==
    /\ op[t] = "attach"
    /\ \/ /\ att' = [att EXCEPT ![t] = "jni"]
          /\ op' = [op EXCEPT ![t] = "store"]
       \/ /\ op' = [op EXCEPT ![t] = "none"]
          /\ UNCHANGED att
    /\ UNCHANGED <<g_jvm, g_key, keys, tls, phase, sweep, round, dead>>

\* pthread_setspecific is left out.
StoreNothing(t) ==
    /\ op[t] = "store"
    /\ op' = [op EXCEPT ![t] = "none"]
    /\ UNCHANGED <<g_jvm, g_key, keys, tls, att, phase, sweep, round, dead>>

\* pthread_setspecific; its result is not looked at.
StoreEnv(t) ==
    /\ op[t] = "store"
    /\ op' = [op EXCEPT ![t] = "none"]
    /\ tls' = [tls EXCEPT ![t] = @ \cup {g_key}]
    /\ UNCHANGED <<g_jvm, g_key, keys, att, phase, sweep, round, dead>>

(***************************************************************************)
(* Thread exit: rounds over the key table, calling destructors.            *)
(***************************************************************************)

\* The JVM detaches a Java thread before the pthread exits.
ThreadExit(t) ==
    /\ Idle(t)
    /\ phase' = [phase EXCEPT ![t] = "sweep"]
    /\ round' = [round EXCEPT ![t] = 1]
    /\ sweep' = [sweep EXCEPT ![t] = Keys]
    /\ att' = [att EXCEPT ![t] = IF @ = "java" THEN "no" ELSE @]
    /\ UNCHANGED <<g_jvm, g_key, keys, tls, op, dead>>

Visiting(t, k) == phase[t] = "sweep" /\ op[t] = "none" /\ k \in sweep[t]

SkipKey(t, k) ==
    /\ Visiting(t, k) /\ k \notin Armed(t)
    /\ sweep' = [sweep EXCEPT ![t] = @ \ {k}]
    /\ UNCHANGED <<g_jvm, g_key, keys, tls, att, op, phase, round, dead>>

\* The destructor returns without DetachCurrentThread.
detachForgotten(t, k) ==
    /\ Visiting(t, k) /\ k \in Armed(t) /\ keys[k] = "jni"
    /\ sweep' = [sweep EXCEPT ![t] = @ \ {k}]
    /\ tls' = [tls EXCEPT ![t] = @ \ {k}]
    /\ UNCHANGED <<g_jvm, g_key, keys, att, op, phase, round, dead>>

\* The C library clears the value, then calls _detachCurrentThread, which
\* detaches whatever attachment GetEnv finds.
detachCurrentThread(t, k) ==
    /\ Visiting(t, k) /\ k \in Armed(t) /\ keys[k] = "jni"
    /\ sweep' = [sweep EXCEPT ![t] = @ \ {k}]
    /\ tls' = [tls EXCEPT ![t] = @ \ {k}]
    /\ att' = [att EXCEPT ![t] = "no"]
    /\ UNCHANGED <<g_jvm, g_key, keys, op, phase, round, dead>>

\* Another component's destructor: it undoes its own attachment, may store
\* its value again, and may ask the library for an env.
ForeignDestructor(t, k) ==
    /\ Visiting(t, k) /\ k \in Armed(t) /\ keys[k] = "other"
    /\ sweep' = [sweep EXCEPT ![t] = @ \ {k}]
    /\ \/ tls' = [tls EXCEPT ![t] = @ \ {k}]
       \/ round[t] < ForeignRounds /\ UNCHANGED tls
    /\ att' = [att EXCEPT ![t] = IF @ = "other" THEN "no" ELSE @]
    /\ \/ UNCHANGED op
       \/ /\ g_jvm /\ att'[t] = "no"
          /\ op' = [op EXCEPT ![t] = "attach"]
    /\ UNCHANGED <<g_jvm, g_key, keys, phase, round, dead>>

\* A round is over: start another while values are left, at most Rounds.
NextRound(t) ==
    /\ phase[t] = "sweep" /\ op[t] = "none" /\ sweep[t] = {}
    /\ IF Armed(t) # {} /\ round[t] < Rounds
          THEN /\ round' = [round EXCEPT ![t] = @ + 1]
               /\ sweep' = [sweep EXCEPT ![t] = Keys]
               /\ UNCHANGED <<phase, tls>>
          ELSE /\ phase' = [phase EXCEPT ![t] = "gone"]
               /\ tls' = [tls EXCEPT ![t] = {}]
               /\ UNCHANGED <<round, sweep>>
    /\ UNCHANGED <<g_jvm, g_key, keys, att, op, dead>>

(***************************************************************************)
(* The other native components of the process.                             *)
(***************************************************************************)

ForeignCreateKey(k) ==
    /\ keys[k] = "free"
    /\ keys' = [keys EXCEPT ![k] = "other"]
    /\ UNCHANGED <<g_jvm, g_key, tls, att, op, phase, sweep, round, dead>>

ForeignDeleteKey(k) == keys[k] = "other" /\ DeleteKey(k)

ForeignSet(t, k) ==
    /\ Idle(t) /\ keys[k] = "other" /\ k \notin tls[t]
    /\ tls' = [tls EXCEPT ![t] = @ \cup {k}]
    /\ UNCHANGED <<g_jvm, g_key, keys, att, op, phase, sweep, round, dead>>

\* They too attach only a detached thread, and detach what they attached.
ForeignAttach(t) ==
    /\ Idle(t) /\ att[t] \in {"no", "other"}
    /\ att' = [att EXCEPT ![t] = IF @ = "no" THEN "other" ELSE "no"]
    /\ UNCHANGED <<g_jvm, g_key, keys, tls, op, phase, sweep, round, dead>>

GetEnvSteps(t) == AttachCurrentThread(t) \/ StoreEnv(t)

ExitSteps(t) ==
    \/ NextRound(t)
    \/ \E k \in Keys :
          SkipKey(t, k) \/ detachCurrentThread(t, k) \/ ForeignDestructor(t, k)

ThreadStep(t) ==
    \/ JNI_GetThreadEnv(t) \/ GetEnvSteps(t)
    \/ ThreadExit(t) \/ ExitSteps(t)
    \/ ForeignAttach(t) \/ \E k \in Keys : ForeignSet(t, k)

ProcessStep ==
    \/ \E k \in Keys : ForeignCreateKey(k) \/ ForeignDeleteKey(k)
    \/ \E t \in Threads : ThreadStep(t)

JniNext ==
    /\ ~dead
    /\ \/ \E t \in Threads : JNI_EnvInit(t) \/ EnvInitFails(t)
       \/ ProcessStep

JniSpec == JniInit /\ [][JniNext]_jniVars

(***************************************************************************)
(* Properties.                                                             *)
(***************************************************************************)

\* Types, and g_jvm is there exactly when the key is: JNI_GetThreadEnv, which
\* tests neither, finds both or none.
JniTypeOK ==
    /\ g_jvm \in BOOLEAN
    /\ g_key \in Keys \cup {NoKey}
    /\ g_jvm <=> g_key # NoKey
    /\ keys \in [Keys -> Owners]
    /\ tls \in [Threads -> SUBSET Keys]
    /\ att \in [Threads -> Attachers]
    /\ op \in [Threads -> {"none", "attach", "store"}]
    /\ phase \in [Threads -> {"run", "sweep", "gone"}]
    /\ sweep \in [Threads -> SUBSET Keys]
    /\ round \in [Threads -> 0..Rounds]
    /\ dead \in BOOLEAN

\* No thread leaves the process still attached by the library: the destructor
\* of g_key ran for every attachment that JNI_GetThreadEnv made, those made for
\* other components' destructors on an exiting thread included.
NoThreadGoneAttached ==
    \A t \in Threads : phase[t] = "gone" => att[t] # "jni"

\* A value under g_key marks an attachment the library made, so the GetEnv and
\* DetachCurrentThread of _detachCurrentThread can only undo the library's own
\* attachment, never Java's or another component's.
ValueMarksOwnAttachment ==
    \A t \in Threads :
        g_key \in tls[t] <=> (att[t] = "jni" /\ op[t] # "store" /\ phase[t] # "gone")

\* An exiting thread gets through its destructor rounds and is then not
\* attached by the library (unless the process died).
ExitEndsDetached ==
    \A t \in Threads :
        phase[t] = "sweep" ~> (dead \/ (phase[t] = "gone" /\ att[t] # "jni"))
=============================================================================
