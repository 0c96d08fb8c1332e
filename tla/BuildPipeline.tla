--------------------------- MODULE BuildPipeline ---------------------------
(***************************************************************************)
(* The two builds behind libPlayerCore and the directories they share:     *)
(* _build_NDK_one_lib.sh compiles FFmpeg in an object directory per        *)
(* configuration and installs it to one prefix for all of them; a          *)
(* developer copies the archives to libFFmpeg-<type>; build.sh links the   *)
(* player against those with ndk-build and copies the result to            *)
(* libs-<type> and app_libs.                                               *)
(*                                                                         *)
(* Contents of files are abstracted to the configuration they were built   *)
(* in, timestamps to "newer than what was linked last".                    *)
(***************************************************************************)
EXTENDS Naturals, FiniteSets

CONSTANTS
  Types,     \* values of BUILD_TYPE: min, full
  Configs,   \* configurations of _build_NDK_one_lib.sh installing to one prefix
  TypeOf,    \* the type of each configuration
  Archives,  \* the static libraries that make install copies one by one
  None,      \* no such file
  MaxRuns,   \* bound: runs of build.sh
  MaxLibRuns \* bound: runs of _build_NDK_one_lib.sh

ASSUME BuildAssumption ==
  /\ TypeOf \in [Configs -> Types]
  /\ None \notin Configs
  /\ MaxRuns \in Nat /\ MaxLibRuns \in Nat

VARIABLES
  objdir,   \* objdir[c]: "bare", "configured" or "built"
  one_lib,  \* one_lib[c]: the run of _build_NDK_one_lib.sh for c
  prefix,   \* prefix[a]: archive a below the install prefix
  core,     \* core[t]: libFFmpeg-<t>/lib, one value per archive
  newer,    \* the types whose archives are newer than obj/local's library
  obj,      \* obj/local: what the unstripped libPlayerCore.so was linked from
  libs,     \* libs/: the same library, stripped
  out,      \* out[t]: libs-<t>
  symbols,  \* symbols[t]: obj-<t>, the unstripped library
  app,      \* app_libs
  job,      \* the run of build.sh
  ran,      \* types that build.sh was ever run for
  runs, libRuns

buildVars == <<objdir, one_lib, prefix, core, newer, obj, libs, out, symbols, app, job, ran, runs, libRuns>>
ffmpegVars == <<objdir, one_lib, prefix, libRuns>>
playerVars == <<newer, obj, libs, out, symbols, app, job, ran, runs>>

Content == [Archives -> Configs \cup {None}]
Missing == [a \in Archives |-> None]
NoJob == [pc |-> "idle", type |-> None, rebuild |-> FALSE, linked |-> Missing, lost |-> FALSE]

Jobs == [pc : {"idle", "ndk", "copy", "app", "symbols", "complete"}, type : Types \cup {None},
         rebuild : BOOLEAN, linked : Content, lost : BOOLEAN]

BuildTypeOK ==
  /\ objdir \in [Configs -> {"bare", "configured", "built"}]
  /\ one_lib \in [Configs -> {"idle", "make", "install", "done"}]
  /\ prefix \in Content
  /\ core \in [Types -> Content]
  /\ newer \subseteq Types
  /\ obj \in Content /\ libs \in Content /\ app \in Content
  /\ out \in [Types -> Content] /\ symbols \in [Types -> Content]
  /\ job \in Jobs
  /\ job.pc # "idle" => job.type \in ran
  /\ ran \subseteq Types
  /\ runs \in 0 .. MaxRuns /\ libRuns \in 0 .. MaxLibRuns

BuildInit ==
  /\ objdir = [c \in Configs |-> "bare"]
  /\ one_lib = [c \in Configs |-> "idle"]
  /\ prefix = Missing
  /\ \E c \in Configs : core = [t \in Types |-> IF t = TypeOf[c] THEN [a \in Archives |-> c] ELSE Missing]
  /\ newer = {t \in Types : core[t] # Missing}
  /\ obj = Missing /\ libs = Missing /\ app = Missing
  /\ out = [t \in Types |-> Missing] /\ symbols = out
  /\ job = NoJob
  /\ ran = {}
  /\ runs = 0 /\ libRuns = 0

-----------------------------------------------------------------------------
(* _build_NDK_one_lib.sh, one run at a time for each configuration *)

(* The script is started for c. With rebuild it cleans and configures; if   *)
(* configure fails it stops there.                                          *)
OneLib(c, rebuild) ==
  /\ one_lib[c] \in {"idle", "done"}
  /\ libRuns < MaxLibRuns
  /\ libRuns' = libRuns + 1
  /\ IF rebuild
     THEN \/ /\ objdir' = [objdir EXCEPT ![c] = "configured"]
             /\ one_lib' = [one_lib EXCEPT ![c] = "make"]
          \/ /\ objdir' = [objdir EXCEPT ![c] = "bare"]
             /\ one_lib' = [one_lib EXCEPT ![c] = "idle"]
     ELSE /\ one_lib' = [one_lib EXCEPT ![c] = "make"]
          /\ UNCHANGED objdir
  /\ UNCHANGED <<prefix, core, playerVars>>

(* make fails in a directory that was never configured, and may fail in     *)
(* another; check_result stops the script.                                  *)
Make(c) ==
  /\ one_lib[c] = "make"
  /\ \/ /\ objdir[c] # "bare"
        /\ objdir' = [objdir EXCEPT ![c] = "built"]
        /\ one_lib' = [one_lib EXCEPT ![c] = "install"]
     \/ /\ one_lib' = [one_lib EXCEPT ![c] = "idle"]
        /\ UNCHANGED objdir
  /\ UNCHANGED <<prefix, core, playerVars, libRuns>>

(* make install copies the archives one by one; another configuration may   *)
(* be installing at the same time.                                          *)
InstallArchive(c, a) ==
  /\ one_lib[c] = "install"
  /\ prefix[a] # c
  /\ prefix' = [prefix EXCEPT ![a] = c]
  /\ UNCHANGED <<objdir, one_lib, core, playerVars, libRuns>>

(* make install is over or has failed; the script does not look and says    *)
(* that it is done building.                                                *)
Done(c) ==
  /\ one_lib[c] = "install"
  /\ one_lib' = [one_lib EXCEPT ![c] = "done"]
  /\ UNCHANGED <<objdir, prefix, core, playerVars, libRuns>>

(* The developer copies the archives to libFFmpeg-<type> by hand after a    *)
(* run that says it is done: the lines of the script that copied them are   *)
(* comments.                                                                *)
CopyToCore(c) ==
  /\ one_lib[c] = "done"
  /\ core' = [core EXCEPT ![TypeOf[c]] = prefix]
  /\ newer' = newer \cup {TypeOf[c]}
  /\ one_lib' = [one_lib EXCEPT ![c] = "idle"]
  /\ UNCHANGED <<objdir, prefix, libRuns, obj, libs, out, symbols, app, job, ran, runs>>

-----------------------------------------------------------------------------
(* build.sh *)

(* A mutant: obj/local is kept.                                             *)
KeepsObj(t, rebuild) == obj

AfterRm(t, rebuild) == IF rebuild THEN Missing ELSE obj

(* The script is started for type t; rebuild removes obj/local.             *)
Build(t, rebuild) ==
  /\ job.pc \in {"idle", "complete"}
  /\ runs < MaxRuns
  /\ runs' = runs + 1
  /\ ran' = ran \cup {t}
  /\ obj' = AfterRm(t, rebuild)
  /\ job' = [NoJob EXCEPT !.pc = "ndk", !.type = t, !.rebuild = rebuild]
  /\ UNCHANGED <<ffmpegVars, core, newer, libs, out, symbols, app>>

(* A mutant: only a missing library is linked.                              *)
LinksOnceOnly(t) == obj = Missing

(* ndk-build is make: the library is linked again when it is missing or     *)
(* older than an archive of the type asked for, and left alone otherwise,   *)
(* whatever it was linked from.                                             *)
MustLink(t) == obj = Missing \/ t \in newer

(* A mutant: the stripped copy is made before the library is linked.        *)
NdkBuildInstallsFirst ==
  /\ job.pc = "ndk"
  /\ None \notin {core[job.type][a] : a \in Archives}
  /\ IF MustLink(job.type)
     THEN obj' = core[job.type] /\ newer' = {}
     ELSE UNCHANGED <<obj, newer>>
  /\ libs' = obj
  /\ job' = [job EXCEPT !.pc = "copy", !.linked = core[job.type]]
  /\ UNCHANGED <<ffmpegVars, core, out, symbols, app, ran, runs>>

NdkBuild ==
  /\ job.pc = "ndk"
  /\ None \notin {core[job.type][a] : a \in Archives}
  /\ IF MustLink(job.type)
     THEN obj' = core[job.type] /\ newer' = {}
     ELSE UNCHANGED <<obj, newer>>
  /\ libs' = obj'
  /\ job' = [job EXCEPT !.pc = "copy", !.linked = core[job.type]]
  /\ UNCHANGED <<ffmpegVars, core, out, symbols, app, ran, runs>>

(* ndk-build fails (always without the archives): show_result stops the     *)
(* script before anything is copied.                                        *)
NdkBuildFails ==
  /\ job.pc = "ndk"
  /\ job' = NoJob
  /\ UNCHANGED <<ffmpegVars, core, newer, obj, libs, out, symbols, app, ran, runs>>

(* The library is copied to libs-<type>; nobody looks whether cp failed.    *)
CopyLibs ==
  /\ job.pc = "copy"
  /\ \/ /\ out' = [out EXCEPT ![job.type] = libs]
        /\ job' = [job EXCEPT !.pc = "app"]
     \/ /\ job' = [job EXCEPT !.pc = "app", !.lost = TRUE]
        /\ UNCHANGED out
  /\ UNCHANGED <<ffmpegVars, core, newer, obj, libs, symbols, app, ran, runs>>

(* And from there to app_libs, where there is such a directory. The copy of *)
(* libTxCodec_neon.so next to it always fails: nothing makes that file.     *)
CopyApp ==
  /\ job.pc = "app"
  /\ \/ /\ out[job.type] # Missing
        /\ app' = out[job.type]
        /\ job' = [job EXCEPT !.pc = "symbols"]
     \/ /\ job' = [job EXCEPT !.pc = "symbols", !.lost = TRUE]
        /\ UNCHANGED app
  /\ UNCHANGED <<ffmpegVars, core, newer, obj, libs, out, symbols, ran, runs>>

(* The unstripped library is kept for debugging; ALL completed.             *)
CopySymbols ==
  /\ job.pc = "symbols"
  /\ \/ /\ symbols' = [symbols EXCEPT ![job.type] = obj]
        /\ job' = [job EXCEPT !.pc = "complete"]
     \/ /\ job' = [job EXCEPT !.pc = "complete", !.lost = TRUE]
        /\ UNCHANGED symbols
  /\ UNCHANGED <<ffmpegVars, core, newer, obj, libs, out, app, ran, runs>>

BuildNext ==
  \/ \E c \in Configs :
       \/ \E rebuild \in BOOLEAN : OneLib(c, rebuild)
       \/ Make(c)
       \/ \E a \in Archives : InstallArchive(c, a)
       \/ Done(c)
       \/ CopyToCore(c)
  \/ \E t \in Types, rebuild \in BOOLEAN : Build(t, rebuild)
  \/ NdkBuild \/ NdkBuildFails \/ CopyLibs \/ CopyApp \/ CopySymbols

BuildSpec == BuildInit /\ [][BuildNext]_buildVars

-----------------------------------------------------------------------------
(* Properties *)

Completed == job.pc = "complete" /\ ~job.lost

(* After "rebuild" has removed obj/local (build.sh:70-72) and no copy was   *)
(* lost, libs-<type> holds a library linked from the archives that          *)
(* libFFmpeg-<type> held when ndk-build ran, whatever was built before.     *)
RebuildDelivers == Completed /\ job.rebuild => out[job.type] = job.linked

(* Without "rebuild" the same holds as long as only one type was ever built *)
(* in this tree: ndk-build's timestamps see every new copy of the archives, *)
(* also after runs that failed (build.sh:74) or lost a copy.                *)
SameTypeDelivers == Completed /\ ran = {job.type} => out[job.type] = job.linked

(* What is shipped can be debugged: the library in app_libs and the one in  *)
(* libs-<type> are the stripped form of the one in obj-<type>               *)
(* (build.sh:84-98), even when that is not the type that was asked for.     *)
ShippedMatchesSymbols ==
  /\ BuildTypeOK
  /\ Completed => out[job.type] = symbols[job.type] /\ app = out[job.type]

=============================================================================
