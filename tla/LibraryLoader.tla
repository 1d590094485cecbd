--------------------------- MODULE LibraryLoader ---------------------------
(***************************************************************************)
(* The V8 singleton: the class initialiser of V8, in which                 *)
(* NativeLibraryLoader finds the native library on java.library.path or    *)
(* extracts it from the jar, and V8.getInstance, which initialises V8 with *)
(* the ICU data and makes the one instance.  Threads come at any time; the *)
(* first to use the class initialises it, getInstance is synchronized.     *)
(* Every file operation may fail, the deletion of a failed copy too, every *)
(* load and the initialisation of V8 may, and the process may die and      *)
(* start again at any point.                                               *)
(***************************************************************************)
EXTENDS Naturals, Sequences, FiniteSets

CONSTANTS
  Thread,       \* threads that use the engine
  Dll,          \* the shared libraries the jar holds besides the engine's
  Lib,          \* the engine's library
  Icu,          \* the ICU data file
  Walk,         \* the order in which Files.walk and the jar list the libraries
  Forced,       \* forceDependencies: the one library loaded first when need be
  None,
  MaxRestarts   \* bound: how often the process dies

File == Dll \cup {Lib, Icu}

ASSUME LoaderAssumption ==
  /\ IsFiniteSet(Dll)
  /\ Forced \in Dll
  /\ {Lib, Icu} \cap Dll = {} /\ Lib # Icu
  /\ None \notin Thread \cup {"path", "temp"}
  /\ Walk \in Seq(Dll)
  /\ \A i, j \in 1 .. Len(Walk) : Walk[i] = Walk[j] => i = j
  /\ \A d \in Dll : \E i \in 1 .. Len(Walk) : Walk[i] = d
  /\ MaxRestarts \in Nat

\* The entries of the jar, in its order.
JarSize == Len(Walk) + 2

Jar ==
  [i \in 1 .. JarSize |->
     CASE i <= Len(Walk) -> Walk[i]
       [] i = JarSize - 1 -> Lib
       [] i = JarSize -> Icu]

VARIABLES
  world,        \* what the process runs on; it never changes
  class,        \* the state of the class V8
  pc,           \* what each thread does
  op,           \* the method it called
  answer,       \* what its last call came to
  loaded,       \* libraries loaded into the process
  disk,         \* the files of the temporary directory
  entry,        \* the jar entry to extract next
  at,           \* the place in the walk over the directory
  rounds,       \* the rounds of preloading still to come, and those that failed
  loadingDir,   \* the loader's field
  assetLoader,  \* whether an AssetLoader has been set
  asset,        \* on Android, the copy of the ICU data in the AssetLoader's directory
  owner,        \* the thread inside the synchronized getInstance
  inits,        \* calls of V8::Initialize
  given,        \* ghost: the state of the ICU file V8 was initialised with
  undeleted,    \* ghost: the last getResourcePath failed to copy, and then to delete
  made,         \* instances of V8 made
  restarts

loaderVars == <<loaded, disk, entry, at, rounds, loadingDir>>
engineVars == <<asset, undeleted, owner, inits, given, made>>
vars == <<world, class, pc, op, answer, loaderVars, assetLoader, engineVars, restarts>>

FileState == {"absent", "partial", "whole"}

\* Where the process runs: what a load from java.library.path does with the engine's library
\* and with Forced, whether that path is a directory that holds the ICU data, whether the code
\* runs from a jar, which libraries must be in the process before another can be loaded (on
\* Windows), and which may fail to load for a reason of their own.
World ==
  [platform : {"windows", "posix", "android"},
   path     : {"absent", "broken", "bare", "fine"},
   forced   : BOOLEAN,
   resource : BOOLEAN,
   jar      : BOOLEAN,
   flaky    : SUBSET Dll,
   needs    : [Dll -> SUBSET Dll],
   main     : SUBSET Dll]

Loading == {"load", "force", "reload", "mkdir", "extract", "copy", "preload", "final"}
Getting == {"check", "asset", "icu", "make"}

TypeOK ==
  /\ world \in World
  /\ class \in {"new", "running", "ready", "failed"}
  /\ pc \in [Thread -> {"out", "class", "monitor"} \cup Loading \cup Getting]
  /\ op \in [Thread -> {"get", "set"}]
  /\ answer \in [Thread -> {"none", "engine", "set", "failed"}]
  /\ loaded \subseteq Dll \cup {Lib}
  /\ disk \in [File -> FileState]
  /\ entry \in 1 .. JarSize + 1
  /\ at \in 1 .. Len(Walk)
  /\ rounds \in [left : 0 .. 2, failed : 0 .. 2]
  /\ loadingDir \in {None, "path", "temp"}
  /\ assetLoader \in BOOLEAN
  /\ asset \in FileState
  /\ owner \in Thread \cup {None}
  /\ inits \in Nat
  /\ given \in FileState
  /\ undeleted \in BOOLEAN
  /\ made \in Nat
  /\ restarts \in 0 .. MaxRestarts

Init ==
  /\ world \in World
  /\ class = "new"
  /\ pc = [t \in Thread |-> "out"]
  /\ op = [t \in Thread |-> "get"]
  /\ answer = [t \in Thread |-> "none"]
  /\ loaded = {}
  /\ disk = [f \in File |-> "absent"]
  /\ entry = 1
  /\ at = 1
  /\ rounds = [left |-> 2, failed |-> 0]
  /\ loadingDir = None
  /\ assetLoader = FALSE
  /\ owner = None
  /\ inits = 0
  /\ given = "absent"
  /\ undeleted = FALSE
  /\ made = 0
  /\ asset = "absent"
  /\ restarts = 0

Goto(t, place) == pc' = [pc EXCEPT ![t] = place]

----------------------------------------------------------------------------
\* Calls, and the class initialiser.

Call(t, o) ==
  /\ pc[t] = "out"
  /\ Goto(t, "class")
  /\ op' = [op EXCEPT ![t] = o]
  /\ answer' = [answer EXCEPT ![t] = "none"]
  /\ UNCHANGED <<world, class, loaderVars, assetLoader, engineVars, restarts>>

Answer(t, a) ==
  /\ Goto(t, "out")
  /\ answer' = [answer EXCEPT ![t] = a]

\* The first use of the class initialises it; a thread that comes during the initialisation
\* waits; after a failed one the class cannot be used any more (NoClassDefFoundError).
EnterClass(t) ==
  /\ pc[t] = "class"
  /\ \/ /\ class = "new"
        /\ class' = "running"
        /\ Goto(t, "load")
        /\ UNCHANGED <<answer, assetLoader>>
     \/ /\ class = "failed"
        /\ Answer(t, "failed")
        /\ UNCHANGED <<class, assetLoader>>
     \/ /\ class = "ready"
        /\ op[t] = "get"
        /\ Goto(t, "monitor")
        /\ UNCHANGED <<class, answer, assetLoader>>
     \/ /\ class = "ready"
        /\ op[t] = "set"
        /\ assetLoader' = TRUE
        /\ Answer(t, "set")
        /\ UNCHANGED class
  /\ UNCHANGED <<world, op, loaderVars, engineVars, restarts>>

\* The initialiser ends with an exception (ExceptionInInitializerError).
InitFails(t) ==
  /\ class' = "failed"
  /\ Answer(t, "failed")

\* loadLibrary returns.
Loaded(t, dir) ==
  /\ class' = "ready"
  /\ Goto(t, "class")
  /\ loaded' = loaded \cup {Lib}
  /\ loadingDir' = dir
  /\ UNCHANGED answer

\* The first attempt of automaticLoad.
LoadFromPath(t) ==
  /\ pc[t] = "load"
  /\ \/ /\ world.path = "fine"
        /\ Loaded(t, IF world.platform = "android" THEN None ELSE "path")
     \/ /\ world.path = "absent"
        /\ Goto(t, "mkdir")
        /\ UNCHANGED <<class, answer, loaded, loadingDir>>
     \/ /\ world.path \in {"broken", "bare"}
        /\ Goto(t, "force")
        /\ UNCHANGED <<class, answer, loaded, loadingDir>>
  /\ UNCHANGED <<world, op, disk, entry, at, rounds, assetLoader, engineVars, restarts>>

\* The library is there and did not load: the forced dependency first.
ForceDependency(t) ==
  /\ pc[t] = "force"
  /\ Goto(t, IF world.forced THEN "reload" ELSE "mkdir")
  /\ loaded' = IF world.forced THEN loaded \cup {Forced} ELSE loaded
  /\ UNCHANGED <<world, class, op, answer, disk, entry, at, rounds, loadingDir, assetLoader,
                 engineVars, restarts>>

\* The second attempt.
ReloadFromPath(t) ==
  /\ pc[t] = "reload"
  /\ \/ /\ world.path = "bare"
        /\ Loaded(t, IF world.platform = "android" THEN None ELSE "path")
     \/ /\ world.path # "bare"
        /\ Goto(t, "mkdir")
        /\ UNCHANGED <<class, answer, loaded, loadingDir>>
  /\ UNCHANGED <<world, op, disk, entry, at, rounds, assetLoader, engineVars, restarts>>

\* manualLoad: createTempDirectory, and the list of the jar's entries.
MakeDirectory(t) ==
  /\ pc[t] = "mkdir"
  /\ \/ Goto(t, "extract") /\ UNCHANGED <<class, answer>>
     \/ InitFails(t)
  /\ UNCHANGED <<world, op, loaderVars, assetLoader, engineVars, restarts>>

\* The next entry of the jar is created, or all are there.  Outside a jar the list is empty,
\* and nothing is extracted.
Extract(t) ==
  /\ pc[t] = "extract"
  /\ \/ /\ world.jar /\ entry <= JarSize
        /\ disk' = [disk EXCEPT ![Jar[entry]] = "partial"]
        /\ Goto(t, "copy")
     \/ /\ world.jar => entry > JarSize
        /\ Goto(t, IF world.platform = "windows" THEN "preload" ELSE "final")
        /\ UNCHANGED disk
  /\ UNCHANGED <<world, class, op, answer, loaded, entry, at, rounds, loadingDir, assetLoader,
                 engineVars, restarts>>

\* Mutant: the exception is swallowed and the next entry extracted.
CopyGoesOn(t) ==
  /\ pc[t] = "copy"
  /\ \E s \in {"partial", "whole"} : disk' = [disk EXCEPT ![Jar[entry]] = s]
  /\ entry' = entry + 1
  /\ Goto(t, "extract")
  /\ UNCHANGED <<world, class, op, answer, loaded, at, rounds, loadingDir, assetLoader,
                 engineVars, restarts>>

\* Files.copy ends, or fails: the file is deleted, if that does not fail too, and the exception
\* thrown again.
Copy(t) ==
  /\ pc[t] = "copy"
  /\ \/ /\ disk' = [disk EXCEPT ![Jar[entry]] = "whole"]
        /\ entry' = entry + 1
        /\ Goto(t, "extract")
        /\ UNCHANGED <<class, answer>>
     \/ /\ \E s \in {"absent", "partial"} : disk' = [disk EXCEPT ![Jar[entry]] = s]
        /\ InitFails(t)
        /\ UNCHANGED entry
  /\ UNCHANGED <<world, op, loaded, at, rounds, loadingDir, assetLoader, engineVars, restarts>>

\* Mutant: the directory is walked once.
EndRoundLast(t, failed) ==
  /\ at' = 1
  /\ rounds' = [left |-> 0, failed |-> rounds.failed + failed]
  /\ Goto(t, "final")

\* The end of a walk: there are two.
EndRound(t, failed) ==
  /\ at' = 1
  /\ rounds' = [left |-> rounds.left - 1, failed |-> rounds.failed + failed]
  /\ Goto(t, IF rounds.left = 1 THEN "final" ELSE "preload")

\* System.load brings a library into the process, if it is in the directory and those it needs
\* are in the process; if it fails, it is passed over.
PreloadOne(d) ==
  \/ /\ disk[d] = "whole" /\ world.needs[d] \subseteq loaded
     /\ loaded' = loaded \cup {d}
  \/ /\ disk[d] # "whole" \/ ~ world.needs[d] \subseteq loaded \/ d \in world.flaky
     /\ UNCHANGED loaded

\* Mutant: the walk goes one past its end.
PreloadPastEnd(t) ==
  /\ pc[t] = "preload"
  /\ PreloadOne(Walk[at])
  /\ at' = at + 1
  /\ UNCHANGED <<rounds, pc>>
  /\ UNCHANGED <<world, class, op, answer, disk, entry, loadingDir, assetLoader, engineVars,
                 restarts>>

\* On Windows the other libraries are preloaded in the order of the walk.
Preload(t) ==
  /\ pc[t] = "preload"
  /\ PreloadOne(Walk[at])
  /\ \/ at < Len(Walk) /\ at' = at + 1 /\ UNCHANGED <<rounds, pc>>
     \/ at = Len(Walk) /\ EndRound(t, 0)
  /\ UNCHANGED <<world, class, op, answer, disk, entry, loadingDir, assetLoader, engineVars,
                 restarts>>

\* Files.walk throws its IOException: the round is left out.
PreloadFails(t) ==
  /\ pc[t] = "preload"
  /\ at = 1
  /\ EndRound(t, 1)
  /\ UNCHANGED <<world, class, op, answer, loaded, disk, entry, loadingDir, assetLoader,
                 engineVars, restarts>>

\* The walk breaks off with an UncheckedIOException, which nothing catches.
WalkBreaks(t) ==
  /\ pc[t] = "preload"
  /\ InitFails(t)
  /\ UNCHANGED <<world, op, loaderVars, assetLoader, engineVars, restarts>>

\* The load of the engine's library from the temporary directory; when it fails the library is
\* deleted, at once or, on Windows, on exit.
LoadFromDirectory(t) ==
  /\ pc[t] = "final"
  /\ \/ /\ disk[Lib] = "whole"
        /\ world.platform = "windows" => world.main \subseteq loaded
        /\ Loaded(t, "temp")
        /\ UNCHANGED disk
     \/ /\ \/ world.platform # "windows" /\ disk' = [disk EXCEPT ![Lib] = "absent"]
           \/ UNCHANGED disk
        /\ InitFails(t)
        /\ UNCHANGED <<loaded, loadingDir>>
  /\ UNCHANGED <<world, op, entry, at, rounds, assetLoader, engineVars, restarts>>

----------------------------------------------------------------------------
\* getInstance.

\* Mutant: getInstance is not synchronized.
EnterMonitorAlways(t) ==
  /\ pc[t] = "monitor"
  /\ owner' = t
  /\ Goto(t, "check")
  /\ UNCHANGED <<world, class, op, answer, loaderVars, assetLoader, asset, undeleted, inits, given,
                 made, restarts>>

EnterMonitor(t) ==
  /\ pc[t] = "monitor"
  /\ owner = None
  /\ owner' = t
  /\ Goto(t, "check")
  /\ UNCHANGED <<world, class, op, answer, loaderVars, assetLoader, asset, undeleted, inits, given,
                 made, restarts>>

\* Mutant: a thrown exception leaves the monitor locked.
LeaveOnSuccess(t, a) ==
  /\ Answer(t, a)
  /\ owner' = IF a = "failed" THEN owner ELSE None

\* The return from the synchronized method, also with an exception.
Leave(t, a) ==
  /\ Answer(t, a)
  /\ owner' = None

\* The IOException in getResourcePath: the copy is deleted, or that fails too, which is ignored;
\* the path is returned in both cases.
CopyFails(t) ==
  /\ \/ asset' = "absent" /\ undeleted' = FALSE
     \/ UNCHANGED asset /\ undeleted' = TRUE
  /\ Goto(t, "icu")
  /\ UNCHANGED <<answer, owner>>

\* getResourcePath up to the open of the copy, which truncates it, on Android; without an
\* AssetLoader, or with one that throws, there is an exception.
OpenCopy(t) ==
  \/ /\ assetLoader
     /\ Goto(t, "asset")
     /\ asset' = "partial"
     /\ undeleted' = FALSE
     /\ UNCHANGED <<answer, owner>>
  \/ /\ assetLoader
     /\ CopyFails(t)
  \/ /\ Leave(t, "failed")
     /\ UNCHANGED <<asset, undeleted>>

\* Mutant: on Android the copy that is there already is used again.
CheckReusesCopy(t) ==
  /\ pc[t] = "check"
  /\ \/ /\ made > 0
        /\ Leave(t, "engine")
        /\ UNCHANGED <<asset, undeleted>>
     \/ /\ made = 0
        /\ world.platform # "android" \/ asset # "absent"
        /\ Goto(t, "icu")
        /\ UNCHANGED <<answer, asset, undeleted, owner>>
     \/ /\ made = 0
        /\ world.platform = "android" /\ asset = "absent"
        /\ OpenCopy(t)
  /\ UNCHANGED <<world, class, op, loaderVars, assetLoader, inits, given, made, restarts>>

\* The test of instance, and the begin of getResourcePath.
Check(t) ==
  /\ pc[t] = "check"
  /\ \/ /\ made > 0
        /\ Leave(t, "engine")
        /\ UNCHANGED <<asset, undeleted>>
     \/ /\ made = 0
        /\ world.platform # "android"
        /\ Goto(t, "icu")
        /\ UNCHANGED <<answer, asset, undeleted, owner>>
     \/ /\ made = 0
        /\ world.platform = "android"
        /\ OpenCopy(t)
  /\ UNCHANGED <<world, class, op, loaderVars, assetLoader, inits, given, made, restarts>>

\* The copy ends, or fails; or the AssetLoader had no stream, and the NullPointerException leaves
\* the copy as it is.
CopyAsset(t) ==
  /\ pc[t] = "asset"
  /\ \/ /\ asset' = "whole"
        /\ Goto(t, "icu")
        /\ UNCHANGED <<answer, undeleted, owner>>
     \/ CopyFails(t)
     \/ Leave(t, "failed") /\ UNCHANGED <<asset, undeleted>>
  /\ UNCHANGED <<world, class, op, loaderVars, assetLoader, inits, given, made, restarts>>

\* The file at the path that getResourcePath returned.
IcuFile ==
  CASE world.platform = "android" -> asset
    [] world.platform # "android" /\ loadingDir = "path" ->
         IF world.resource THEN "whole" ELSE "absent"
    [] OTHER -> disk[Icu]

\* initializeV8 fails on a file that is not there, and may fail on any other; what it does with
\* part of one is open.
InitializeV8(t) ==
  /\ pc[t] = "icu"
  /\ \/ /\ IcuFile # "absent"
        /\ inits' = inits + 1
        /\ given' = IcuFile
        /\ Goto(t, "make")
        /\ UNCHANGED <<answer, owner>>
     \/ /\ Leave(t, "failed")
        /\ UNCHANGED <<inits, given>>
  /\ UNCHANGED <<world, class, op, loaderVars, assetLoader, asset, undeleted, made, restarts>>

MakeInstance(t) ==
  /\ pc[t] = "make"
  /\ made' = made + 1
  /\ Leave(t, "engine")
  /\ UNCHANGED <<world, class, op, loaderVars, assetLoader, asset, undeleted, inits, given,
                 restarts>>

----------------------------------------------------------------------------
\* The process dies.  Its temporary directory is not found again (the name of a new one is
\* taken from the clock); the copy in the AssetLoader's directory stays.
Restart ==
  /\ restarts < MaxRestarts
  /\ restarts' = restarts + 1
  /\ class' = "new"
  /\ pc' = [t \in Thread |-> "out"]
  /\ op' = [t \in Thread |-> "get"]
  /\ answer' = [t \in Thread |-> "none"]
  /\ loaded' = {}
  /\ disk' = [f \in File |-> "absent"]
  /\ entry' = 1
  /\ at' = 1
  /\ rounds' = [left |-> 2, failed |-> 0]
  /\ loadingDir' = None
  /\ assetLoader' = FALSE
  /\ owner' = None
  /\ inits' = 0
  /\ given' = "absent"
  /\ undeleted' = FALSE
  /\ made' = 0
  /\ UNCHANGED <<world, asset>>

Load(t) ==
  \/ LoadFromPath(t)
  \/ ForceDependency(t)
  \/ ReloadFromPath(t)
  \/ MakeDirectory(t)
  \/ Extract(t)
  \/ Copy(t)
  \/ Preload(t)
  \/ PreloadFails(t)
  \/ WalkBreaks(t)
  \/ LoadFromDirectory(t)

Get(t) ==
  \/ EnterMonitor(t)
  \/ Check(t)
  \/ CopyAsset(t)
  \/ InitializeV8(t)
  \/ MakeInstance(t)

Next ==
  \/ \E t \in Thread, o \in {"get", "set"} : Call(t, o)
  \/ \E t \in Thread : EnterClass(t)
  \/ \E t \in Thread : Load(t)
  \/ \E t \in Thread : Get(t)
  \/ Restart

\* The JVM schedules the threads fairly, and hands the monitor of getInstance on fairly.
Fairness ==
  \A t \in Thread :
    /\ WF_vars(EnterClass(t))
    /\ WF_vars(Load(t))
    /\ WF_vars(Get(t))
    /\ SF_vars(EnterMonitor(t))

Spec == Init /\ [][Next]_vars /\ Fairness

----------------------------------------------------------------------------
\* Properties.

\* However the threads race, and however often a call failed before, V8::Initialize runs at
\* most once in a process, there is at most one V8, and who gets it gets it initialised.
InitializedOnce ==
  /\ inits <= 1
  /\ made <= inits
  /\ \A t \in Thread : answer[t] = "engine" => made = 1

\* No part of a file is taken for a file: libraries are loaded from the directory only when
\* every entry of the jar is there from end to end, or none is; V8 is initialised with whole ICU
\* data, whatever an earlier call or an earlier process left behind, except where this very call
\* of getResourcePath failed to copy the data and failed to delete what was there.
WholeFilesUsed ==
  /\ \A t \in Thread : pc[t] \in {"preload", "final"} =>
       \A f \in File : disk[f] = IF world.jar THEN "whole" ELSE "absent"
  /\ inits > 0 => given = "whole" \/ undeleted

\* The inductive invariant of LibraryLoaderProofs: one thread is in the initialiser, which the
\* class shows, and one in getInstance, which owns its monitor, after the initialiser;
InitialiserAlone ==
  /\ \A t \in Thread : pc[t] \in Loading => class = "running"
  /\ \A t, u \in Thread : pc[t] \in Loading /\ pc[u] \in Loading => t = u
  /\ class # "ready" => \A t \in Thread : pc[t] \notin Getting \cup {"monitor"}

MonitorOwned == \A t \in Thread : pc[t] \in Getting => owner = t

\* V8::Initialize has run exactly if the instance is made, or the owner is about to make it;
Making ==
  /\ \A t \in Thread : pc[t] \in {"asset", "icu"} => inits = 0
  /\ \A t \in Thread : pc[t] = "make" => inits = 1 /\ made = 0
  /\ inits = 1 /\ made = 0 => \E t \in Thread : pc[t] = "make"

\* and the files are extracted one after the other, each from end to end.
Extracting ==
  /\ \A t \in Thread :
       /\ pc[t] \in {"load", "force", "reload", "mkdir"} => entry = 1
       /\ pc[t] = "copy" => entry <= JarSize /\ world.jar
       /\ pc[t] \in {"extract", "copy"} => \A i \in 1 .. entry - 1 : disk[Jar[i]] = "whole"
       /\ pc[t] \in Loading \ {"final"} => rounds.left > 0
       /\ pc[t] = "icu" /\ world.platform = "android" => asset # "partial" \/ undeleted
  /\ ~world.jar => \A f \in File : disk[f] = "absent"
  /\ class = "new" => entry = 1 /\ rounds.left > 0
  /\ rounds.left + rounds.failed <= 2
  /\ loadingDir = "temp" => class = "ready" /\ disk[Icu] = "whole"
  /\ class = "ready" /\ world.platform # "android" => loadingDir # None

IInv ==
  /\ TypeOK
  /\ InitializedOnce
  /\ WholeFilesUsed
  /\ InitialiserAlone
  /\ MonitorOwned
  /\ Making
  /\ Extracting

\* Chains of libraries from d, each needing the next, that are not in the process from before.
Forcible == IF world.path \in {"broken", "bare"} /\ world.forced THEN {Forced} ELSE {}

ChainsFrom(d) ==
  {s \in UNION {[1 .. n -> Dll \ Forcible] : n \in 1 .. Cardinality(Dll) + 1} :
     s[1] = d /\ \A i \in 1 .. Len(s) - 1 : s[i + 1] \in world.needs[s[i]]}

Place(d) == CHOOSE i \in 1 .. Len(Walk) : Walk[i] = d

\* How often the chain runs against the walk: to a library that the walk meets later.
Against(s) == Cardinality({i \in 1 .. Len(s) - 1 : Place(s[i + 1]) > Place(s[i])})

\* The jar has the library and all it needs, and none of them fails for a reason of its own.
Sound(d) ==
  world.jar /\ \A s \in ChainsFrom(d) : \A i \in 1 .. Len(s) : s[i] \notin world.flaky

\* What preloading achieves: a library gets into the process only if it needs no cycle and no
\* chain that runs against the walk as often as the directory was walked: twice, less the walks
\* that failed.  And it does get there if besides no load on these chains fails for a reason of
\* its own.
PreloadReaches ==
  \A t \in Thread : pc[t] = "final" /\ world.platform = "windows" =>
    \A d \in Dll \ Forcible :
      LET inReach ==
            \A s \in ChainsFrom(d) : Len(s) <= Cardinality(Dll) /\ Against(s) + rounds.failed < 2
      IN  /\ d \in loaded => inReach
          /\ inReach /\ Sound(d) => d \in loaded

\* What the comment on the second walk promises (NativeLibraryLoader.java:172): walking the
\* directory twice resolves circular dependencies.  Two libraries that need each other and
\* nothing else are in the process after two walks in which nothing failed.
CyclesResolved ==
  \A t \in Thread : pc[t] = "final" /\ world.platform = "windows" /\ rounds.failed = 0 =>
    \A d, e \in Dll \ Forcible :
      d # e /\ world.needs[d] = {e} /\ world.needs[e] = {d} /\ Sound(d) => {d, e} \subseteq loaded

\* The inductive strengthening of PreloadReaches: after n walks that did not fail, the libraries
\* are in the process that need only chains running fewer than n times against the walk, and
\* those the walk under way has passed are a walk ahead; of
\* the sound ones all that do are.
Reached(d, n) == \A s \in ChainsFrom(d) : Len(s) <= Cardinality(Dll) /\ Against(s) < n

Walks(d) == 2 - rounds.left - rounds.failed + (IF Place(d) < at THEN 1 ELSE 0)

InStep(d, n) == (d \in loaded => Reached(d, n)) /\ (Reached(d, n) /\ Sound(d) => d \in loaded)

Preloading ==
  /\ class = "new" => loaded = {} /\ rounds = [left |-> 2, failed |-> 0] /\ at = 1
  /\ \A t \in Thread :
       /\ pc[t] \in {"load", "force"} => loaded = {}
       /\ pc[t] \in {"reload", "mkdir", "extract", "copy"} => loaded = Forcible
       /\ pc[t] \in Loading \ {"preload", "final"} =>
            rounds = [left |-> 2, failed |-> 0] /\ at = 1
       /\ pc[t] = "force" => world.path \in {"broken", "bare"}
       /\ pc[t] = "final" /\ world.platform = "windows" => rounds.left = 0 /\ at = 1
       /\ pc[t] = "preload" => world.platform = "windows"
       /\ pc[t] \in {"preload", "final"} /\ world.platform = "windows" =>
            /\ Forcible \subseteq loaded
            /\ \A d \in Dll \ Forcible : InStep(d, Walks(d))

\* Every call is answered, with an engine or with an exception: no failure, in the initialiser
\* or in the monitor, leaves another thread waiting.
CallsAnswered == \A t \in Thread : pc[t] # "out" ~> pc[t] = "out"
=============================================================================
