------------------------ MODULE LibraryLoaderProofs ------------------------
(***************************************************************************)
(* That LibraryLoader initialises V8 once, uses whole files only, and what *)
(* the preloading on Windows brings into the process, for any threads,     *)
(* libraries, walks, worlds and number of restarts.                        *)
(***************************************************************************)
EXTENDS LibraryLoader, FiniteSetTheorems, TLAPS

\* The walk lists every library, the jar every file, once.
LEMMA WalkFacts ==
  /\ Len(Walk) \in Nat \ {0}
  /\ \A i \in 1 .. Len(Walk) : Walk[i] \in Dll
  /\ JarSize \in Nat \ {0}
  BY LoaderAssumption DEF JarSize

LEMMA JarListsFiles ==
  /\ \A i \in 1 .. JarSize : Jar[i] \in File
  /\ \A f \in File : \E i \in 1 .. JarSize : Jar[i] = f
  /\ Icu \in File /\ Lib \in File
  <1>1. /\ JarSize = Len(Walk) + 2
        /\ \A i \in 1 .. Len(Walk) : Jar[i] = Walk[i]
        /\ Jar[JarSize - 1] = Lib
        /\ Jar[JarSize] = Icu
    BY WalkFacts DEF Jar, JarSize
  <1>2. \A i \in 1 .. JarSize : i \in 1 .. Len(Walk) \/ i = JarSize - 1 \/ i = JarSize
    BY <1>1, WalkFacts
  <1>3. 1 .. Len(Walk) \subseteq 1 .. JarSize /\ JarSize - 1 \in 1 .. JarSize /\ JarSize \in 1 .. JarSize
    BY <1>1, WalkFacts
  <1>4. \A d \in Dll : \E i \in 1 .. Len(Walk) : Walk[i] = d
    BY LoaderAssumption
  <1> QED
    BY <1>1, <1>2, <1>3, <1>4, WalkFacts DEF File

LEMMA JarListsOnce == \A i, j \in 1 .. JarSize : Jar[i] = Jar[j] => i = j
  <1>1. /\ JarSize = Len(Walk) + 2
        /\ \A i \in 1 .. Len(Walk) : Jar[i] = Walk[i] /\ Jar[i] \in Dll
        /\ Jar[JarSize - 1] = Lib
        /\ Jar[JarSize] = Icu
    BY WalkFacts DEF Jar, JarSize
  <1>2. \A i \in 1 .. JarSize : i \in 1 .. Len(Walk) \/ i = JarSize - 1 \/ i = JarSize
    BY <1>1, WalkFacts
  <1>3. \A i, j \in 1 .. Len(Walk) : Walk[i] = Walk[j] => i = j
    BY LoaderAssumption
  <1>4. Lib \notin Dll /\ Icu \notin Dll /\ Lib # Icu
    BY LoaderAssumption
  <1> QED
    BY <1>1, <1>2, <1>3, <1>4

\* None is neither a thread nor a directory.
LEMMA NoneApart == None \notin Thread /\ None # "path" /\ None # "temp"
  BY LoaderAssumption

LEMMA ForcedIsDll == Forced \in Dll
  BY LoaderAssumption

\* The file V8 is given is absent, in part or whole, wherever it lies.
LEMMA IcuFileState == TypeOK => IcuFile \in FileState
  BY JarListsFiles DEF TypeOK, IcuFile, FileState

LEMMA RestartsBounded == MaxRestarts \in Nat
  BY LoaderAssumption

----------------------------------------------------------------------------
\* One lemma per action that it keeps the invariant, with one step per group of its parts.

LEMMA CallKeeps ==
  ASSUME IInv, NEW t \in Thread, NEW o \in {"get", "set"}, Call(t, o)
  PROVE  IInv'
  <1> USE DEF Call, IInv, Loading, Getting, Goto, loaderVars, engineVars
  <1>1. TypeOK'
    BY DEF TypeOK, FileState
  <1>2. InitialiserAlone' /\ MonitorOwned'
    BY DEF TypeOK, InitialiserAlone, MonitorOwned
  <1>3. InitializedOnce' /\ Making'
    BY DEF TypeOK, InitializedOnce, MonitorOwned, Making, InitialiserAlone
  <1>4. WholeFilesUsed' /\ Extracting'
    BY DEF TypeOK, InitialiserAlone, WholeFilesUsed, Extracting, Making, FileState
  <1> QED
    BY <1>1, <1>2, <1>3, <1>4

LEMMA EnterClassKeeps ==
  ASSUME IInv, NEW t \in Thread, EnterClass(t)
  PROVE  IInv'
  <1> USE DEF IInv, Loading, Getting, Goto, Answer, loaderVars, engineVars
  <1>0. /\ pc[t] = "class"
        /\ UNCHANGED <<world, op, loaderVars, engineVars, restarts>>
    BY DEF EnterClass
  <1>1. CASE /\ class = "new"
             /\ class' = "running"
             /\ Goto(t, "load")
             /\ UNCHANGED <<answer, assetLoader>>
    <2>1. TypeOK'
      BY <1>0, <1>1 DEF TypeOK, FileState
    <2>2. InitialiserAlone' /\ MonitorOwned'
      BY <1>0, <1>1 DEF TypeOK, InitialiserAlone, MonitorOwned
    <2>3. InitializedOnce' /\ Making'
      BY <1>0, <1>1 DEF TypeOK, InitializedOnce, MonitorOwned, Making, InitialiserAlone
    <2>4. WholeFilesUsed' /\ Extracting'
      BY <1>0, <1>1 DEF TypeOK, InitialiserAlone, WholeFilesUsed, Extracting, Making, FileState
    <2> QED
      BY <2>1, <2>2, <2>3, <2>4
  <1>2. CASE /\ class = "failed"
             /\ Answer(t, "failed")
             /\ UNCHANGED <<class, assetLoader>>
    <2>1. TypeOK'
      BY <1>0, <1>2 DEF TypeOK, FileState
    <2>2. InitialiserAlone' /\ MonitorOwned'
      BY <1>0, <1>2 DEF TypeOK, InitialiserAlone, MonitorOwned
    <2>3. InitializedOnce' /\ Making'
      BY <1>0, <1>2 DEF TypeOK, InitializedOnce, MonitorOwned, Making, InitialiserAlone
    <2>4. WholeFilesUsed' /\ Extracting'
      BY <1>0, <1>2 DEF TypeOK, InitialiserAlone, WholeFilesUsed, Extracting, Making, FileState
    <2> QED
      BY <2>1, <2>2, <2>3, <2>4
  <1>3. CASE /\ class = "ready"
             /\ op[t] = "get"
             /\ Goto(t, "monitor")
             /\ UNCHANGED <<class, answer, assetLoader>>
    <2>1. TypeOK'
      BY <1>0, <1>3 DEF TypeOK, FileState
    <2>2. InitialiserAlone' /\ MonitorOwned'
      BY <1>0, <1>3 DEF TypeOK, InitialiserAlone, MonitorOwned
    <2>3. InitializedOnce' /\ Making'
      BY <1>0, <1>3 DEF TypeOK, InitializedOnce, MonitorOwned, Making, InitialiserAlone
    <2>4. WholeFilesUsed' /\ Extracting'
      BY <1>0, <1>3 DEF TypeOK, InitialiserAlone, WholeFilesUsed, Extracting, Making, FileState
    <2> QED
      BY <2>1, <2>2, <2>3, <2>4
  <1>4. CASE /\ class = "ready"
             /\ op[t] = "set"
             /\ assetLoader' = TRUE
             /\ Answer(t, "set")
             /\ UNCHANGED class
    <2>1. TypeOK'
      BY <1>0, <1>4 DEF TypeOK, FileState
    <2>2. InitialiserAlone' /\ MonitorOwned'
      BY <1>0, <1>4 DEF TypeOK, InitialiserAlone, MonitorOwned
    <2>3. InitializedOnce' /\ Making'
      BY <1>0, <1>4 DEF TypeOK, InitializedOnce, MonitorOwned, Making, InitialiserAlone
    <2>4. WholeFilesUsed' /\ Extracting'
      BY <1>0, <1>4 DEF TypeOK, InitialiserAlone, WholeFilesUsed, Extracting, Making, FileState
    <2> QED
      BY <2>1, <2>2, <2>3, <2>4
  <1> QED
    BY <1>1, <1>2, <1>3, <1>4 DEF EnterClass

LEMMA LoadFromPathKeeps ==
  ASSUME IInv, NEW t \in Thread, LoadFromPath(t)
  PROVE  IInv'
  <1> USE NoneApart DEF IInv, Loading, Getting, Goto, Loaded, engineVars
  <1>0. /\ pc[t] = "load"
        /\ UNCHANGED <<world, op, disk, entry, at, rounds, assetLoader, engineVars, restarts>>
    BY DEF LoadFromPath
  <1>1. CASE /\ world.path = "fine"
             /\ Loaded(t, IF world.platform = "android" THEN None ELSE "path")
    <2>1. TypeOK'
      BY <1>0, <1>1 DEF TypeOK, FileState
    <2>2. InitialiserAlone' /\ MonitorOwned'
      BY <1>0, <1>1 DEF TypeOK, InitialiserAlone, MonitorOwned
    <2>3. InitializedOnce' /\ Making'
      BY <1>0, <1>1 DEF TypeOK, InitializedOnce, MonitorOwned, Making, InitialiserAlone
    <2>4. WholeFilesUsed' /\ Extracting'
      BY <1>0, <1>1 DEF TypeOK, InitialiserAlone, WholeFilesUsed, Extracting, Making, FileState
    <2> QED
      BY <2>1, <2>2, <2>3, <2>4
  <1>2. CASE /\ world.path = "absent"
             /\ Goto(t, "mkdir")
             /\ UNCHANGED <<class, answer, loaded, loadingDir>>
    <2>1. TypeOK'
      BY <1>0, <1>2 DEF TypeOK, FileState
    <2>2. InitialiserAlone' /\ MonitorOwned'
      BY <1>0, <1>2 DEF TypeOK, InitialiserAlone, MonitorOwned
    <2>3. InitializedOnce' /\ Making'
      BY <1>0, <1>2 DEF TypeOK, InitializedOnce, MonitorOwned, Making, InitialiserAlone
    <2>4. WholeFilesUsed' /\ Extracting'
      BY <1>0, <1>2 DEF TypeOK, InitialiserAlone, WholeFilesUsed, Extracting, Making, FileState
    <2> QED
      BY <2>1, <2>2, <2>3, <2>4
  <1>3. CASE /\ world.path \in {"broken", "bare"}
             /\ Goto(t, "force")
             /\ UNCHANGED <<class, answer, loaded, loadingDir>>
    <2>1. TypeOK'
      BY <1>0, <1>3 DEF TypeOK, FileState
    <2>2. InitialiserAlone' /\ MonitorOwned'
      BY <1>0, <1>3 DEF TypeOK, InitialiserAlone, MonitorOwned
    <2>3. InitializedOnce' /\ Making'
      BY <1>0, <1>3 DEF TypeOK, InitializedOnce, MonitorOwned, Making, InitialiserAlone
    <2>4. WholeFilesUsed' /\ Extracting'
      BY <1>0, <1>3 DEF TypeOK, InitialiserAlone, WholeFilesUsed, Extracting, Making, FileState
    <2> QED
      BY <2>1, <2>2, <2>3, <2>4
  <1> QED
    BY <1>1, <1>2, <1>3 DEF LoadFromPath

LEMMA ForceDependencyKeeps ==
  ASSUME IInv, NEW t \in Thread, ForceDependency(t)
  PROVE  IInv'
  <1> USE ForcedIsDll DEF ForceDependency, IInv, Loading, Getting, Goto, engineVars
  <1>1. TypeOK'
    BY DEF TypeOK, FileState
  <1>2. InitialiserAlone' /\ MonitorOwned'
    BY DEF TypeOK, InitialiserAlone, MonitorOwned
  <1>3. InitializedOnce' /\ Making'
    BY DEF TypeOK, InitializedOnce, MonitorOwned, Making, InitialiserAlone
  <1>4. WholeFilesUsed' /\ Extracting'
    BY DEF TypeOK, InitialiserAlone, WholeFilesUsed, Extracting, Making, FileState
  <1> QED
    BY <1>1, <1>2, <1>3, <1>4

LEMMA ReloadFromPathKeeps ==
  ASSUME IInv, NEW t \in Thread, ReloadFromPath(t)
  PROVE  IInv'
  <1> USE NoneApart DEF IInv, Loading, Getting, Goto, Loaded, engineVars
  <1>0. /\ pc[t] = "reload"
        /\ UNCHANGED <<world, op, disk, entry, at, rounds, assetLoader, engineVars, restarts>>
    BY DEF ReloadFromPath
  <1>1. CASE /\ world.path = "bare"
             /\ Loaded(t, IF world.platform = "android" THEN None ELSE "path")
    <2>1. TypeOK'
      BY <1>0, <1>1 DEF TypeOK, FileState
    <2>2. InitialiserAlone' /\ MonitorOwned'
      BY <1>0, <1>1 DEF TypeOK, InitialiserAlone, MonitorOwned
    <2>3. InitializedOnce' /\ Making'
      BY <1>0, <1>1 DEF TypeOK, InitializedOnce, MonitorOwned, Making, InitialiserAlone
    <2>4. WholeFilesUsed' /\ Extracting'
      BY <1>0, <1>1 DEF TypeOK, InitialiserAlone, WholeFilesUsed, Extracting, Making, FileState
    <2> QED
      BY <2>1, <2>2, <2>3, <2>4
  <1>2. CASE /\ world.path # "bare"
             /\ Goto(t, "mkdir")
             /\ UNCHANGED <<class, answer, loaded, loadingDir>>
    <2>1. TypeOK'
      BY <1>0, <1>2 DEF TypeOK, FileState
    <2>2. InitialiserAlone' /\ MonitorOwned'
      BY <1>0, <1>2 DEF TypeOK, InitialiserAlone, MonitorOwned
    <2>3. InitializedOnce' /\ Making'
      BY <1>0, <1>2 DEF TypeOK, InitializedOnce, MonitorOwned, Making, InitialiserAlone
    <2>4. WholeFilesUsed' /\ Extracting'
      BY <1>0, <1>2 DEF TypeOK, InitialiserAlone, WholeFilesUsed, Extracting, Making, FileState
    <2> QED
      BY <2>1, <2>2, <2>3, <2>4
  <1> QED
    BY <1>1, <1>2 DEF ReloadFromPath

LEMMA MakeDirectoryKeeps ==
  ASSUME IInv, NEW t \in Thread, MakeDirectory(t)
  PROVE  IInv'
  <1> USE DEF IInv, Loading, Getting, Goto, InitFails, loaderVars, engineVars, Answer
  <1>0. /\ pc[t] = "mkdir"
        /\ UNCHANGED <<world, op, loaderVars, assetLoader, engineVars, restarts>>
    BY DEF MakeDirectory
  <1>1. CASE Goto(t, "extract") /\ UNCHANGED <<class, answer>>
    <2>1. TypeOK'
      BY <1>0, <1>1 DEF TypeOK, FileState
    <2>2. InitialiserAlone' /\ MonitorOwned'
      BY <1>0, <1>1 DEF TypeOK, InitialiserAlone, MonitorOwned
    <2>3. InitializedOnce' /\ Making'
      BY <1>0, <1>1 DEF TypeOK, InitializedOnce, MonitorOwned, Making, InitialiserAlone
    <2>4. WholeFilesUsed' /\ Extracting'
      BY <1>0, <1>1 DEF TypeOK, InitialiserAlone, WholeFilesUsed, Extracting, Making, FileState
    <2> QED
      BY <2>1, <2>2, <2>3, <2>4
  <1>2. CASE InitFails(t)
    <2>1. TypeOK'
      BY <1>0, <1>2 DEF TypeOK, FileState
    <2>2. InitialiserAlone' /\ MonitorOwned'
      BY <1>0, <1>2 DEF TypeOK, InitialiserAlone, MonitorOwned
    <2>3. InitializedOnce' /\ Making'
      BY <1>0, <1>2 DEF TypeOK, InitializedOnce, MonitorOwned, Making, InitialiserAlone
    <2>4. WholeFilesUsed' /\ Extracting'
      BY <1>0, <1>2 DEF TypeOK, InitialiserAlone, WholeFilesUsed, Extracting, Making, FileState
    <2> QED
      BY <2>1, <2>2, <2>3, <2>4
  <1> QED
    BY <1>1, <1>2 DEF MakeDirectory

LEMMA ExtractKeeps ==
  ASSUME IInv, NEW t \in Thread, Extract(t)
  PROVE  IInv'
  <1> USE WalkFacts, JarListsFiles, JarListsOnce DEF IInv, Loading, Getting, Goto, engineVars
  <1>0. /\ pc[t] = "extract"
        /\ UNCHANGED <<world, class, op, answer, loaded, entry, at, rounds, loadingDir, assetLoader,
                        engineVars, restarts>>
    BY DEF Extract
  <1>1. CASE /\ world.jar /\ entry <= JarSize
             /\ disk' = [disk EXCEPT ![Jar[entry]] = "partial"]
             /\ Goto(t, "copy")
    <2>1. TypeOK'
      BY <1>0, <1>1 DEF TypeOK, FileState
    <2>2. InitialiserAlone' /\ MonitorOwned'
      BY <1>0, <1>1 DEF TypeOK, InitialiserAlone, MonitorOwned
    <2>3. InitializedOnce' /\ Making'
      BY <1>0, <1>1 DEF TypeOK, InitializedOnce, MonitorOwned, Making, InitialiserAlone
    <2>4. WholeFilesUsed' /\ Extracting'
      BY <1>0, <1>1 DEF TypeOK, InitialiserAlone, WholeFilesUsed, Extracting, Making, FileState
    <2> QED
      BY <2>1, <2>2, <2>3, <2>4
  <1>2. CASE /\ world.jar => entry > JarSize
             /\ Goto(t, IF world.platform = "windows" THEN "preload" ELSE "final")
             /\ UNCHANGED disk
    <2>1. TypeOK'
      BY <1>0, <1>2 DEF TypeOK, FileState
    <2>2. InitialiserAlone' /\ MonitorOwned'
      BY <1>0, <1>2 DEF TypeOK, InitialiserAlone, MonitorOwned
    <2>3. InitializedOnce' /\ Making'
      BY <1>0, <1>2 DEF TypeOK, InitializedOnce, MonitorOwned, Making, InitialiserAlone
    <2>4. WholeFilesUsed' /\ Extracting'
      BY <1>0, <1>2 DEF TypeOK, InitialiserAlone, WholeFilesUsed, Extracting, Making, FileState
    <2> QED
      BY <2>1, <2>2, <2>3, <2>4
  <1> QED
    BY <1>1, <1>2 DEF Extract

LEMMA CopyKeeps ==
  ASSUME IInv, NEW t \in Thread, Copy(t)
  PROVE  IInv'
  <1> USE WalkFacts, JarListsFiles, JarListsOnce DEF IInv, Loading, Getting, Goto, InitFails, engineVars, Answer
  <1>0. /\ pc[t] = "copy"
        /\ UNCHANGED <<world, op, loaded, at, rounds, loadingDir, assetLoader, engineVars, restarts>>
    BY DEF Copy
  <1>1. CASE /\ disk' = [disk EXCEPT ![Jar[entry]] = "whole"]
             /\ entry' = entry + 1
             /\ Goto(t, "extract")
             /\ UNCHANGED <<class, answer>>
    <2>1. TypeOK'
      BY <1>0, <1>1 DEF TypeOK, Extracting, FileState
    <2>2. InitialiserAlone' /\ MonitorOwned'
      BY <1>0, <1>1 DEF TypeOK, InitialiserAlone, MonitorOwned
    <2>3. InitializedOnce' /\ Making'
      BY <1>0, <1>1 DEF TypeOK, InitializedOnce, MonitorOwned, Making, InitialiserAlone
    <2>4. WholeFilesUsed' /\ Extracting'
      BY <1>0, <1>1 DEF TypeOK, InitialiserAlone, WholeFilesUsed, Extracting, Making, FileState
    <2> QED
      BY <2>1, <2>2, <2>3, <2>4
  <1>2. CASE /\ \E s \in {"absent", "partial"} : disk' = [disk EXCEPT ![Jar[entry]] = s]
             /\ InitFails(t)
             /\ UNCHANGED entry
    <2>1. TypeOK'
      BY <1>0, <1>2 DEF TypeOK, Extracting, FileState
    <2>2. InitialiserAlone' /\ MonitorOwned'
      BY <1>0, <1>2 DEF TypeOK, InitialiserAlone, MonitorOwned
    <2>3. InitializedOnce' /\ Making'
      BY <1>0, <1>2 DEF TypeOK, InitializedOnce, MonitorOwned, Making, InitialiserAlone
    <2>4. WholeFilesUsed' /\ Extracting'
      BY <1>0, <1>2 DEF TypeOK, InitialiserAlone, WholeFilesUsed, Extracting, Making, FileState
    <2> QED
      BY <2>1, <2>2, <2>3, <2>4
  <1> QED
    BY <1>1, <1>2 DEF Copy

LEMMA PreloadKeeps ==
  ASSUME IInv, NEW t \in Thread, Preload(t)
  PROVE  IInv'
  <1> USE WalkFacts DEF Preload, IInv, Loading, Getting, EndRound, engineVars, Goto
  <1>1. TypeOK'
    <2>1. t \in Thread /\ rounds.left \in 1 .. 2 /\ at \in 1 .. Len(Walk) /\ Walk[at] \in Dll
      BY DEF TypeOK, Extracting
    <2>2. at' \in 1 .. Len(Walk) /\ loaded' \subseteq Dll \cup {Lib}
      BY <2>1 DEF TypeOK, PreloadOne
    <2>3. rounds' \in [left : 0 .. 2, failed : 0 .. 2]
      BY <2>1 DEF TypeOK, Extracting
    <2>4. pc' \in [Thread -> {"out", "class", "monitor"} \cup Loading \cup Getting]
      BY <2>1 DEF TypeOK
    <2> QED
      BY <2>2, <2>3, <2>4 DEF TypeOK
  <1>2. InitialiserAlone' /\ MonitorOwned'
    BY DEF TypeOK, InitialiserAlone, MonitorOwned
  <1>3. InitializedOnce' /\ Making'
    BY DEF TypeOK, InitializedOnce, MonitorOwned, Making, InitialiserAlone
  <1>4. WholeFilesUsed' /\ Extracting'
    BY DEF TypeOK, InitialiserAlone, WholeFilesUsed, Extracting, Making, FileState
  <1> QED
    BY <1>1, <1>2, <1>3, <1>4

LEMMA PreloadFailsKeeps ==
  ASSUME IInv, NEW t \in Thread, PreloadFails(t)
  PROVE  IInv'
  <1> USE WalkFacts DEF PreloadFails, IInv, Loading, Getting, EndRound, engineVars, Goto
  <1>1. TypeOK'
    BY DEF TypeOK, Extracting, FileState
  <1>2. InitialiserAlone' /\ MonitorOwned'
    BY DEF TypeOK, InitialiserAlone, MonitorOwned
  <1>3. InitializedOnce' /\ Making'
    BY DEF TypeOK, InitializedOnce, MonitorOwned, Making, InitialiserAlone
  <1>4. WholeFilesUsed' /\ Extracting'
    BY DEF TypeOK, InitialiserAlone, WholeFilesUsed, Extracting, Making, FileState
  <1> QED
    BY <1>1, <1>2, <1>3, <1>4

LEMMA WalkBreaksKeeps ==
  ASSUME IInv, NEW t \in Thread, WalkBreaks(t)
  PROVE  IInv'
  <1> USE DEF WalkBreaks, IInv, Loading, Getting, InitFails, loaderVars, engineVars, Answer, Goto
  <1>1. TypeOK'
    BY DEF TypeOK, FileState
  <1>2. InitialiserAlone' /\ MonitorOwned'
    BY DEF TypeOK, InitialiserAlone, MonitorOwned
  <1>3. InitializedOnce' /\ Making'
    BY DEF TypeOK, InitializedOnce, MonitorOwned, Making, InitialiserAlone
  <1>4. WholeFilesUsed' /\ Extracting'
    BY DEF TypeOK, InitialiserAlone, WholeFilesUsed, Extracting, Making, FileState
  <1> QED
    BY <1>1, <1>2, <1>3, <1>4

LEMMA LoadFromDirectoryKeeps ==
  ASSUME IInv, NEW t \in Thread, LoadFromDirectory(t)
  PROVE  IInv'
  <1> USE NoneApart, JarListsFiles DEF IInv, Loading, Getting, InitFails, Loaded, engineVars, Answer, Goto
  <1>0. /\ pc[t] = "final"
        /\ UNCHANGED <<world, op, entry, at, rounds, assetLoader, engineVars, restarts>>
    BY DEF LoadFromDirectory
  <1>1. CASE /\ disk[Lib] = "whole"
             /\ world.platform = "windows" => world.main \subseteq loaded
             /\ Loaded(t, "temp")
             /\ UNCHANGED disk
    <2>1. TypeOK'
      BY <1>0, <1>1 DEF TypeOK, FileState
    <2>2. InitialiserAlone' /\ MonitorOwned'
      BY <1>0, <1>1 DEF TypeOK, InitialiserAlone, MonitorOwned
    <2>3. InitializedOnce' /\ Making'
      BY <1>0, <1>1 DEF TypeOK, InitializedOnce, MonitorOwned, Making, InitialiserAlone
    <2>4. WholeFilesUsed' /\ Extracting'
      BY <1>0, <1>1 DEF TypeOK, InitialiserAlone, WholeFilesUsed, Extracting, Making, FileState
    <2> QED
      BY <2>1, <2>2, <2>3, <2>4
  <1>2. CASE /\ \/ world.platform # "windows" /\ disk' = [disk EXCEPT ![Lib] = "absent"]
                \/ UNCHANGED disk
             /\ InitFails(t)
             /\ UNCHANGED <<loaded, loadingDir>>
    <2>1. TypeOK'
      BY <1>0, <1>2 DEF TypeOK, FileState
    <2>2. InitialiserAlone' /\ MonitorOwned'
      BY <1>0, <1>2 DEF TypeOK, InitialiserAlone, MonitorOwned
    <2>3. InitializedOnce' /\ Making'
      BY <1>0, <1>2 DEF TypeOK, InitializedOnce, MonitorOwned, Making, InitialiserAlone
    <2>4. WholeFilesUsed' /\ Extracting'
      BY <1>0, <1>2 DEF TypeOK, InitialiserAlone, WholeFilesUsed, Extracting, Making, FileState
    <2> QED
      BY <2>1, <2>2, <2>3, <2>4
  <1> QED
    BY <1>1, <1>2 DEF LoadFromDirectory

LEMMA EnterMonitorKeeps ==
  ASSUME IInv, NEW t \in Thread, EnterMonitor(t)
  PROVE  IInv'
  <1> USE NoneApart DEF EnterMonitor, IInv, Loading, Getting, Goto, loaderVars
  <1>1. TypeOK'
    BY DEF TypeOK, FileState
  <1>2. InitialiserAlone' /\ MonitorOwned'
    BY DEF TypeOK, InitialiserAlone, MonitorOwned
  <1>3. InitializedOnce' /\ Making'
    BY DEF TypeOK, InitializedOnce, MonitorOwned, Making, InitialiserAlone
  <1>4. WholeFilesUsed' /\ Extracting'
    BY DEF TypeOK, InitialiserAlone, WholeFilesUsed, Extracting, Making, FileState
  <1> QED
    BY <1>1, <1>2, <1>3, <1>4

\* Up to the end of the copy V8 is not initialised.
LEMMA NotYetInitialised ==
  ASSUME IInv, NEW t \in Thread, pc[t] \in {"check", "asset"}, pc[t] = "check" => made = 0
  PROVE  inits = 0
  <1>1. CASE pc[t] = "asset"
    BY <1>1 DEF IInv, Making
  <1>2. CASE pc[t] = "check"
    <2>1. made = 0 /\ owner = t /\ (inits = 1 => \E u \in Thread : pc[u] = "make")
      BY <1>2 DEF IInv, Making, MonitorOwned, Getting
    <2>2. \A u \in Thread : pc[u] = "make" => owner = u
      BY DEF IInv, MonitorOwned, Getting
    <2>3. inits \in Nat /\ inits <= 1
      BY DEF IInv, TypeOK, InitializedOnce
    <2> QED
      BY <1>2, <2>1, <2>2, <2>3
  <1> QED
    BY <1>1, <1>2

\* The IOException of getResourcePath, at the open of the copy or later.
LEMMA CopyFailsKeeps ==
  ASSUME IInv, NEW t \in Thread, pc[t] \in {"check", "asset"}, pc[t] = "check" => made = 0,
         CopyFails(t),
         UNCHANGED <<world, class, op, loaderVars, assetLoader, inits, given, made, restarts>>
  PROVE  IInv'
  <1> USE DEF IInv, Loading, Getting, Goto, loaderVars
  <1>0. /\ inits = 0
        /\ UNCHANGED <<world, class, op, loaderVars, assetLoader, inits, given, made, restarts>>
    BY NotYetInitialised
  <1>1. /\ \/ asset' = "absent" /\ undeleted' = FALSE
           \/ UNCHANGED asset /\ undeleted' = TRUE
        /\ Goto(t, "icu")
        /\ UNCHANGED <<answer, owner>>
    BY DEF CopyFails
  <1>2. TypeOK'
    BY <1>0, <1>1 DEF TypeOK, FileState
  <1>3. InitialiserAlone' /\ MonitorOwned'
    BY <1>0, <1>1 DEF TypeOK, InitialiserAlone, MonitorOwned
  <1>4. InitializedOnce' /\ Making'
    BY <1>0, <1>1 DEF TypeOK, InitializedOnce, MonitorOwned, Making, InitialiserAlone
  <1>5. WholeFilesUsed' /\ Extracting'
    BY <1>0, <1>1 DEF TypeOK, InitialiserAlone, WholeFilesUsed, Extracting, Making, FileState
  <1> QED
    BY <1>2, <1>3, <1>4, <1>5

LEMMA OpenCopyKeeps ==
  ASSUME IInv, NEW t \in Thread, pc[t] = "check", made = 0, OpenCopy(t),
         UNCHANGED <<world, class, op, loaderVars, assetLoader, inits, given, made, restarts>>
  PROVE  IInv'
  <1> USE DEF IInv, Loading, Getting, Goto, Leave, loaderVars, Answer
  <1>0. /\ pc[t] = "check" /\ made = 0 /\ inits = 0
        /\ UNCHANGED <<world, class, op, loaderVars, assetLoader, inits, given, made, restarts>>
    BY NotYetInitialised
  <1>1. CASE /\ Goto(t, "asset")
             /\ asset' = "partial"
             /\ undeleted' = FALSE
             /\ UNCHANGED <<answer, owner>>
    <2>1. TypeOK'
      BY <1>0, <1>1 DEF TypeOK, FileState
    <2>2. InitialiserAlone' /\ MonitorOwned'
      BY <1>0, <1>1 DEF TypeOK, InitialiserAlone, MonitorOwned
    <2>3. InitializedOnce' /\ Making'
      BY <1>0, <1>1 DEF TypeOK, InitializedOnce, MonitorOwned, Making, InitialiserAlone
    <2>4. WholeFilesUsed' /\ Extracting'
      BY <1>0, <1>1 DEF TypeOK, InitialiserAlone, WholeFilesUsed, Extracting, Making, FileState, MonitorOwned
    <2> QED
      BY <2>1, <2>2, <2>3, <2>4
  <1>2. CASE CopyFails(t)
    BY <1>0, <1>2, CopyFailsKeeps
  <1>3. CASE Leave(t, "failed") /\ UNCHANGED <<asset, undeleted>>
    <2>1. TypeOK'
      BY <1>0, <1>3 DEF TypeOK, FileState
    <2>2. InitialiserAlone' /\ MonitorOwned'
      BY <1>0, <1>3 DEF TypeOK, InitialiserAlone, MonitorOwned
    <2>3. InitializedOnce' /\ Making'
      BY <1>0, <1>3 DEF TypeOK, InitializedOnce, MonitorOwned, Making, InitialiserAlone
    <2>4. WholeFilesUsed' /\ Extracting'
      BY <1>0, <1>3 DEF TypeOK, InitialiserAlone, WholeFilesUsed, Extracting, Making, FileState, MonitorOwned
    <2> QED
      BY <2>1, <2>2, <2>3, <2>4
  <1> QED
    BY <1>1, <1>2, <1>3 DEF OpenCopy

LEMMA CheckKeeps ==
  ASSUME IInv, NEW t \in Thread, Check(t)
  PROVE  IInv'
  <1> USE DEF IInv, Loading, Getting, Goto, Leave, loaderVars, Answer
  <1>0. /\ pc[t] = "check"
        /\ UNCHANGED <<world, class, op, loaderVars, assetLoader, inits, given, made, restarts>>
    BY DEF Check
  <1>1. CASE /\ made > 0
             /\ Leave(t, "engine")
             /\ UNCHANGED <<asset, undeleted>>
    <2>1. TypeOK'
      BY <1>0, <1>1 DEF TypeOK, FileState
    <2>2. InitialiserAlone' /\ MonitorOwned'
      BY <1>0, <1>1 DEF TypeOK, InitialiserAlone, MonitorOwned
    <2>3. InitializedOnce' /\ Making'
      BY <1>0, <1>1 DEF TypeOK, InitializedOnce, MonitorOwned, Making, InitialiserAlone
    <2>4. WholeFilesUsed' /\ Extracting'
      BY <1>0, <1>1 DEF TypeOK, InitialiserAlone, WholeFilesUsed, Extracting, Making, FileState, MonitorOwned
    <2> QED
      BY <2>1, <2>2, <2>3, <2>4
  <1>2. CASE /\ made = 0
             /\ world.platform # "android"
             /\ Goto(t, "icu")
             /\ UNCHANGED <<answer, asset, undeleted, owner>>
    <2>1. TypeOK'
      BY <1>0, <1>2 DEF TypeOK, FileState
    <2>2. InitialiserAlone' /\ MonitorOwned'
      BY <1>0, <1>2 DEF TypeOK, InitialiserAlone, MonitorOwned
    <2>3. InitializedOnce' /\ Making'
      BY <1>0, <1>2 DEF TypeOK, InitializedOnce, MonitorOwned, Making, InitialiserAlone
    <2>4. WholeFilesUsed' /\ Extracting'
      BY <1>0, <1>2 DEF TypeOK, InitialiserAlone, WholeFilesUsed, Extracting, Making, FileState, MonitorOwned
    <2> QED
      BY <2>1, <2>2, <2>3, <2>4
  <1>3. CASE made = 0 /\ OpenCopy(t)
    BY <1>0, <1>3, OpenCopyKeeps
  <1> QED
    BY <1>1, <1>2, <1>3 DEF Check

LEMMA CopyAssetKeeps ==
  ASSUME IInv, NEW t \in Thread, CopyAsset(t)
  PROVE  IInv'
  <1> USE DEF IInv, Loading, Getting, Goto, Leave, loaderVars, Answer
  <1>0. /\ pc[t] = "asset"
        /\ UNCHANGED <<world, class, op, loaderVars, assetLoader, inits, given, made, restarts>>
    BY DEF CopyAsset
  <1>1. CASE /\ asset' = "whole"
             /\ Goto(t, "icu")
             /\ UNCHANGED <<answer, undeleted, owner>>
    <2>1. TypeOK'
      BY <1>0, <1>1 DEF TypeOK, FileState
    <2>2. InitialiserAlone' /\ MonitorOwned'
      BY <1>0, <1>1 DEF TypeOK, InitialiserAlone, MonitorOwned
    <2>3. InitializedOnce' /\ Making'
      BY <1>0, <1>1 DEF TypeOK, InitializedOnce, MonitorOwned, Making, InitialiserAlone
    <2>4. WholeFilesUsed' /\ Extracting'
      BY <1>0, <1>1 DEF TypeOK, InitialiserAlone, WholeFilesUsed, Extracting, Making, FileState, MonitorOwned
    <2> QED
      BY <2>1, <2>2, <2>3, <2>4
  <1>2. CASE CopyFails(t)
    BY <1>0, <1>2, CopyFailsKeeps
  <1>3. CASE Leave(t, "failed") /\ UNCHANGED <<asset, undeleted>>
    <2>1. TypeOK'
      BY <1>0, <1>3 DEF TypeOK, FileState
    <2>2. InitialiserAlone' /\ MonitorOwned'
      BY <1>0, <1>3 DEF TypeOK, InitialiserAlone, MonitorOwned
    <2>3. InitializedOnce' /\ Making'
      BY <1>0, <1>3 DEF TypeOK, InitializedOnce, MonitorOwned, Making, InitialiserAlone
    <2>4. WholeFilesUsed' /\ Extracting'
      BY <1>0, <1>3 DEF TypeOK, InitialiserAlone, WholeFilesUsed, Extracting, Making, FileState, MonitorOwned
    <2> QED
      BY <2>1, <2>2, <2>3, <2>4
  <1> QED
    BY <1>1, <1>2, <1>3 DEF CopyAsset

LEMMA InitializeV8Keeps ==
  ASSUME IInv, NEW t \in Thread, InitializeV8(t)
  PROVE  IInv'
  <1> USE JarListsFiles, IcuFileState DEF IInv, Loading, Getting, Goto, Leave, IcuFile, loaderVars, Answer
  <1>0. /\ pc[t] = "icu"
        /\ UNCHANGED <<world, class, op, loaderVars, assetLoader, asset, undeleted, made, restarts>>
    BY DEF InitializeV8
  <1>1. CASE /\ IcuFile # "absent"
             /\ inits' = inits + 1
             /\ given' = IcuFile
             /\ Goto(t, "make")
             /\ UNCHANGED <<answer, owner>>
    <2>1. TypeOK'
      BY <1>0, <1>1 DEF TypeOK, Making, FileState
    <2>2. InitialiserAlone' /\ MonitorOwned'
      BY <1>0, <1>1 DEF TypeOK, InitialiserAlone, MonitorOwned
    <2>3. InitializedOnce' /\ Making'
      BY <1>0, <1>1 DEF TypeOK, InitializedOnce, MonitorOwned, Making, InitialiserAlone
    <2>4. WholeFilesUsed' /\ Extracting'
      BY <1>0, <1>1 DEF TypeOK, InitialiserAlone, WholeFilesUsed, Extracting, Making, FileState
    <2> QED
      BY <2>1, <2>2, <2>3, <2>4
  <1>2. CASE /\ Leave(t, "failed")
             /\ UNCHANGED <<inits, given>>
    <2>1. TypeOK'
      BY <1>0, <1>2 DEF TypeOK, Making, FileState
    <2>2. InitialiserAlone' /\ MonitorOwned'
      BY <1>0, <1>2 DEF TypeOK, InitialiserAlone, MonitorOwned
    <2>3. InitializedOnce' /\ Making'
      BY <1>0, <1>2 DEF TypeOK, InitializedOnce, MonitorOwned, Making, InitialiserAlone
    <2>4. WholeFilesUsed' /\ Extracting'
      BY <1>0, <1>2 DEF TypeOK, InitialiserAlone, WholeFilesUsed, Extracting, Making, FileState
    <2> QED
      BY <2>1, <2>2, <2>3, <2>4
  <1> QED
    BY <1>1, <1>2 DEF InitializeV8

LEMMA MakeInstanceKeeps ==
  ASSUME IInv, NEW t \in Thread, MakeInstance(t)
  PROVE  IInv'
  <1> USE DEF MakeInstance, IInv, Loading, Getting, Leave, loaderVars, Answer, Goto
  <1>1. TypeOK'
    BY DEF TypeOK, FileState
  <1>2. InitialiserAlone' /\ MonitorOwned'
    BY DEF TypeOK, InitialiserAlone, MonitorOwned
  <1>3. InitializedOnce' /\ Making'
    BY DEF TypeOK, InitializedOnce, MonitorOwned, Making, InitialiserAlone
  <1>4. WholeFilesUsed' /\ Extracting'
    BY DEF TypeOK, InitialiserAlone, WholeFilesUsed, Extracting, Making, FileState
  <1> QED
    BY <1>1, <1>2, <1>3, <1>4

LEMMA RestartKeeps ==
  ASSUME IInv, Restart
  PROVE  IInv'
  <1> USE WalkFacts, NoneApart, JarListsFiles, RestartsBounded DEF Restart, IInv, Loading, Getting
  <1>1. TypeOK'
    <2>1. /\ pc' \in [Thread -> {"out", "class", "monitor"} \cup Loading \cup Getting]
          /\ op' \in [Thread -> {"get", "set"}]
          /\ answer' \in [Thread -> {"none", "engine", "set", "failed"}]
          /\ disk' \in [File -> FileState]
      BY DEF FileState
    <2>2. rounds' \in [left : 0 .. 2, failed : 0 .. 2] /\ entry' \in 1 .. JarSize + 1 /\ at' \in 1 .. Len(Walk)
      OBVIOUS
    <2>3. restarts' \in 0 .. MaxRestarts
      BY DEF TypeOK
    <2> QED
      BY <2>1, <2>2, <2>3 DEF TypeOK, FileState
  <1>2. InitialiserAlone' /\ MonitorOwned'
    BY DEF TypeOK, InitialiserAlone, MonitorOwned
  <1>3. InitializedOnce' /\ Making'
    BY DEF TypeOK, InitializedOnce, MonitorOwned, Making, InitialiserAlone
  <1>4. WholeFilesUsed' /\ Extracting'
    BY DEF TypeOK, InitialiserAlone, WholeFilesUsed, Extracting, Making, FileState
  <1> QED
    BY <1>1, <1>2, <1>3, <1>4

----------------------------------------------------------------------------
LEMMA InitIInv == Init => IInv
  <1> SUFFICES ASSUME Init PROVE IInv
    OBVIOUS
  <1> USE WalkFacts, NoneApart, RestartsBounded DEF Init, Loading, Getting
  <1>1. TypeOK
    <2>1. rounds \in [left : 0 .. 2, failed : 0 .. 2] /\ restarts \in 0 .. MaxRestarts
      OBVIOUS
    <2>2. /\ pc \in [Thread -> {"out", "class", "monitor"} \cup Loading \cup Getting]
          /\ op \in [Thread -> {"get", "set"}]
          /\ answer \in [Thread -> {"none", "engine", "set", "failed"}]
          /\ disk \in [File -> FileState]
      BY DEF FileState
    <2>3. entry \in 1 .. JarSize + 1 /\ at \in 1 .. Len(Walk)
      OBVIOUS
    <2>4. world \in World /\ class \in {"new", "running", "ready", "failed"}
      OBVIOUS
    <2>5. loaded \subseteq Dll \cup {Lib}
      OBVIOUS
    <2>6. loadingDir \in {None, "path", "temp"} /\ assetLoader \in BOOLEAN
      OBVIOUS
    <2>7. asset \in FileState /\ given \in FileState /\ undeleted \in BOOLEAN
      BY DEF FileState
    <2>8. owner \in Thread \cup {None} /\ inits \in Nat /\ made \in Nat
      OBVIOUS
    <2> QED
      BY <2>1, <2>2, <2>3, <2>4, <2>5, <2>6, <2>7, <2>8 DEF TypeOK
  <1>2. InitializedOnce /\ WholeFilesUsed
    BY DEF InitializedOnce, WholeFilesUsed
  <1>3. InitialiserAlone /\ MonitorOwned /\ Making /\ Extracting
    BY DEF InitialiserAlone, MonitorOwned, Making, Extracting
  <1> QED
    BY <1>1, <1>2, <1>3 DEF IInv

LEMMA StepIInv == IInv /\ [Next]_vars => IInv'
  <1> SUFFICES ASSUME IInv, [Next]_vars PROVE IInv'
    OBVIOUS
  <1>1. ASSUME NEW t \in Thread, NEW o \in {"get", "set"}, Call(t, o) PROVE IInv'
    BY <1>1, CallKeeps
  <1>2. ASSUME NEW t \in Thread, EnterClass(t) PROVE IInv'
    BY <1>2, EnterClassKeeps
  <1>3. ASSUME NEW t \in Thread, Load(t) PROVE IInv'
    BY <1>3, LoadFromPathKeeps, ForceDependencyKeeps, ReloadFromPathKeeps, MakeDirectoryKeeps,
       ExtractKeeps, CopyKeeps, PreloadKeeps, PreloadFailsKeeps, WalkBreaksKeeps,
       LoadFromDirectoryKeeps DEF Load
  <1>4. ASSUME NEW t \in Thread, Get(t) PROVE IInv'
    BY <1>4, EnterMonitorKeeps, CheckKeeps, CopyAssetKeeps, InitializeV8Keeps, MakeInstanceKeeps
       DEF Get
  <1>5. CASE Restart
    BY <1>5, RestartKeeps
  <1>6. CASE UNCHANGED vars
    BY <1>6 DEF IInv, TypeOK, InitializedOnce, WholeFilesUsed, InitialiserAlone, MonitorOwned,
                Making, Extracting, vars, loaderVars, engineVars
  <1> QED
    BY <1>1, <1>2, <1>3, <1>4, <1>5, <1>6 DEF Next

\* The invariant that the others follow from: one thread is in the class initialiser, one in
\* getInstance, and the entries of the jar are extracted one after the other from end to end.
THEOREM LoaderInvariance == Spec => []IInv
  BY InitIInv, StepIInv, PTL DEF Spec

\* The state of V8, NativeLibraryLoader and the directory keeps its type.
THEOREM LoaderTypeCorrect == Spec => []TypeOK
  BY LoaderInvariance, PTL DEF IInv

\* However many threads race in getInstance, after however many failed calls, V8::Initialize
\* runs at most once in a process and there is at most one V8, initialised before it is given.
THEOREM V8InitializedOnce == Spec => []InitializedOnce
  BY LoaderInvariance, PTL DEF IInv

\* No library is loaded from a directory with a part of a file in it, and V8 is never given a
\* part of the ICU data, for any jar, walk, failures and restarts.
THEOREM FilesUsedAreWhole == Spec => []WholeFilesUsed
  BY LoaderInvariance, PTL DEF IInv

----------------------------------------------------------------------------
\* Preloading.  A chain of n libraries from d, none in the process from before.
IsChain(s, n, d) ==
  /\ s \in [1 .. n -> Dll \ Forcible]
  /\ s[1] = d
  /\ \A i \in 1 .. n - 1 : s[i + 1] \in world.needs[s[i]]

\* Where it runs against the walk.
Ups(s, n) == {i \in 1 .. n - 1 : Place(s[i + 1]) > Place(s[i])}

\* The places of the libraries in the walk are numbers, one for each library.
LEMMA PlaceFacts ==
  /\ \A d \in Dll : Place(d) \in 1 .. Len(Walk) /\ Walk[Place(d)] = d
  /\ \A i \in 1 .. Len(Walk) : Walk[i] \in Dll /\ Place(Walk[i]) = i
  <1>1. \A d \in Dll : Place(d) \in 1 .. Len(Walk) /\ Walk[Place(d)] = d
    <2>1. ASSUME NEW d \in Dll PROVE \E i \in 1 .. Len(Walk) : Walk[i] = d
      BY LoaderAssumption
    <2> QED
      BY <2>1, Zenon DEF Place
  <1>2. \A i \in 1 .. Len(Walk) : Walk[i] \in Dll
    BY LoaderAssumption
  <1>3. \A i \in 1 .. Len(Walk) : Place(Walk[i]) = i
    <2>1. \A i, j \in 1 .. Len(Walk) : Walk[i] = Walk[j] => i = j
      BY LoaderAssumption
    <2> QED
      BY <1>1, <1>2, <2>1, Zenon
  <1> QED
    BY <1>1, <1>2, <1>3

\* LoaderAssumption: the libraries are finitely many, and at least one.
LEMMA DllCounted == Cardinality(Dll) \in Nat /\ Cardinality(Dll) >= 1 /\ IsFiniteSet(Dll)
  <1>1. IsFiniteSet(Dll) /\ Dll # {}
    BY LoaderAssumption
  <1> QED
    BY <1>1, FS_CardinalityType, FS_EmptySet

\* The chains of PreloadReaches are those of at most one library more than there are.
LEMMA ChainsAre ==
  ASSUME NEW d, NEW s
  PROVE  s \in ChainsFrom(d) <=> \E n \in 1 .. Cardinality(Dll) + 1 : Len(s) = n /\ IsChain(s, n, d)
  <1>1. ASSUME NEW n \in Nat, s \in [1 .. n -> Dll \ Forcible] PROVE Len(s) = n
    BY <1>1
  <1>2. 1 .. Cardinality(Dll) + 1 \subseteq Nat
    BY DllCounted
  <1>3. s \in ChainsFrom(d) <=>
          \E n \in 1 .. Cardinality(Dll) + 1 :
            /\ s \in [1 .. n -> Dll \ Forcible]
            /\ s[1] = d
            /\ \A i \in 1 .. Len(s) - 1 : s[i + 1] \in world.needs[s[i]]
    BY DEF ChainsFrom
  <1> QED
    BY <1>1, <1>2, <1>3 DEF IsChain

LEMMA ChainIn ==
  ASSUME NEW d, NEW s, NEW n \in 1 .. Cardinality(Dll) + 1, IsChain(s, n, d)
  PROVE  s \in ChainsFrom(d) /\ Len(s) = n /\ Against(s) = Cardinality(Ups(s, n))
  <1>1. n \in Nat
    BY DllCounted
  <1>2. Len(s) = n
    BY <1>1 DEF IsChain
  <1> QED
    BY <1>2, ChainsAre DEF Against, Ups

\* Moving a set of numbers up by one does not change how many they are.
LEMMA ShiftCardinality ==
  ASSUME NEW n \in Nat, NEW S \in SUBSET (1 .. n)
  PROVE  LET U == {i + 1 : i \in S}
         IN  /\ IsFiniteSet(S) /\ Cardinality(S) \in Nat
             /\ IsFiniteSet(U) /\ Cardinality(U) = Cardinality(S)
             /\ 1 \notin U
  <1> DEFINE U == {i + 1 : i \in S}
             f == [i \in S |-> i + 1]
  <1>1. IsFiniteSet(S) /\ Cardinality(S) \in Nat
    <2>1. IsFiniteSet(1 .. n)
      BY FS_Interval
    <2>2. IsFiniteSet(S)
      BY <2>1, FS_Subset
    <2> QED
      BY <2>2, FS_CardinalityType
  <1>2. f \in Bijection(S, U)
    <2>1. f \in [S -> U] /\ \A u \in U : \E i \in S : f[i] = u
      OBVIOUS
    <2>2. \A i, j \in S : f[i] = f[j] => i = j
      OBVIOUS
    <2> QED
      BY <2>1, <2>2 DEF Bijection, Injection, Surjection, IsInjective
  <1>3. ExistsBijection(S, U)
    BY <1>2 DEF ExistsBijection
  <1>4. 1 \notin U
    OBVIOUS
  <1> QED
    BY <1>1, <1>3, <1>4, FS_Bijection

\* A library in front of a chain that begins with one it needs.
LEMMA ChainLonger ==
  ASSUME NEW n \in Nat \ {0}, NEW s, NEW d \in Dll \ Forcible, NEW e \in world.needs[d],
         IsChain(s, n, e)
  PROVE  LET c == [i \in 1 .. n + 1 |-> IF i = 1 THEN d ELSE s[i - 1]]
         IN  /\ IsChain(c, n + 1, d)
             /\ Cardinality(Ups(s, n)) \in Nat
             /\ Cardinality(Ups(c, n + 1)) =
                  Cardinality(Ups(s, n)) + (IF Place(e) > Place(d) THEN 1 ELSE 0)
  <1> DEFINE c == [i \in 1 .. n + 1 |-> IF i = 1 THEN d ELSE s[i - 1]]
             U == {i + 1 : i \in Ups(s, n)}
  <1>1. IsChain(c, n + 1, d)
    <2>1. c \in [1 .. n + 1 -> Dll \ Forcible]
      BY DEF IsChain
    <2>2. ASSUME NEW i \in 1 .. n PROVE c[i + 1] \in world.needs[c[i]]
      <3>1. CASE i = 1
        BY <3>1 DEF IsChain
      <3>2. CASE i # 1
        <4>1. i - 1 \in 1 .. n - 1 /\ c[i + 1] = s[(i - 1) + 1] /\ c[i] = s[i - 1]
          BY <3>2
        <4> QED
          BY <4>1 DEF IsChain
      <3> QED
        BY <3>1, <3>2
    <2>3. c[1] = d /\ (n + 1) - 1 = n
      OBVIOUS
    <2> HIDE DEF c
    <2> QED
      BY <2>1, <2>2, <2>3 DEF IsChain
  <1>2. Ups(c, n + 1) = IF Place(e) > Place(d) THEN U \cup {1} ELSE U
    <2>1. c[1] = d /\ c[2] = e /\ \A i \in 1 .. n : c[i + 1] = s[i]
      BY DEF IsChain
    <2>2. ASSUME NEW i \in 2 .. n PROVE i \in Ups(c, n + 1) <=> i \in U
      <3>1. i - 1 \in 1 .. n - 1 /\ c[i + 1] = s[(i - 1) + 1] /\ c[i] = s[i - 1]
        BY <2>1
      <3>2. i \in Ups(c, n + 1) <=> Place(s[(i - 1) + 1]) > Place(s[i - 1])
        BY <3>1 DEF Ups
      <3>3. i - 1 \in Ups(s, n) <=> Place(s[(i - 1) + 1]) > Place(s[i - 1])
        BY <3>1 DEF Ups
      <3>4. i \in U <=> i - 1 \in Ups(s, n)
        <4>1. Ups(s, n) \subseteq Nat
          BY DEF Ups
        <4>2. i - 1 \in Ups(s, n) => i \in U
          BY <3>1
        <4>3. ASSUME NEW k \in Ups(s, n), i = k + 1 PROVE i - 1 = k
          BY <4>1, <4>3
        <4> QED
          BY <4>2, <4>3
      <3> QED
        BY <3>2, <3>3, <3>4
    <2>3. U \subseteq 2 .. n /\ Ups(c, n + 1) \subseteq 1 .. n
      BY DEF Ups
    <2>4. 1 \in Ups(c, n + 1) <=> Place(e) > Place(d)
      BY <2>1 DEF Ups
    <2>5. \A i \in 1 .. n : i # 1 => i \in 2 .. n
      OBVIOUS
    <2> HIDE DEF U
    <2>6. 1 \notin U /\ U \subseteq 1 .. n
      BY <2>3
    <2>7. \A i \in 1 .. n : i # 1 => (i \in Ups(c, n + 1) <=> i \in U)
      BY <2>2, <2>5
    <2>8. CASE Place(e) > Place(d)
      <3>1. Ups(c, n + 1) \subseteq U \cup {1}
        BY <2>3, <2>7
      <3>2. U \cup {1} \subseteq Ups(c, n + 1)
        BY <2>4, <2>6, <2>7, <2>8
      <3>3. Ups(c, n + 1) = U \cup {1}
        BY <3>1, <3>2
      <3> QED
        BY <2>8, <3>3, Zenon
    <2>9. CASE ~(Place(e) > Place(d))
      <3>1. Ups(c, n + 1) \subseteq U
        BY <2>3, <2>4, <2>7, <2>9
      <3>2. U \subseteq Ups(c, n + 1)
        BY <2>6, <2>7
      <3>3. Ups(c, n + 1) = U
        BY <3>1, <3>2
      <3> QED
        BY <2>9, <3>3, Zenon
    <2> QED
      BY <2>8, <2>9
  <1>3. Ups(s, n) \in SUBSET (1 .. n - 1) /\ n - 1 \in Nat
    BY DEF Ups
  <1>4. /\ Cardinality(Ups(s, n)) \in Nat
        /\ IsFiniteSet(U) /\ Cardinality(U) = Cardinality(Ups(s, n)) /\ 1 \notin U
    BY <1>3, ShiftCardinality
  <1>5. Cardinality(U \cup {1}) = Cardinality(U) + 1
    BY <1>4, FS_AddElement
  <1> QED
    BY <1>1, <1>2, <1>4, <1>5

\* A chain of more than one library is a library in front of a chain.
LEMMA ChainShorter ==
  ASSUME NEW n \in Nat \ {0}, NEW c, NEW d, IsChain(c, n + 1, d)
  PROVE  LET s == [i \in 1 .. n |-> c[i + 1]]
         IN  /\ c[2] \in world.needs[d] /\ c[2] \in Dll \ Forcible
             /\ IsChain(s, n, c[2])
             /\ Cardinality(Ups(s, n)) \in Nat
             /\ Cardinality(Ups(c, n + 1)) =
                  Cardinality(Ups(s, n)) + (IF Place(c[2]) > Place(d) THEN 1 ELSE 0)
  <1> DEFINE s == [i \in 1 .. n |-> c[i + 1]]
  <1>1. d \in Dll \ Forcible /\ c[2] \in world.needs[d] /\ c[2] \in Dll \ Forcible
    BY DEF IsChain
  <1>2. IsChain(s, n, c[2])
    <2>1. ASSUME NEW i \in 1 .. n - 1 PROVE s[i + 1] \in world.needs[s[i]]
      <3>1. i + 1 \in 1 .. (n + 1) - 1 /\ s[i + 1] = c[(i + 1) + 1] /\ s[i] = c[i + 1]
        OBVIOUS
      <3> QED
        BY <3>1 DEF IsChain
    <2>2. s \in [1 .. n -> Dll \ Forcible] /\ s[1] = c[2]
      BY DEF IsChain
    <2> QED
      BY <2>1, <2>2 DEF IsChain
  <1>3. c = [i \in 1 .. n + 1 |-> IF i = 1 THEN d ELSE s[i - 1]]
    BY DEF IsChain
  <1> HIDE DEF s
  <1> QED
    BY <1>1, <1>2, <1>3, ChainLonger DEF s

\* A chain of more libraries than there are repeats one, and can be made as long from its
\* second library on by going round once more.
LEMMA LongChainTurns ==
  ASSUME NEW c, NEW d, IsChain(c, Cardinality(Dll) + 1, d)
  PROVE  \E t : IsChain(t, Cardinality(Dll) + 1, c[2])
  <1> DEFINE m == Cardinality(Dll) + 1
  <1>1. m \in Nat /\ m >= 2
    BY DllCounted
  <1> HIDE DEF m
  <1>2. c \in [1 .. m -> Dll]
    BY DEF IsChain, m
  <1>3. IsFiniteSet(1 .. m) /\ Cardinality(1 .. m) = m
    BY <1>1, FS_Interval
  <1>4. \E x, y \in 1 .. m : x # y /\ c[x] = c[y]
    <2>1. Cardinality(Dll) < Cardinality(1 .. m)
      BY <1>3, DllCounted DEF m
    <2> QED
      BY <1>2, <1>3, <2>1, DllCounted, FS_PigeonHole
  <1>5. PICK i \in 1 .. m, j \in 1 .. m : i < j /\ c[i] = c[j]
    BY <1>1, <1>4
  <1> DEFINE back == j - i
             t == [k \in 1 .. m |-> IF k <= j - 1 THEN c[k + 1] ELSE c[k + 1 - back]]
  <1>6. \A k \in 1 .. m : k > j - 1 => k + 1 - back \in i + 1 .. m
    BY <1>1, <1>5
  <1>7. \A k \in 1 .. m - 1 : c[k + 1] \in world.needs[c[k]]
    BY DEF IsChain, m
  <1>8. t \in [1 .. m -> Dll \ Forcible] /\ t[1] = c[2]
    BY <1>1, <1>5, <1>6 DEF IsChain, m
  <1>9. ASSUME NEW k \in 1 .. m - 1 PROVE t[k + 1] \in world.needs[t[k]]
    <2>1. CASE k + 1 <= j - 1
      <3>1. k + 1 \in 1 .. m - 1 /\ t[k + 1] = c[(k + 1) + 1] /\ t[k] = c[k + 1]
        BY <1>1, <1>5, <2>1
      <3> QED
        BY <1>7, <3>1
    <2>2. CASE k = j - 1
      <3>1. i \in 1 .. m - 1 /\ t[k + 1] = c[i + 1] /\ t[k] = c[j]
        BY <1>1, <1>5, <2>2
      <3> QED
        BY <1>5, <1>7, <3>1
    <2>3. CASE k > j - 1
      <3>1. /\ k + 1 - back \in 1 .. m - 1
            /\ t[k + 1] = c[(k + 1 - back) + 1] /\ t[k] = c[k + 1 - back]
        BY <1>1, <1>5, <2>3
      <3> QED
        BY <1>7, <3>1
    <2> QED
      BY <1>1, <1>5, <2>1, <2>2, <2>3
  <1> HIDE DEF t
  <1>10. IsChain(t, m, c[2])
    BY <1>8, <1>9 DEF IsChain
  <1> QED
    BY <1>10 DEF m

\* Reached, in terms of chains of each length.
LEMMA ReachedMeans ==
  ASSUME NEW d, NEW k
  PROVE  Reached(d, k) <=>
           \A n \in 1 .. Cardinality(Dll) + 1 : \A s :
             IsChain(s, n, d) => n <= Cardinality(Dll) /\ Cardinality(Ups(s, n)) < k
  <1>1. ASSUME Reached(d, k), NEW n \in 1 .. Cardinality(Dll) + 1, NEW s, IsChain(s, n, d)
        PROVE  n <= Cardinality(Dll) /\ Cardinality(Ups(s, n)) < k
    <2>1. s \in ChainsFrom(d) /\ Len(s) = n /\ Against(s) = Cardinality(Ups(s, n))
      BY <1>1, ChainIn
    <2> QED
      BY <1>1, <2>1 DEF Reached
  <1>2. ASSUME \A n \in 1 .. Cardinality(Dll) + 1 : \A s :
                 IsChain(s, n, d) => n <= Cardinality(Dll) /\ Cardinality(Ups(s, n)) < k,
               NEW s \in ChainsFrom(d)
        PROVE  Len(s) <= Cardinality(Dll) /\ Against(s) < k
    <2>1. PICK n \in 1 .. Cardinality(Dll) + 1 : Len(s) = n /\ IsChain(s, n, d)
      BY ChainsAre
    <2>2. Against(s) = Cardinality(Ups(s, n))
      BY <2>1, ChainIn
    <2> QED
      BY <1>2, <2>1, <2>2
  <1> QED
    BY <1>1, <1>2 DEF Reached

\* How often a chain runs against the walk is a number.
LEMMA UpsCounted ==
  ASSUME NEW s, NEW n \in Nat \ {0}
  PROVE  Cardinality(Ups(s, n)) \in Nat
  <1>1. Ups(s, n) \in SUBSET (1 .. n - 1) /\ n - 1 \in Nat
    BY DEF Ups
  <1> QED
    BY <1>1, ShiftCardinality

\* A library that is reached needs no chain of more libraries than there are.
LEMMA ReachedIsBounded ==
  ASSUME NEW d, NEW k, Reached(d, k), NEW s, IsChain(s, Cardinality(Dll) + 1, d)
  PROVE  FALSE
  <1>1. Cardinality(Dll) + 1 \in 1 .. Cardinality(Dll) + 1
    BY DllCounted
  <1>2. Cardinality(Dll) + 1 <= Cardinality(Dll)
    BY <1>1, ReachedMeans
  <1> QED
    BY <1>2, DllCounted

\* Whoever is reached with one walk less is reached.
LEMMA ReachedLonger ==
  ASSUME NEW d, NEW k \in Nat, Reached(d, k)
  PROVE  Reached(d, k + 1)
  <1>1. ASSUME NEW n \in 1 .. Cardinality(Dll) + 1, NEW s, IsChain(s, n, d)
        PROVE  n <= Cardinality(Dll) /\ Cardinality(Ups(s, n)) < k + 1
    <2>1. n <= Cardinality(Dll) /\ Cardinality(Ups(s, n)) < k
      BY <1>1, ReachedMeans
    <2>2. Cardinality(Ups(s, n)) \in Nat
      BY DllCounted, UpsCounted
    <2> QED
      BY <2>1, <2>2
  <1> QED
    BY <1>1, ReachedMeans

\* Before the first walk nothing is reached: each library is a chain by itself.
LEMMA NothingReached ==
  ASSUME NEW d \in Dll \ Forcible
  PROVE  ~Reached(d, 0)
  <1> DEFINE s == [i \in 1 .. 1 |-> d]
  <1>1. IsChain(s, 1, d)
    BY DEF IsChain
  <1>2. 1 \in 1 .. Cardinality(Dll) + 1
    BY DllCounted
  <1>3. Cardinality(Ups(s, 1)) \in Nat
    BY UpsCounted
  <1> HIDE DEF s
  <1> QED
    BY <1>1, <1>2, <1>3, ReachedMeans

\* The walk past a library: if it is reached by the walk, each library it needs was reached,
\* with the walk under way when it comes before in the walk;
LEMMA ReachedNeeds ==
  ASSUME TypeOK, NEW w \in Dll \ Forcible, NEW k \in Nat, Reached(w, k + 1),
         NEW e \in world.needs[w] \ Forcible
  PROVE  Reached(e, k + (IF Place(e) < Place(w) THEN 1 ELSE 0))
  <1>1. e \in Dll \ Forcible
    BY DEF TypeOK, World
  <1>2. Place(e) \in Int /\ Place(w) \in Int
    BY <1>1, PlaceFacts
  <1>3. Place(e) # Place(w)
    <2>1. SUFFICES ASSUME Place(e) = Place(w) PROVE FALSE
      OBVIOUS
    <2>2. e = w
      BY <1>1, <2>1, PlaceFacts
    <2> DEFINE s == [i \in 1 .. Cardinality(Dll) + 1 |-> w]
    <2>3. IsChain(s, Cardinality(Dll) + 1, w)
      BY <2>2, DllCounted DEF IsChain
    <2> HIDE DEF s
    <2> QED
      BY <2>3, ReachedIsBounded
  <1>4. ASSUME NEW n \in 1 .. Cardinality(Dll) + 1, NEW s, IsChain(s, n, e)
        PROVE  /\ n <= Cardinality(Dll)
               /\ Cardinality(Ups(s, n)) < k + (IF Place(e) < Place(w) THEN 1 ELSE 0)
    <2>1. n <= Cardinality(Dll)
      <3>1. SUFFICES ASSUME n = Cardinality(Dll) + 1 PROVE FALSE
        BY DllCounted
      <3> DEFINE m == Cardinality(Dll)
                 r == [i \in 1 .. m |-> s[i]]
                 c == [i \in 1 .. m + 1 |-> IF i = 1 THEN w ELSE r[i - 1]]
      <3>2. IsChain(r, m, e) /\ m \in Nat \ {0}
        BY <1>4, <3>1, DllCounted DEF IsChain
      <3> HIDE DEF r
      <3>3. IsChain(c, m + 1, w)
        BY <3>2, ChainLonger
      <3> HIDE DEF c
      <3> QED
        BY <3>3, ReachedIsBounded
    <2> DEFINE c == [i \in 1 .. n + 1 |-> IF i = 1 THEN w ELSE s[i - 1]]
    <2>2. /\ IsChain(c, n + 1, w)
          /\ Cardinality(Ups(s, n)) \in Nat
          /\ Cardinality(Ups(c, n + 1)) =
               Cardinality(Ups(s, n)) + (IF Place(e) > Place(w) THEN 1 ELSE 0)
      <3>1. n \in Nat \ {0}
        BY DllCounted
      <3> QED
        BY <1>4, <3>1, ChainLonger
    <2> HIDE DEF c
    <2>3. n + 1 \in 1 .. Cardinality(Dll) + 1
      BY <2>1, DllCounted
    <2>4. Cardinality(Ups(c, n + 1)) < k + 1
      BY <2>2, <2>3, ReachedMeans
    <2> QED
      BY <1>2, <1>3, <2>1, <2>2, <2>4
  <1> QED
    BY <1>4, ReachedMeans

\* and if each library it needs was, it is reached.
LEMMA NeedsReach ==
  ASSUME TypeOK, NEW w \in Dll \ Forcible, NEW k \in Nat,
         \A e \in world.needs[w] \ Forcible :
           Reached(e, k + (IF Place(e) < Place(w) THEN 1 ELSE 0))
  PROVE  Reached(w, k + 1)
  <1>1. ASSUME NEW n \in 1 .. Cardinality(Dll) + 1, NEW c, IsChain(c, n, w)
        PROVE  n <= Cardinality(Dll) /\ Cardinality(Ups(c, n)) < k + 1
    <2>1. CASE n = 1
      <3>1. Ups(c, n) = {}
        BY <2>1 DEF Ups
      <3>2. Cardinality(Ups(c, n)) = 0
        BY <3>1, FS_EmptySet
      <3> QED
        BY <2>1, <3>2, DllCounted
    <2>2. CASE n # 1
      <3> DEFINE m == n - 1
                 s == [i \in 1 .. m |-> c[i + 1]]
      <3>1. m \in Nat \ {0} /\ n = m + 1 /\ m \in 1 .. Cardinality(Dll) + 1
        BY <2>2, DllCounted
      <3> HIDE DEF m
      <3>2. /\ c[2] \in world.needs[w] /\ c[2] \in Dll \ Forcible
            /\ IsChain(s, m, c[2])
            /\ Cardinality(Ups(s, m)) \in Nat
            /\ Cardinality(Ups(c, m + 1)) =
                 Cardinality(Ups(s, m)) + (IF Place(c[2]) > Place(w) THEN 1 ELSE 0)
        BY <1>1, <3>1, ChainShorter
      <3> HIDE DEF s
      <3>3. PICK e \in world.needs[w] \ Forcible : e = c[2]
        BY <3>2
      <3>4. Reached(e, k + (IF Place(e) < Place(w) THEN 1 ELSE 0))
        OBVIOUS
      <3>5. Cardinality(Ups(s, m)) < k + (IF Place(e) < Place(w) THEN 1 ELSE 0)
        BY <3>1, <3>2, <3>3, <3>4, ReachedMeans
      <3>6. n <= Cardinality(Dll)
        <4>1. SUFFICES ASSUME n = Cardinality(Dll) + 1 PROVE FALSE
          BY DllCounted
        <4>2. PICK t : IsChain(t, Cardinality(Dll) + 1, c[2])
          BY <1>1, <4>1, LongChainTurns
        <4> QED
          BY <3>3, <3>4, <4>2, ReachedIsBounded
      <3>7. Place(e) \in Int /\ Place(w) \in Int
        BY <3>2, <3>3, PlaceFacts
      <3>8. Cardinality(Ups(c, n)) =
              Cardinality(Ups(s, m)) + (IF Place(e) > Place(w) THEN 1 ELSE 0)
        BY <3>1, <3>2, <3>3
      <3> QED
        BY <3>2, <3>5, <3>6, <3>7, <3>8
    <2> QED
      BY <2>1, <2>2
  <1> QED
    BY <1>1, ReachedMeans

\* What a sound library needs is sound: the chains from it are those from the library, shortened.
LEMMA SoundNeeds ==
  ASSUME TypeOK, NEW w \in Dll \ Forcible, NEW k \in Nat, Reached(w, k + 1), Sound(w),
         NEW e \in world.needs[w] \ Forcible
  PROVE  Sound(e)
  <1>1. ASSUME NEW s \in ChainsFrom(e), NEW i \in 1 .. Len(s) PROVE s[i] \notin world.flaky
    <2>1. PICK n \in 1 .. Cardinality(Dll) + 1 : Len(s) = n /\ IsChain(s, n, e)
      BY ChainsAre
    <2>2. Reached(e, k + (IF Place(e) < Place(w) THEN 1 ELSE 0))
      BY ReachedNeeds
    <2>3. n <= Cardinality(Dll)
      BY <2>1, <2>2, ReachedMeans
    <2> DEFINE c == [j \in 1 .. n + 1 |-> IF j = 1 THEN w ELSE s[j - 1]]
    <2>4. n \in Nat \ {0} /\ n + 1 \in 1 .. Cardinality(Dll) + 1
      BY <2>3, DllCounted
    <2>5. IsChain(c, n + 1, w)
      BY <2>1, <2>4, ChainLonger
    <2>6. i + 1 \in 1 .. n + 1 /\ c[i + 1] = s[i]
      BY <2>1, <2>4
    <2> HIDE DEF c
    <2>7. c \in ChainsFrom(w) /\ Len(c) = n + 1
      BY <2>4, <2>5, ChainIn
    <2>8. c[i + 1] \notin world.flaky
      BY <2>6, <2>7 DEF Sound
    <2> QED
      BY <2>6, <2>8
  <1> QED
    BY <1>1 DEF Sound

\* A sound library does not fail for a reason of its own: it is a chain by itself.
LEMMA SoundLoads ==
  ASSUME NEW w \in Dll \ Forcible, Sound(w)
  PROVE  world.jar /\ w \notin world.flaky
  <1> DEFINE s == [i \in 1 .. 1 |-> w]
  <1>1. IsChain(s, 1, w) /\ s[1] = w
    BY DEF IsChain
  <1>2. 1 \in 1 .. Cardinality(Dll) + 1
    BY DllCounted
  <1> HIDE DEF s
  <1>3. s \in ChainsFrom(w) /\ Len(s) = 1
    BY <1>1, <1>2, ChainIn
  <1>4. s[1] \notin world.flaky
    BY <1>3 DEF Sound
  <1> QED
    BY <1>1, <1>4 DEF Sound

\* Reached is a matter of what the process runs on, which never changes.
LEMMA WorldStays ==
  ASSUME world' = world
  PROVE  /\ Forcible' = Forcible
         /\ \A d, n : Reached(d, n)' <=> Reached(d, n)
         /\ \A d : Sound(d)' <=> Sound(d)
  BY DEF Forcible, Reached, ChainsFrom, Sound

\* The thread in the initialiser is alone there, also after its step.
LEMMA LoadingAlone ==
  ASSUME IInv, NEW t \in Thread, pc[t] \in Loading, NEW place, Goto(t, place)
  PROVE  pc'[t] = place /\ \A u \in Thread \ {t} : pc'[u] \notin Loading
  BY DEF IInv, TypeOK, InitialiserAlone, Goto

\* Preloading is not disturbed by a step outside the initialiser,
LEMMA PreloadingUndisturbed ==
  ASSUME Preloading, UNCHANGED <<world, loaded, rounds, at>>,
         class' = "new" => class = "new",
         \A u \in Thread : pc'[u] \in Loading => pc'[u] = pc[u]
  PROVE  Preloading'
  <1>1. \A d : Walks(d)' = Walks(d)
    BY DEF Walks
  <1>2. \A d : InStep(d, Walks(d))' <=> InStep(d, Walks(d))
    BY <1>1, WorldStays DEF InStep
  <1> QED
    BY <1>2, WorldStays DEF Preloading, Loading

\* and says nothing once the initialiser has ended.
LEMMA PreloadingEnds ==
  ASSUME class' # "new", \A u \in Thread : pc'[u] \notin Loading
  PROVE  Preloading'
  BY DEF Preloading, Loading

\* The walk past the library it has come to.
LEMMA PreloadLoads ==
  ASSUME IInv, Preloading, NEW t \in Thread, Preload(t)
  PROVE  /\ Forcible \subseteq loaded'
         /\ \A d \in Dll \ Forcible :
              LET n == (2 - rounds.left - rounds.failed) + (IF Place(d) <= at THEN 1 ELSE 0)
              IN  /\ d \in loaded' => Reached(d, n)
                  /\ Reached(d, n) /\ Sound(d) => d \in loaded'
  <1> DEFINE k == 2 - rounds.left - rounds.failed
             w == Walk[at]
             Ahead(d) == k + (IF Place(d) <= at THEN 1 ELSE 0)
  <1>1. TypeOK /\ k \in Nat
    BY DEF IInv, TypeOK, Extracting
  <1>2. pc[t] = "preload" /\ world.platform = "windows" /\ PreloadOne(w)
    BY DEF Preload, Preloading
  <1>3. /\ Forcible \subseteq loaded
        /\ \A d \in Dll \ Forcible : InStep(d, Walks(d))
    BY <1>2 DEF Preloading
  <1>4. w \in Dll /\ Place(w) = at /\ at \in Nat
    BY <1>1, PlaceFacts DEF TypeOK
  <1>5. \A d \in Dll : Walks(d) = k + (IF Place(d) < at THEN 1 ELSE 0)
    BY DEF Walks
  <1>6. /\ loaded \subseteq loaded' /\ loaded' \subseteq loaded \cup {w}
        /\ w \in loaded' \ loaded => world.needs[w] \subseteq loaded
        /\ world.jar /\ w \notin world.flaky /\ world.needs[w] \subseteq loaded => w \in loaded'
    <2>1. world.jar => disk[w] = "whole"
      BY <1>2, <1>4 DEF IInv, WholeFilesUsed, File
    <2> QED
      BY <1>2, <2>1 DEF PreloadOne
  <1>7. ASSUME NEW d \in Dll \ Forcible, d # w
        PROVE  /\ d \in loaded' => Reached(d, Ahead(d))
               /\ Reached(d, Ahead(d)) /\ Sound(d) => d \in loaded'
    <2>1. Place(d) \in Nat /\ Place(d) # at
      BY <1>4, <1>7, PlaceFacts
    <2>2. Place(d) < at <=> Place(d) <= at
      BY <1>4, <2>1
    <2>3. Walks(d) = Ahead(d)
      BY <1>5, <2>2
    <2>4. d \in loaded' <=> d \in loaded
      BY <1>6, <1>7
    <2> QED
      BY <1>3, <2>3, <2>4 DEF InStep
  <1>8. ASSUME w \notin Forcible
        PROVE  /\ w \in loaded' => Reached(w, k + 1)
               /\ Reached(w, k + 1) /\ Sound(w) => w \in loaded'
    <2>1. Walks(w) = k
      BY <1>1, <1>4, <1>5
    <2>2. w \in loaded => Reached(w, k + 1)
      BY <1>1, <1>3, <1>4, <1>8, <2>1, ReachedLonger DEF InStep
    <2>3. \A e \in world.needs[w] \ Forcible :
            InStep(e, k + (IF Place(e) < Place(w) THEN 1 ELSE 0))
      <3>1. world.needs[w] \subseteq Dll
        BY <1>1, <1>4 DEF TypeOK, World
      <3> QED
        BY <1>3, <1>4, <1>5, <3>1
    <2>4. world.needs[w] \subseteq loaded => Reached(w, k + 1)
      BY <1>1, <1>4, <1>8, <2>3, NeedsReach DEF InStep
    <2>5. ASSUME Reached(w, k + 1), Sound(w) PROVE w \in loaded'
      <3>1. ASSUME NEW e \in world.needs[w] \ Forcible PROVE e \in loaded
        <4>1. Reached(e, k + (IF Place(e) < Place(w) THEN 1 ELSE 0)) /\ Sound(e)
          BY <1>1, <1>4, <1>8, <2>5, ReachedNeeds, SoundNeeds
        <4> QED
          BY <2>3, <4>1 DEF InStep
      <3>2. world.needs[w] \subseteq loaded
        BY <1>3, <3>1
      <3> QED
        BY <1>4, <1>6, <1>8, <2>5, <3>2, SoundLoads
    <2> QED
      BY <1>6, <2>2, <2>4, <2>5
  <1>9. w \notin Forcible =>
          /\ w \in loaded' => Reached(w, Ahead(w))
          /\ Reached(w, Ahead(w)) /\ Sound(w) => w \in loaded'
    BY <1>4, <1>8
  <1>10. Forcible \subseteq loaded'
    BY <1>3, <1>6
  <1> QED
    BY <1>7, <1>9, <1>10

\* One lemma per action of the initialiser that it keeps Preloading.

LEMMA PreloadKeepsPreloading ==
  ASSUME IInv, Preloading, NEW t \in Thread, Preload(t)
  PROVE  Preloading'
  <1> USE DEF Loading
  <1>1. pc[t] = "preload" /\ world' = world /\ class' = class /\ TypeOK /\ class = "running"
    BY DEF Preload, IInv, InitialiserAlone
  <1>2. /\ rounds.left \in 1 .. 2 /\ rounds.failed \in 0 .. 2
        /\ at \in 1 .. Len(Walk) /\ Len(Walk) \in Nat
    <2>1. rounds \in [left : 0 .. 2, failed : 0 .. 2] /\ at \in 1 .. Len(Walk)
      BY <1>1 DEF TypeOK
    <2>2. rounds.left > 0
      BY <1>1 DEF IInv, Extracting
    <2> QED
      BY <2>1, <2>2, LoaderAssumption
  <1>3. world.platform = "windows"
    BY <1>1 DEF Preloading
  <1>4. \A d \in Dll : Place(d) \in 1 .. Len(Walk)
    BY PlaceFacts
  <1>5. CASE at < Len(Walk) /\ at' = at + 1 /\ UNCHANGED <<rounds, pc>>
    <2>1. \A u \in Thread \ {t} : pc'[u] \notin Loading
      BY <1>1, <1>5 DEF IInv, InitialiserAlone
    <2>2. \A d \in Dll : Walks(d)' =
            (2 - rounds.left - rounds.failed) + (IF Place(d) <= at THEN 1 ELSE 0)
      <3>1. ASSUME NEW d \in Dll
            PROVE  Walks(d)' = (2 - rounds.left - rounds.failed) + (IF Place(d) <= at THEN 1 ELSE 0)
        <4>1. Place(d)' = Place(d) /\ Place(d) \in 1 .. Len(Walk)
          BY <1>4 DEF Place
        <4> QED
          BY <1>2, <1>5, <4>1 DEF Walks
      <3> QED
        BY <3>1
    <2>3. /\ Forcible' \subseteq loaded'
          /\ \A d \in (Dll \ Forcible)' : InStep(d, Walks(d))'
      BY <1>1, <2>2, WorldStays, PreloadLoads DEF InStep
    <2> QED
      BY <1>1, <1>3, <1>5, <2>1, <2>3 DEF Preloading
  <1>6. CASE at = Len(Walk) /\ EndRound(t, 0)
    <2>1. /\ at' = 1 /\ rounds' = [left |-> rounds.left - 1, failed |-> rounds.failed + 0]
          /\ Goto(t, IF rounds.left = 1 THEN "final" ELSE "preload")
      BY <1>6 DEF EndRound
    <2>2. /\ pc'[t] = (IF rounds.left = 1 THEN "final" ELSE "preload")
          /\ \A u \in Thread \ {t} : pc'[u] \notin Loading
      BY <1>1, <2>1, LoadingAlone
    <2>3. \A d \in Dll : Walks(d)' =
            (2 - rounds.left - rounds.failed) + (IF Place(d) <= at THEN 1 ELSE 0)
      <3>1. ASSUME NEW d \in Dll
            PROVE  Walks(d)' = (2 - rounds.left - rounds.failed) + (IF Place(d) <= at THEN 1 ELSE 0)
        <4>1. Place(d)' = Place(d) /\ Place(d) \in 1 .. Len(Walk)
          BY <1>4 DEF Place
        <4> QED
          BY <1>2, <1>6, <2>1, <4>1 DEF Walks
      <3> QED
        BY <3>1
    <2>4. /\ Forcible' \subseteq loaded'
          /\ \A d \in (Dll \ Forcible)' : InStep(d, Walks(d))'
      BY <1>1, <2>3, WorldStays, PreloadLoads DEF InStep
    <2>5. rounds.left = 1 => rounds'.left = 0
      BY <2>1
    <2> QED
      BY <1>1, <1>3, <2>1, <2>2, <2>4, <2>5 DEF Preloading
  <1> QED
    BY <1>5, <1>6 DEF Preload

LEMMA PreloadFailsKeepsPreloading ==
  ASSUME IInv, Preloading, NEW t \in Thread, PreloadFails(t)
  PROVE  Preloading'
  <1> USE DEF Loading
  <1>1. /\ pc[t] = "preload" /\ world' = world /\ class' = class /\ class = "running"
        /\ loaded' = loaded
        /\ at = 1 /\ at' = 1
        /\ rounds' = [left |-> rounds.left - 1, failed |-> rounds.failed + 1]
        /\ Goto(t, IF rounds.left = 1 THEN "final" ELSE "preload")
    BY DEF PreloadFails, EndRound, IInv, InitialiserAlone
  <1>2. rounds.left \in 1 .. 2 /\ rounds.failed \in 0 .. 2
    BY <1>1 DEF IInv, TypeOK, Extracting
  <1>3. /\ pc'[t] = (IF rounds.left = 1 THEN "final" ELSE "preload")
        /\ \A u \in Thread \ {t} : pc'[u] \notin Loading
    BY <1>1, LoadingAlone
  <1>4. \A d \in Dll : Walks(d)' = Walks(d)
    BY <1>1, <1>2 DEF Walks, Place
  <1>5. /\ world.platform = "windows"
        /\ Forcible \subseteq loaded
        /\ \A d \in Dll \ Forcible : InStep(d, Walks(d))
    BY <1>1 DEF Preloading
  <1>6. /\ Forcible' \subseteq loaded'
        /\ \A d \in (Dll \ Forcible)' : InStep(d, Walks(d))'
    BY <1>1, <1>4, <1>5, WorldStays DEF InStep
  <1>7. rounds.left = 1 => rounds'.left = 0
    BY <1>1
  <1> QED
    BY <1>1, <1>3, <1>5, <1>6, <1>7 DEF Preloading

LEMMA EnterClassKeepsPreloading ==
  ASSUME IInv, Preloading, NEW t \in Thread, EnterClass(t)
  PROVE  Preloading'
  <1>1. pc[t] = "class" /\ UNCHANGED <<world, loaded, rounds, at>> /\ TypeOK
    BY DEF EnterClass, loaderVars, IInv
  <1>2. CASE class = "new" /\ class' = "running" /\ Goto(t, "load")
    <2>1. pc'[t] = "load" /\ \A u \in Thread \ {t} : pc'[u] \notin Loading
      BY <1>1, <1>2 DEF IInv, TypeOK, InitialiserAlone, Goto
    <2>2. loaded' = {} /\ rounds' = [left |-> 2, failed |-> 0] /\ at' = 1 /\ class' # "new"
      BY <1>1, <1>2 DEF Preloading
    <2> QED
      BY <2>1, <2>2 DEF Preloading, Loading
  <1>3. CASE class' = class /\ (Answer(t, "failed") \/ Goto(t, "monitor") \/ Answer(t, "set"))
    <2>1. \A u \in Thread : pc'[u] \in Loading => pc'[u] = pc[u]
      BY <1>1, <1>3 DEF TypeOK, Answer, Goto, Loading
    <2> QED
      BY <1>1, <1>3, <2>1, PreloadingUndisturbed
  <1> QED
    BY <1>2, <1>3 DEF EnterClass

LEMMA LoadedKeepsPreloading ==
  ASSUME IInv, NEW t \in Thread, pc[t] \in Loading, NEW dir, Loaded(t, dir)
  PROVE  Preloading'
  <1>1. class' # "new" /\ Goto(t, "class")
    BY DEF Loaded
  <1>2. \A u \in Thread : pc'[u] \notin Loading
    BY <1>1, LoadingAlone DEF Loading
  <1> QED
    BY <1>1, <1>2, PreloadingEnds

LEMMA InitFailsKeepsPreloading ==
  ASSUME IInv, NEW t \in Thread, pc[t] \in Loading, InitFails(t)
  PROVE  Preloading'
  <1>1. class' # "new" /\ Goto(t, "out")
    BY DEF InitFails, Answer
  <1>2. \A u \in Thread : pc'[u] \notin Loading
    BY <1>1, LoadingAlone DEF Loading
  <1> QED
    BY <1>1, <1>2, PreloadingEnds

LEMMA LoadFromPathKeepsPreloading ==
  ASSUME IInv, Preloading, NEW t \in Thread, LoadFromPath(t)
  PROVE  Preloading'
  <1>1. /\ pc[t] = "load" /\ pc[t] \in Loading /\ world' = world /\ rounds' = rounds /\ at' = at
        /\ class = "running"
    BY DEF LoadFromPath, Loading, IInv, InitialiserAlone
  <1>2. loaded = {} /\ rounds = [left |-> 2, failed |-> 0] /\ at = 1
    BY <1>1 DEF Preloading, Loading
  <1>3. CASE Loaded(t, IF world.platform = "android" THEN None ELSE "path")
    BY <1>1, <1>3, LoadedKeepsPreloading
  <1>4. CASE /\ world.path = "absent"
             /\ Goto(t, "mkdir")
             /\ UNCHANGED <<class, answer, loaded, loadingDir>>
    <2>1. pc'[t] = "mkdir" /\ \A u \in Thread \ {t} : pc'[u] \notin Loading
      BY <1>1, <1>4, LoadingAlone
    <2>2. loaded' = Forcible'
      BY <1>1, <1>2, <1>4 DEF Forcible
    <2> QED
      BY <1>1, <1>2, <1>4, <2>1, <2>2 DEF Preloading, Loading
  <1>5. CASE /\ world.path \in {"broken", "bare"}
             /\ Goto(t, "force")
             /\ UNCHANGED <<class, answer, loaded, loadingDir>>
    <2>1. pc'[t] = "force" /\ \A u \in Thread \ {t} : pc'[u] \notin Loading
      BY <1>1, <1>5, LoadingAlone
    <2> QED
      BY <1>1, <1>2, <1>5, <2>1 DEF Preloading, Loading
  <1> QED
    BY <1>3, <1>4, <1>5 DEF LoadFromPath

LEMMA ForceDependencyKeepsPreloading ==
  ASSUME IInv, Preloading, NEW t \in Thread, ForceDependency(t)
  PROVE  Preloading'
  <1>1. /\ pc[t] = "force" /\ pc[t] \in Loading
        /\ world' = world /\ rounds' = rounds /\ at' = at /\ class' = class /\ class = "running"
        /\ Goto(t, IF world.forced THEN "reload" ELSE "mkdir")
        /\ loaded' = IF world.forced THEN loaded \cup {Forced} ELSE loaded
    BY DEF ForceDependency, Loading, IInv, InitialiserAlone
  <1>2. /\ loaded = {} /\ rounds = [left |-> 2, failed |-> 0] /\ at = 1
        /\ world.path \in {"broken", "bare"}
    BY <1>1 DEF Preloading, Loading
  <1>3. pc'[t] \in {"reload", "mkdir"} /\ \A u \in Thread \ {t} : pc'[u] \notin Loading
    BY <1>1, LoadingAlone
  <1>4. loaded' = Forcible'
    BY <1>1, <1>2 DEF Forcible
  <1> QED
    BY <1>1, <1>2, <1>3, <1>4 DEF Preloading, Loading

\* The steps between: from the second attempt to the last entry of the jar.
LEMMA UnpackingKeepsPreloading ==
  ASSUME IInv, Preloading, NEW t \in Thread, UNCHANGED <<world, loaded, rounds, at, class>>,
         pc[t] \in {"reload", "mkdir", "extract", "copy"},
         NEW place \in {"mkdir", "extract", "copy"}, Goto(t, place)
  PROVE  Preloading'
  <1>1. pc[t] \in Loading /\ class # "new"
    BY DEF Loading, IInv, InitialiserAlone
  <1>2. loaded = Forcible /\ rounds = [left |-> 2, failed |-> 0] /\ at = 1
    BY DEF Preloading, Loading
  <1>3. pc'[t] = place /\ \A u \in Thread \ {t} : pc'[u] \notin Loading
    BY <1>1, LoadingAlone
  <1> QED
    BY <1>1, <1>2, <1>3, WorldStays DEF Preloading, Loading

\* The first walk begins with the forced dependency alone in the process.
LEMMA ExtractedKeepsPreloading ==
  ASSUME IInv, Preloading, NEW t \in Thread, UNCHANGED <<world, loaded, rounds, at, class>>,
         pc[t] = "extract", Goto(t, IF world.platform = "windows" THEN "preload" ELSE "final")
  PROVE  Preloading'
  <1>1. pc[t] \in Loading /\ class # "new"
    BY DEF Loading, IInv, InitialiserAlone
  <1>2. loaded = Forcible /\ rounds = [left |-> 2, failed |-> 0] /\ at = 1
    BY DEF Preloading, Loading
  <1>3. /\ pc'[t] = (IF world.platform = "windows" THEN "preload" ELSE "final")
        /\ \A u \in Thread \ {t} : pc'[u] \notin Loading
    BY <1>1, LoadingAlone
  <1>4. ASSUME NEW d \in Dll \ Forcible PROVE InStep(d, Walks(d))'
    <2>1. Place(d)' = Place(d) /\ Place(d) \in 1 .. Len(Walk) /\ Len(Walk) \in Nat
      BY PlaceFacts, LoaderAssumption DEF Place
    <2>2. Walks(d)' = 0
      BY <1>2, <2>1 DEF Walks
    <2>3. ~Reached(d, Walks(d))'
      BY <2>2, NothingReached, WorldStays
    <2>4. d \notin loaded'
      BY <1>2
    <2> QED
      BY <2>3, <2>4 DEF InStep
  <1>5. /\ Forcible' \subseteq loaded'
        /\ \A d \in (Dll \ Forcible)' : InStep(d, Walks(d))'
    BY <1>2, <1>4, WorldStays
  <1> QED
    BY <1>1, <1>2, <1>3, <1>5 DEF Preloading, Loading

LEMMA LoadKeepsPreloading ==
  ASSUME IInv, Preloading, NEW t \in Thread, Load(t)
  PROVE  Preloading'
  <1>1. CASE ReloadFromPath(t)
    <2>1. pc[t] = "reload" /\ pc[t] \in Loading /\ UNCHANGED <<world, rounds, at>>
      BY <1>1 DEF ReloadFromPath, Loading
    <2> QED
      BY <1>1, <2>1, LoadedKeepsPreloading, UnpackingKeepsPreloading DEF ReloadFromPath
  <1>2. CASE MakeDirectory(t)
    <2>1. pc[t] = "mkdir" /\ pc[t] \in Loading /\ UNCHANGED <<world, loaded, rounds, at>>
      BY <1>2 DEF MakeDirectory, Loading, loaderVars
    <2> QED
      BY <1>2, <2>1, InitFailsKeepsPreloading, UnpackingKeepsPreloading DEF MakeDirectory
  <1>3. CASE Extract(t)
    <2>1. pc[t] = "extract" /\ UNCHANGED <<world, loaded, rounds, at, class>>
      BY <1>3 DEF Extract
    <2> QED
      BY <1>3, <2>1, ExtractedKeepsPreloading, UnpackingKeepsPreloading DEF Extract
  <1>4. CASE Copy(t)
    <2>1. pc[t] = "copy" /\ pc[t] \in Loading /\ UNCHANGED <<world, loaded, rounds, at>>
      BY <1>4 DEF Copy, Loading
    <2> QED
      BY <1>4, <2>1, InitFailsKeepsPreloading, UnpackingKeepsPreloading DEF Copy
  <1>5. CASE LoadFromDirectory(t)
    <2>1. pc[t] = "final" /\ pc[t] \in Loading
      BY <1>5 DEF LoadFromDirectory, Loading
    <2> QED
      BY <1>5, <2>1, LoadedKeepsPreloading, InitFailsKeepsPreloading DEF LoadFromDirectory
  <1>6. CASE WalkBreaks(t)
    <2>1. pc[t] = "preload" /\ pc[t] \in Loading
      BY <1>6 DEF WalkBreaks, Loading
    <2> QED
      BY <1>6, <2>1, InitFailsKeepsPreloading DEF WalkBreaks
  <1> QED
    BY <1>1, <1>2, <1>3, <1>4, <1>5, <1>6, LoadFromPathKeepsPreloading, ForceDependencyKeepsPreloading,
       PreloadKeepsPreloading, PreloadFailsKeepsPreloading DEF Load

LEMMA GetKeepsPreloading ==
  ASSUME IInv, Preloading, NEW t \in Thread, Get(t)
  PROVE  Preloading'
  <1>1. UNCHANGED <<world, loaded, rounds, at, class>>
    BY DEF Get, EnterMonitor, Check, OpenCopy, CopyAsset, CopyFails, InitializeV8, MakeInstance, loaderVars
  <1>2. \E place \in {"out", "check", "asset", "icu", "make"} : Goto(t, place)
    BY DEF Get, EnterMonitor, Check, OpenCopy, CopyAsset, CopyFails, InitializeV8, MakeInstance, Leave, Answer
  <1>3. \A u \in Thread : pc'[u] \in Loading => pc'[u] = pc[u]
    BY <1>2 DEF IInv, TypeOK, Goto, Loading
  <1> QED
    BY <1>1, <1>3, PreloadingUndisturbed

LEMMA StepPreloading == IInv /\ Preloading /\ [Next]_vars => Preloading'
  <1> SUFFICES ASSUME IInv, Preloading, [Next]_vars PROVE Preloading'
    OBVIOUS
  <1>1. ASSUME NEW t \in Thread, NEW o \in {"get", "set"}, Call(t, o) PROVE Preloading'
    <2>1. UNCHANGED <<world, loaded, rounds, at, class>>
      BY <1>1 DEF Call, loaderVars
    <2>2. \A u \in Thread : pc'[u] \in Loading => pc'[u] = pc[u]
      BY <1>1 DEF Call, Goto, IInv, TypeOK, Loading
    <2> QED
      BY <2>1, <2>2, PreloadingUndisturbed
  <1>2. ASSUME NEW t \in Thread, EnterClass(t) PROVE Preloading'
    BY <1>2, EnterClassKeepsPreloading
  <1>3. ASSUME NEW t \in Thread, Load(t) PROVE Preloading'
    BY <1>3, LoadKeepsPreloading
  <1>4. ASSUME NEW t \in Thread, Get(t) PROVE Preloading'
    BY <1>4, GetKeepsPreloading
  <1>5. CASE Restart
    BY <1>5 DEF Restart, Preloading, Loading
  <1>6. CASE UNCHANGED vars
    <2>1. UNCHANGED <<world, loaded, rounds, at, class, pc>>
      BY <1>6 DEF vars, loaderVars
    <2> QED
      BY <2>1, PreloadingUndisturbed
  <1> QED
    BY <1>1, <1>2, <1>3, <1>4, <1>5, <1>6 DEF Next

LEMMA InitPreloading == Init => Preloading
  BY DEF Init, Preloading, Loading

\* After two walks, fewer those that failed, what is loaded is reached, and if sound the other way.
LEMMA PreloadingReaches == IInv /\ Preloading => PreloadReaches
  <1> SUFFICES ASSUME IInv, Preloading, NEW t \in Thread, pc[t] = "final",
                      world.platform = "windows", NEW d \in Dll \ Forcible
               PROVE  LET inReach ==
                            \A s \in ChainsFrom(d) :
                              Len(s) <= Cardinality(Dll) /\ Against(s) + rounds.failed < 2
                      IN  /\ d \in loaded => inReach
                          /\ inReach /\ Sound(d) => d \in loaded
    BY DEF PreloadReaches
  <1>1. rounds.left = 0 /\ at = 1 /\ InStep(d, Walks(d))
    BY DEF Preloading
  <1>2. Place(d) \in Nat \ {0} /\ rounds.failed \in Nat
    BY PlaceFacts DEF IInv, TypeOK
  <1>3. Walks(d) = 2 - rounds.failed
    BY <1>1, <1>2 DEF Walks
  <1>4. ASSUME NEW s \in ChainsFrom(d)
        PROVE  Against(s) < 2 - rounds.failed <=> Against(s) + rounds.failed < 2
    <2>1. PICK n \in 1 .. Cardinality(Dll) + 1 : Len(s) = n /\ IsChain(s, n, d)
      BY ChainsAre
    <2>2. Against(s) = Cardinality(Ups(s, n)) /\ n \in Nat \ {0}
      BY <2>1, ChainIn, DllCounted
    <2>3. Against(s) \in Nat
      BY <2>2, UpsCounted
    <2> QED
      BY <1>2, <2>3
  <1>5. Reached(d, Walks(d)) <=>
          \A s \in ChainsFrom(d) : Len(s) <= Cardinality(Dll) /\ Against(s) + rounds.failed < 2
    BY <1>3, <1>4 DEF Reached
  <1> QED
    BY <1>1, <1>5 DEF InStep

\* What the walks leave behind: at each point of a walk a library is in the process only if it
\* needs no cycle and no chain that runs against the walk once for each walk so far, and is there
\* if besides no load on its chains fails for a reason of its own.
THEOREM PreloadInvariance == Spec => []Preloading
  BY LoaderInvariance, InitPreloading, StepPreloading, PTL DEF Spec

\* On Windows, for any libraries, any needs between them, cycles too, any order of the walk, any
\* walk and any load that fails, a library is in the process before the engine's is loaded only
\* if it needs no cycle and no chain that runs against the walk as often as the directory was
\* walked, and is there if besides no load on its chains fails for a reason of its own.
THEOREM PreloadReachesExactly == Spec => []PreloadReaches
  BY LoaderInvariance, PreloadInvariance, PreloadingReaches, PTL

\* Libraries that need each other in a circle.
CyclesStayOut ==
  \A S \in SUBSET (Dll \ Forcible) :
    (\A d \in S : world.needs[d] \cap S # {}) => S \cap loaded = {}

\* What a step can bring into the process.
LEMMA LoadedGrows ==
  ASSUME IInv, Preloading, [Next]_vars
  PROVE  /\ world' = world
         /\ \/ loaded' \subseteq loaded \cup {Lib} \cup Forcible
            \/ \E w \in Dll : world.needs[w] \subseteq loaded /\ loaded' = loaded \cup {w}
  <1>1. CASE \E t \in Thread : ForceDependency(t)
    <2>1. PICK t \in Thread : ForceDependency(t)
      BY <1>1
    <2>2. world.path \in {"broken", "bare"}
      BY <2>1 DEF Preloading, ForceDependency
    <2> QED
      BY <2>1, <2>2 DEF ForceDependency, Forcible
  <1>2. CASE \E t \in Thread : Preload(t)
    <2>1. Walk[at] \in Dll
      BY PlaceFacts DEF IInv, TypeOK
    <2> QED
      BY <1>2, <2>1 DEF Preload, PreloadOne
  <1>3. ASSUME NEW t \in Thread, Load(t), ~ForceDependency(t), ~Preload(t)
        PROVE  world' = world /\ loaded' \subseteq loaded \cup {Lib}
    BY <1>3 DEF Load, LoadFromPath, ReloadFromPath, MakeDirectory, Extract, Copy, PreloadFails,
                WalkBreaks, LoadFromDirectory, Loaded, loaderVars
  <1>4. ASSUME NEW t \in Thread, EnterClass(t) \/ Get(t) \/ \E o \in {"get", "set"} : Call(t, o)
        PROVE  world' = world /\ loaded' = loaded
    BY <1>4 DEF EnterClass, Get, Call, EnterMonitor, Check, OpenCopy, CopyAsset, CopyFails, InitializeV8, MakeInstance,
                loaderVars
  <1>5. CASE Restart
    BY <1>5 DEF Restart
  <1>6. CASE UNCHANGED vars
    BY <1>6 DEF vars, loaderVars
  <1> QED
    BY <1>1, <1>2, <1>3, <1>4, <1>5, <1>6 DEF Next

LEMMA StepCyclesStayOut == IInv /\ Preloading /\ CyclesStayOut /\ [Next]_vars => CyclesStayOut'
  <1> SUFFICES ASSUME IInv, Preloading, CyclesStayOut, [Next]_vars,
                      NEW S \in SUBSET (Dll \ Forcible), \A d \in S : world.needs[d] \cap S # {}
               PROVE  S \cap loaded' = {}
    BY LoadedGrows, WorldStays DEF CyclesStayOut
  <1>1. S \cap loaded = {}
    BY DEF CyclesStayOut
  <1>2. Lib \notin S
    BY LoaderAssumption
  <1>3. CASE loaded' \subseteq loaded \cup {Lib} \cup Forcible
    BY <1>1, <1>2, <1>3
  <1>4. ASSUME NEW w \in Dll, world.needs[w] \subseteq loaded, loaded' = loaded \cup {w}
        PROVE  S \cap loaded' = {}
    BY <1>1, <1>4
  <1> QED
    BY <1>3, <1>4, LoadedGrows

\* Walking the directory twice does not resolve a circle of dependencies: none of its libraries
\* is ever loaded from the directory, however often it would be walked.
THEOREM CyclesNeverLoaded == Spec => []CyclesStayOut
  <1>1. Init => CyclesStayOut
    BY DEF Init, CyclesStayOut
  <1> QED
    BY <1>1, LoaderInvariance, PreloadInvariance, StepCyclesStayOut, PTL DEF Spec

----------------------------------------------------------------------------
\* Whoever waits for the class waits for a thread that is initialising it, and whoever waits for
\* getInstance for a thread that is in it: an exception never leaves the class in initialisation,
\* nor the monitor locked.
NobodyAbandoned ==
  /\ class = "running" => \E t \in Thread : pc[t] \in Loading
  /\ owner # None => owner \in Thread /\ pc[owner] \in Getting

\* A step within the initialiser or within getInstance, or one that takes no part in them.
LEMMA StaysInside ==
  ASSUME TypeOK, NobodyAbandoned, class' = class, owner' = owner,
         NEW t \in Thread, NEW place, Goto(t, place),
         pc[t] \in Loading => place \in Loading,
         pc[t] \in Getting => place \in Getting
  PROVE  NobodyAbandoned'
  BY NoneApart DEF NobodyAbandoned, TypeOK, Goto, Loading, Getting

\* The initialiser ends, well or not.
LEMMA InitialiserEnds ==
  ASSUME TypeOK, NobodyAbandoned, class' # "running", owner' = owner,
         NEW t \in Thread, NEW place, Goto(t, place), pc[t] \in Loading
  PROVE  NobodyAbandoned'
  BY DEF NobodyAbandoned, TypeOK, Goto, Loading, Getting

\* getInstance ends, well or not.
LEMMA MonitorLeft ==
  ASSUME TypeOK, MonitorOwned, NobodyAbandoned, class' = class,
         NEW t \in Thread, NEW a, Leave(t, a), pc[t] \in Getting
  PROVE  NobodyAbandoned'
  BY DEF NobodyAbandoned, TypeOK, Leave, Answer, Goto, Loading, Getting

LEMMA LoadAbandonsNobody ==
  ASSUME IInv, NobodyAbandoned, NEW t \in Thread, Load(t)
  PROVE  NobodyAbandoned'
  <1>1. TypeOK /\ owner' = owner
    BY DEF IInv, Load, LoadFromPath, ForceDependency, ReloadFromPath, MakeDirectory, Extract, Copy,
           Preload, PreloadFails, WalkBreaks, LoadFromDirectory, engineVars
  <1>2. \/ /\ class' # "running" /\ pc[t] \in Loading
           /\ \E place : Goto(t, place)
        \/ class' = class /\ pc[t] \in Loading /\ \E place \in Loading : Goto(t, place)
        \/ class' = class /\ pc' = pc
    BY DEF Load, LoadFromPath, ForceDependency, ReloadFromPath, MakeDirectory, Extract, Copy,
           Preload, PreloadFails, WalkBreaks, LoadFromDirectory, Loaded, InitFails, Answer, EndRound, Loading
  <1>3. CASE class' = class /\ pc' = pc
    BY <1>1, <1>3 DEF NobodyAbandoned
  <1>4. Loading \cap Getting = {}
    BY DEF Loading, Getting
  <1> QED
    BY <1>1, <1>2, <1>3, <1>4, StaysInside, InitialiserEnds

LEMMA GetAbandonsNobody ==
  ASSUME IInv, NobodyAbandoned, NEW t \in Thread, Get(t)
  PROVE  NobodyAbandoned'
  <1>1. TypeOK /\ MonitorOwned /\ class' = class
    BY DEF IInv, Get, EnterMonitor, Check, OpenCopy, CopyAsset, CopyFails, InitializeV8, MakeInstance
  <1>2. CASE EnterMonitor(t)
    BY <1>1, <1>2 DEF EnterMonitor, NobodyAbandoned, TypeOK, Goto, Loading, Getting
  <1>3. ASSUME ~EnterMonitor(t)
        PROVE  /\ pc[t] \in Getting
               /\ \/ \E a : Leave(t, a)
                  \/ owner' = owner /\ \E place \in Getting : Goto(t, place)
    BY <1>3 DEF Get, Check, OpenCopy, CopyAsset, CopyFails, InitializeV8, MakeInstance, Getting
  <1>4. Loading \cap Getting = {}
    BY DEF Loading, Getting
  <1> QED
    BY <1>1, <1>2, <1>3, <1>4, StaysInside, MonitorLeft

LEMMA StepAbandonsNobody == IInv /\ NobodyAbandoned /\ [Next]_vars => NobodyAbandoned'
  <1> SUFFICES ASSUME IInv, NobodyAbandoned, [Next]_vars PROVE NobodyAbandoned'
    OBVIOUS
  <1>0. TypeOK
    BY DEF IInv
  <1>1. ASSUME NEW t \in Thread, NEW o \in {"get", "set"}, Call(t, o) PROVE NobodyAbandoned'
    BY <1>0, <1>1, StaysInside DEF Call, engineVars, Loading, Getting
  <1>2. ASSUME NEW t \in Thread, EnterClass(t) PROVE NobodyAbandoned'
    <2>1. pc[t] = "class" /\ owner' = owner
      BY <1>2 DEF EnterClass, engineVars
    <2>2. CASE class = "new" /\ class' = "running" /\ Goto(t, "load")
      BY <1>0, <2>1, <2>2 DEF NobodyAbandoned, TypeOK, Goto, Loading, Getting
    <2>3. CASE class' = class /\ \E place : Goto(t, place)
      BY <1>0, <2>1, <2>3, StaysInside DEF Loading, Getting
    <2> QED
      BY <1>2, <2>2, <2>3 DEF EnterClass, Answer
  <1>3. ASSUME NEW t \in Thread, Load(t) PROVE NobodyAbandoned'
    BY <1>3, LoadAbandonsNobody
  <1>4. ASSUME NEW t \in Thread, Get(t) PROVE NobodyAbandoned'
    BY <1>4, GetAbandonsNobody
  <1>5. CASE Restart
    BY <1>5 DEF Restart, NobodyAbandoned
  <1>6. CASE UNCHANGED vars
    BY <1>6 DEF vars, engineVars, NobodyAbandoned
  <1> QED
    BY <1>1, <1>2, <1>3, <1>4, <1>5, <1>6 DEF Next

\* However the load or getInstance fails, and for any threads, nobody waits for a thread that is
\* gone: what CallsAnswered needs besides fair scheduling.
THEOREM NobodyIsAbandoned == Spec => []NobodyAbandoned
  <1>1. Init => NobodyAbandoned
    BY DEF Init, NobodyAbandoned
  <1> QED
    BY <1>1, LoaderInvariance, StepAbandonsNobody, PTL DEF Spec
=============================================================================
