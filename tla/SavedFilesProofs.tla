-------------------------- MODULE SavedFilesProofs --------------------------
(***************************************************************************)
(* What an app has saved, for any set of ZIPs, any number of deploys and   *)
(* crashes. It is never written over on Windows, where a backend that runs *)
(* keeps its folder, if removing a tree does not follow the links in it    *)
(* (as Python's does not) and no deletion overlaps a deploy; and where     *)
(* links can be made, what a backend writes to data/ goes to the store. A  *)
(* ZIP is taken for the same app however it was packed.                    *)
(***************************************************************************)
EXTENDS SavedFiles, SequenceTheorems, WellFoundedInduction, TLAPS

Conditions == IS_WINDOWS /\ ~ FollowsLinks /\ ~ MayOverlap

\* The shape of the variables a step takes apart.
Shape ==
    /\ DOMAIN store = DataNames
    /\ DOMAIN worker = {"at", "zip", "dir", "left", "item"}
    /\ DOMAIN running = {"up", "dir", "home"}

\* A deletion has the app's row gone and no deploy beside it.
Apart == handler # "idle" => ~ exists /\ worker.at = "idle"

\* From the moment the old tree is gone until the new one is built nothing runs
\* that could write what the deploy is about to move.
Silent == worker.at \in {"unpack", "detect", "seed", "move", "build"} => ~ Writing

\* Between the look at the store and the move nothing takes the place.
PlaceIsFree == worker.at = "move" => store[worker.item] = Absent

Saved == Shape /\ Apart /\ Silent /\ PlaceIsFree /\ WrittenIsKept

LEMMA InitiallySaved == Init => Saved
  BY DEF Init, Saved, Shape, Apart, Silent, PlaceIsFree, WrittenIsKept, NoStore, NoWork,
         NotRunning, Writing

\* Removing a tree leaves the store alone.
LEMMA StoreStays == ASSUME Conditions, NEW removed PROVE StoreBehind(removed) = store
  BY DEF Conditions, StoreBehind

LEMMA DeployKeeps == ASSUME Conditions, Saved, RunDeploy PROVE Saved'
<1> USE DEF Saved, Shape, Apart, Silent, PlaceIsFree, WrittenIsKept, Writing, Go, GiveUp,
            NoWork, NotRunning
<1>1. CASE DetachOld
  BY <1>1 DEF DetachOld, Detach
<1>2. CASE Clear
  BY <1>2, StoreStays DEF Clear, Held, Conditions
<1>3. CASE ClearHeld
  BY <1>3, StoreStays DEF ClearHeld
<1>4. CASE ClearFails
  BY <1>4, StoreStays DEF ClearFails
<1>5. CASE Unpack
  BY <1>5 DEF Unpack
<1>6. CASE DetectApp
  <2>1. PICK taken \in Detect(tree) :
          \/ GiveUp
          \/ Go("build")
          \/ worker' = [worker EXCEPT !.at = "seed", !.dir = taken.backend,
                                      !.left = ItemsIn(tree, taken.backend)]
    BY <1>6 DEF DetectApp
  <2>2. DOMAIN worker' = DOMAIN worker /\ worker'.at \in {"idle", "build", "seed"}
    <3>1. CASE GiveUp
      BY <3>1
    <3>2. CASE Go("build")
      BY <3>2
    <3>3. CASE worker' = [worker EXCEPT !.at = "seed", !.dir = taken.backend,
                                        !.left = ItemsIn(tree, taken.backend)]
      BY <3>3
    <3> QED
      BY <2>1, <3>1, <3>2, <3>3
  <2> QED
    BY <1>6, <2>2 DEF DetectApp
<1>7. CASE LookAtSeed
  <2>1. PICK n \in worker.left :
          worker' = [worker EXCEPT !.left = worker.left \ {n},
                                   !.at   = IF Wanted(n) THEN "move" ELSE "seed",
                                   !.item = n]
    BY <1>7 DEF LookAtSeed
  <2>2. /\ DOMAIN worker' = DOMAIN worker
        /\ worker'.at = "move" => store[worker'.item] = Absent
        /\ worker'.at \in {"move", "seed"}
    BY <2>1 DEF Wanted
  <2> QED
    BY <1>7, <2>2 DEF LookAtSeed
<1>8. CASE MoveSeed
  <2>1. PICK f \in tree : /\ f.name = worker.item
                          /\ store' = [store EXCEPT ![f.name] = f.text]
    BY <1>8 DEF MoveSeed
  <2>2. exists => worker.item \notin written
    BY <1>8 DEF MoveSeed, Absent
  <2>3. DOMAIN store' = DataNames /\ \A n : n # worker.item => store'[n] = store[n]
    BY <2>1
  <2> QED
    BY <1>8, <2>2, <2>3 DEF MoveSeed
<1>9. CASE Attach
  BY <1>9 DEF Attach
<1>10. CASE Build
  <2>1. DOMAIN worker' = DOMAIN worker /\ worker'.at \in {"idle", "stop"}
    <3>1. CASE Go("stop")
      BY <3>1
    <3>2. CASE GiveUp
      BY <3>2
    <3> QED
      BY <1>10, <3>1, <3>2, Zenon DEF Build
  <2> QED
    BY <1>10, <2>1 DEF Build
<1>11. CASE StopOld
  BY <1>11 DEF StopOld
<1>12. CASE StartNew
  BY <1>12 DEF StartNew
<1>13. CASE Verify
  BY <1>13 DEF Verify
<1> QED
  BY <1>1, <1>2, <1>3, <1>4, <1>5, <1>6, <1>7, <1>8, <1>9, <1>10, <1>11, <1>12, <1>13
  DEF RunDeploy

LEMMA DeletionKeeps == ASSUME Conditions, Saved, DeleteApp PROVE Saved'
<1> USE DEF Saved, Shape, Apart, Silent, PlaceIsFree, WrittenIsKept, Writing, NotRunning
<1>1. CASE DeleteRow
  BY <1>1 DEF DeleteRow, Conditions
<1>2. CASE DeleteDetach
  BY <1>2 DEF DeleteDetach
<1>3. CASE DeleteTree
  BY <1>3, StoreStays DEF DeleteTree
<1>4. CASE DeleteStore
  BY <1>4 DEF DeleteStore
<1> QED
  BY <1>1, <1>2, <1>3, <1>4 DEF DeleteApp

\* The steps between deploys, and those of the app itself.
LEMMA OthersKeep ==
  ASSUME Conditions, Saved, Upload \/ WriteStore \/ WriteTree \/ Dies \/ Launch \/ Crash
  PROVE  Saved'
<1> USE DEF Saved, Shape, Apart, Silent, PlaceIsFree, WrittenIsKept, Writing, NotRunning, NoWork
<1>1. CASE Upload
  BY <1>1 DEF Upload, Conditions
<1>2. CASE WriteStore
  BY <1>2 DEF WriteStore
<1>3. CASE WriteTree
  BY <1>3 DEF WriteTree
<1>4. CASE Dies
  BY <1>4 DEF Dies
<1>5. CASE Launch
  BY <1>5 DEF Launch, Idle
<1>6. CASE Crash
  BY <1>6 DEF Crash
<1> QED
  BY <1>1, <1>2, <1>3, <1>4, <1>5, <1>6

LEMMA SavedIsInductive == ASSUME Conditions, Saved, [Next]_vars PROVE Saved'
<1>1. CASE UNCHANGED vars
  BY <1>1 DEF vars, disk, host, Saved, Shape, Apart, Silent, PlaceIsFree, WrittenIsKept, Writing
<1> QED
  BY <1>1, DeployKeeps, DeletionKeeps, OthersKeep DEF Next

\* What an app has saved is never removed or written over while there is the app.
THEOREM WrittenStays == ASSUME Conditions PROVE Spec => []WrittenIsKept
<1>1. Saved => WrittenIsKept
  BY DEF Saved
<1> QED
  BY <1>1, InitiallySaved, SavedIsInductive, PTL DEF Spec

-----------------------------------------------------------------------------
(* Types *)

\* The folder a sequence of names ends with stays when its first name is taken
\* away, unless it is that one.
LEMMA TailKeepsLast ==
  ASSUME NEW s \in Seq(STRING), Len(s) # 0
  PROVE  /\ Tail(s) \in Seq(STRING)
         /\ Tail(s) # <<>> => Tail(s)[Len(Tail(s))] = s[Len(s)]
  OBVIOUS

\* What a member of a ZIP is when it is unpacked.
Bare(m)     == [dir |-> m.dir, name |-> m.name, text |-> m.text]
Loose(zip)  == {Bare(m) : m \in SafeMembers(zip)}
Inner(f)    == [f EXCEPT !.dir = Tail(f.dir)]

LEMMA UnpackedIs == ASSUME NEW zip PROVE Unpacked(zip) = Unwrap(Loose(zip))
  BY DEF Unpacked, Loose, Bare

LEMMA InnerIs ==
  ASSUME NEW d, NEW n, NEW t
  PROVE  Inner([dir |-> d, name |-> n, text |-> t]) = [dir |-> Tail(d), name |-> n, text |-> t]
<1> DEFINE f == [dir |-> d, name |-> n, text |-> t]
<1>1. f.dir = d /\ Inner(f) = [f EXCEPT !.dir = Tail(f.dir)]
  BY DEF Inner
<1>2. Inner(f) = [f EXCEPT !.dir = Tail(d)]
  BY <1>1, Zenon
<1> QED
  BY <1>2

\* Whatever comes out of a ZIP is a file as the launcher reads it.
LEMMA UnpackedIsWellFormed ==
  ASSUME NEW zip \in Zips
  PROVE  /\ WellFormed(Unpacked(zip))
         /\ \A f \in Unpacked(zip) : f = [dir |-> f.dir, name |-> f.name, text |-> f.text]
<1> DEFINE files == Loose(zip)
           top(g) == Top(g) \in TopEntries(files)
           wrapped == \E t \in TopEntries(files) : IsWrapper(files, t)
<1>1. \A f \in files : f = [dir |-> f.dir, name |-> f.name, text |-> f.text]
  BY DEF Loose, Bare
<1>2. WellFormed(files)
  <2>1. WellFormed(zip.members)
    BY ZipsAssumption
  <2>2. \A f \in files : \E m \in zip.members : f.dir = m.dir /\ f.name = m.name /\ f.text = m.text
    BY DEF Loose, Bare, SafeMembers
  <2> HIDE DEF files
  <2> QED
    BY <2>1, <2>2 DEF WellFormed
<1>3. CASE ~ wrapped
  BY <1>1, <1>2, <1>3, UnpackedIs DEF Unwrap
<1>4. CASE wrapped
  <2>1. PICK t \in TopEntries(files) : IsWrapper(files, t)
    BY <1>4
  <2>2. Unpacked(zip) = {Inner(f) : f \in {g \in files : top(g)}}
    BY <1>4, UnpackedIs DEF Unwrap, Inner
  <2>3. ASSUME NEW f \in files, top(f)
        PROVE  /\ Inner(f) = [dir |-> Tail(f.dir), name |-> f.name, text |-> f.text]
               /\ f.dir \in Seq(STRING) /\ Len(f.dir) # 0
    <3>1. f.dir # <<>>
      BY <2>1, <2>3 DEF IsWrapper
    <3>2. f.dir \in Seq(STRING)
      BY <1>2 DEF WellFormed
    <3>3. Inner(f) = [dir |-> Tail(f.dir), name |-> f.name, text |-> f.text]
      <4> DEFINE d == f.dir
                 n == f.name
                 x == f.text
      <4>1. f = [dir |-> d, name |-> n, text |-> x]
        BY <1>1
      <4>2. Inner([dir |-> d, name |-> n, text |-> x]) = [dir |-> Tail(d), name |-> n, text |-> x]
        BY InnerIs
      <4> QED
        BY <4>1, <4>2, Zenon
    <3> QED
      BY <3>1, <3>2, <3>3
  <2>4. ASSUME NEW f \in files, top(f)
        PROVE  WellFormed({Inner(f)})
    <3> DEFINE d == Tail(f.dir)
    <3>1. d \in Seq(STRING) /\ (d # <<>> => f.dir # <<>> /\ d[Len(d)] = f.dir[Len(f.dir)])
      BY <2>3, <2>4, TailKeepsLast
    <3>2. Inner(f).dir = d /\ Inner(f).name = f.name /\ Inner(f).text = f.text
      <4>1. Inner(f) = [dir |-> d, name |-> f.name, text |-> f.text]
        BY <2>3, <2>4
      <4> HIDE DEF d
      <4> QED
        BY <4>1
    <3> HIDE DEF d
    <3> QED
      BY <1>2, <3>1, <3>2 DEF WellFormed
  <2> HIDE DEF files, top
  <2>5. \A g \in Unpacked(zip) : \E f \in files : top(f) /\ g = Inner(f)
    BY <2>2
  <2> QED
    BY <2>3, <2>4, <2>5 DEF WellFormed
<1> QED
  BY <1>3, <1>4

\* The folders that a project's backend is looked for in, and then taken to lie in.
DirsTaken(files)      == IF BackendDirs(files) = {} THEN {NoDir} ELSE BackendDirs(files)
DirsSaid(files, said) == IF said.backend = NoDir /\ said.frontend = NoDir
                         THEN DirsTaken(files) ELSE {said.backend}
Heeded(files) == {g \in ManifestsIn(files) :
                    g.name = "launcher.yaml" \/ Cardinality(ManifestsIn(files)) = 1}
DirsDetected(files) ==
    IF ManifestsIn(files) # {}
    THEN UNION {DirsSaid(files, Manifests[m.text]) : m \in Heeded(files)}
    ELSE DirsTaken(files)

\* These records say, in one of their fields, these things and no others.
SayDirs(halves, dirs)   == /\ \A b \in halves : b.dir \in dirs
                           /\ \A d \in dirs : \E b \in halves : b.dir = d
SayBackends(apps, dirs) == /\ \A t \in apps : t.backend \in dirs
                           /\ \A d \in dirs : \E t \in apps : t.backend = d

LEMMA NoHalfSays == SayDirs({NoHalf}, {NoDir})
  BY DEF SayDirs, NoHalf

LEMMA BackendsSay == ASSUME NEW files PROVE SayDirs(Backends(files), DirsTaken(files))
<1> DEFINE dirs == BackendDirs(files)
           half(d) == [dir |-> d, usable |-> Startable(files, d)]
<1>1. CASE dirs = {}
  <2>1. Backends(files) = {NoHalf}
    BY <1>1 DEF Backends, Halves
  <2> QED
    BY <1>1, <2>1, NoHalfSays DEF DirsTaken
<1>2. CASE dirs # {}
  <2>1. Backends(files) = {half(d) : d \in dirs}
    BY <1>2 DEF Backends, Halves
  <2>2. DirsTaken(files) = dirs
    BY <1>2 DEF DirsTaken
  <2>3. \A d : half(d).dir = d
    OBVIOUS
  <2> HIDE DEF dirs, half
  <2> QED
    BY <2>1, <2>2, <2>3 DEF SayDirs
<1> QED
  BY <1>1, <1>2

LEMMA SomeFrontend == ASSUME NEW files PROVE Frontends(files) # {}
<1> DEFINE dirs == FindDirContaining(files, "package.json", FRONTEND_HINTS)
           half(e) == [dir |-> e, usable |-> [dir |-> e, name |-> "package.json",
                                              text |-> "build"] \in files]
<1>1. CASE dirs = {}
  BY <1>1 DEF Frontends, Halves
<1>2. CASE dirs # {}
  <2>1. PICK d \in dirs : TRUE
    BY <1>2
  <2>2. Frontends(files) = {half(e) : e \in dirs}
    BY <1>2 DEF Frontends, Halves
  <2> HIDE DEF dirs, half
  <2> QED
    BY <2>1, <2>2
<1> QED
  BY <1>1, <1>2

\* Where the backend is depends on one half only.
LEMMA TakenTogether ==
  ASSUME NEW back, NEW front, front # {}, NEW needs, NEW accepted, NEW dirs, SayDirs(back, dirs),
         NEW apps, apps = {Taken(b, f, needs, accepted) : b \in back, f \in front}
  PROVE  SayBackends(apps, dirs)
<1>1. \A b, f : Taken(b, f, needs, accepted).backend = b.dir
  BY DEF Taken
<1>2. \A t \in apps : \E b \in back, f \in front : t = Taken(b, f, needs, accepted)
  OBVIOUS
<1>3. \A b \in back, f \in front : Taken(b, f, needs, accepted) \in apps
  OBVIOUS
<1>4. \A t \in apps : t.backend \in dirs
  BY <1>1, <1>2 DEF SayDirs
<1>5. ASSUME NEW d \in dirs PROVE \E t \in apps : t.backend = d
  <2>1. PICK b \in back : b.dir = d
    BY DEF SayDirs
  <2>2. PICK f \in front : TRUE
    OBVIOUS
  <2> QED
    BY <1>1, <1>3, <2>1, <2>2
<1> QED
  BY <1>4, <1>5 DEF SayBackends

LEMMA SaidTogether ==
  ASSUME NEW files, NEW said
  PROVE  SayBackends(FromManifest(files, said), DirsSaid(files, said))
<1> DEFINE NamedBackend  == [dir |-> said.backend,
                             usable |-> said.starts \/ Startable(files, said.backend)]
           NamedFrontend == [dir |-> said.frontend, usable |-> TRUE]
           silent        == said.backend = NoDir /\ said.frontend = NoDir
           back  == IF silent THEN Backends(files)
                    ELSE IF said.backend = NoDir THEN {NoHalf}
                    ELSE {NamedBackend}
           front == IF silent THEN Frontends(files) ELSE {NamedFrontend}
           needs == Needed(said.settings)
           accepted == said.parses /\ ~ SettingsRejected(said.settings)
           dirs == DirsSaid(files, said)
           apps == FromManifest(files, said)
<1>1. apps = {Taken(b, f, needs, accepted) : b \in back, f \in front}
  BY DEF FromManifest
<1>2. front # {}
  BY SomeFrontend
<1>3. SayDirs(back, dirs)
  <2>1. CASE silent
    BY <2>1, BackendsSay DEF DirsSaid
  <2>2. CASE ~ silent /\ said.backend = NoDir
    BY <2>2, NoHalfSays DEF DirsSaid
  <2>3. CASE ~ silent /\ said.backend # NoDir
    <3>1. back = {NamedBackend} /\ dirs = {said.backend} /\ NamedBackend.dir = said.backend
      BY <2>3 DEF DirsSaid
    <3> QED
      BY <3>1 DEF SayDirs
  <2> QED
    BY <2>1, <2>2, <2>3
<1> HIDE DEF back, front, needs, accepted, dirs, apps
<1>4. SayBackends(apps, dirs)
  BY <1>1, <1>2, <1>3, TakenTogether
<1> QED
  BY <1>4 DEF apps, dirs

\* What Detect can find, as far as the backend goes.
LEMMA DetectedSay == ASSUME NEW files PROVE SayBackends(Detect(files), DirsDetected(files))
<1>1. CASE ManifestsIn(files) # {}
  <2>1. Detect(files) = UNION {FromManifest(files, Manifests[m.text]) : m \in Heeded(files)}
    BY <1>1 DEF Detect, Heeded
  <2>2. DirsDetected(files) = UNION {DirsSaid(files, Manifests[m.text]) : m \in Heeded(files)}
    BY <1>1 DEF DirsDetected
  <2>3. \A m : SayBackends(FromManifest(files, Manifests[m.text]),
                           DirsSaid(files, Manifests[m.text]))
    BY SaidTogether
  <2> QED
    BY <2>1, <2>2, <2>3 DEF SayBackends
<1>2. CASE ManifestsIn(files) = {}
  <2> DEFINE back  == Backends(files)
             front == Frontends(files)
             apps  == Detect(files)
             dirs  == DirsTaken(files)
             none  == {}
             yes   == TRUE
  <2>1. apps = {Taken(b, f, none, yes) : b \in back, f \in front}
    BY <1>2 DEF Detect
  <2>2. front # {} /\ SayDirs(back, dirs)
    BY SomeFrontend, BackendsSay
  <2>3. dirs = DirsDetected(files)
    BY <1>2 DEF DirsDetected
  <2> HIDE DEF back, front, apps, dirs, none, yes
  <2>4. SayBackends(apps, dirs)
    BY <2>1, <2>2, TakenTogether
  <2> QED
    BY <2>3, <2>4 DEF apps
<1> QED
  BY <1>1, <1>2

\* A backend lies in a folder, whether the manifest or the files say where.
Folders == Seq(STRING \cup {"(none)", LINK_NAME})

LEMMA PathsAreFolders == Seq(STRING) \subseteq Folders
  BY DEF Folders

LEMMA DetectedIsFolder ==
  ASSUME NEW files, WellFormed(files), NEW t \in Detect(files)
  PROVE  t.backend \in Folders
<1>1. t.backend \in DirsDetected(files)
  BY DetectedSay DEF SayBackends
<1>2. DirsTaken(files) \subseteq Folders
  <2>1. NoDir \in Folders /\ <<>> \in Folders
    BY DEF NoDir, Folders
  <2>2. \A f \in files : f.dir \in Folders
    BY PathsAreFolders DEF WellFormed
  <2>3. \A name, hints : FindDirContaining(files, name, hints) \subseteq Folders
    BY <2>2 DEF FindDirContaining, DirsWith
  <2>4. BarePython(files) \subseteq Folders
    BY <2>1, <2>2 DEF BarePython
  <2> QED
    BY <2>1, <2>3, <2>4 DEF DirsTaken, BackendDirs
<1>3. \A m \in ManifestsIn(files) : Manifests[m.text].backend \in Folders
  BY ManifestsAssumption, PathsAreFolders DEF ManifestsIn, WellFormed
<1>4. \A m \in Heeded(files) : DirsSaid(files, Manifests[m.text]) \subseteq Folders
  BY <1>2, <1>3 DEF DirsSaid, Heeded
<1> QED
  BY <1>1, <1>2, <1>4 DEF DirsDetected

\* A deploy has a ZIP of somebody's; until the tree is ready, it holds files that
\* came from it, and nothing runs in it that could write to it.
Framed == DOMAIN worker = {"at", "zip", "dir", "left", "item"}

Still ==
    worker.at \in {"unpack", "detect", "seed", "move", "build", "stop", "start"} =>
        ~ (Writing /\ running.home)

OfZip == /\ worker.at # "idle" => worker.zip \in Zips
         /\ worker.at \in {"detect", "seed", "move"} => WellFormed(tree)
         /\ worker.at \in {"seed", "move"} => worker.dir \in Folders

Typed == TypeOK /\ Framed /\ Still /\ OfZip

\* A file in a folder data of a ZIP.
LEMMA BroughtIsSeed ==
  ASSUME NEW files, WellFormed(files), NEW f \in files, NEW d \in Folders, InDataDir(f, d)
  PROVE  f.name \in DataNames /\ f.text = "seed"
<1>1. f.dir # <<>> /\ f.dir[Len(f.dir)] = LINK_NAME
  BY DEF InDataDir, DataDir, Folders
<1> QED
  BY <1>1 DEF WellFormed

LEMMA FewerAreWellFormed ==
  ASSUME NEW files, WellFormed(files), NEW some \in SUBSET files
  PROVE  WellFormed(some)
  BY DEF WellFormed

LEMMA InitiallyTyped == Init => Typed
<1> SUFFICES ASSUME Init PROVE Typed
  OBVIOUS
<1>1. {MaxUploads, MaxCrashes} \subseteq Nat
  BY SavedFilesConstants
<1>2. uploads \in 0 .. MaxUploads /\ crashes \in 0 .. MaxCrashes
  BY <1>1 DEF Init
<1>3. worker = NoWork /\ running = NotRunning /\ store = NoStore
  BY DEF Init
<1>4. /\ DOMAIN running = {"up", "dir", "home"} /\ running.up = FALSE
      /\ worker.at = "idle" /\ worker.zip = NoZip /\ worker.left = {}
      /\ DOMAIN worker = {"at", "zip", "dir", "left", "item"}
  BY <1>3 DEF NotRunning, NoWork
<1>5. store \in [DataNames -> {"seed", "saved", Absent}]
  BY <1>3 DEF NoStore
<1> QED
  BY <1>2, <1>4, <1>5
  DEF Init, Typed, TypeOK, Framed, Still, OfZip, Places, Writing

LEMMA NoFollow == ASSUME NEW removed, TypeOK PROVE StoreBehind(removed) \in [DataNames -> {"seed", "saved", Absent}]
  BY DEF StoreBehind, TypeOK, NoStore

LEMMA DeployKeepsTypes == ASSUME Typed, RunDeploy PROVE Typed'
<1> USE DEF Typed, TypeOK, Framed, Still, OfZip, Go, GiveUp, host, disk
<1>1. CASE DetachOld
  BY <1>1 DEF DetachOld, Detach, Writing, Places
<1>2. CASE Clear
  BY <1>2, NoFollow DEF Clear, Writing, Places
<1>3. CASE ClearHeld
  BY <1>3, NoFollow DEF ClearHeld, Writing, NotRunning, Places
<1>4. CASE ClearFails
  BY <1>4, NoFollow DEF ClearFails, Writing, NotRunning, NoWork, Places
<1>5. CASE Unpack
  <2>1. CASE Unreadable(worker.zip)
    BY <1>5, <2>1 DEF Unpack, NoWork, Places, Writing
  <2>2. CASE ~ Unreadable(worker.zip)
    <3>1. Go("detect") /\ tree' = Unpacked(worker.zip) /\ worker.zip \in Zips
      BY <1>5, <2>2 DEF Unpack
    <3>2. WellFormed(tree')
      BY <3>1, UnpackedIsWellFormed
    <3>3. \A f \in tree' : DOMAIN f = {"dir", "name", "text"}
      <4>1. \A a, b, c : DOMAIN [dir |-> a, name |-> b, text |-> c] = {"dir", "name", "text"}
        OBVIOUS
      <4> QED
        BY <3>1, <4>1, UnpackedIsWellFormed
    <3> QED
      BY <1>5, <3>1, <3>2, <3>3 DEF Unpack, Places, Writing
  <2> QED
    BY <2>1, <2>2
<1>6. CASE DetectApp
  <2>1. PICK taken \in Detect(tree) :
          \/ GiveUp
          \/ Go("build")
          \/ worker' = [worker EXCEPT !.at = "seed", !.dir = taken.backend,
                                      !.left = ItemsIn(tree, taken.backend)]
    BY <1>6 DEF DetectApp
  <2>2. taken.backend \in Folders
    BY <1>6, DetectedIsFolder DEF DetectApp
  <2>3. ItemsIn(tree, taken.backend) \subseteq DataNames
    BY <1>6, <2>2, BroughtIsSeed DEF DetectApp, ItemsIn
  <2>4. CASE GiveUp
    BY <1>6, <2>4 DEF DetectApp, NoWork, Places, Writing
  <2>5. CASE Go("build")
    BY <1>6, <2>5 DEF DetectApp, Places, Writing
  <2>6. CASE worker' = [worker EXCEPT !.at = "seed", !.dir = taken.backend,
                                      !.left = ItemsIn(tree, taken.backend)]
    BY <1>6, <2>2, <2>3, <2>6 DEF DetectApp, Places, Writing
  <2> QED
    BY <2>1, <2>4, <2>5, <2>6
<1>7. CASE LookAtSeed
  <2>1. PICK n \in worker.left :
          worker' = [worker EXCEPT !.left = worker.left \ {n},
                                   !.at   = IF Wanted(n) THEN "move" ELSE "seed",
                                   !.item = n]
    BY <1>7 DEF LookAtSeed
  <2> QED
    BY <1>7, <2>1 DEF LookAtSeed, Places, Writing
<1>8. CASE MoveSeed
  <2>1. PICK f \in tree : /\ f.name = worker.item /\ InDataDir(f, worker.dir)
                          /\ store' = [store EXCEPT ![f.name] = f.text]
                          /\ tree' = tree \ {f}
    BY <1>8 DEF MoveSeed
  <2>2. f.text = "seed" /\ WellFormed(tree')
    BY <1>8, <2>1, BroughtIsSeed, FewerAreWellFormed DEF MoveSeed
  <2> QED
    BY <1>8, <2>1, <2>2 DEF MoveSeed, Places, Writing
<1>9. CASE Attach
  BY <1>9 DEF Attach, Places, Writing
<1>10. CASE Build
  <2>1. CASE Go("stop")
    BY <1>10, <2>1 DEF Build, Places, Writing
  <2>2. CASE GiveUp
    BY <1>10, <2>2 DEF Build, NoWork, Places, Writing
  <2> QED
    BY <1>10, <2>1, <2>2 DEF Build
<1>11. CASE StopOld
  BY <1>11 DEF StopOld, NotRunning, Places, Writing
<1>12. CASE StartNew
  BY <1>12 DEF StartNew, Places, Writing
<1>13. CASE Verify
  <2>1. /\ worker' = NoWork /\ running' \in {running, NotRunning}
        /\ UNCHANGED <<exists, tree, links, built, store, handler, linkable, uploads, crashes, written>>
    BY <1>13 DEF Verify
  <2>2. DOMAIN running' = {"up", "dir", "home"} /\ running'.up \in BOOLEAN
    <3>1. CASE running' = running
      BY <3>1
    <3>2. CASE running' = NotRunning
      BY <3>2 DEF NotRunning
    <3> QED
      BY <2>1, <3>1, <3>2
  <2> QED
    BY <2>1, <2>2 DEF NoWork, Places
<1> QED
  BY <1>1, <1>2, <1>3, <1>4, <1>5, <1>6, <1>7, <1>8, <1>9, <1>10, <1>11, <1>12, <1>13
  DEF RunDeploy

LEMMA DeletionKeepsTypes == ASSUME Typed, DeleteApp PROVE Typed'
<1> USE DEF Typed, TypeOK, Framed, Still, OfZip, host, disk, Writing
<1>1. CASE DeleteRow
  BY <1>1 DEF DeleteRow, NotRunning
<1>2. CASE DeleteDetach
  BY <1>2 DEF DeleteDetach, Detach
<1>3. CASE DeleteTree
  <2>1. tree' \in SUBSET tree
    BY <1>3 DEF DeleteTree
  <2>2. WellFormed(tree) => WellFormed(tree')
    BY <2>1, FewerAreWellFormed
  <2> QED
    BY <1>3, <2>1, <2>2, NoFollow DEF DeleteTree
<1>4. CASE DeleteStore
  BY <1>4 DEF DeleteStore
<1> QED
  BY <1>1, <1>2, <1>3, <1>4 DEF DeleteApp

LEMMA OthersKeepTypes ==
  ASSUME Typed, Upload \/ WriteStore \/ WriteTree \/ Dies \/ Launch \/ Crash
  PROVE  Typed'
<1> USE DEF Typed, TypeOK, Framed, Still, OfZip, host, disk, Writing
<1>1. CASE Upload
  <2>1. PICK z \in Zips : worker' = [NoWork EXCEPT !.at = "detach", !.zip = z]
    BY <1>1 DEF Upload
  <2>2. /\ DOMAIN worker' = {"at", "zip", "dir", "left", "item"}
        /\ worker'.at = "detach" /\ worker'.zip = z /\ worker'.left = {}
    BY <2>1 DEF NoWork
  <2>3. MaxUploads \in Nat
    BY SavedFilesConstants
  <2>4. uploads' \in 0 .. MaxUploads
    <3>1. uploads < MaxUploads /\ uploads' = uploads + 1
      BY <1>1 DEF Upload
    <3>2. uploads \in 0 .. MaxUploads
      OBVIOUS
    <3> QED
      BY <2>3, <3>1, <3>2
  <2>5. written' \subseteq DataNames
    BY <1>1 DEF Upload
  <2> QED
    BY <1>1, <2>2, <2>4, <2>5 DEF Upload, Places
<1>2. CASE WriteStore
  BY <1>2 DEF WriteStore
<1>3. CASE WriteTree
  BY <1>3 DEF WriteTree, Item
<1>4. CASE Dies
  BY <1>4 DEF Dies, NotRunning
<1>5. CASE Launch
  BY <1>5 DEF Launch, Idle
<1>6. CASE Crash
  BY <1>6, SavedFilesConstants DEF Crash, NoWork, Places
<1> QED
  BY <1>1, <1>2, <1>3, <1>4, <1>5, <1>6

LEMMA TypedIsInductive == ASSUME Typed, [Next]_vars PROVE Typed'
<1>1. CASE UNCHANGED vars
  BY <1>1 DEF vars, disk, host, Typed, TypeOK, Framed, Still, OfZip, Writing
<1> QED
  BY <1>1, DeployKeepsTypes, DeletionKeepsTypes, OthersKeepTypes DEF Next

\* The types of the variables, whatever is uploaded, overlaps or crashes.
THEOREM TypeCorrect == Spec => []TypeOK
<1>1. Typed => TypeOK
  BY DEF Typed
<1> QED
  BY <1>1, InitiallyTyped, TypedIsInductive, PTL DEF Spec

-----------------------------------------------------------------------------
(* What a ZIP brings for the store *)

\* A deletion has no deploy beside it.
Unmixed == handler # "idle" => worker.at = "idle"

\* What the ZIP brought in the backend's data/ is still to be looked at, or is
\* being moved, or the store has a file of its name.
Brought(n) == n \in worker.left \/ (worker.at = "move" /\ n = worker.item) \/ store[n] # Absent
Carried ==
    /\ worker.at = "detect" => tree = Unpacked(worker.zip)
    /\ worker.at \in {"seed", "move"} =>
          \A n \in ItemsIn(Unpacked(worker.zip), worker.dir) : Brought(n)
    /\ worker.at \in {"detach", "clear", "unpack", "detect"} => worker.dir = NoDir

Arriving == Typed /\ Unmixed /\ Carried /\ SeedsArrive

LEMMA InitiallyArriving == Init => Arriving
  BY InitiallyTyped DEF Init, Arriving, Unmixed, Carried, SeedsArrive, NoWork

LEMMA DeployCarries == ASSUME ~ MayOverlap, Arriving, Typed', RunDeploy PROVE Arriving'
<1> USE DEF Arriving, Unmixed, Carried, SeedsArrive, Brought, Go, GiveUp, NoWork
<1>0. Framed
  BY DEF Typed
<1> USE <1>0 DEF Framed
<1>1. CASE DetachOld
  BY <1>1 DEF DetachOld
<1>2. CASE Clear
  BY <1>2 DEF Clear
<1>3. CASE ClearHeld
  BY <1>3 DEF ClearHeld
<1>4. CASE ClearFails
  BY <1>4 DEF ClearFails
<1>5. CASE Unpack
  BY <1>5 DEF Unpack
<1>6. CASE DetectApp
  <2>0. /\ worker.at = "detect" /\ tree = Unpacked(worker.zip) /\ worker.dir = NoDir
        /\ UNCHANGED <<tree, store, handler>>
    BY <1>6 DEF DetectApp, disk
  <2>1. PICK taken \in Detect(tree) :
          \/ GiveUp
          \/ Go("build")
          \/ worker' = [worker EXCEPT !.at = "seed", !.dir = taken.backend,
                                      !.left = ItemsIn(tree, taken.backend)]
    BY <1>6 DEF DetectApp
  <2>2. CASE GiveUp
    BY <2>0, <2>2
  <2>3. CASE Go("build")
    BY <2>0, <2>3
  <2>4. CASE worker' = [worker EXCEPT !.at = "seed", !.dir = taken.backend,
                                      !.left = ItemsIn(tree, taken.backend)]
    <3>1. /\ worker'.at = "seed" /\ worker'.dir = taken.backend /\ worker'.zip = worker.zip
          /\ worker'.left = ItemsIn(tree, taken.backend)
      BY <2>4
    <3> QED
      BY <2>0, <3>1
  <2> QED
    BY <2>1, <2>2, <2>3, <2>4
<1>7. CASE LookAtSeed
  <2>1. PICK n \in worker.left :
          worker' = [worker EXCEPT !.left = worker.left \ {n},
                                   !.at   = IF Wanted(n) THEN "move" ELSE "seed",
                                   !.item = n]
    BY <1>7 DEF LookAtSeed
  <2>2. /\ worker.at = "seed" /\ worker'.dir = worker.dir /\ worker'.zip = worker.zip
        /\ worker'.left = worker.left \ {n} /\ worker'.item = n
        /\ worker'.at = IF store[n] = Absent THEN "move" ELSE "seed"
        /\ UNCHANGED <<tree, store, handler>>
    BY <1>7, <2>1 DEF LookAtSeed, Wanted, disk
  <2> QED
    BY <2>2
<1>8. CASE MoveSeed
  <2>1. PICK f \in tree : /\ f.name = worker.item /\ InDataDir(f, worker.dir)
                          /\ store' = [store EXCEPT ![f.name] = f.text]
    BY <1>8 DEF MoveSeed
  <2>2. f.text = "seed" /\ f.name \in DataNames
    BY <1>8, <2>1, BroughtIsSeed DEF MoveSeed, Typed, OfZip
  <2>3. /\ store'[worker.item] # Absent
        /\ \A n : n # worker.item => store'[n] = store[n]
    BY <2>1, <2>2 DEF Typed, TypeOK, Absent
  <2>4. /\ worker.at = "move" /\ worker'.at = "seed" /\ worker'.zip = worker.zip
        /\ worker'.dir = worker.dir /\ worker'.left = worker.left /\ handler' = handler
    BY <1>8 DEF MoveSeed
  <2> QED
    BY <2>3, <2>4
<1>9. CASE Attach
  BY <1>9 DEF Attach
<1>10. CASE Build
  <2>1. CASE Go("stop")
    BY <1>10, <2>1 DEF Build
  <2>2. CASE GiveUp
    BY <1>10, <2>2 DEF Build
  <2> QED
    BY <1>10, <2>1, <2>2 DEF Build
<1>11. CASE StopOld
  BY <1>11 DEF StopOld
<1>12. CASE StartNew
  BY <1>12 DEF StartNew
<1>13. CASE Verify
  BY <1>13 DEF Verify
<1> QED
  BY <1>1, <1>2, <1>3, <1>4, <1>5, <1>6, <1>7, <1>8, <1>9, <1>10, <1>11, <1>12, <1>13
  DEF RunDeploy

LEMMA ArrivingIsInductive == ASSUME ~ MayOverlap, Arriving, [Next]_vars PROVE Arriving'
<1>0. Typed'
  BY TypedIsInductive DEF Arriving
<1> USE <1>0 DEF Arriving, Unmixed, Carried, SeedsArrive, Brought, disk
<1>1. CASE RunDeploy
  BY <1>1, DeployCarries
<1>2. CASE Upload
  <2>1. PICK z \in Zips : worker' = [NoWork EXCEPT !.at = "detach", !.zip = z]
    BY <1>2 DEF Upload
  <2>2. worker'.at = "detach" /\ worker'.dir = NoDir
    BY <2>1 DEF NoWork
  <2> QED
    BY <1>2, <2>2 DEF Upload
<1>3. CASE DeleteRow
  BY <1>3 DEF DeleteRow
<1>4. CASE DeleteDetach
  BY <1>4 DEF DeleteDetach
<1>5. CASE DeleteTree
  BY <1>5 DEF DeleteTree
<1>6. CASE DeleteStore
  BY <1>6 DEF DeleteStore
<1>7. CASE WriteStore
  <2>1. PICK m \in DataNames : store' = [store EXCEPT ![m] = "saved"]
    BY <1>7 DEF WriteStore
  <2>2. \A n : store[n] # Absent => store'[n] # Absent
    BY <2>1 DEF Typed, TypeOK, Absent
  <2> QED
    BY <1>7, <2>2 DEF WriteStore
<1>8. CASE WriteTree
  <2>1. worker.at \notin {"unpack", "detect"} /\ UNCHANGED <<worker, store, handler>>
    BY <1>8 DEF WriteTree, Typed, Still
  <2> QED
    BY <2>1
<1>9. CASE Dies \/ Launch
  BY <1>9 DEF Dies, Launch
<1>10. CASE Crash
  BY <1>10 DEF Crash, NoWork
<1>11. CASE UNCHANGED vars
  BY <1>11 DEF vars
<1> QED
  BY <1>1, <1>2, <1>3, <1>4, <1>5, <1>6, <1>7, <1>8, <1>9, <1>10, <1>11 DEF Next, DeleteApp

\* If the app is not deleted during its deploy, no file that a ZIP brings for the
\* store is lost: whatever the ZIPs, whatever fails, whenever the launcher dies, and
\* even if removing a tree follows its links.
THEOREM BroughtArrives == ASSUME ~ MayOverlap PROVE Spec => []SeedsArrive
<1>1. Arriving => SeedsArrive
  BY DEF Arriving
<1> QED
  BY <1>1, InitiallyArriving, ArrivingIsInductive, PTL DEF Spec

-----------------------------------------------------------------------------
(* A project in its folder *)

LEMMA Appended ==
  ASSUME NEW S, NEW s \in Seq(S), NEW n \in S
  PROVE  /\ Append(s, n) \in Seq(S) /\ Len(Append(s, n)) = Len(s) + 1
         /\ DOMAIN Append(s, n) = 1 .. Len(s) + 1 /\ Len(s) \in Nat
         /\ Append(s, n)[Len(s) + 1] = n
         /\ \A k \in 1 .. Len(s) : Append(s, n)[k] = s[k]
  BY AppendProperties, LenProperties

\* A path below a folder.
LEMMA InABox ==
  ASSUME NEW S, NEW s \in Seq(S), NEW n \in S, NEW box \in S
  PROVE  LET b == <<box>> \o s
         IN  /\ b \in Seq(S) /\ b # <<>> /\ Tail(b) = s
             /\ Head(Append(b, n)) = box
             /\ \A i \in DOMAIN Append(b, n) :
                   \/ Append(b, n)[i] = box
                   \/ \E j \in DOMAIN Append(s, n) : Append(b, n)[i] = Append(s, n)[j]
<1> DEFINE b == <<box>> \o s
           whole == Append(b, n)
           inner == Append(s, n)
<1>1. <<box>> \in Seq(S) /\ Len(<<box>>) = 1 /\ <<box>>[1] = box /\ Len(s) \in Nat
  OBVIOUS
<1>2. b \in Seq(S) /\ Len(b) = Len(s) + 1 /\ b[1] = box
      /\ \A i \in 1 .. Len(s) : b[i + 1] = s[i]
  <2>1. /\ b \in Seq(S) /\ Len(b) = Len(<<box>>) + Len(s)
        /\ \A i \in 1 .. Len(<<box>>) + Len(s) :
              b[i] = IF i <= Len(<<box>>) THEN <<box>>[i] ELSE s[i - Len(<<box>>)]
    BY <1>1, ConcatProperties
  <2>2. \A i \in 1 .. 1 + Len(s) : b[i] = IF i <= 1 THEN <<box>>[i] ELSE s[i - 1]
    BY <1>1, <2>1
  <2> HIDE DEF b
  <2>3. b[1] = box
    BY <1>1, <2>2
  <2>4. ASSUME NEW i \in 1 .. Len(s) PROVE b[i + 1] = s[i]
    <3>1. i + 1 \in 1 .. 1 + Len(s) /\ ~ (i + 1 <= 1) /\ (i + 1) - 1 = i
      BY <1>1
    <3>2. b[i + 1] = s[(i + 1) - 1]
      BY <2>2, <3>1
    <3> QED
      BY <3>1, <3>2
  <2> QED
    BY <1>1, <2>1, <2>3, <2>4
<1> HIDE DEF b
<1>3. b # <<>> /\ Tail(b) = s
  <2>1. b # <<>>
    BY <1>1, <1>2, EmptySeq
  <2>2. /\ Tail(b) \in Seq(S) /\ Len(Tail(b)) = Len(s)
        /\ \A i \in 1 .. Len(s) : Tail(b)[i] = s[i]
    BY <1>1, <1>2, <2>1, HeadTailProperties
  <2> QED
    BY <2>1, <2>2, SeqEqual
<1>4. /\ whole \in Seq(S) /\ DOMAIN whole = 1 .. Len(s) + 2
      /\ whole[1] = box /\ whole[Len(s) + 2] = n
      /\ \A i \in 1 .. Len(s) : whole[i + 1] = s[i]
  <2>1. /\ whole \in Seq(S) /\ DOMAIN whole = 1 .. Len(b) + 1 /\ whole[Len(b) + 1] = n
        /\ \A k \in 1 .. Len(b) : whole[k] = b[k]
    BY <1>2, Appended
  <2>2. Len(b) + 1 = Len(s) + 2 /\ 1 \in 1 .. Len(b)
    BY <1>1, <1>2
  <2>3. ASSUME NEW i \in 1 .. Len(s) PROVE whole[i + 1] = s[i]
    <3>1. i + 1 \in 1 .. Len(b)
      BY <1>1, <1>2
    <3> QED
      BY <1>2, <2>1, <3>1
  <2> HIDE DEF whole
  <2> QED
    BY <1>2, <2>1, <2>2, <2>3
<1>5. /\ DOMAIN inner = 1 .. Len(s) + 1 /\ inner[Len(s) + 1] = n
      /\ \A i \in 1 .. Len(s) : inner[i] = s[i]
  BY Appended
<1>6. Head(whole) = box
  BY <1>4
<1> HIDE DEF whole, inner
<1>7. ASSUME NEW i \in DOMAIN whole, whole[i] # box
      PROVE  \E j \in DOMAIN inner : whole[i] = inner[j]
  <2>1. i \in 1 .. Len(s) + 2 /\ i # 1
    BY <1>4, <1>7
  <2>2. i - 1 \in 1 .. Len(s) + 1
    BY <1>1, <2>1
  <2>3. CASE i = Len(s) + 2
    <3>1. Len(s) + 1 \in DOMAIN inner
      BY <1>1, <1>5
    <3> QED
      BY <1>4, <1>5, <2>3, <3>1
  <2>4. CASE i # Len(s) + 2
    <3>1. i - 1 \in 1 .. Len(s) /\ (i - 1) + 1 = i
      BY <1>1, <2>1, <2>4
    <3>2. whole[i] = s[i - 1] /\ inner[i - 1] = s[i - 1]
      BY <1>4, <1>5, <3>1
    <3> QED
      BY <1>5, <2>2, <3>2
  <2> QED
    BY <2>3, <2>4
<1>8. b \in Seq(S)
  BY <1>2
<1> QED
  BY <1>3, <1>6, <1>7, <1>8 DEF b, whole, inner

\* What a path loses at its front leaves the rest of it.
NamesIn(path) == {path[i] : i \in DOMAIN path}

LEMMA NamesOfNames ==
  ASSUME NEW p, NEW q, \A i \in DOMAIN p : \E j \in DOMAIN q : p[i] = q[j]
  PROVE  NamesIn(p) \subseteq NamesIn(q)
  BY DEF NamesIn

LEMMA OutOfABox ==
  ASSUME NEW S, NEW s \in Seq(S), Len(s) # 0, NEW n \in S,
         NEW whole, whole = Append(s, n), NEW inner, inner = Append(Tail(s), n)
  PROVE  NamesIn(inner) \subseteq NamesIn(whole)
<1> SUFFICES ASSUME NEW i \in DOMAIN inner PROVE \E j \in DOMAIN whole : inner[i] = whole[j]
  BY NamesOfNames, Zenon
<1>1. /\ DOMAIN whole = 1 .. Len(s) + 1 /\ whole[Len(s) + 1] = n
      /\ \A k \in 1 .. Len(s) : whole[k] = s[k]
  BY Appended
<1>2. /\ Tail(s) \in Seq(S) /\ Len(Tail(s)) = Len(s) - 1 /\ Len(s) \in Nat \ {0}
      /\ \A k \in 1 .. Len(s) - 1 : Tail(s)[k] = s[k + 1]
  BY HeadTailProperties, EmptySeq
<1>3. /\ DOMAIN inner = 1 .. Len(s) /\ inner[Len(s)] = n
      /\ \A k \in 1 .. Len(s) - 1 : inner[k] = s[k + 1]
  <2>1. /\ DOMAIN inner = 1 .. Len(Tail(s)) + 1 /\ inner[Len(Tail(s)) + 1] = n
        /\ \A k \in 1 .. Len(Tail(s)) : inner[k] = Tail(s)[k]
    BY <1>2, Appended
  <2>2. Len(Tail(s)) + 1 = Len(s)
    BY <1>2
  <2> QED
    BY <1>2, <2>1, <2>2
<1>4. i \in 1 .. Len(s)
  BY <1>3
<1>5. CASE i = Len(s)
  <2>1. Len(s) + 1 \in DOMAIN whole
    BY <1>1, <1>2
  <2> QED
    BY <1>1, <1>3, <1>5, <2>1
<1>6. CASE i # Len(s)
  <2>1. i \in 1 .. Len(s) - 1 /\ i + 1 \in 1 .. Len(s) /\ i + 1 \in 1 .. Len(s) + 1
    BY <1>2, <1>4, <1>6
  <2>2. inner[i] = whole[i + 1]
    BY <1>1, <1>3, <2>1
  <2> QED
    BY <1>1, <2>1, <2>2
<1> QED
  BY <1>5, <1>6

\* The names a Mac's ZIP has in it, and what is of use among them.
MacNames == STRING \cup {"my-app", "__MACOSX", ".DS_Store", "._my-app"}
Boxed(f) == [dir |-> <<"my-app">> \o f.dir, name |-> f.name, text |-> f.text]
Extra    == [dir |-> <<"__MACOSX">>, name |-> "._my-app", text |-> "data"]

LEMMA NamesAreMacNames == \A s \in Seq(STRING) : s \in Seq(MacNames)
  BY SeqMonotonic DEF MacNames

\* Nothing that comes out of a ZIP is junk, and something does.
LEMMA UnpackedIsOfUse ==
  ASSUME NEW zip \in Zips, ~ Unreadable(zip)
  PROVE  Unpacked(zip) # {} /\ \A f \in Unpacked(zip) : ~ IsJunk(f)
<1> DEFINE files == Loose(zip)
           top(g) == Top(g) \in TopEntries(files)
           wrapped == \E t \in TopEntries(files) : IsWrapper(files, t)
<1>1. \A m \in SafeMembers(zip) : ~ IsJunk(Bare(m)) /\ Bare(m).dir = m.dir /\ Bare(m).name = m.name
  BY DEF SafeMembers, IsJunk, PartsOf, Bare
<1>2. files # {} /\ \A f \in files : ~ IsJunk(f)
  BY <1>1 DEF Loose, Unreadable
<1>3. \A f \in files : /\ f.dir \in Seq(STRING) /\ f.name \in STRING
                       /\ f = [dir |-> f.dir, name |-> f.name, text |-> f.text]
  <2>1. \A f \in files : \E m \in zip.members : f = Bare(m)
    BY DEF Loose, SafeMembers
  <2> QED
    BY <2>1, ZipsAssumption DEF Bare, WellFormed
<1>4. CASE ~ wrapped
  BY <1>2, <1>4, UnpackedIs DEF Unwrap
<1>5. CASE wrapped
  <2>1. PICK t \in TopEntries(files) : IsWrapper(files, t)
    BY <1>5
  <2>2. Unpacked(zip) = {Inner(f) : f \in {g \in files : top(g)}}
    BY <1>5, UnpackedIs DEF Unwrap, Inner
  <2>3. \E f \in files : top(f)
    BY <2>1 DEF TopEntries
  <2>4. ASSUME NEW f \in files, top(f) PROVE ~ IsJunk(Inner(f))
    <3> DEFINE d == f.dir
               n == f.name
               x == f.text
    <3>1. d # <<>> /\ d \in Seq(STRING) /\ n \in STRING
      BY <1>3, <2>1, <2>4 DEF IsWrapper
    <3>2. f = [dir |-> d, name |-> n, text |-> x]
      BY <1>3
    <3>3. Inner([dir |-> d, name |-> n, text |-> x]) = [dir |-> Tail(d), name |-> n, text |-> x]
      BY InnerIs
    <3>4. Inner(f) = [dir |-> Tail(d), name |-> n, text |-> x]
      BY <3>2, <3>3, Zenon
    <3>5. PartsOf(Inner(f)) = Append(Tail(d), n) /\ PartsOf(f) = Append(d, n)
      BY <3>4 DEF PartsOf
    <3>7. d \in Seq(MacNames) /\ n \in MacNames
      BY <3>1, NamesAreMacNames DEF MacNames
    <3> HIDE DEF d, n, x
    <3> DEFINE whole == Append(d, n)
               inner == Append(Tail(d), n)
    <3>6. NamesIn(inner) \subseteq NamesIn(whole)
      <4> HIDE DEF whole, inner
      <4>1. Len(d) # 0 /\ whole = Append(d, n) /\ inner = Append(Tail(d), n)
        BY <3>1 DEF whole, inner
      <4> QED
        BY <3>7, <4>1, OutOfABox
    <3> HIDE DEF whole, inner
    <3>8. PartsOf(Inner(f)) = inner /\ PartsOf(f) = whole
      BY <3>5 DEF whole, inner
    <3> QED
      BY <1>2, <3>6, <3>8 DEF IsJunk, NamesIn
  <2> HIDE DEF files, top
  <2> QED
    BY <2>2, <2>3, <2>4
<1> QED
  BY <1>4, <1>5

LEMMA PairOfNames == ASSUME NEW a, NEW b PROVE Append(<<a>>, b) = <<a, b>>
<1> DEFINE S == {a, b}
<1>1. /\ <<a>> \in Seq(S) /\ b \in S /\ Len(<<a>>) = 1 /\ <<a>>[1] = a
      /\ <<a, b>> \in Seq(S) /\ Len(<<a, b>>) = 2 /\ <<a, b>>[1] = a /\ <<a, b>>[2] = b
  OBVIOUS
<1> DEFINE whole == Append(<<a>>, b)
           pair  == <<a, b>>
<1>2. /\ whole \in Seq(S) /\ Len(whole) = 2 /\ whole[1] = a /\ whole[2] = b
  BY <1>1, AppendProperties
<1>3. pair \in Seq(S) /\ Len(pair) = 2 /\ pair[1] = a /\ pair[2] = b
  BY <1>1
<1> HIDE DEF S, whole, pair
<1>4. \A i \in 1 .. Len(whole) : whole[i] = pair[i]
  BY <1>2, <1>3
<1>5. whole = pair
  BY <1>2, <1>3, <1>4, SeqEqual
<1> QED
  BY <1>5 DEF whole, pair

\* The lemma the theorem below rests on.
LEMMA Rezipped ==
  ASSUME NEW zip \in Zips, ~ Unreadable(zip)
  PROVE  Unpacked(ZippedOnAMac(Unpacked(zip))) = Unpacked(zip)
<1> DEFINE files == Unpacked(zip)
           mac   == ZippedOnAMac(files)
           Packed(dir, f) == [dir |-> dir \o f.dir, name |-> f.name, text |-> f.text,
                              kind |-> "regular"]
           finder == [dir |-> <<>>, name |-> ".DS_Store", text |-> "data"]
           boxes == {Boxed(f) : f \in files}
           loose == boxes \cup {Extra}
<1>1. files # {} /\ \A f \in files : ~ IsJunk(f)
  BY UnpackedIsOfUse
<1>2. \A f \in files : /\ f.dir \in Seq(STRING) /\ f.name \in STRING
                       /\ f = [dir |-> f.dir, name |-> f.name, text |-> f.text]
  BY UnpackedIsWellFormed DEF WellFormed
<1> HIDE DEF files
<1>3. mac.members = {Packed(<<"my-app">>, f) : f \in files}
                      \cup {Packed(<<>>, f) : f \in {finder, Extra}}
  BY DEF ZippedOnAMac, Extra
<1>4. ASSUME NEW f \in files
      PROVE  /\ ~ IsJunk(Boxed(f)) /\ Top(Boxed(f)) = "my-app"
             /\ Boxed(f).dir # <<>> /\ Inner(Boxed(f)) = f
  <2> DEFINE d == f.dir
             n == f.name
             x == f.text
             b == <<"my-app">> \o d
  <2>1. d \in Seq(MacNames) /\ n \in MacNames /\ "my-app" \in MacNames
    BY <1>2, NamesAreMacNames DEF MacNames
  <2>2. Boxed(f) = [dir |-> b, name |-> n, text |-> x]
    BY DEF Boxed
  <2>3. PartsOf(Boxed(f)) = Append(b, n) /\ Boxed(f).dir = b /\ PartsOf(f) = Append(d, n)
    BY <2>2 DEF PartsOf
  <2>4. /\ b # <<>> /\ Tail(b) = d
        /\ Head(Append(b, n)) = "my-app"
        /\ \A i \in DOMAIN Append(b, n) :
              \/ Append(b, n)[i] = "my-app"
              \/ \E j \in DOMAIN Append(d, n) : Append(b, n)[i] = Append(d, n)[j]
    <3> HIDE DEF d, n
    <3> QED
      BY <2>1, InABox
  <2>5. "my-app" \notin JUNK_DIRS
    BY DEF JUNK_DIRS
  <2>6. ~ IsJunk(Boxed(f))
    BY <1>1, <2>3, <2>4, <2>5 DEF IsJunk
  <2>7. Inner(Boxed(f)) = f
    <3>1. Inner([dir |-> b, name |-> n, text |-> x]) = [dir |-> Tail(b), name |-> n, text |-> x]
      BY InnerIs
    <3>2. f = [dir |-> d, name |-> n, text |-> x]
      BY <1>2
    <3> QED
      BY <2>2, <2>4, <3>1, <3>2
  <2> QED
    BY <2>3, <2>4, <2>6, <2>7 DEF Top
<1>5. PartsOf(Extra) = <<"__MACOSX", "._my-app">> /\ Top(Extra) = "__MACOSX" /\ ~ IsJunk(Extra)
  <2>1. PartsOf(Extra) = <<"__MACOSX", "._my-app">>
    BY PairOfNames DEF PartsOf, Extra
  <2>2. "__MACOSX" \notin JUNK_DIRS /\ "._my-app" \notin JUNK_DIRS
    BY DEF JUNK_DIRS
  <2> QED
    BY <2>1, <2>2 DEF Top, IsJunk
<1>6. IsJunk(Packed(<<>>, finder))
  <2>1. PartsOf(Packed(<<>>, finder)) = <<".DS_Store">>
    BY DEF PartsOf
  <2>2. ".DS_Store" \in JUNK_DIRS
    BY DEF JUNK_DIRS
  <2> QED
    BY <2>1, <2>2 DEF IsJunk
<1>7. Loose(mac) = loose
  <2>1. \A f \in files : Bare(Packed(<<"my-app">>, f)) = Boxed(f)
    BY DEF Bare, Boxed
  <2>2. Bare(Packed(<<>>, Extra)) = Extra
    BY DEF Bare, Extra
  <2>3. \A f \in files : ~ IsJunk(Packed(<<"my-app">>, f))
    BY <1>4 DEF IsJunk, PartsOf, Boxed
  <2>4. ~ IsJunk(Packed(<<>>, Extra))
    <3>1. Packed(<<>>, Extra).dir = Extra.dir /\ Packed(<<>>, Extra).name = Extra.name
      BY DEF Extra
    <3>2. PartsOf(Packed(<<>>, Extra)) = PartsOf(Extra)
      BY <3>1 DEF PartsOf
    <3> QED
      BY <1>5, <3>2 DEF IsJunk
  <2>5. \A m \in mac.members : m.kind = "regular"
    BY <1>3
  <2>6. SafeMembers(mac) = {Packed(<<"my-app">>, f) : f \in files} \cup {Packed(<<>>, Extra)}
    <3> HIDE DEF Packed, mac
    <3> QED
      BY <1>3, <1>6, <2>3, <2>4, <2>5 DEF SafeMembers
  <2> HIDE DEF Packed, mac
  <2> QED
    BY <2>1, <2>2, <2>6 DEF Loose
<1>8. TopEntries(loose) = {"my-app"}
  BY <1>1, <1>4, <1>5 DEF TopEntries
<1>9. IsWrapper(loose, "my-app")
  BY <1>4, <1>5, <1>8 DEF IsWrapper
<1>10. Unwrap(loose) = {Inner(f) : f \in {g \in loose : Top(g) \in {"my-app"}}}
  BY <1>8, <1>9 DEF Unwrap, Inner
<1>11. {g \in loose : Top(g) \in {"my-app"}} = boxes
  BY <1>4, <1>5
<1>12. {Inner(f) : f \in boxes} = files
  BY <1>4
<1>13. Unpacked(mac) = Unwrap(loose)
  BY <1>7, UnpackedIs
<1> QED
  BY <1>10, <1>11, <1>12, <1>13 DEF files

\* A project is taken for the same app when its folder is zipped with it.  (That its
\* contents are not one folder is what keeps the ZIP of the contents from losing
\* that one; for what has been unpacked it makes no difference.)
THEOREM SameApp == Spec => []SameAppHoweverZipped
<1>1. Typed => SameAppHoweverZipped
  BY Rezipped DEF Typed, OfZip, SameAppHoweverZipped
<1> QED
  BY <1>1, InitiallyTyped, TypedIsInductive, PTL DEF Spec

-----------------------------------------------------------------------------
(* What a deploy takes out of a tree does not change where its backend is *)

\* What attach removes: what lies in data/, and a file of that name.
OnlyDataGone(files, some, d) ==
    \A f \in files \ some : InDataDir(f, d) \/ (f.dir = d /\ f.name = LINK_NAME)

LEMMA DataDirIsBelow ==
  ASSUME NEW d \in Folders
  PROVE  DataDir(d) # d /\ DataDir(d) # <<>>
<1>1. Len(DataDir(d)) = Len(d) + 1 /\ Len(d) \in Nat
  BY DEF DataDir, Folders, LINK_NAME
<1> QED
  BY <1>1

LEMMA DistanceIsNat ==
  ASSUME NEW x \in Seq(STRING)
  PROVE  Distance(x, BACKEND_HINTS) \in Nat
<1> DEFINE hinted == {i \in DOMAIN BACKEND_HINTS : x = <<BACKEND_HINTS[i]>>}
           dist   == Distance(x, BACKEND_HINTS)
<1>1. DOMAIN BACKEND_HINTS = 1 .. 5 /\ Len(BACKEND_HINTS) = 5
  BY DEF BACKEND_HINTS
<1>2. Len(x) \in Nat
  OBVIOUS
<1>3. dist = IF x = <<>> THEN 0
             ELSE IF hinted # {} THEN CHOOSE i \in hinted : TRUE
             ELSE Len(BACKEND_HINTS) + Len(x)
  BY DEF Distance
<1>4. hinted # {} => (CHOOSE i \in hinted : TRUE) \in Nat
  <2>1. hinted \subseteq Nat
    BY <1>1
  <2> HIDE DEF hinted
  <2> QED
    BY <2>1
<1> HIDE DEF hinted, dist
<1>5. dist \in Nat
  BY <1>1, <1>2, <1>3, <1>4
<1> QED
  BY <1>5 DEF dist

\* Some number of a set is its least.
LEMMA LeastExists ==
  ASSUME NEW T \in SUBSET Nat, T # {}
  PROVE  \E n \in T : \A m \in T : n <= m
<1>1. \E n \in T : \A m \in T : <<m, n>> \notin OpToRel(<, Nat)
  BY NatLessThanWellFounded, WFMin
<1>2. \A m, n \in T : <<m, n>> \notin OpToRel(<, Nat) => n <= m
  BY DEF OpToRel
<1> QED
  BY <1>1, <1>2

\* There is a nearest folder if there is one near enough.
LEMMA NearestExists ==
  ASSUME NEW files, WellFormed(files), NEW name,
         NEW e \in DirsWith(files, name), Len(e) <= 2
  PROVE  FindDirContaining(files, name, BACKEND_HINTS) # {}
<1> DEFINE near == {x \in DirsWith(files, name) : Len(x) <= 2}
           dist(x) == Distance(x, BACKEND_HINTS)
           dists == {dist(x) : x \in near}
<1>1. \A x \in near : dist(x) \in Nat
  BY DistanceIsNat DEF DirsWith, WellFormed
<1>2. e \in near
  OBVIOUS
<1>3. PICK n \in dists : \A m \in dists : n <= m
  <2>1. dists \in SUBSET Nat /\ dists # {}
    BY <1>1, <1>2
  <2> HIDE DEF dists
  <2> QED
    BY <2>1, LeastExists
<1>4. PICK x \in near : n = dist(x)
  BY <1>3
<1>5. \A y \in near : dist(x) <= dist(y)
  BY <1>3, <1>4
<1> QED
  BY <1>4, <1>5 DEF FindDirContaining

\* The nearest folder stays the nearest, and there is none where there was none.
LEMMA NearestStays ==
  ASSUME NEW files, WellFormed(files), NEW some \in SUBSET files, NEW d \in Folders,
         OnlyDataGone(files, some, d), NEW name, name # LINK_NAME
  PROVE  LET was == FindDirContaining(files, name, BACKEND_HINTS)
             is  == FindDirContaining(some, name, BACKEND_HINTS)
         IN  (was = {} => is = {}) /\ (was = {d} => is = {d})
<1> DEFINE was  == FindDirContaining(files, name, BACKEND_HINTS)
           is   == FindDirContaining(some, name, BACKEND_HINTS)
           near(fs) == {x \in DirsWith(fs, name) : Len(x) <= 2}
           dist(x) == Distance(x, BACKEND_HINTS)
<1>1. near(some) \subseteq near(files)
  BY DEF DirsWith
<1>2. was = {} => near(files) = {}
  BY NearestExists
<1>3. is \subseteq near(some) /\ was \subseteq near(files)
  BY DEF FindDirContaining
<1>4. was = {} => is = {}
  BY <1>1, <1>2, <1>3
<1>5. ASSUME was = {d} PROVE is = {d}
  <2>1. d \in near(files) /\ \A y \in near(files) : dist(d) <= dist(y)
    BY <1>5 DEF FindDirContaining
  <2>2. d \in near(some)
    <3>1. PICK g \in files : g.name = name /\ g.dir = d
      BY <2>1 DEF DirsWith
    <3>2. ~ InDataDir(g, d)
      BY <3>1, DataDirIsBelow DEF InDataDir
    <3>3. g \in some
      BY <3>1, <3>2 DEF OnlyDataGone
    <3> QED
      BY <2>1, <3>1, <3>3 DEF DirsWith
  <2>3. d \in is
    BY <1>1, <2>1, <2>2 DEF FindDirContaining
  <2>4. ASSUME NEW x \in is PROVE x = d
    <3>1. x \in near(some) /\ \A y \in near(some) : dist(x) <= dist(y)
      BY <2>4 DEF FindDirContaining
    <3>2. dist(x) <= dist(d)
      BY <2>2, <3>1
    <3>3. \A y \in near(files) : dist(x) \in Nat /\ dist(d) \in Nat /\ dist(y) \in Nat
      BY <1>1, <2>1, <3>1, DistanceIsNat DEF DirsWith, WellFormed
    <3>4. \A y \in near(files) : dist(x) <= dist(y)
      <4> SUFFICES ASSUME NEW y \in near(files) PROVE dist(x) <= dist(y)
        OBVIOUS
      <4>1. dist(d) <= dist(y) /\ dist(x) \in Nat /\ dist(d) \in Nat /\ dist(y) \in Nat
        BY <2>1, <3>3
      <4> HIDE DEF dist
      <4> QED
        BY <3>2, <4>1
    <3>5. x \in was
      BY <1>1, <3>1, <3>4 DEF FindDirContaining
    <3> QED
      BY <1>5, <3>5
  <2> QED
    BY <2>3, <2>4
<1> QED
  BY <1>4, <1>5

LEMMA BareStays ==
  ASSUME NEW files, WellFormed(files), NEW some \in SUBSET files, NEW d \in Folders,
         OnlyDataGone(files, some, d)
  PROVE  BarePython(some) = BarePython(files)
<1> DEFINE near(fs) == {f.dir : f \in {g \in fs : g.text \in {"app", "plain"} /\ Len(g.dir) <= 1}}
<1>1. ASSUME NEW f \in files, f.text \in {"app", "plain"} PROVE f \in some
  <2>1. ~ InDataDir(f, d)
    BY <1>1, BroughtIsSeed
  <2>2. f.name # LINK_NAME
    BY <1>1 DEF WellFormed
  <2> QED
    BY <2>1, <2>2 DEF OnlyDataGone
<1>2. near(some) = near(files)
  BY <1>1
<1> QED
  BY <1>2 DEF BarePython

\* A backend stays where it was found.
LEMMA BackendStays ==
  ASSUME NEW files, WellFormed(files), NEW some \in SUBSET files, NEW d \in Folders, d # NoDir,
         OnlyDataGone(files, some, d), \A t \in Detect(files) : t.backend = d
  PROVE  \A t \in Detect(some) : t.backend = d
<1>1. \A x \in DirsDetected(files) : x = d
  BY DetectedSay DEF SayBackends
<1>2. ManifestsIn(some) = ManifestsIn(files)
  <2>1. ASSUME NEW f \in files, f.dir = <<>>, f.name \in {"launcher.yaml", "launcher.yml"}
        PROVE  f \in some
    <3>1. ~ InDataDir(f, d)
      BY <2>1, DataDirIsBelow DEF InDataDir
    <3>2. f.name # LINK_NAME
      BY <2>1 DEF LINK_NAME
    <3> QED
      BY <3>1, <3>2 DEF OnlyDataGone
  <2> QED
    BY <2>1 DEF ManifestsIn
<1>3. ASSUME \A x \in DirsTaken(files) : x = d
      PROVE  \A x \in DirsTaken(some) : x = d
  <2> DEFINE required(fs) == FindDirContaining(fs, "requirements.txt", BACKEND_HINTS)
             project(fs)  == FindDirContaining(fs, "pyproject.toml", BACKEND_HINTS)
  <2>1. BackendDirs(files) = {d}
    BY <1>3 DEF DirsTaken
  <2>2. /\ required(files) = {} => required(some) = {}
        /\ required(files) = {d} => required(some) = {d}
    BY NearestStays DEF LINK_NAME
  <2>3. /\ project(files) = {} => project(some) = {}
        /\ project(files) = {d} => project(some) = {d}
    BY NearestStays DEF LINK_NAME
  <2>4. \A fs : BackendDirs(fs) = IF required(fs) # {} THEN required(fs)
                                  ELSE IF project(fs) # {} THEN project(fs)
                                  ELSE BarePython(fs)
    BY DEF BackendDirs
  <2> HIDE DEF required, project
  <2>5. BackendDirs(some) = {d}
    BY <2>1, <2>2, <2>3, <2>4, BareStays
  <2> QED
    BY <2>5 DEF DirsTaken
<1>4. \A x \in DirsDetected(some) : x = d
  <2>1. CASE ManifestsIn(files) = {}
    BY <1>1, <1>2, <1>3, <2>1 DEF DirsDetected
  <2>2. CASE ManifestsIn(files) # {}
    <3>1. Heeded(some) = Heeded(files)
      BY <1>2 DEF Heeded
    <3>2. ASSUME NEW m \in Heeded(files), NEW x \in DirsSaid(some, Manifests[m.text])
          PROVE  x = d
      <4>1. \A y \in DirsSaid(files, Manifests[m.text]) : y = d
        BY <1>1, <2>2 DEF DirsDetected
      <4> QED
        BY <1>3, <3>2, <4>1 DEF DirsSaid
    <3> QED
      BY <1>2, <2>2, <3>1, <3>2 DEF DirsDetected
  <2> QED
    BY <2>1, <2>2
<1> QED
  BY <1>4, DetectedSay DEF SayBackends

-----------------------------------------------------------------------------
(* Where data/ leads *)

\* No two deletions and deploys of the app at a time, and the alphabet, which decides
\* between folders that are equally near, decides the same way every time.
Alike == /\ ~ MayOverlap
         /\ \A z \in Zips : ~ Unreadable(z) =>
               \A t, u \in Detect(Unpacked(z)) : t.backend = u.backend

Linked == linkable /\ crashes = 0

\* A deletion has no deploy beside it and nothing that runs, and no built tree once
\* it has removed the tree.
Lonely == /\ handler # "idle" => worker.at = "idle" /\ ~ running.up
          /\ handler = "store" => ~ built

\* What a deploy knows of the tree it makes.
Making ==
    /\ worker.at \in {"unpack", "detect", "seed", "move"} => ~ built
    /\ worker.at \in {"detach", "clear", "unpack", "detect"} => worker.dir = NoDir
    /\ worker.at = "detect" => ~ Unreadable(worker.zip) /\ tree = Unpacked(worker.zip)
    /\ worker.at \in {"seed", "move"} =>
          /\ worker.dir # NoDir
          /\ tree \subseteq Unpacked(worker.zip)
          /\ OnlyDataGone(Unpacked(worker.zip), tree, worker.dir)
          /\ \A t \in Detect(Unpacked(worker.zip)) : t.backend = worker.dir

\* A tree that is ready has its link where a backend would be found in it.
HasLink(dir) == dir = NoDir \/ dir \in links
Ready == worker.at \in {"build", "stop", "start", "verify"}
         \/ (worker.at \in {"idle", "detach"} /\ handler = "idle" /\ built)
LinkIsThere ==
    Linked => /\ Ready => \A t \in Detect(tree) : HasLink(t.backend)
              /\ worker.at \in {"build", "stop", "start"} => HasLink(worker.dir)

Leading == Typed /\ Lonely /\ Making /\ LinkIsThere /\ DataLeadsToStore

LEMMA InitiallyLeading == Init => Leading
<1> SUFFICES ASSUME Init PROVE Leading
  OBVIOUS
<1>1. worker.at = "idle" /\ ~ built /\ handler = "idle" /\ ~ running.up
  BY DEF Init, NoWork, NotRunning
<1> QED
  BY <1>1, InitiallyTyped DEF Leading, Lonely, Making, LinkIsThere, Ready, DataLeadsToStore, Writing

\* The steps of a deploy that do not look at its files.
LEMMA DeployLeads ==
  ASSUME Alike, Leading, RunDeploy, Typed',
         ~ (Unpack \/ DetectApp \/ LookAtSeed \/ MoveSeed \/ Attach)
  PROVE  Leading'
<1> USE DEF Leading, Lonely, Making, Go, GiveUp, host, disk
<1>0. Framed
  BY DEF Typed
<1> USE <1>0 DEF Framed
<1>1. CASE DetachOld
  BY <1>1 DEF DetachOld, Detach, LinkIsThere, DataLeadsToStore, Ready, Linked
<1>2. CASE Clear
  <2>1. ~ (Writing' /\ running'.home)
    BY <1>2 DEF Clear, Typed, TypeOK
  <2> QED
    BY <1>2, <2>1 DEF Clear, LinkIsThere, DataLeadsToStore, Ready, Linked
<1>3. CASE ClearHeld
  BY <1>3 DEF ClearHeld, LinkIsThere, DataLeadsToStore, Ready, Linked, NotRunning, Writing
<1>4. CASE ClearFails
  BY <1>4 DEF ClearFails, LinkIsThere, DataLeadsToStore, Ready, Linked, NotRunning, Writing, NoWork
<1>5. CASE Build
  <2>1. /\ worker.at = "build" /\ handler = "idle"
        /\ UNCHANGED <<exists, tree, links, store, running, handler, linkable, uploads, crashes>>
    BY <1>5 DEF Build
  <2>2. \/ worker'.at = "stop" /\ worker'.dir = worker.dir
        \/ worker'.at = "idle"
    <3>1. CASE Go("stop")
      BY <3>1
    <3>2. CASE GiveUp
      BY <3>2 DEF NoWork
    <3> QED
      BY <1>5, <3>1, <3>2, Zenon DEF Build
  <2> QED
    BY <2>1, <2>2 DEF LinkIsThere, DataLeadsToStore, Ready, Linked, HasLink, Writing
<1>6. CASE StopOld
  BY <1>6 DEF StopOld, LinkIsThere, DataLeadsToStore, Ready, Linked, HasLink, NotRunning, Writing
<1>7. CASE StartNew
  <2>1. /\ running'.dir = worker.dir /\ worker.at = "start" /\ worker'.at = "verify"
        /\ handler = "idle"
        /\ UNCHANGED <<exists, tree, links, built, store, handler, linkable, uploads, crashes>>
    BY <1>7 DEF StartNew
  <2> QED
    BY <2>1 DEF LinkIsThere, DataLeadsToStore, Ready, Linked, HasLink, Writing
<1>8. CASE Verify
  <2>1. /\ worker' = NoWork /\ worker.at = "verify" /\ running' \in {running, NotRunning}
        /\ handler = "idle"
        /\ UNCHANGED <<exists, tree, links, built, store, handler, linkable, uploads, crashes>>
    BY <1>8 DEF Verify
  <2>2. worker'.at = "idle"
    BY <2>1 DEF NoWork
  <2>3. CASE running' = running
    BY <2>1, <2>2, <2>3 DEF LinkIsThere, DataLeadsToStore, Ready, Linked, HasLink, Writing
  <2>4. CASE running' = NotRunning
    BY <2>1, <2>2, <2>4 DEF LinkIsThere, DataLeadsToStore, Ready, Linked, HasLink, NotRunning, Writing
  <2> QED
    BY <2>1, <2>3, <2>4
<1> QED
  BY <1>1, <1>2, <1>3, <1>4, <1>5, <1>6, <1>7, <1>8 DEF RunDeploy

\* Those that make the tree ready.
LEMMA TreeLeads ==
  ASSUME Alike, Leading, Typed', Unpack \/ DetectApp \/ LookAtSeed \/ MoveSeed \/ Attach
  PROVE  Leading'
<1> USE DEF Leading, Lonely, Making, Go, GiveUp, host, disk
<1>0. Framed /\ ~ (Writing /\ running.home) /\ handler = "idle"
  BY DEF Typed, Still, Unpack, DetectApp, LookAtSeed, MoveSeed, Attach
<1>a. /\ UNCHANGED <<exists, built, running, handler, linkable, uploads, crashes>>
      /\ ~ (Writing' /\ running'.home)
  BY <1>0 DEF Unpack, DetectApp, LookAtSeed, MoveSeed, Attach, Writing
<1>b. DataLeadsToStore'
  BY <1>a DEF DataLeadsToStore
<1> DEFINE files == Unpacked(worker.zip)
<1>1. CASE Unpack
  <2>1. CASE Unreadable(worker.zip)
    <3>1. worker' = NoWork /\ ~ built
      BY <1>1, <2>1 DEF Unpack
    <3> QED
      BY <1>0, <1>a, <1>b, <3>1 DEF LinkIsThere, Ready, NoWork
  <2>2. CASE ~ Unreadable(worker.zip)
    <3>1. /\ worker'.at = "detect" /\ worker'.dir = worker.dir /\ worker'.zip = worker.zip
          /\ tree' = Unpacked(worker.zip) /\ worker.at = "unpack"
      BY <1>0, <1>1, <2>2 DEF Unpack, Framed
    <3> QED
      BY <1>0, <1>a, <1>b, <2>2, <3>1 DEF LinkIsThere, Ready
  <2> QED
    BY <2>1, <2>2
<1>2. CASE DetectApp
  <2>0. worker.at = "detect" /\ tree = files /\ ~ built /\ worker.dir = NoDir
        /\ UNCHANGED <<tree, links>>
    BY <1>2 DEF DetectApp
  <2>1. PICK taken \in Detect(tree) :
          \/ GiveUp
          \/ taken.backend = NoDir /\ Go("build")
          \/ /\ taken.backend # NoDir
             /\ worker' = [worker EXCEPT !.at = "seed", !.dir = taken.backend,
                                         !.left = ItemsIn(tree, taken.backend)]
    BY <1>2 DEF DetectApp
  <2>2. \A t \in Detect(tree) : t.backend = taken.backend
    BY <2>0 DEF Alike, Typed, OfZip
  <2>3. CASE GiveUp
    BY <1>0, <1>a, <1>b, <2>0, <2>3 DEF LinkIsThere, Ready, NoWork
  <2>4. CASE taken.backend = NoDir /\ Go("build")
    <3>1. worker'.at = "build" /\ worker'.dir = NoDir
      BY <1>0, <2>0, <2>4 DEF Framed
    <3> QED
      BY <1>0, <1>a, <1>b, <2>0, <2>2, <2>4, <3>1 DEF LinkIsThere, HasLink
  <2>5. CASE /\ taken.backend # NoDir
             /\ worker' = [worker EXCEPT !.at = "seed", !.dir = taken.backend,
                                         !.left = ItemsIn(tree, taken.backend)]
    <3>1. worker'.at = "seed" /\ worker'.dir = taken.backend /\ worker'.zip = worker.zip
      BY <1>0, <2>5 DEF Framed
    <3>2. OnlyDataGone(files, tree, worker'.dir)
      BY <2>0 DEF OnlyDataGone
    <3> QED
      BY <1>0, <1>a, <1>b, <2>0, <2>2, <2>5, <3>1, <3>2 DEF LinkIsThere, Ready
  <2> QED
    BY <2>1, <2>3, <2>4, <2>5
<1>3. CASE LookAtSeed
  <2>1. /\ worker'.at \in {"seed", "move"} /\ worker'.dir = worker.dir /\ worker'.zip = worker.zip
        /\ worker.at = "seed" /\ UNCHANGED <<tree, links>>
    BY <1>0, <1>3 DEF LookAtSeed, Framed
  <2> QED
    BY <1>0, <1>a, <1>b, <2>1 DEF LinkIsThere, Ready
<1>4. CASE MoveSeed
  <2>1. PICK f \in tree : InDataDir(f, worker.dir) /\ tree' = tree \ {f}
    BY <1>4 DEF MoveSeed
  <2>2. /\ worker'.at = "seed" /\ worker'.dir = worker.dir /\ worker'.zip = worker.zip
        /\ worker.at = "move"
    BY <1>0, <1>4 DEF MoveSeed, Framed
  <2>3. OnlyDataGone(files, tree', worker.dir)
    BY <2>1, <2>2 DEF OnlyDataGone
  <2> QED
    BY <1>0, <1>a, <1>b, <2>1, <2>2, <2>3 DEF LinkIsThere, Ready
<1>5. CASE Attach
  <2>1. /\ worker'.at = "build" /\ worker'.dir = worker.dir /\ worker.at = "seed"
        /\ tree' = {f \in tree : /\ ~ InDataDir(f, worker.dir)
                                 /\ ~ (f.dir = worker.dir /\ f.name = LINK_NAME)}
        /\ linkable => worker.dir \in links'
    BY <1>0, <1>5 DEF Attach, Framed
  <2>2. OnlyDataGone(files, tree', worker.dir) /\ tree' \in SUBSET files
    BY <2>1 DEF OnlyDataGone
  <2>3. WellFormed(files) /\ worker.dir \in Folders
    BY <2>1, UnpackedIsWellFormed DEF Typed, OfZip
  <2>4. \A t \in Detect(tree') : t.backend = worker.dir
    <3> HIDE DEF files
    <3> DEFINE d == worker.dir
               some == tree'
    <3>1. /\ WellFormed(files) /\ some \in SUBSET files /\ d \in Folders /\ d # NoDir
          /\ OnlyDataGone(files, some, d) /\ \A t \in Detect(files) : t.backend = d
      BY <2>1, <2>2, <2>3 DEF files
    <3>2. \A t \in Detect(some) : t.backend = d
      <4> HIDE DEF d, some
      <4> QED
        BY <3>1, BackendStays
    <3> QED
      BY <3>2
  <2> QED
    BY <1>0, <1>a, <1>b, <2>1, <2>4 DEF LinkIsThere, HasLink, Linked
<1> QED
  BY <1>1, <1>2, <1>3, <1>4, <1>5

\* Deletions, uploads, the app itself and the watch on it.
LEMMA OthersLead ==
  ASSUME Alike, Leading, Typed',
         Upload \/ DeleteApp \/ WriteStore \/ WriteTree \/ Dies \/ Launch \/ Crash
  PROVE  Leading'
<1> USE DEF Leading, Lonely, Making, host, disk
<1>0. Framed
  BY DEF Typed
<1>1. CASE Upload
  <2>1. PICK z \in Zips : worker' = [NoWork EXCEPT !.at = "detach", !.zip = z]
    BY <1>1 DEF Upload
  <2>2. worker'.at = "detach" /\ worker'.dir = NoDir
    BY <2>1 DEF NoWork
  <2>3. worker.at = "idle" /\ handler = "idle"
        /\ UNCHANGED <<tree, links, built, running, handler, linkable, crashes>>
    BY <1>1 DEF Upload, Alike
  <2> QED
    BY <2>2, <2>3 DEF LinkIsThere, DataLeadsToStore, Ready, Linked, HasLink, Writing
<1>2. CASE DeleteRow
  BY <1>2 DEF DeleteRow, Alike, NotRunning, LinkIsThere, DataLeadsToStore, Ready, Writing
<1>3. CASE DeleteDetach
  BY <1>3 DEF DeleteDetach, LinkIsThere, DataLeadsToStore, Ready
<1>4. CASE DeleteTree
  BY <1>4 DEF DeleteTree, LinkIsThere, DataLeadsToStore, Ready
<1>5. CASE DeleteStore
  BY <1>5 DEF DeleteStore, LinkIsThere, DataLeadsToStore, Ready, Writing
<1>6. CASE WriteStore
  BY <1>6 DEF WriteStore, LinkIsThere, DataLeadsToStore, Ready, Linked, HasLink, Writing
<1>7. CASE WriteTree
  <2>1. /\ Writing /\ running.home /\ running.dir \notin links
        /\ UNCHANGED <<exists, links, built, store, running, worker, handler, linkable, crashes>>
    BY <1>7 DEF WriteTree
  <2>2. worker.at \notin {"unpack", "detect", "seed", "move", "build", "stop", "start"}
    BY <2>1 DEF Typed, Still
  <2>3. handler = "idle"
    BY <2>1 DEF Writing
  <2>4. Linked => worker.at = "clear"
    BY <2>1, <2>3 DEF DataLeadsToStore, Linked
  <2> QED
    BY <2>1, <2>2, <2>4 DEF LinkIsThere, DataLeadsToStore, Ready, Linked, Writing
<1>8. CASE Dies
  BY <1>8 DEF Dies, LinkIsThere, DataLeadsToStore, Ready, Linked, HasLink, NotRunning, Writing
<1>9. CASE Launch
  <2>1. PICK taken \in Detect(tree) : running' = [up |-> TRUE, dir |-> taken.backend, home |-> TRUE]
    BY <1>9 DEF Launch
  <2>2. /\ worker.at = "idle" /\ handler = "idle" /\ built /\ running'.dir = taken.backend
        /\ UNCHANGED <<tree, links, built, worker, handler, linkable, crashes>>
    BY <1>9, <2>1 DEF Launch, Idle
  <2> QED
    BY <2>2 DEF LinkIsThere, DataLeadsToStore, Ready, Linked, HasLink, Writing
<1>10. CASE Crash
  <2>1. worker'.at = "idle" /\ handler' = "idle" /\ ~ Linked'
    BY <1>10 DEF Crash, NoWork, Linked, Typed, TypeOK
  <2> QED
    BY <2>1 DEF LinkIsThere, DataLeadsToStore, Linked
<1> QED
  BY <1>1, <1>2, <1>3, <1>4, <1>5, <1>6, <1>7, <1>8, <1>9, <1>10 DEF DeleteApp

LEMMA LeadingIsInductive == ASSUME Alike, Leading, [Next]_vars PROVE Leading'
<1>1. Typed'
  BY TypedIsInductive DEF Leading
<1>2. CASE UNCHANGED vars
  BY <1>1, <1>2 DEF vars, disk, host, Leading, Lonely, Making, LinkIsThere, Linked, Ready, HasLink,
                    DataLeadsToStore, Writing
<1> QED
  BY <1>1, <1>2, DeployLeads, TreeLeads, OthersLead DEF Next

\* Where links can be made, what a running backend saves in data/ lands in the store,
\* for any ZIPs in which the backend's place is not a matter of the alphabet.
THEOREM DataLeads == ASSUME Alike PROVE Spec => []DataLeadsToStore
<1>1. Leading => DataLeadsToStore
  BY DEF Leading
<1> QED
  BY <1>1, InitiallyLeading, LeadingIsInductive, PTL DEF Spec
=============================================================================
