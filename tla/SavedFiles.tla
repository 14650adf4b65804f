----------------------------- MODULE SavedFiles -----------------------------
(***************************************************************************)
(* Storage that survives a redeploy (launcher/appdata.py): the directory   *)
(* of one app's name outside its source tree, the link data/ that leads to *)
(* it from inside, and everything that touches either of them - the deploy *)
(* that replaces the tree (deployer.run_deploy), the deletion of the app   *)
(* (app.delete_app), and the app itself, which writes whenever it runs.    *)
(*                                                                         *)
(* A deploy goes step by step, because the version that is being replaced  *)
(* runs on meanwhile, and the launcher may die between any two steps.  How *)
(* several deploys and starts of one app meet is the matter of Lifecycle:  *)
(* here one deploy is under way at a time, and nothing but a deploy stops  *)
(* or starts the app meanwhile.                                            *)
(***************************************************************************)
EXTENDS Project

CONSTANTS Zips,         \* what people upload
          DataNames,    \* the files an app saves or brings along
          IS_WINDOWS,   \* a running backend keeps its folder from being removed
          FollowsLinks, \* removing a tree removes what its links point at
          Lingering,    \* files of an app just stopped can be held for a moment
          MakesDirs,    \* the app makes the folder data/ if there is none
          MayOverlap,   \* the app may be deleted during a deploy, or uploaded
                        \* again during its deletion
          MaxUploads,   \* bound: deploys
          MaxCrashes    \* bound: times the launcher dies

ASSUME SavedFilesConstants ==
    /\ {MaxUploads, MaxCrashes} \subseteq Nat
    /\ {IS_WINDOWS, FollowsLinks, Lingering, MakesDirs, MayOverlap}
         \subseteq BOOLEAN

LINK_NAME == "data"
Absent    == "absent"

\* Folders are paths.  What has the text of Python is not called data, what is
\* called launcher.yaml says something, and a file in a folder data is one an app
\* would save, as a ZIP brings it.
WellFormed(files) ==
    \A f \in files :
        /\ f.dir \in Seq(STRING) /\ f.name \in STRING
        /\ f.text \in {"app", "plain"} => f.name # LINK_NAME
        /\ f.name \in {"launcher.yaml", "launcher.yml"} => f.text \in DOMAIN Manifests
        /\ f.dir # <<>> /\ f.dir[Len(f.dir)] = LINK_NAME => f.name \in DataNames /\ f.text = "seed"

ASSUME ZipsAssumption == \A z \in Zips : WellFormed(z.members)

VARIABLES
    exists,   \* is there a row for the app's name?
    tree,     \* the files of the source tree
    links,    \* the folders of it that hold a link data/ to the store
    built,    \* has the tree been built?
    store,    \* the saved files: "seed", "saved" or Absent
    running,  \* the app's backend: the folder it runs in, and is it still there?
    worker,   \* the deploy under way
    handler,  \* the deletion under way
    linkable, \* can links be made on this machine?
    uploads, crashes,
    written   \* history: files the app has saved in the store since there is a row

disk   == <<tree, links, built>>
host   == <<linkable, uploads, crashes>>
vars   == <<exists, disk, store, running, worker, handler, host, written>>

NoStore    == [n \in DataNames |-> Absent]
NotRunning == [up |-> FALSE, dir |-> NoDir, home |-> FALSE]
NoZip      == [readable |-> FALSE, members |-> {}]
NoWork     == [at |-> "idle", zip |-> NoZip, dir |-> NoDir, left |-> {}, item |-> "none"]

DataDir(dir)       == Append(dir, LINK_NAME)

\* Mutant: what lies beside data/ is taken for data.
BesideData(f, dir) == f.dir = dir

InDataDir(f, dir)  == f.dir = DataDir(dir)
Item(dir, n, text) == [dir |-> DataDir(dir), name |-> n, text |-> text]
ItemsIn(files, dir) == {f.name : f \in {g \in files : InDataDir(g, dir)}}

Go(place) == worker' = [worker EXCEPT !.at = place]
GiveUp    == worker' = NoWork

-----------------------------------------------------------------------------
(* What deploys and deletions share *)

\* Mutant: a link right at the top is looked for, not one beside the backend.
LinksAtTop == {<<>>}

\* appdata.detach looks at the root and at the folders directly in it.
DetachLooksAt == {d \in links : Len(d) <= 1}

Detach == links' = links \ DetachLooksAt

\* What is left of the store when a tree with links in it is removed.
StoreBehind(removed) == IF FollowsLinks /\ removed # {} THEN NoStore ELSE store

\* On Windows the folder a process runs in stays, with whatever it keeps open.
Held == IS_WINDOWS /\ running.up /\ running.dir # NoDir

-----------------------------------------------------------------------------
(* A deploy *)

Idle == worker.at = "idle" /\ handler = "idle"

\* upload or replace, and the executor takes it.
Upload ==
    /\ worker.at = "idle" /\ uploads < MaxUploads
    /\ handler = "idle" \/ MayOverlap
    /\ \E z \in Zips : worker' = [NoWork EXCEPT !.at = "detach", !.zip = z]
    /\ exists' = TRUE
    /\ uploads' = uploads + 1
    /\ written' = IF exists THEN written ELSE {}
    /\ UNCHANGED <<disk, store, running, handler, linkable, crashes>>

DetachOld ==
    /\ worker.at = "detach"
    /\ Detach /\ Go("clear")
    /\ UNCHANGED <<exists, tree, built, store, running, handler, host, written>>

\* _clear_source_dir; on POSIX the folder goes from under the running backend.
Clear ==
    /\ worker.at = "clear" /\ ~ Held
    /\ tree' = {} /\ links' = {} /\ built' = FALSE
    /\ store' = StoreBehind(links)
    /\ running' = [running EXCEPT !.home = FALSE]
    /\ Go("unpack")
    /\ UNCHANGED <<exists, handler, host, written>>

\* What is not held goes at the first attempt, the rest when the app is stopped.
ClearHeld ==
    /\ worker.at = "clear" /\ IS_WINDOWS
    /\ tree' = {} /\ links' = {} /\ built' = FALSE
    /\ store' = StoreBehind(links)
    /\ running' = NotRunning
    /\ Go("unpack")
    /\ UNCHANGED <<exists, handler, host, written>>

\* Somebody else holds some of the files, and the deploy fails.
ClearFails ==
    /\ worker.at = "clear" /\ IS_WINDOWS
    /\ \E kept \in tree : tree' = {kept}
    /\ links' = {} /\ built' = FALSE
    /\ store' = StoreBehind(links)
    /\ running' = NotRunning
    /\ GiveUp
    /\ UNCHANGED <<exists, handler, host, written>>

\* archive.extract.
Unpack ==
    /\ worker.at = "unpack"
    /\ IF Unreadable(worker.zip) THEN GiveUp /\ UNCHANGED tree
                                 ELSE Go("detect") /\ tree' = Unpacked(worker.zip)
    /\ UNCHANGED <<exists, links, built, store, running, handler, host, written>>

\* detect.detect; without a backend attach only makes the store.
DetectApp ==
    /\ worker.at = "detect"
    /\ \E taken \in Detect(tree) :
          \/ ~ taken.ok /\ GiveUp
          \/ taken.ok /\ taken.backend = NoDir /\ Go("build")
          \/ /\ taken.ok /\ taken.backend # NoDir
             /\ worker' = [worker EXCEPT !.at = "seed", !.dir = taken.backend,
                                         !.left = ItemsIn(tree, taken.backend)]
    /\ UNCHANGED <<exists, disk, store, running, handler, host, written>>

\* Mutant: what a ZIP brings is moved for an app's first version only.
FirstTimeOnly(n) == store = NoStore

\* appdata.attach: a file the ZIP brings is moved if the store has none of its name.
Wanted(n) == store[n] = Absent

LookAtSeed ==
    /\ worker.at = "seed"
    /\ \E n \in worker.left :
          worker' = [worker EXCEPT !.left = @ \ {n},
                                   !.at   = IF Wanted(n) THEN "move" ELSE "seed",
                                   !.item = n]
    /\ UNCHANGED <<exists, disk, store, running, handler, host, written>>

MoveSeed ==
    /\ worker.at = "move"
    /\ \E f \in tree : /\ f.name = worker.item /\ InDataDir(f, worker.dir)
                       /\ store' = [store EXCEPT ![f.name] = f.text]
                       /\ tree' = tree \ {f}
    /\ Go("seed")
    /\ UNCHANGED <<exists, links, built, running, handler, host, written>>

\* Mutant: a data/ folder that brought nothing new stays where it is, and no link
\* can be made in its place.
LeavesSeeds ==
    /\ worker.at = "seed" /\ worker.left = {}
    /\ links' = IF linkable /\ ItemsIn(tree, worker.dir) = {} THEN links \cup {worker.dir}
                                                            ELSE links
    /\ Go("build")
    /\ UNCHANGED <<exists, tree, built, store, running, handler, host, written>>

\* What is left of data/ goes, and the link takes its place if it can be made.
\* A file that is called data goes too.
Attach ==
    /\ worker.at = "seed" /\ worker.left = {}
    /\ tree' = {f \in tree : /\ ~ InDataDir(f, worker.dir)
                             /\ ~ (f.dir = worker.dir /\ f.name = LINK_NAME)}
    /\ links' = IF linkable THEN links \cup {worker.dir} ELSE links
    /\ Go("build")
    /\ UNCHANGED <<exists, built, store, running, handler, host, written>>

\* native.prepare, and everything that can end a deploy before the old version is
\* stopped: the scan, a failed build, settings that are missing, a deleted app.
Build ==
    /\ worker.at = "build"
    /\ \/ Go("stop") /\ built' = TRUE /\ exists
       \/ GiveUp /\ built' \in {built, TRUE}
    /\ UNCHANGED <<exists, tree, links, store, running, handler, host, written>>

StopOld ==
    /\ worker.at = "stop"
    /\ running' = NotRunning
    /\ Go("start")
    /\ UNCHANGED <<exists, disk, store, handler, host, written>>

StartNew ==
    /\ worker.at = "start"
    /\ running' = [up |-> TRUE, dir |-> worker.dir, home |-> TRUE]
    /\ Go("verify")
    /\ UNCHANGED <<exists, disk, store, handler, host, written>>

\* A version that does not answer is stopped again.
Verify ==
    /\ worker.at = "verify"
    /\ running' \in {running, NotRunning}
    /\ GiveUp
    /\ UNCHANGED <<exists, disk, store, handler, host, written>>

RunDeploy ==
    \/ DetachOld \/ Clear \/ ClearHeld \/ ClearFails \/ Unpack \/ DetectApp
    \/ LookAtSeed \/ MoveSeed \/ Attach \/ Build \/ StopOld \/ StartNew \/ Verify

-----------------------------------------------------------------------------
(* Deleting the app *)

\* The status, the stop and the row, which a deploy under way does not notice.
DeleteRow ==
    /\ handler = "idle" /\ exists
    /\ worker.at = "idle" \/ MayOverlap
    /\ exists' = FALSE /\ running' = NotRunning /\ written' = {}
    /\ handler' = "detach"
    /\ UNCHANGED <<disk, store, worker, host>>

DeleteDetach ==
    /\ handler = "detach"
    /\ Detach
    /\ handler' = "tree"
    /\ UNCHANGED <<exists, tree, built, store, running, worker, host, written>>

\* What cannot be removed is only reported.
DeleteTree ==
    /\ handler = "tree"
    /\ \/ tree' = {}
       \/ IS_WINDOWS /\ \E kept \in tree : tree' = {kept}
    /\ links' = {} /\ built' = FALSE
    /\ store' = StoreBehind(links)
    /\ handler' = "store"
    /\ UNCHANGED <<exists, running, worker, host, written>>

\* appdata.remove ignores what it cannot remove.
DeleteStore ==
    /\ handler = "store"
    /\ \E kept \in SUBSET DataNames :
          /\ kept # {} => Lingering
          /\ store' = [n \in DataNames |-> IF n \in kept THEN store[n] ELSE Absent]
    /\ handler' = "idle"
    /\ UNCHANGED <<exists, disk, running, worker, host, written>>

DeleteApp == DeleteRow \/ DeleteDetach \/ DeleteTree \/ DeleteStore

-----------------------------------------------------------------------------
(* The app, and what starts or ends it outside a deploy *)

Writing == running.up /\ running.dir # NoDir

\* Through APP_DATA_DIR, or through data/ where it is the link.
WriteStore ==
    /\ Writing
    /\ \E n \in DataNames : /\ store' = [store EXCEPT ![n] = "saved"]
                            /\ written' = written \cup {n}
    /\ UNCHANGED <<exists, disk, running, worker, handler, host>>

\* Through data/ where it is a folder of the tree, or where the app makes one.
WriteTree ==
    /\ Writing /\ running.home /\ running.dir \notin links
    /\ ItemsIn(tree, running.dir) # {} \/ MakesDirs
    /\ \E n \in DataNames :
          tree' = {f \in tree : ~ (InDataDir(f, running.dir) /\ f.name = n)}
                    \cup {Item(running.dir, n, "saved")}
    /\ UNCHANGED <<exists, links, built, store, running, worker, handler, host, written>>

Dies ==
    /\ running.up
    /\ running' = NotRunning
    /\ UNCHANGED <<exists, disk, store, worker, handler, host, written>>

\* supervisor.launch: what is on disk is detected again, and nothing is linked.
Launch ==
    /\ Idle /\ exists /\ ~ running.up /\ built
    /\ \E taken \in Detect(tree) :
          /\ taken.ok
          /\ running' = [up |-> TRUE, dir |-> taken.backend, home |-> TRUE]
    /\ UNCHANGED <<exists, disk, store, worker, handler, host, written>>

\* The launcher dies; what was under way is not taken up again.
Crash ==
    /\ crashes < MaxCrashes /\ ~ Idle
    /\ crashes' = crashes + 1
    /\ worker' = NoWork /\ handler' = "idle"
    /\ UNCHANGED <<exists, disk, store, running, linkable, uploads, written>>

-----------------------------------------------------------------------------
Init ==
    /\ exists = FALSE
    /\ tree = {} /\ links = {} /\ built = FALSE
    /\ store = NoStore
    /\ running = NotRunning
    /\ worker = NoWork /\ handler = "idle"
    /\ linkable \in BOOLEAN
    /\ uploads = 0 /\ crashes = 0
    /\ written = {}

Next ==
    \/ Upload \/ RunDeploy \/ DeleteApp
    \/ WriteStore \/ WriteTree \/ Dies \/ Launch \/ Crash

Spec == Init /\ [][Next]_vars

-----------------------------------------------------------------------------
(* Properties *)

Places == {"idle", "detach", "clear", "unpack", "detect", "seed", "move", "build",
           "stop", "start", "verify"}

\* The types of the variables.
TypeOK ==
    /\ exists \in BOOLEAN /\ built \in BOOLEAN /\ linkable \in BOOLEAN
    /\ \A f \in tree : DOMAIN f = {"dir", "name", "text"}
    /\ store \in [DataNames -> {"seed", "saved", Absent}]
    /\ DOMAIN running = {"up", "dir", "home"} /\ running.up \in BOOLEAN
    /\ worker.at \in Places /\ worker.zip \in Zips \cup {NoZip}
    /\ worker.left \subseteq DataNames
    /\ handler \in {"idle", "detach", "tree", "store"}
    /\ uploads \in 0 .. MaxUploads /\ crashes \in 0 .. MaxCrashes
    /\ written \subseteq DataNames

\* What the app has saved stays as it saved it as long as there is the app:
\* no deploy, whole or broken off at any step, removes it or writes what a ZIP
\* brings over it ("Deleting an app deletes its data; nothing else does").
WrittenIsKept == exists => \A n \in written : store[n] = "saved"

\* Where links can be made, a running backend's data/ leads to the store, so that
\* what it saves there is not lost with the tree - but for the moment in which a
\* deploy has removed the link and not yet the tree, and until the first crash,
\* which may come at that moment.
DataLeadsToStore ==
    (/\ linkable /\ crashes = 0
     /\ Writing /\ running.home
     /\ worker.at # "clear" /\ handler = "idle") => running.dir \in links

\* Once the store is attached, every file that the ZIP brought in its backend's
\* data/ is in the store, as the ZIP brings it or as it was saved before: the rest
\* of the folder is thrown away with nothing lost by it.
SeedsArrive ==
    worker.at \in {"build", "stop", "start", "verify"} /\ worker.dir # NoDir =>
        \A n \in ItemsIn(Unpacked(worker.zip), worker.dir) : store[n] # Absent

\* "Deleting an app deletes its data" (README.md:342), so that an app that is given
\* the name of a deleted one would not find that one's files. It does not hold:
\* appdata.remove ignores what it cannot remove (Lingering), a deploy may be under
\* way (MayOverlap), and the launcher may go down during the deletion.
NewAppStartsEmpty == [][~ exists /\ exists' => store = NoStore]_vars

\* These files zipped in their folder, on a Mac: what it adds is there as well.
ZippedOnAMac(files) ==
    LET Packed(dir, f) == [dir |-> dir \o f.dir, name |-> f.name, text |-> f.text, kind |-> "regular"]
        added == {[dir |-> <<>>, name |-> ".DS_Store", text |-> "data"],
                  [dir |-> <<"__MACOSX">>, name |-> "._my-app", text |-> "data"]}
    IN  [readable |-> TRUE,
         members |-> {Packed(<<"my-app">>, f) : f \in files} \cup {Packed(<<>>, f) : f \in added}]

\* A ZIP of a project's folder is taken for the same app as a ZIP of its contents,
\* with the same settings, if the contents are not themselves one folder.
SameAppHoweverZipped ==
    worker.at # "idle" /\ ~ Unreadable(worker.zip) =>
        LET files == Unpacked(worker.zip)
        IN  (\A top \in TopEntries(files) : ~ IsWrapper(files, top)) =>
                Detect(Unpacked(ZippedOnAMac(files))) = Detect(files)
=============================================================================
