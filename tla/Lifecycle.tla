----------------------------- MODULE Lifecycle -----------------------------
(***************************************************************************)
(* The life of one app under the native runtime: its row and its deploy    *)
(* records in SQLite, its source tree, the processes the operating system  *)
(* runs for it, and every thread of the launcher that changes any of them: *)
(*                                                                         *)
(*   - build workers running run_deploy              (launcher/deployer.py) *)
(*   - request threads running the page's buttons    (launcher/app.py)      *)
(*   - the supervisor thread, which is also the main thread during startup  *)
(*                                                   (launcher/supervisor.py)*)
(*                                                                         *)
(* A thread keeps the row it read at its beginning, so what it does later  *)
(* may rest on a pid that is no longer the app's.  A step is what happens  *)
(* between two points where another thread can matter: one SQL statement,  *)
(* one kill, one spawn.  The launcher may be killed between any two steps; *)
(* the apps' processes live on, or die too if it is the machine that went. *)
(***************************************************************************)
EXTENDS Integers, Sequences, FiniteSets

CONSTANTS Workers,      \* build threads (MAX_CONCURRENT_BUILDS)
          Clients,      \* request threads
          Kinds,        \* what people upload: a subset of AllKinds
          Ops,          \* which buttons they press: a subset of AllOps
          MaxDeploys,   \* bound: deploy records ever created
          MaxIds,       \* bound: app rows ever created
          MaxPids,      \* bound: pids in use or remembered at one time
          MaxCrashes,   \* bound: times the launcher dies
          KEEP_VERSIONS,
          RESTARTS_BEFORE_GIVING_UP,
          MEMORY_STRIKES_BEFORE_RESTART,
          MayDie,       \* do running apps die by themselves?
          MayGrow,      \* do running apps exceed the memory limit?
          PidReuse,     \* are the pids of dead processes handed out again?
          IS_WINDOWS,   \* files in use cannot be removed
          Serial        \* TRUE: nobody begins anything while somebody is busy

\* "good" runs; "wants" runs too but declares a required setting; the rest
\* fail at one stage each: no readable ZIP, nothing detectable in it, a
\* failing install or build, a backend that exits as soon as it is started.
AllKinds == {"good", "wants", "garbled", "empty", "unbuildable", "dies"}
AllOps == {"upload", "replace_stop", "rollback", "stop", "start", "save",
           "remove", "delete", "restart_all"}

SUPERVISOR == "supervisor"
Threads    == Workers \cup Clients \cup {SUPERVISOR}

Deploys == 1 .. MaxDeploys
AppIds  == 1 .. MaxIds
Pids    == 1 .. MaxPids
None    == 0     \* no row, no pid, no deploy, no source tree, no kind known

ASSUME ConstantsOK ==
    /\ Kinds \subseteq AllKinds /\ Ops \subseteq AllOps
    /\ {MaxDeploys, MaxIds, MaxPids, MaxCrashes, KEEP_VERSIONS,
        RESTARTS_BEFORE_GIVING_UP, MEMORY_STRIKES_BEFORE_RESTART} \subseteq Nat
    /\ {MayDie, MayGrow, PidReuse, IS_WINDOWS, Serial} \subseteq BOOLEAN
    /\ SUPERVISOR \notin Workers \cup Clients
    /\ Workers \cap Clients = {}

VARIABLES
    app,       \* the row of the app's name, [id |-> None, ...] when there is none
    lastId,    \* the highest id the apps table has handed out
    deploy,    \* the deploys table: status, app and uploaded version by id
    kind,      \* what each uploaded version turns out to be
    zips,      \* uploaded versions whose ZIP is still on disk
    src,       \* the source tree: which version, and whether it is built
    proc,      \* the processes of the app: front server and backend as a pair
    queue,     \* deploys handed to the executor and not yet taken
    th,        \* what each thread is doing, and its locals
    attempts,  \* _restarts[app_id]
    strikes,   \* _strikes[app_id]
    launcher,  \* "down", "recovering", "restoring" or "up"
    crashes    \* how often the launcher has died

row      == <<app, lastId>>
records  == <<deploy, queue>>
files    == <<kind, zips, src>>
counters == <<attempts, strikes>>
host     == <<launcher, crashes>>

vars == <<row, records, files, proc, th, counters, host>>

-----------------------------------------------------------------------------
(* Values *)

NoRow       == [id |-> None, status |-> "new", pid |-> None,
                declared |-> FALSE, setting |-> FALSE]
NoDeploy    == [status |-> "unborn", app |-> None, version |-> None]
NoSource    == [version |-> None, built |-> FALSE]
NoProcess   == [state |-> "none", version |-> None, configured |-> FALSE]
IdleThread  == [at |-> "idle", op |-> "none", id |-> None, pid |-> None,
                d |-> None, new |-> None, swapped |-> FALSE]

\* A thread at the beginning of something, holding the app's row as it is now.
Holding(place, op) ==
    [IdleThread EXCEPT !.at = place, !.op = op, !.id = app.id, !.pid = app.pid]

Idle(t) == th[t].at = "idle"
Quiet   == \A t \in Threads : Idle(t)

\* May t begin something new?  Nothing in the code makes anybody wait for
\* anybody else here; Serial is for the runs that ask what holds if they do.
Free(t) == Idle(t) /\ launcher = "up" /\ (Serial => Quiet)

\* Mutant: restart_all forgets the lock.
Unlocked == TRUE

\* supervisor._lock: the health check and restart_all hold it throughout.
LockFree == \A t \in Threads : th[t].op \notin {"check", "restart_all"}

-----------------------------------------------------------------------------
(* Processes *)

\* native.is_running(front pid, marker): starting or serving, and still ours.
FrontAlive(p) == p \in Pids /\ proc[p].state \in {"starting", "up", "half"}

\* Front server and backend both; a half process has lost its backend.
BothAlive(p) == p \in Pids /\ proc[p].state \in {"starting", "up"}

\* A pid a stranger wears is not ours to kill: the marker is not on its
\* command line.
Ours(p) == FrontAlive(p)
Killed(p) == IF Ours(p) THEN [proc EXCEPT ![p] = NoProcess] ELSE proc

\* Somebody answers on the app's ports, which do not change between versions.
Answering == \E p \in Pids : proc[p].state = "up"

\* A pid nothing on the machine and nobody in the launcher refers to.
Unused(p) == /\ proc[p] = NoProcess /\ app.pid # p
             /\ \A t \in Threads : p \notin {th[t].pid, th[t].new}

\* native.start from the tree on disk; an interpreter that is not there is an
\* OSError, here the absence of a built tree.
CanSpawn == src.built
Spawned(p) == /\ Unused(p)
              /\ \A q \in Pids : Unused(q) => p <= q
              /\ proc' = [proc EXCEPT ![p] = [state |-> "starting", version |-> src.version,
                                              configured |-> app.setting]]

-----------------------------------------------------------------------------
(* The app's row and settings *)

\* db.update_app: an UPDATE of a row that is gone changes nothing.
UpdateApp(id, newRow) == app' = IF app.id = id THEN newRow ELSE app

With(status) == [app EXCEPT !.status = status]

\* db.missing_settings: the declared setting has no stored value.
Missing(id) == app.id = id /\ app.declared /\ ~app.setting

\* supervisor.stop: kill what the caller's copy of the row names, then clear
\* the pids of the row as it is now.
StopProcesses(t) == /\ proc' = Killed(th[t].pid)
                    /\ UpdateApp(th[t].id, [app EXCEPT !.pid = None])

DeploysOf(id)   == {d \in Deploys : deploy[d].app = id /\ deploy[d].status # "gone"}
IsNewest(d, id) == d \in DeploysOf(id) /\ \A e \in DeploysOf(id) : e <= d

SetDeploy(d, status) ==
    deploy' = IF deploy[d].status = "gone" THEN deploy
              ELSE [deploy EXCEPT ![d].status = status]

-----------------------------------------------------------------------------
(* The shapes most steps have: thread t is at one place, does one thing,    *)
(* and goes on to the next place; at "idle" it has forgotten its locals.   *)

At(t, place) == th[t].at = place

GoOn(t, next) == th' = [th EXCEPT ![t] = IF next = "idle" THEN IdleThread
                                         ELSE [@ EXCEPT !.at = next]]

\* Only decides where to go on.
Decides(t, next) == GoOn(t, next) /\ UNCHANGED <<row, records, files, proc, counters, host>>

\* Writes the app's row, which is given as it should be afterwards.
Writes(t, newRow, next) ==
    /\ UpdateApp(th[t].id, newRow)
    /\ GoOn(t, next)
    /\ UNCHANGED <<lastId, records, files, proc, counters, host>>

\* Writes the status of the deploy it is running.
Marks(w, status, next) ==
    /\ SetDeploy(th[w].d, status)
    /\ GoOn(w, next)
    /\ UNCHANGED <<row, queue, files, proc, counters, host>>

\* Calls supervisor.stop with its copy of the row; the pid it stopped is of no
\* use to it afterwards.
Stops(t, next) ==
    /\ StopProcesses(t)
    /\ th' = [th EXCEPT ![t] = IF next = "idle" THEN IdleThread
                              ELSE [@ EXCEPT !.at = next, !.pid = None]]
    /\ UNCHANGED <<lastId, records, files, counters, host>>

-----------------------------------------------------------------------------
Init == /\ app = NoRow
        /\ lastId = 0
        /\ deploy = [d \in Deploys |-> NoDeploy]
        /\ kind = [v \in Deploys |-> "unborn"]
        /\ zips = {}
        /\ src = NoSource
        /\ proc = [p \in Pids |-> NoProcess]
        /\ queue = << >>
        /\ th = [t \in Threads |-> IdleThread]
        /\ attempts = 0
        /\ strikes = 0
        /\ launcher = "up"
        /\ crashes = 0

-----------------------------------------------------------------------------
(* Requests that put a deploy on the executor's queue *)

\* db.create_deploy and deployer.enqueue: the next record, for version v.
IsNext(d) == /\ deploy[d].status = "unborn"
             /\ \A e \in Deploys : deploy[e].status = "unborn" => d <= e

Enqueue(id, v) == \E d \in Deploys :
    /\ IsNext(d)
    /\ deploy' = [deploy EXCEPT ![d] =
                    [status |-> "queued", app |-> id, version |-> IF v = None THEN d ELSE v]]
    /\ queue' = Append(queue, d)

\* A new ZIP is stored under a version number of its own.
StoreUpload == \E d \in Deploys, k \in Kinds :
    /\ IsNext(d)
    /\ kind' = [kind EXCEPT ![d] = k]
    /\ zips' = zips \cup {d}

MayRequest(op) == op \in Ops /\ launcher = "up" /\ (Serial => Quiet)

\* upload: the first ZIP of a name creates the app.
Upload ==
    /\ MayRequest("upload")
    /\ StoreUpload
    /\ \/ /\ app.id # None
          /\ Enqueue(app.id, None)
          /\ UNCHANGED row
       \/ /\ app.id = None /\ lastId < MaxIds
          /\ lastId' = lastId + 1
          /\ app' = [NoRow EXCEPT !.id = lastId + 1]
          /\ Enqueue(lastId + 1, None)
    /\ UNCHANGED <<src, proc, th, counters, host>>

\* replace_app with "stop the current version first": under the native
\* runtime the row has no container, so all that happens is the status.
ReplaceStop ==
    /\ MayRequest("replace_stop")
    /\ app.id # None
    /\ StoreUpload
    /\ Enqueue(app.id, None)
    /\ app' = [app EXCEPT !.status = "stopped"]
    /\ UNCHANGED <<lastId, src, proc, th, counters, host>>

\* rollback: deploy an earlier version again, if its ZIP is still there.
Rollback == \E d \in DeploysOf(app.id) :
    /\ MayRequest("rollback")
    /\ app.id # None
    /\ deploy[d].version \in zips
    /\ Enqueue(app.id, deploy[d].version)
    /\ UNCHANGED <<row, files, proc, th, counters, host>>

-----------------------------------------------------------------------------
(* run_deploy *)

\* Mutant: the record is not moved to "building".
TakeUnmarked(w) ==
    /\ Free(w)
    /\ queue # << >>
    /\ queue' = Tail(queue)
    /\ th' = [th EXCEPT ![w] = [Holding("mark", "deploy") EXCEPT !.d = Head(queue)]]
    /\ UNCHANGED <<deploy, row, files, proc, counters, host>>

\* The executor hands a deploy to a free worker, which reads the deploy and
\* the app and marks the deploy; a deploy whose app is gone is dropped.
Take(w) ==
    /\ Free(w)
    /\ queue # << >>
    /\ queue' = Tail(queue)
    /\ LET d == Head(queue) IN
       \/ /\ deploy[d].status = "gone"
          /\ UNCHANGED <<deploy, th>>
       \/ /\ deploy[d].status # "gone"
          /\ th' = [th EXCEPT ![w] = [Holding("mark", "deploy") EXCEPT !.d = d]]
          /\ SetDeploy(d, "building")
    /\ UNCHANGED <<row, files, proc, counters, host>>

\* Mutant: the word for a deploy is written to the app.
MarkQueued(w) == At(w, "mark") /\ Writes(w, With("queued"), "clear")

MarkBuilding(w) == At(w, "mark") /\ Writes(w, With("building"), "clear")

\* _clear_source_dir removes the old tree under the running version.
ClearSource(w) ==
    /\ At(w, "clear")
    /\ src' = NoSource
    /\ GoOn(w, "unpack")
    /\ UNCHANGED <<row, records, kind, zips, proc, counters, host>>

\* What remove_tree leaves of the tree if it stops at a file in use.
Leftovers == {src, [src EXCEPT !.built = FALSE], NoSource}

\* On Windows a file the running version has open keeps the tree from going:
\* stop it and try again.  It may not be the process the old row names.
ClearSourceBusy(w) ==
    /\ At(w, "clear")
    /\ IS_WINDOWS
    /\ \E p \in Pids : FrontAlive(p)
    /\ StopProcesses(w)
    /\ \/ /\ \A p \in Pids \ {th[w].pid} : ~FrontAlive(p)
          /\ src' = NoSource
          /\ GoOn(w, "unpack")
       \/ /\ \E p \in Pids \ {th[w].pid} : FrontAlive(p)
          /\ src' \in Leftovers
          /\ GoOn(w, "fail")
    /\ UNCHANGED <<lastId, records, kind, zips, counters, host>>

\* Mutant: the newest ZIP there is, also for a roll back.
NewestZip(w) == IF zips = {} THEN None ELSE CHOOSE v \in zips : \A u \in zips : u <= v

Version(w) == deploy[th[w].d].version

\* archive.extract and detect.detect, the tree as they leave it.
Unpack(w) ==
    /\ At(w, "unpack")
    /\ LET readable == Version(w) \in zips /\ kind[Version(w)] # "garbled" IN
       /\ src' = IF readable THEN [version |-> Version(w), built |-> FALSE] ELSE NoSource
       /\ GoOn(w, IF readable /\ kind[Version(w)] # "empty" THEN "declare" ELSE "fail")
    /\ UNCHANGED <<row, records, kind, zips, proc, counters, host>>

\* db.set_declared_settings, before the build.
Declare(w) ==
    /\ At(w, "declare")
    /\ Writes(w, [app EXCEPT !.declared = (kind[Version(w)] = "wants")], "build")

\* The localhost scan and native.prepare, whose commands are read until they close
\* their output, however long that takes.  If another worker has replaced the tree
\* meanwhile, what is built is what is there.
BuildFails(w) ==
    /\ At(w, "build")
    /\ Decides(w, "fail")
    /\ src.version = Version(w) => kind[src.version] = "unbuildable"

Build(w) ==
    /\ At(w, "build")
    /\ src.version # None /\ kind[src.version] \notin {"unbuildable", "empty"}
    /\ src' = [src EXCEPT !.built = TRUE]
    /\ GoOn(w, "check")
    /\ UNCHANGED <<row, records, kind, zips, proc, counters, host>>

\* Mutant: an app that waits for its settings already is not held again.
HoldOnce(w) ==
    /\ At(w, "check")
    /\ Decides(w, IF Missing(th[w].id) /\ app.status # "needs_setup" THEN "hold" ELSE "stop")

\* db.missing_settings decides between holding the deploy and starting it;
\* ports.allocate has no row to give a port to if the app was deleted.
CheckSettings(w) ==
    /\ At(w, "check")
    /\ Decides(w, IF Missing(th[w].id) THEN "hold"
                        ELSE IF app.id # th[w].id THEN "fail" ELSE "stop")

\* _hold_for_settings, the deploy and then the app.
Hold(w) == At(w, "hold") /\ Marks(w, "needs_setup", "hold_app")

HoldApp(w) ==
    /\ At(w, "hold_app")
    /\ Writes(w, With(IF FrontAlive(th[w].pid) THEN "live" ELSE "needs_setup"), "idle")

\* Mutant: the previous version is left running.
KeepPrevious(w) == At(w, "stop") /\ Decides(w, "spawn")

\* supervisor.stop(app) with the row read when the deploy began.
StopPrevious(w) == At(w, "stop") /\ Stops(w, "spawn")

StartNew(w) ==
    /\ At(w, "spawn")
    /\ \/ /\ CanSpawn
          /\ \E p \in Pids :
                /\ Spawned(p)
                /\ th' = [th EXCEPT ![w].at = "record", ![w].new = p, ![w].swapped = TRUE]
       \/ /\ ~CanSpawn
          /\ GoOn(w, "fail")
          /\ UNCHANGED proc
    /\ UNCHANGED <<row, records, files, counters, host>>

RecordNew(w) == At(w, "record") /\ Writes(w, [app EXCEPT !.pid = th[w].new], "verify")

\* Mutant: nobody counts the seconds.
VerifyForEver(w) == At(w, "verify") /\ Answering /\ Decides(w, "finish")

\* _verify_backend and _verify_http: any answer on the app's ports will do;
\* 45 seconds without one are a failure.
Verify(w) == At(w, "verify") /\ Decides(w, IF Answering THEN "finish" ELSE "fail_verify")

FinishDeploy(w) == At(w, "finish") /\ Marks(w, "live", "finish_app")

FinishApp(w) == At(w, "finish_app") /\ Writes(w, With("live"), "prune")

\* _prune_old_versions keeps the newest ZIPs; on Windows one that another
\* worker is unpacking cannot be unlinked, and the exception fails the deploy.
Stale == {v \in zips : Cardinality({u \in zips : u > v}) >= KEEP_VERSIONS}

Prune(w) ==
    /\ At(w, "prune")
    /\ zips' = zips \ Stale
    /\ GoOn(w, "idle")
    /\ UNCHANGED <<row, records, kind, src, proc, counters, host>>

PruneRefused(w) ==
    /\ IS_WINDOWS
    /\ \E other \in Workers \ {w} : At(other, "unpack") /\ Version(other) \in Stale
    /\ At(w, "prune")
    /\ Decides(w, "fail")

\* _fail, from the handlers of run_deploy or after an early failure ...
Fail(w) == At(w, "fail") /\ Marks(w, "failed", "fail_app")

\* ... or because nothing answered: then the new version is stopped too, as
\* the row names it now.
FailVerify(w) == At(w, "fail_verify") /\ Marks(w, "failed", "fail_stop")

FailStop(w) ==
    /\ At(w, "fail_stop")
    /\ IF app.id = th[w].id
       THEN proc' = Killed(app.pid) /\ app' = [app EXCEPT !.pid = None]
       ELSE UNCHANGED <<app, proc>>
    /\ GoOn(w, "fail_app")
    /\ UNCHANGED <<lastId, records, files, counters, host>>

\* _apply_failure_status: until the swap the previous version may still serve.
FailApp(w) ==
    /\ At(w, "fail_app")
    /\ LET stillServing == ~th[w].swapped /\ FrontAlive(th[w].pid)
       IN  Writes(w, With(IF stillServing THEN "live" ELSE "failed"), "idle")

RunDeploy(w) ==
    \/ Take(w) \/ MarkBuilding(w)
    \/ ClearSource(w) \/ ClearSourceBusy(w) \/ Unpack(w)
    \/ Declare(w) \/ BuildFails(w) \/ Build(w)
    \/ CheckSettings(w) \/ Hold(w) \/ HoldApp(w)
    \/ StopPrevious(w) \/ StartNew(w) \/ RecordNew(w) \/ Verify(w)
    \/ FinishDeploy(w) \/ FinishApp(w) \/ Prune(w) \/ PruneRefused(w)
    \/ Fail(w) \/ FailVerify(w) \/ FailStop(w) \/ FailApp(w)

-----------------------------------------------------------------------------
(* supervisor.launch, called by requests, by the health check, by          *)
(* restart_all and at startup; what the caller does next depends on which. *)

\* Whether launch was refused, succeeded or raised, the caller goes on.
AfterRefusal(op) == IF op = "refresh" THEN "settle" ELSE "idle"
AfterStart(op)   == IF op \in {"setup", "refresh"} THEN "settle" ELSE "idle"
AfterRaise(op)   == IF op \in {"restart_all", "restore"} THEN "launch_failed" ELSE "idle"

\* Nothing to start from: no tree, or nothing detectable in it.
NoApp == src.version # None => kind[src.version] = "empty"

LaunchFailed(t) ==
    /\ At(t, "launch")
    /\ NoApp
    /\ Writes(t, With("failed"), AfterRefusal(th[t].op))

LaunchHeld(t) ==
    /\ ~NoApp /\ Missing(th[t].id)
    /\ At(t, "launch")
    /\ Writes(t, With("needs_setup"), AfterRefusal(th[t].op))

\* Mutant: the settings are not looked at again.
LaunchUnasked(t) ==
    /\ At(t, "launch")
    /\ ~NoApp
    /\ Stops(t, "launch_spawn")

LaunchStops(t) ==
    /\ ~NoApp /\ ~Missing(th[t].id)
    /\ At(t, "launch")
    /\ Stops(t, "launch_spawn")

\* ports.allocate raises if the app is gone, native.start if there is no
\* built tree to start from.
LaunchSpawns(t) ==
    /\ At(t, "launch_spawn")
    /\ app.id = th[t].id /\ CanSpawn
    /\ \E p \in Pids :
          /\ Spawned(p)
          /\ th' = [th EXCEPT ![t].at = "launch_record", ![t].new = p]
    /\ UNCHANGED <<row, records, files, counters, host>>

LaunchRaises(t) ==
    /\ ~(app.id = th[t].id /\ CanSpawn)
    /\ At(t, "launch_spawn")
    /\ Decides(t, AfterRaise(th[t].op))

LaunchRecords(t) ==
    /\ At(t, "launch_record")
    /\ UpdateApp(th[t].id, [app EXCEPT !.status = "live", !.pid = th[t].new])
    /\ attempts' = 0
    /\ strikes' = 0
    /\ GoOn(t, AfterStart(th[t].op))
    /\ UNCHANGED <<lastId, records, files, proc, host>>

\* restart_all and restore_on_startup catch whatever launch raises.
LaunchCaught(t) == At(t, "launch_failed") /\ Writes(t, With("failed"), "idle")

Launch(t) == \/ LaunchFailed(t) \/ LaunchHeld(t) \/ LaunchStops(t) \/ LaunchSpawns(t)
             \/ LaunchRaises(t) \/ LaunchRecords(t) \/ LaunchCaught(t)

-----------------------------------------------------------------------------
(* The buttons of an app's page.  A request that finds no app is a 404.    *)

MayPress(c, op) == Free(c) /\ op \in Ops /\ app.id # None

\* The request holds the row it read, changes it, and goes on.
Pressed(c, op, newRow, place) ==
    /\ app' = newRow
    /\ th' = [th EXCEPT ![c] = Holding(place, op)]
    /\ UNCHANGED <<lastId, records, files, proc, counters, host>>

\* stop_app: the status first, so that the supervisor leaves the app alone.
Stop(c) == MayPress(c, "stop") /\ Pressed(c, "stop", With("stopped"), "stop_kill")

\* Mutant: the pids are cleared, the processes stay.
StopForgets(c) == At(c, "stop_kill") /\ Writes(c, [app EXCEPT !.pid = None], "idle")

StopKills(c) == At(c, "stop_kill") /\ Stops(c, "idle")

\* start_app
Start(c) == MayPress(c, "start") /\ Pressed(c, "start", app, "launch")

\* save_setting and fill_settings store, remove_setting deletes; then all
\* three bring the app into line.
SaveSetting(c) ==
    /\ MayPress(c, "save")
    /\ Pressed(c, "save", [app EXCEPT !.setting = TRUE], "apply")

RemoveSetting(c) ==
    /\ MayPress(c, "remove")
    /\ Pressed(c, "remove", [app EXCEPT !.setting = FALSE], "apply")

\* _apply_settings_change with a fresh row: start what was waiting, restart
\* what is live, stop what has lost a setting it declared.
ApplySettings(c) ==
    /\ At(c, "apply")
    /\ LET waits == app.status = "needs_setup" /\ ~Missing(app.id)
           runs  == app.status = "live" /\ ~Missing(app.id)
           lacks == app.status = "live" /\ Missing(app.id)
       IN th' = [th EXCEPT ![c] = CASE app.id # None /\ waits -> Holding("launch", "setup")
                                    [] app.id # None /\ runs  -> Holding("launch", "refresh")
                                    [] app.id # None /\ lacks -> Holding("withdraw", "remove")
                                    [] OTHER -> IdleThread]
    /\ UNCHANGED <<row, records, files, proc, counters, host>>

Withdraw(c) == At(c, "withdraw") /\ Stops(c, "withdraw_app")

WithdrawApp(c) == At(c, "withdraw_app") /\ Writes(c, With("needs_setup"), "idle")

\* Mutant: every deploy that was waiting.
SettleAll(c) ==
    /\ At(c, "settle")
    /\ deploy' = [d \in Deploys |->
                    IF d \in DeploysOf(th[c].id) /\ deploy[d].status = "needs_setup"
                    THEN [deploy[d] EXCEPT !.status = "live"] ELSE deploy[d]]
    /\ GoOn(c, "idle")
    /\ UNCHANGED <<row, queue, files, proc, counters, host>>

\* _settle_held_deploy: the newest deploy, if it is the one that was waiting.
Settle(c) ==
    /\ At(c, "settle")
    /\ deploy' = [d \in Deploys |->
                    IF IsNewest(d, th[c].id) /\ deploy[d].status = "needs_setup"
                    THEN [deploy[d] EXCEPT !.status = "live"] ELSE deploy[d]]
    /\ GoOn(c, "idle")
    /\ UNCHANGED <<row, queue, files, proc, counters, host>>

\* restart_all, from the Server tab.
RestartAll(c) ==
    /\ MayPress(c, "restart_all")
    /\ LockFree /\ app.status = "live"
    /\ Pressed(c, "restart_all", app, "launch")

\* delete_app: status, processes, ports and row (ON DELETE CASCADE takes the
\* deploys), and at last the files.
Delete(c) == MayPress(c, "delete") /\ Pressed(c, "delete", With("stopped"), "delete_kill")

DeleteKills(c) == At(c, "delete_kill") /\ Stops(c, "delete_row")

DeleteRow(c) ==
    /\ At(c, "delete_row")
    /\ UpdateApp(th[c].id, NoRow)
    /\ deploy' = [d \in Deploys |-> IF deploy[d].app = th[c].id
                                    THEN [deploy[d] EXCEPT !.status = "gone"] ELSE deploy[d]]
    /\ GoOn(c, "delete_files")
    /\ UNCHANGED <<lastId, queue, files, proc, counters, host>>

DeleteFiles(c) ==
    /\ At(c, "delete_files")
    /\ src' = NoSource
    /\ zips' = {}
    /\ GoOn(c, "idle")
    /\ UNCHANGED <<row, records, kind, proc, counters, host>>

Press(c) == \/ Stop(c) \/ Start(c) \/ SaveSetting(c) \/ RemoveSetting(c)
            \/ RestartAll(c) \/ Delete(c)

Serve(c) == \/ StopKills(c) \/ ApplySettings(c) \/ Withdraw(c) \/ WithdrawApp(c)
            \/ Settle(c) \/ DeleteKills(c) \/ DeleteRow(c) \/ DeleteFiles(c)
            \/ Launch(c)

-----------------------------------------------------------------------------
(* check_once, under the supervisor's lock *)

MayCheck == Free(SUPERVISOR) /\ LockFree /\ app.status = "live"

\* The pass begins with the rows as they are now.
Look ==
    /\ MayCheck
    /\ th' = [th EXCEPT ![SUPERVISOR] = Holding("look", "check")]
    /\ UNCHANGED <<row, records, files, proc, counters, host>>

\* Mutant: a dead backend behind a live front server goes unnoticed.
CheckFront ==
    /\ At(SUPERVISOR, "look")
    /\ Decides(SUPERVISOR, IF FrontAlive(th[SUPERVISOR].pid) THEN "idle" ELSE "launch")

\* The app is down: start it again, unless that was tried too often already.
CheckDead ==
    /\ At(SUPERVISOR, "look")
    /\ ~BothAlive(th[SUPERVISOR].pid)
    /\ GoOn(SUPERVISOR, IF attempts + 1 > RESTARTS_BEFORE_GIVING_UP THEN "give_up" ELSE "launch")
    /\ attempts' = attempts + 1
    /\ UNCHANGED <<row, records, files, proc, strikes, host>>

GiveUp == At(SUPERVISOR, "give_up") /\ Stops(SUPERVISOR, "give_up_app")

GiveUpApp ==
    /\ At(SUPERVISOR, "give_up_app")
    /\ UpdateApp(th[SUPERVISOR].id, With("failed"))
    /\ attempts' = 0
    /\ GoOn(SUPERVISOR, "idle")
    /\ UNCHANGED <<lastId, records, files, proc, strikes, host>>

\* It is up and within its memory: whatever went wrong is behind it.
CheckHealthy ==
    /\ At(SUPERVISOR, "look")
    /\ BothAlive(th[SUPERVISOR].pid)
    /\ attempts' = 0
    /\ strikes' = 0
    /\ GoOn(SUPERVISOR, "idle")
    /\ UNCHANGED <<row, records, files, proc, host>>

\* It is up and over the limit: one more strike, and at last a restart.
CheckHeavy ==
    /\ At(SUPERVISOR, "look")
    /\ MayGrow
    /\ BothAlive(th[SUPERVISOR].pid)
    /\ attempts' = 0
    /\ strikes' = strikes + 1
    /\ GoOn(SUPERVISOR, IF strikes + 1 >= MEMORY_STRIKES_BEFORE_RESTART THEN "launch" ELSE "idle")
    /\ UNCHANGED <<row, records, files, proc, host>>

Supervise == \/ Look \/ CheckDead \/ CheckHealthy \/ CheckHeavy \/ GiveUp \/ GiveUpApp
             \/ Launch(SUPERVISOR)

-----------------------------------------------------------------------------
(* The launcher dies and comes back: restore_on_startup *)

Crash ==
    /\ launcher # "down" /\ crashes < MaxCrashes
    /\ crashes' = crashes + 1
    /\ launcher' = "down"
    /\ queue' = << >>
    /\ th' = [t \in Threads |-> IdleThread]
    /\ attempts' = 0
    /\ strikes' = 0
    /\ \/ UNCHANGED proc                               \* only the launcher
       \/ proc' = [p \in Pids |-> NoProcess]           \* the whole machine
    /\ UNCHANGED <<row, deploy, files>>

Boot ==
    /\ launcher = "down"
    /\ launcher' = "recovering"
    /\ UNCHANGED <<row, records, files, proc, th, counters, crashes>>

\* Mutant: what was still queued is overlooked.
UnfinishedBuilds == {d \in Deploys : deploy[d].status = "building"}

Unfinished == {d \in Deploys : deploy[d].status \in {"queued", "building"}}

\* recover_interrupted_deploys, one deploy at a time: the deploy first ...
RecoverDeploy ==
    /\ launcher = "recovering" /\ Idle(SUPERVISOR)
    /\ \E d \in Unfinished :
          /\ \A e \in Unfinished : d <= e
          /\ SetDeploy(d, "failed")
    /\ th' = [th EXCEPT ![SUPERVISOR] = Holding("recover_app", "recover")]
    /\ UNCHANGED <<row, queue, files, proc, counters, host>>

\* ... then the app, if it shows that deploy.
RecoverApp ==
    /\ At(SUPERVISOR, "recover_app")
    /\ LET shown == app.status \in {"building", "new"}
       IN  Writes(SUPERVISOR,
                  IF shown THEN With(IF BothAlive(app.pid) THEN "live" ELSE "failed") ELSE app,
                  "idle")

\* Then the app itself: what was live and did not survive is launched.
Restore ==
    /\ launcher = "recovering" /\ Idle(SUPERVISOR) /\ Unfinished = {}
    /\ IF app.id # None /\ app.status = "live" /\ ~BothAlive(app.pid)
       THEN th' = [th EXCEPT ![SUPERVISOR] = Holding("launch", "restore")]
       ELSE UNCHANGED th
    /\ launcher' = "restoring"
    /\ UNCHANGED <<row, records, files, proc, counters, crashes>>

Ready ==
    /\ launcher = "restoring" /\ Idle(SUPERVISOR)
    /\ launcher' = "up"
    /\ UNCHANGED <<row, records, files, proc, th, counters, crashes>>

Recover == Boot \/ RecoverDeploy \/ RecoverApp \/ Restore \/ Ready

-----------------------------------------------------------------------------
(* What the operating system and the app's own code do *)

OnlyProc == UNCHANGED <<row, records, files, th, counters, host>>

\* A process comes up.  If another version holds the ports it exits; if its
\* code is broken the backend exits and only the front server is left.
ComesUp(p) ==
    /\ proc[p].state = "starting"
    /\ proc' = [proc EXCEPT ![p] =
                  IF \E q \in Pids : proc[q].state \in {"up", "half"} THEN NoProcess
                  ELSE [@ EXCEPT !.state = IF kind[proc[p].version] = "dies" THEN "half" ELSE "up"]]
    /\ OnlyProc

\* The backend of a serving app dies, or both halves do.
Dies(p) ==
    /\ MayDie
    /\ proc[p].state \in {"up", "half"}
    /\ \/ proc[p].state = "up" /\ proc' = [proc EXCEPT ![p].state = "half"]
       \/ proc' = [proc EXCEPT ![p] = NoProcess]
    /\ OnlyProc

\* A number the row still names goes to a program of somebody else (bound: to
\* one at a time).
Reused(p) ==
    /\ PidReuse
    /\ \A q \in Pids : proc[q].state # "stranger"
    /\ proc[p] = NoProcess /\ app.pid = p
    /\ proc' = [proc EXCEPT ![p] = [NoProcess EXCEPT !.state = "stranger"]]
    /\ OnlyProc

StrangerExits(p) ==
    /\ proc[p].state = "stranger"
    /\ proc' = [proc EXCEPT ![p] = NoProcess]
    /\ OnlyProc

Environment == \E p \in Pids : ComesUp(p) \/ Dies(p) \/ Reused(p) \/ StrangerExits(p)

-----------------------------------------------------------------------------
Next == \/ Upload \/ ReplaceStop \/ Rollback
        \/ \E w \in Workers : RunDeploy(w)
        \/ \E c \in Clients : Press(c) \/ Serve(c)
        \/ Supervise
        \/ Crash \/ Recover
        \/ Environment

Spec == Init /\ [][Next]_vars

\* Threads are scheduled, a check has a timeout, a process that was started comes
\* up or exits, and whatever starts the launcher starts it again.  A build ends
\* when its commands close their output: the timeout starts only then, so it need
\* not end.  Nobody is obliged to press a button, and nothing is obliged to fail.
Fairness == /\ \A w \in Workers : WF_vars(~At(w, "build") /\ RunDeploy(w))
            /\ \A c \in Clients : WF_vars(Serve(c))
            /\ WF_vars(Supervise)
            /\ WF_vars(Recover)
            /\ \A p \in Pids : WF_vars(ComesUp(p))

FairSpec == Spec /\ Fairness

-----------------------------------------------------------------------------
(* Properties *)

AppStatus == {"new", "building", "live", "failed", "stopped", "needs_setup"}
DeployStatus == {"unborn", "queued", "building", "live", "failed", "needs_setup", "gone"}
WorkerPlaces == {"mark", "clear", "unpack", "declare", "build", "check", "hold",
                 "hold_app", "stop", "spawn", "record", "verify", "finish",
                 "finish_app", "prune", "fail", "fail_verify", "fail_stop", "fail_app"}
LaunchPlaces == {"launch", "launch_spawn", "launch_record", "launch_failed"}
OtherPlaces == {"idle", "stop_kill", "apply", "withdraw", "withdraw_app", "settle",
                "delete_kill", "delete_row", "delete_files", "look", "give_up", "give_up_app",
                "recover_app"}
ThreadOps == {"none", "deploy", "setup", "refresh", "check", "restore", "recover"} \cup AllOps

\* Type invariant.
TypeOK ==
    /\ app \in [id : {None} \cup AppIds, status : AppStatus, pid : {None} \cup Pids,
                declared : BOOLEAN, setting : BOOLEAN]
    /\ lastId \in 0 .. MaxIds
    /\ deploy \in [Deploys -> [status : DeployStatus, app : {None} \cup AppIds,
                               version : {None} \cup Deploys]]
    /\ kind \in [Deploys -> {"unborn"} \cup Kinds]
    /\ zips \subseteq Deploys
    /\ src \in [version : {None} \cup Deploys, built : BOOLEAN]
    /\ proc \in [Pids -> [state : {"none", "starting", "up", "half", "stranger"},
                          version : {None} \cup Deploys, configured : BOOLEAN]]
    /\ queue \in Seq(Deploys)
    /\ th \in [Threads -> [at : WorkerPlaces \cup LaunchPlaces \cup OtherPlaces,
                           op : ThreadOps, id : {None} \cup AppIds,
                           pid : {None} \cup Pids, d : {None} \cup Deploys,
                           new : {None} \cup Pids, swapped : BOOLEAN]]
    /\ attempts \in 0 .. RESTARTS_BEFORE_GIVING_UP + 1
    /\ strikes \in Nat
    /\ launcher \in {"down", "recovering", "restoring", "up"}
    /\ crashes \in Nat

\* The deploys table keeps the promise of DeployRecord, through concurrent
\* workers, settings that arrive late, deletions, and launcher crashes.
Record == INSTANCE DeployRecord WITH status <- [d \in Deploys |-> deploy[d].status],
                                     CleanUpCanFail <- IS_WINDOWS
ImplementsRecord == Record!Spec

\* A worker that has not yet written the last word on its deploy.
Building(w) == th[w].at \in WorkerPlaces \ {"finish_app", "prune", "hold_app",
                                             "fail_stop", "fail_app"}

\* While the launcher is up, every unfinished deploy is somebody's: a queued
\* one is waiting in the executor, once, and a building one is being built by
\* exactly one worker.  None is left behind by a crash, and none is built
\* twice (supervisor.py:278, "Resolve deploys that were still building").
UnfinishedHasOwner ==
    launcher = "up" => \A d \in Deploys :
        /\ deploy[d].status = "queued" =>
              /\ \E i \in DOMAIN queue : queue[i] = d
              /\ \A i, j \in DOMAIN queue : queue[i] = d /\ queue[j] = d => i = j
        /\ deploy[d].status = "building" =>
              /\ \E w \in Workers : Building(w) /\ th[w].d = d
              /\ \A u, w \in Workers : Building(u) /\ th[u].d = d /\ Building(w) /\ th[w].d = d
                                       => u = w

\* An app that shows "building" is being built: somebody will write another
\* status (supervisor.py:281, "left alone they stay building forever").
BuildingHasWorker ==
    launcher = "up" /\ app.id # None /\ app.status = "building" =>
        \E w \in Workers : th[w].at \in WorkerPlaces \ {"mark", "prune"} /\ th[w].id = app.id

-----------------------------------------------------------------------------
(* What a person sees when nobody is busy                                   *)

Running == {p \in Pids : FrontAlive(p)}
Rest    == launcher = "up" /\ Quiet

\* The launcher knows every process it has started: once everybody is done,
\* the only one left is the one the row names, and a deleted app has none.
NothingForgotten == Rest => Running \subseteq {app.pid}

\* An app that says it is stopped is down, unless a deploy is queued for it: "Stop
\* the current version first" writes the status and leaves it to the deploy to take
\* the version down, when it starts its own (app.py:582).
StoppedIsDown ==
    Rest /\ app.status = "stopped" =>
        Running = {} \/ \E d \in Deploys : deploy[d].status = "queued"

\* What a live deploy record says is what people get: if the newest deploy is
\* live and the app serves, it serves that deploy's version (never an older
\* one that a restart, a hold or a failed upload left behind).
NewestServes ==
    Rest /\ app.status = "live" /\ FrontAlive(app.pid) =>
        \A d \in Deploys : IsNewest(d, app.id) /\ deploy[d].status = "live"
                             => proc[app.pid].version = deploy[d].version

\* "An app is never running in a half-configured state" (README.md:299): no
\* process of a version that requires a setting was started without it ...
NeverHalfConfigured ==
    \A p \in Running : kind[proc[p].version] = "wants" => proc[p].configured

\* ... and none that shows as live goes on without it once it is taken away
\* (app.py:923, "in which case it stops").
LiveKeepsItsSetting ==
    Rest /\ app.status = "live" /\ FrontAlive(app.pid) =>
        (kind[proc[app.pid].version] = "wants" => app.setting)

\* A deploy is called live only when what was started last is its version: not
\* when an older one still runs, nor when the start was refused (app.py:886, "now
\* that the app has started"; deployer.py:308, "Prove it actually serves traffic").
\* The process may have died since.
LiveIsItsOwn ==
    [][\A d \in Deploys :
          deploy[d].status # "live" /\ deploy'[d].status = "live" =>
              app.pid \in Pids /\ proc[app.pid].version \in {None, deploy[d].version}]_vars

\* Whatever dies and whoever restarts it, the app never runs twice
\* (supervisor.py:115, "decide it has died and start a second copy").
AtMostOneCopy == crashes = 0 => \A p, q \in Running : p = q

-----------------------------------------------------------------------------
(* Claims of the code and its documents that do not hold                    *)

\* Ticking "Stop the current version first" "takes it down first, which is what you
\* want when the old and new versions cannot both hold the same resource"
\* (app.py:569): an app that shows as stopped is down when its next version is built.
ReplacedIsDown ==
    Rest /\ app.status = "stopped" => Running = {}

\* "A stopped app stays stopped - somebody stopped it on purpose, and a button
\* somewhere else is not allowed to undo that" (supervisor.py:110).
StopSticks ==
    [][app.status = "stopped" /\ app'.status = "live" =>
          \E t \in Threads : th[t].op \in {"start", "deploy"} /\ th'[t] # th[t]]_vars

\* "... swapped out only once the new one is proven to answer HTTP - so a
\* broken upload cannot take a working dashboard offline" (README.md:37): where
\* nobody stops the app and nothing dies by itself, an app that once went live
\* has a version running.
BrokenUploadKeepsServing ==
    Rest /\ (\E d \in Deploys : deploy[d].status = "live") => Running # {}

-----------------------------------------------------------------------------
(* What must eventually happen                                              *)

\* Every deploy that was accepted ends, in whatever way, unless a build hangs for
\* ever: an app that never answers, a deletion or a launcher that dies under it do
\* not leave it "building" (PIPELINE.md:178).
BuildsEnd == \A w \in Workers : []<>~At(w, "build")

DeployEnds ==
    BuildsEnd =>
        \A d \in Deploys :
            deploy[d].status \in {"queued", "building"} ~>
                deploy[d].status \in {"live", "failed", "needs_setup", "gone"}

\* An app that shows as live while half of it or all of it is dead is started
\* again, or stops showing as live (supervisor.py:1).
DeadIsNoticed ==
    app.status = "live" /\ ~BothAlive(app.pid) ~>
        app.status # "live" \/ \E p \in Pids : BothAlive(p)

\* "How many times in a row the supervisor will restart an app that dies again
\* straight away before it accepts the app is broken and stops" (config.py:80).
GivesUp ==
    app.status = "live" /\ src.version # None /\ kind[src.version] = "dies" ~>
        app.status # "live"
=============================================================================
