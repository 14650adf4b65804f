----------------------------- MODULE Containers -----------------------------
(***************************************************************************)
(* One app under LAUNCHER_RUNTIME=docker: its row, its deploys, and the    *)
(* container of its name, changed by                                       *)
(*                                                                         *)
(*   - build workers, the docker half of run_deploy   (launcher/deployer.py) *)
(*   - request threads, the buttons of its page       (launcher/app.py)      *)
(*   - the Docker daemon, which restarts what exits and may be restarted     *)
(*     itself                                         (launcher/runtime.py)  *)
(*                                                                         *)
(* Neither the supervisor nor the recovery of interrupted deploys runs     *)
(* under this runtime (app.py:39).  Every container the launcher starts    *)
(* for the app has the app's name, and Docker gives a name to one container *)
(* at a time, so one record stands for it.  A container is known by the    *)
(* deploy it was started for, as its image is.                             *)
(***************************************************************************)
EXTENDS Integers, Sequences

CONSTANTS Workers,      \* build threads (MAX_CONCURRENT_BUILDS)
          Clients,      \* request threads
          Kinds,        \* what people upload: a subset of AllKinds
          Ops,          \* which buttons they press: a subset of AllOps
          MaxDeploys,   \* bound: deploys ever queued
          MaxIds,       \* bound: app rows ever created
          MaxCrashes,   \* bound: times the launcher dies
          MaxOutages,   \* bound: times the daemon is restarted
          OutageAnyTime \* may the daemon be away while somebody needs it?

\* "good" serves; "wants" serves too but declares a required setting; "dies"
\* exits as soon as it is started; "refused" is built but its docker run fails
\* after the container was created, for its port is in use on the host.
AllKinds == {"good", "wants", "dies", "refused", "unbuildable"}
AllOps   == {"upload", "replace_stop", "stop", "start", "save", "remove", "delete"}

Threads == Workers \cup Clients
Deploys == 1 .. MaxDeploys
None    == 0

ASSUME ConstantsOK ==
    /\ Kinds \subseteq AllKinds /\ Ops \subseteq AllOps
    /\ {MaxDeploys, MaxIds, MaxCrashes, MaxOutages} \subseteq Nat
    /\ OutageAnyTime \in BOOLEAN
    /\ Workers \cap Clients = {}

VARIABLES
    app,      \* the row of the app's name, [id |-> None, ...] when there is none
    lastId,   \* the highest id the apps table has handed out
    deploy,   \* the deploys table by id; gone: its app was deleted
    box,      \* the container of the app's name, and the deploy it is for
    images,   \* the deploys whose image is on the machine
    daemon,   \* "up" or "down"
    outages,  \* how often the daemon has gone down
    queue,    \* deploys handed to the executor and not yet taken
    th,       \* what each thread is doing, and its locals
    crashes,  \* how often the launcher has died
    met       \* two threads have been busy with the app at the same time, the
              \* launcher has died in the middle of a button, or docker run or a
              \* command of a button has passed its timeout

row    == <<app, lastId>>
docker == <<box, images>>
host   == <<daemon, outages, crashes>>
vars   == <<row, deploy, docker, host, queue, th, met>>

-----------------------------------------------------------------------------
(* Values *)

NoRow      == [id |-> None, status |-> "new", cid |-> None, image |-> None,
               declared |-> FALSE, setting |-> FALSE]
NoDeploy   == [status |-> "unborn", app |-> None, kind |-> "none", gone |-> FALSE]
NoBox      == [cid |-> None, state |-> "none"]
IdleThread == [at |-> "idle", id |-> None, cid |-> None, image |-> None,
               d |-> None, swapped |-> FALSE]

\* A thread at the beginning of something, holding the app's row as it is now.
Holding(place) == [IdleThread EXCEPT !.at = place, !.id = app.id, !.cid = app.cid,
                                     !.image = app.image]

At(t, place) == th[t].at = place
Quiet        == \A t \in Threads : At(t, "idle")

GoOn(t, next) == th' = [th EXCEPT ![t] = IF next = "idle" THEN IdleThread
                                         ELSE [@ EXCEPT !.at = next]]

With(status) == [app EXCEPT !.status = status]

\* db.update_app, of a row that may be gone, by a thread that then goes on.
Writes(t, newRow, next) ==
    /\ app' = IF app.id = th[t].id THEN newRow ELSE app
    /\ GoOn(t, next)
    /\ UNCHANGED <<lastId, deploy, docker, host, queue>>

\* A statement about a deploy whose row is gone changes nothing.
SetDeploy(d, status) == deploy' = IF deploy[d].gone THEN deploy
                                  ELSE [deploy EXCEPT ![d].status = status]

Marks(w, status, next) ==
    /\ SetDeploy(th[w].d, status)
    /\ GoOn(w, next)
    /\ UNCHANGED <<row, docker, host, queue>>

Missing(id) == app.id = id /\ app.declared /\ ~app.setting

-----------------------------------------------------------------------------
(* Docker commands (launcher/runtime.py).  Without a daemon, or for a       *)
(* container that is gone, a command fails and changes nothing; the code    *)
(* ignores that except where it says otherwise.                             *)

Reached(cid) == daemon = "up" /\ box # NoBox /\ box.cid = cid

Commanded(cid, changed) == box' = IF Reached(cid) THEN changed ELSE box

\* A container that was never started stays as it was created.
DockerStop(cid) ==
    Commanded(cid, IF box.state = "created" THEN box ELSE [box EXCEPT !.state = "stopped"])

DockerRm(cid)    == Commanded(cid, NoBox)
DockerStart(cid) == Commanded(cid, [box EXCEPT !.state = "running"])

\* container_state(cid) = "running"; a container between two attempts to stay
\* up is "restarting".
IsServing(cid) == Reached(cid) /\ box.state = "running"

\* A docker command and nothing else, by a thread that then goes on.
Runs(t, command, next) ==
    /\ command
    /\ GoOn(t, next)
    /\ UNCHANGED <<row, deploy, images, host, queue>>

\* Somebody answers on the app's port.
Answering == daemon = "up" /\ box.state = "running" /\ deploy[box.cid].kind # "dies"

-----------------------------------------------------------------------------
Init == /\ app = NoRow
        /\ lastId = 0
        /\ deploy = [d \in Deploys |-> NoDeploy]
        /\ box = NoBox
        /\ images = {}
        /\ daemon = "up"
        /\ outages = 0
        /\ queue = << >>
        /\ th = [t \in Threads |-> IdleThread]
        /\ crashes = 0
        /\ met = FALSE

-----------------------------------------------------------------------------
(* Requests that put a deploy on the executor's queue *)

Enqueue(id) == \E d \in Deploys, k \in Kinds :
    /\ deploy[d].status = "unborn"
    /\ \A e \in Deploys : deploy[e].status = "unborn" => d <= e
    /\ deploy' = [deploy EXCEPT ![d] = [NoDeploy EXCEPT !.status = "queued", !.app = id,
                                                        !.kind = k]]
    /\ queue' = Append(queue, d)

\* upload, of a new name or of one that is there.
Upload ==
    /\ "upload" \in Ops
    /\ \/ /\ app.id # None
          /\ Enqueue(app.id)
          /\ UNCHANGED row
       \/ /\ app.id = None /\ lastId < MaxIds
          /\ Enqueue(lastId + 1)
          /\ lastId' = lastId + 1
          /\ app' = [NoRow EXCEPT !.id = lastId + 1]
    /\ UNCHANGED <<docker, host, th>>

\* A request that found the app's row.
MayPress(c, op) == At(c, "idle") /\ op \in Ops /\ app.id # None

Pressed(c, newRow, place) ==
    /\ app' = newRow
    /\ th' = [th EXCEPT ![c] = Holding(place)]
    /\ UNCHANGED <<lastId, deploy, docker, host, queue>>

\* replace_app with "stop the current version first"; the row was read before
\* the ZIP was streamed in.
Replace(c)       == MayPress(c, "replace_stop") /\ Pressed(c, app, "replace")
ReplaceStops(c)  == At(c, "replace") /\ Runs(c, DockerStop(th[c].cid), "replace_status")
ReplaceStatus(c) == At(c, "replace_status") /\ Writes(c, With("stopped"), "replace_queue")

\* The deploys table refuses a deploy of an app that is gone.
ReplaceQueues(c) ==
    /\ At(c, "replace_queue")
    /\ IF app.id = th[c].id THEN Enqueue(app.id) ELSE UNCHANGED <<deploy, queue>>
    /\ GoOn(c, "idle")
    /\ UNCHANGED <<row, docker, host>>

-----------------------------------------------------------------------------
(* run_deploy *)

Take(w) ==
    /\ At(w, "idle")
    /\ queue # << >>
    /\ queue' = Tail(queue)
    /\ LET d == Head(queue) IN
       \/ deploy[d].gone /\ UNCHANGED <<deploy, th>>
       \/ /\ ~deploy[d].gone
          /\ th' = [th EXCEPT ![w] = [Holding("mark") EXCEPT !.d = d]]
          /\ SetDeploy(d, "building")
    /\ UNCHANGED <<row, docker, host>>

MarkBuilding(w) == At(w, "mark") /\ Writes(w, With("building"), "clear")

Kind(w) == deploy[th[w].d].kind

\* _clear_source_dir: if somebody holds the old version's files, its container
\* is stopped and removed, and the deploy fails if that did not help.
Clear(w) ==
    /\ At(w, "clear")
    /\ \E next \in {"declare", "free"} : GoOn(w, next)
    /\ UNCHANGED <<row, deploy, docker, host, queue>>
FreeStops(w) == At(w, "free") /\ Runs(w, DockerStop(th[w].cid), "free_rm")
FreeRemoves(w) ==
    At(w, "free_rm") /\ \E next \in {"declare", "fail"} : Runs(w, DockerRm(th[w].cid), next)

\* Unpacking, and what the version declares.
Declare(w) ==
    /\ At(w, "declare")
    /\ Writes(w, [app EXCEPT !.declared = (Kind(w) = "wants")], "build")

\* build_image: tagged with the deploy's number.
Build(w) ==
    /\ At(w, "build")
    /\ LET built == daemon = "up" /\ Kind(w) # "unbuildable" IN
       /\ images' = IF built THEN images \cup {th[w].d} ELSE images
       /\ GoOn(w, IF built THEN "check" ELSE "fail")
    /\ UNCHANGED <<row, deploy, box, host, queue>>

\* Settings are asked for after building; a port cannot be given to an app
\* that is gone; a row with no container has nothing to stop.
Check(w) ==
    /\ At(w, "check")
    /\ GoOn(w, IF Missing(th[w].id) THEN "hold"
               ELSE IF app.id # th[w].id THEN "fail"
               ELSE IF th[w].cid = None THEN "rm_name"
               ELSE "stop")
    /\ UNCHANGED <<row, deploy, docker, host, queue>>

\* stop_container of the container the row named when the deploy began ...
StopPrevious(w)   == At(w, "stop") /\ Runs(w, DockerStop(th[w].cid), "rm")
RemovePrevious(w) == At(w, "rm") /\ Runs(w, DockerRm(th[w].cid), "rm_name")

\* Mutant: only the container the row names is removed.
LeaveTheName(w) == At(w, "rm_name") /\ Runs(w, UNCHANGED box, "run")

\* ... and remove_container_by_name of whatever else has the name.
RemoveByName(w) == At(w, "rm_name") /\ Runs(w, DockerRm(box.cid), "run")

\* Any of these passes its timeout (_run), which is not the error stop_container
\* ignores: the deploy fails, and the command was carried out or not.
ClearsTooLate(w) ==
    /\ \/ th[w].at \in {"free", "stop"} /\ DockerStop(th[w].cid)
       \/ th[w].at \in {"free_rm", "rm"} /\ DockerRm(th[w].cid)
       \/ At(w, "rm_name") /\ DockerRm(box.cid)
       \/ th[w].at \in {"free", "free_rm", "stop", "rm", "rm_name"} /\ UNCHANGED box
    /\ GoOn(w, "fail")
    /\ UNCHANGED <<row, deploy, images, host, queue>>

\* run_container: the command fails without a daemon and if the name is
\* taken; a container that cannot be given its port stays behind, created.
Run(w) ==
    /\ At(w, "run")
    /\ LET free    == daemon = "up" /\ box = NoBox
           started == free /\ Kind(w) # "refused"
       IN  /\ box' = IF free THEN [cid |-> th[w].d,
                                   state |-> IF started THEN "running" ELSE "created"]
                     ELSE box
           /\ th' = [th EXCEPT ![w].at = IF started THEN "record" ELSE "fail",
                               ![w].swapped = started]
    /\ UNCHANGED <<row, deploy, images, host, queue>>

\* Mutant: the row is not told of the new container.
RecordImage(w) == At(w, "record") /\ Writes(w, [app EXCEPT !.image = th[w].d], "verify")

\* docker run passes its timeout: the deploy fails whatever came of it.
RunsTooLate(w) ==
    /\ At(w, "run") /\ box = NoBox
    /\ \E state \in {"created"} \cup (IF Kind(w) = "refused" THEN {} ELSE {"running"}) :
          box' \in {NoBox, [cid |-> th[w].d, state |-> state]}
    /\ GoOn(w, "fail")
    /\ UNCHANGED <<row, deploy, images, host, queue>>

Record(w) ==
    /\ At(w, "record")
    /\ Writes(w, [app EXCEPT !.cid = th[w].d, !.image = th[w].d], "verify")

\* _verify_http takes any answer on the port.
Verify(w) ==
    /\ At(w, "verify")
    /\ GoOn(w, IF Answering THEN "finish" ELSE "fail")
    /\ UNCHANGED <<row, deploy, docker, host, queue>>

Finish(w)    == At(w, "finish") /\ Marks(w, "live", "finish_app")
FinishApp(w) == At(w, "finish_app") /\ Writes(w, With("live"), "idle")

Hold(w)    == At(w, "hold") /\ Marks(w, "needs_setup", "hold_app")
HoldApp(w) == /\ At(w, "hold_app")
              /\ Writes(w, With(IF IsServing(th[w].cid) THEN "live" ELSE "needs_setup"), "idle")

\* Mutant: an upload that cannot be started leaves the old status standing.
FailAsBefore(w) == At(w, "fail_app") /\ Writes(w, With("live"), "idle")

\* A version that does not answer is not stopped under this runtime.
Fail(w) == At(w, "fail") /\ Marks(w, "failed", "fail_app")

FailApp(w) ==
    /\ At(w, "fail_app")
    /\ LET stillServing == ~th[w].swapped /\ IsServing(th[w].cid)
       IN  Writes(w, With(IF stillServing THEN "live" ELSE "failed"), "idle")

RunDeploy(w) ==
    \/ Take(w) \/ MarkBuilding(w) \/ Clear(w) \/ FreeStops(w) \/ FreeRemoves(w)
    \/ Declare(w) \/ Build(w) \/ Check(w)
    \/ StopPrevious(w) \/ RemovePrevious(w) \/ RemoveByName(w) \/ ClearsTooLate(w)
    \/ Run(w) \/ Record(w)
    \/ Verify(w) \/ Finish(w) \/ FinishApp(w) \/ Hold(w) \/ HoldApp(w)
    \/ Fail(w) \/ FailApp(w)

-----------------------------------------------------------------------------
(* The buttons *)

\* stop_app: the container is stopped and stays.
Stop(c) == MayPress(c, "stop") /\ Pressed(c, With("stopped"), "stop")

\* Mutant: docker kill, after which the restart policy applies.
StopKills(c) ==
    At(c, "stop") /\ Runs(c, Commanded(th[c].cid, [box EXCEPT !.state = "dead"]), "idle")

StopStops(c) == At(c, "stop") /\ Runs(c, DockerStop(th[c].cid), "idle")

\* start_app, of an app that has had a container; whether its settings are
\* there is not asked.
Start(c) == MayPress(c, "start") /\ app.cid # None /\ Pressed(c, app, "start")

StartStarts(c) ==
    /\ At(c, "start")
    /\ Runs(c, DockerStart(th[c].cid), IF Reached(th[c].cid) THEN "started" ELSE "not_started")

StartStatus(c) == \/ At(c, "started") /\ Writes(c, With("live"), "idle")
                  \/ At(c, "not_started") /\ Writes(c, With("failed"), "idle")

SaveSetting(c) ==
    MayPress(c, "save") /\ Pressed(c, [app EXCEPT !.setting = TRUE], "apply")
RemoveSetting(c) ==
    MayPress(c, "remove") /\ Pressed(c, [app EXCEPT !.setting = FALSE], "apply")

\* _apply_settings_change with a fresh row: what waits is not started; what is
\* live is restarted as it is, or stopped if it lacks a setting now.
Apply(c) ==
    /\ At(c, "apply")
    /\ th' = [th EXCEPT ![c] =
                IF app.id = None \/ app.status # "live" THEN IdleThread
                ELSE IF Missing(app.id) THEN Holding("withdraw")
                ELSE Holding("restart")]
    /\ UNCHANGED <<row, deploy, docker, host, queue>>

Withdraw(c)    == At(c, "withdraw") /\ Runs(c, DockerStop(th[c].cid), "withdraw_app")
WithdrawApp(c) == At(c, "withdraw_app") /\ Writes(c, With("needs_setup"), "idle")

Restart(c) == At(c, "restart") /\ Runs(c, DockerStart(th[c].cid), "settle")

IsNewest(d, id) == /\ deploy[d].app = id /\ ~deploy[d].gone
                   /\ \A e \in Deploys : deploy[e].app = id => e <= d

\* _settle_held_deploy
Settle(c) ==
    /\ At(c, "settle")
    /\ deploy' = [d \in Deploys |->
                    IF IsNewest(d, th[c].id) /\ deploy[d].status = "needs_setup"
                    THEN [deploy[d] EXCEPT !.status = "live"] ELSE deploy[d]]
    /\ GoOn(c, "idle")
    /\ UNCHANGED <<row, docker, host, queue>>

\* delete_app: status, container, image, and then the row with its deploys.
Delete(c)       == MayPress(c, "delete") /\ Pressed(c, With("stopped"), "delete")
DeleteStops(c)  == At(c, "delete") /\ Runs(c, DockerStop(th[c].cid), "delete_rm")

\* Mutant: the container is only stopped, as the Stop button does.
DeleteKeeps(c)  == At(c, "delete_rm") /\ Runs(c, UNCHANGED box, "delete_image")

DeleteRm(c)     == At(c, "delete_rm") /\ Runs(c, DockerRm(th[c].cid), "delete_image")

DeleteImage(c) ==
    /\ At(c, "delete_image")
    /\ images' = IF daemon = "up" THEN images \ {th[c].image} ELSE images
    /\ GoOn(c, "delete_row")
    /\ UNCHANGED <<row, deploy, box, host, queue>>

DeleteRow(c) ==
    /\ At(c, "delete_row")
    /\ app' = IF app.id = th[c].id THEN NoRow ELSE app
    /\ deploy' = [d \in Deploys |-> IF deploy[d].app = th[c].id
                                    THEN [deploy[d] EXCEPT !.gone = TRUE] ELSE deploy[d]]
    /\ GoOn(c, "idle")
    /\ UNCHANGED <<lastId, docker, host, queue>>

\* A command of a button passes its timeout: the request ends there, and the
\* command was carried out or not.
ServesTooLate(c) ==
    /\ \/ th[c].at \in {"replace", "stop", "withdraw", "delete"} /\ DockerStop(th[c].cid)
       \/ th[c].at \in {"start", "restart"} /\ DockerStart(th[c].cid)
       \/ At(c, "delete_rm") /\ DockerRm(th[c].cid)
       \/ /\ th[c].at \in {"replace", "stop", "withdraw", "delete", "start", "restart",
                            "delete_rm", "delete_image"}
          /\ UNCHANGED box
    /\ GoOn(c, "idle")
    /\ UNCHANGED <<row, deploy, images, host, queue>>

Press(c) == \/ Replace(c) \/ Stop(c) \/ Start(c) \/ SaveSetting(c) \/ RemoveSetting(c)
            \/ Delete(c)

Serve(c) == \/ ReplaceStops(c) \/ ReplaceStatus(c) \/ ReplaceQueues(c)
            \/ StopStops(c) \/ StartStarts(c) \/ StartStatus(c)
            \/ Apply(c) \/ Withdraw(c) \/ WithdrawApp(c) \/ Restart(c) \/ Settle(c)
            \/ DeleteStops(c) \/ DeleteRm(c) \/ DeleteImage(c) \/ DeleteRow(c)

-----------------------------------------------------------------------------
(* Docker itself, and the launcher *)

OnlyBox == UNCHANGED <<row, deploy, images, host, queue, th>>

\* start.sh ends when either half of the app does, and the container with it.
Exits ==
    /\ box.state = "running"
    /\ box' = [box EXCEPT !.state = "dead"]
    /\ OnlyBox

\* --restart unless-stopped
Revived ==
    /\ daemon = "up"
    /\ box.state = "dead"
    /\ box' = [box EXCEPT !.state = "running"]
    /\ OnlyBox

DaemonDown ==
    /\ daemon = "up" /\ outages < MaxOutages
    /\ OutageAnyTime \/ Quiet
    /\ daemon' = "down"
    /\ outages' = outages + 1
    /\ box' = IF box.state = "running" THEN [box EXCEPT !.state = "dead"] ELSE box
    /\ UNCHANGED <<row, deploy, images, crashes, queue, th>>

\* Mutant: --restart always, which also starts what was stopped by hand.
DaemonStartsAll ==
    /\ daemon = "down"
    /\ daemon' = "up"
    /\ box' = IF box.state = "stopped" THEN [box EXCEPT !.state = "dead"] ELSE box
    /\ UNCHANGED <<row, deploy, images, outages, crashes, queue, th>>

DaemonUp ==
    /\ daemon = "down"
    /\ daemon' = "up"
    /\ UNCHANGED <<row, deploy, docker, outages, crashes, queue, th>>

\* The launcher dies and is started again: nothing is looked at on the way up.
Crash ==
    /\ crashes < MaxCrashes
    /\ crashes' = crashes + 1
    /\ queue' = << >>
    /\ th' = [t \in Threads |-> IdleThread]
    /\ UNCHANGED <<row, deploy, docker, daemon, outages>>

-----------------------------------------------------------------------------
\* Without OutageAnyTime nobody needs the daemon while it is away.
Calls == /\ OutageAnyTime \/ daemon = "up"
         /\ \/ Upload
            \/ \E w \in Workers : RunDeploy(w)
            \/ \E c \in Clients : Press(c) \/ Serve(c)

Environment == Exits \/ Revived \/ DaemonDown \/ DaemonUp \/ Crash

\* Two busy threads, or a deploy that waits while a button is served.
Overlap == \/ \E s, t \in Threads : s # t /\ ~At(s, "idle") /\ ~At(t, "idle")
           \/ queue # << >> /\ \E c \in Clients : ~At(c, "idle")

Remembers == met' = (\/ met \/ Overlap'
                     \/ crashes' > crashes /\ \E c \in Clients : ~At(c, "idle"))

\* The late answers after which what runs may not be what the row says.
Loses == /\ daemon = "up"
         /\ (\E w \in Workers : RunsTooLate(w)) \/ (\E c \in Clients : ServesTooLate(c))
         /\ met' = TRUE

Next == \/ (Calls \/ Environment) /\ Remembers
        \/ Loses

Spec == Init /\ [][Next]_vars

-----------------------------------------------------------------------------
(* Properties *)

Places == {"idle", "mark", "clear", "free", "free_rm", "declare", "build", "check", "stop", "rm", "rm_name", "run",
           "record", "verify", "finish", "finish_app", "hold", "hold_app", "fail", "fail_app",
           "replace", "replace_status", "replace_queue", "start", "started", "not_started",
           "apply", "withdraw", "withdraw_app", "restart", "settle",
           "delete", "delete_rm", "delete_image", "delete_row"}

\* Type invariant.
TypeOK ==
    /\ app \in [id : 0 .. MaxIds,
                status : {"new", "building", "live", "failed", "stopped", "needs_setup"},
                cid : {None} \cup Deploys, image : {None} \cup Deploys,
                declared : BOOLEAN, setting : BOOLEAN]
    /\ lastId \in 0 .. MaxIds
    /\ deploy \in [Deploys -> [status : {"unborn", "queued", "building", "live", "failed",
                                         "needs_setup"},
                               app : 0 .. MaxIds, kind : Kinds \cup {"none"}, gone : BOOLEAN]]
    /\ box \in [cid : Deploys, state : {"created", "running", "dead", "stopped"}] \cup {NoBox}
    /\ images \subseteq Deploys
    /\ daemon \in {"up", "down"}
    /\ queue \in Seq(Deploys)
    /\ th \in [Threads -> [at : Places, id : 0 .. MaxIds, cid : {None} \cup Deploys,
                           image : {None} \cup Deploys, d : {None} \cup Deploys,
                           swapped : BOOLEAN]]
    /\ outages \in 0 .. MaxOutages /\ crashes \in 0 .. MaxCrashes
    /\ met \in BOOLEAN

\* With one build at a time, docker run never finds the name taken: not by the
\* container of a launcher that died before it wrote the container down, nor
\* by one an earlier docker run could not start (deployer.py:297).
NameIsFree == \A w \in Workers : At(w, "run") => box = NoBox

\* It will run, now or when Docker next restarts it.
MayRun == box.state \in {"running", "dead"}

\* The launcher knows the container that has run under the app's name, and a
\* deleted app has none.  The exceptions: one that docker run created and could
\* not start, and that of a deploy the launcher died under, which nobody ever
\* finished (deployer.py:297, "remove_container_by_name").  It is said only of a
\* history (~met) in which no button, a deletion above all, overlapped a deploy,
\* and neither docker run nor a command of a button passed its timeout.
OnlyACrashForgets ==
    Quiet /\ ~met /\ box.cid \notin {None, app.cid} /\ box.state # "created" =>
        crashes > 0 /\ deploy[box.cid].status = "building"

\* An app that shows as live has the container its row names, and that is not
\* one that was stopped: not after a restart for a setting, a failed upload, a
\* held one or a daemon that was away (deployer.py:157, "the previous version is
\* still up and serving traffic").
LiveHasContainer ==
    Quiet /\ ~met /\ app.status = "live" => box.cid = app.cid /\ MayRun

\* A stopped app is down and Docker leaves it so, through restarts of the
\* daemon and of the machine (runtime.py:97, "unless-stopped"), unless it is a
\* container the launcher has forgotten.
StoppedStaysDown ==
    Quiet /\ ~met /\ app.status = "stopped" /\ box.cid = app.cid => ~MayRun

\* What a deploy that is called live left running is its own container, and
\* nothing older that answered on the same port (deployer.py:311).
LiveIsItsOwn ==
    [][\A d \in Deploys : deploy[d].status # "live" /\ deploy'[d].status = "live" =>
          box.cid \in {None, d}]_vars
=============================================================================
