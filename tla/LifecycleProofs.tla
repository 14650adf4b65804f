--------------------------- MODULE LifecycleProofs ---------------------------
(***************************************************************************)
(* Every deploy record tells the truth about its deploy, for any number of *)
(* workers, requests, uploads and launcher crashes; and what holds of the  *)
(* app itself while one thing is done at a time, or is kept apart by the   *)
(* supervisor's lock.                                                      *)
(***************************************************************************)
EXTENDS Lifecycle, SequenceTheorems, TLAPS

USE DEF None

-----------------------------------------------------------------------------
(* Types *)

Places == WorkerPlaces \cup LaunchPlaces \cup OtherPlaces
Rows   == [id : {None} \cup AppIds, status : AppStatus, pid : {None} \cup Pids,
           declared : BOOLEAN, setting : BOOLEAN]
DeployRows == [status : DeployStatus, app : {None} \cup AppIds, version : {None} \cup Deploys]
Sources    == [version : {None} \cup Deploys, built : BOOLEAN]
Processes  == [state : {"none", "starting", "up", "half", "stranger"},
               version : {None} \cup Deploys, configured : BOOLEAN]
Locals == [at : Places, op : ThreadOps, id : {None} \cup AppIds, pid : {None} \cup Pids,
           d : {None} \cup Deploys, new : {None} \cup Pids, swapped : BOOLEAN]

\* All of the type invariant but the bound on attempts.
Typed == /\ app \in Rows
         /\ lastId \in 0 .. MaxIds
         /\ deploy \in [Deploys -> DeployRows]
         /\ kind \in [Deploys -> {"unborn"} \cup Kinds]
         /\ zips \subseteq Deploys
         /\ src \in Sources
         /\ proc \in [Pids -> Processes]
         /\ queue \in Seq(Deploys)
         /\ th \in [Threads -> Locals]
         /\ strikes \in Nat
         /\ launcher \in {"down", "recovering", "restoring", "up"}
         /\ crashes \in Nat

\* The supervisor counts further than it may try only while it gives up.
Tries == /\ attempts \in 0 .. RESTARTS_BEFORE_GIVING_UP + 1
         /\ th[SUPERVISOR].at \notin {"give_up", "give_up_app"} =>
                attempts \in 0 .. RESTARTS_BEFORE_GIVING_UP

LEMMA TypeParts == Typed /\ Tries => TypeOK
    BY DEF TypeOK, Typed, Tries, Places, Rows, DeployRows, Sources, Processes, Locals

LEMMA Blanks ==
    /\ NoRow \in Rows /\ NoDeploy \in DeployRows /\ NoSource \in Sources
    /\ NoProcess \in Processes /\ IdleThread \in Locals
    BY DEF NoRow, NoDeploy, NoSource, NoProcess, IdleThread, Rows, DeployRows, Sources, Processes,
           Locals, AppStatus, DeployStatus, Places, OtherPlaces, ThreadOps

LEMMA HoldingTyped ==
    ASSUME Typed, NEW place \in Places, NEW op \in ThreadOps
    PROVE  /\ Holding(place, op) \in Locals
           /\ Holding(place, op).at = place /\ Holding(place, op).id = app.id
           /\ Holding(place, op).op = op /\ Holding(place, op).pid = app.pid
           /\ Holding(place, op).d = None /\ Holding(place, op).new = None
<1>1. app.id \in {None} \cup AppIds /\ app.pid \in {None} \cup Pids
    BY DEF Typed, Rows
<1> QED
    BY <1>1 DEF Holding, IdleThread, Locals

LEMMA RowTyped == ASSUME Typed, NEW id, NEW new \in Rows, UpdateApp(id, new) PROVE app' \in Rows
    BY DEF Typed, UpdateApp

LEMMA RowsLikeIt ==
    ASSUME Typed
    PROVE  /\ \A status \in AppStatus : With(status) \in Rows
           /\ \A p \in {None} \cup Pids : [app EXCEPT !.pid = p] \in Rows
           /\ \A p \in {None} \cup Pids : [app EXCEPT !.status = "live", !.pid = p] \in Rows
           /\ \A b \in BOOLEAN : [app EXCEPT !.declared = b] \in Rows
           /\ \A b \in BOOLEAN : [app EXCEPT !.setting = b] \in Rows
    BY DEF Typed, Rows, With, AppStatus

LEMMA KilledTyped == ASSUME Typed, NEW p PROVE Killed(p) \in [Pids -> Processes]
    BY Blanks DEF Typed, Killed

LEMMA SpawnedTyped ==
    ASSUME Typed, NEW p \in Pids, Spawned(p) PROVE proc' \in [Pids -> Processes]
<1>1. [state |-> "starting", version |-> src.version, configured |-> app.setting] \in Processes
    BY DEF Typed, Processes, Sources, Rows
<1> QED
    BY <1>1 DEF Typed, Spawned

\* A thread that goes on keeps its locals or forgets them all; the others keep theirs.
LEMMA GoesOn ==
    ASSUME Typed, NEW t \in Threads, NEW next \in Places, GoOn(t, next)
    PROVE  /\ th' \in [Threads -> Locals]
           /\ \A s \in Threads : s # t => th'[s] = th[s]
           /\ th'[t].at = next
           /\ next # "idle" => /\ th'[t].d = th[t].d /\ th'[t].id = th[t].id
                               /\ th'[t].op = th[t].op /\ th'[t].pid = th[t].pid
                               /\ th'[t].new = th[t].new /\ th'[t].swapped = th[t].swapped
           /\ next = "idle" => th'[t] = IdleThread
<1>1. th \in [Threads -> Locals]
    BY DEF Typed
<1>2. CASE next = "idle"
    BY <1>1, <1>2, Blanks DEF GoOn, IdleThread
<1>3. CASE next # "idle"
    BY <1>1, <1>3 DEF GoOn, Locals
<1> QED
    BY <1>2, <1>3

LEMMA DeploySet ==
    ASSUME Typed, NEW d, NEW status \in DeployStatus, SetDeploy(d, status)
    PROVE  deploy' \in [Deploys -> DeployRows]
<1>1. CASE deploy[d].status = "gone"
    BY <1>1 DEF Typed, SetDeploy
<1>2. CASE deploy[d].status # "gone"
    <2>1. deploy' = [deploy EXCEPT ![d] = [@ EXCEPT !.status = status]]
        BY <1>2 DEF SetDeploy
    <2>2. d \in Deploys => [deploy[d] EXCEPT !.status = status] \in DeployRows
        BY DEF Typed, DeployRows
    <2> QED
        BY <2>1, <2>2 DEF Typed
<1> QED
    BY <1>1, <1>2

-----------------------------------------------------------------------------
(* The shapes of steps keep types                                           *)

LEMMA DecidesTyped ==
    ASSUME Typed, NEW t \in Threads, NEW next \in Places, Decides(t, next) PROVE Typed'
    BY GoesOn DEF Decides, Typed, row, records, files, counters, host

LEMMA WritesTyped ==
    ASSUME Typed, NEW t \in Threads, NEW next \in Places, NEW new \in Rows, Writes(t, new, next)
    PROVE  Typed'
    BY GoesOn, RowTyped DEF Writes, Typed, records, files, counters, host

LEMMA MarksTyped ==
    ASSUME Typed, NEW w \in Workers, NEW next \in Places, NEW status \in DeployStatus,
           Marks(w, status, next)
    PROVE  Typed'
<1>1. w \in Threads
    BY DEF Threads
<1>2. th' \in [Threads -> Locals]
    BY <1>1, GoesOn DEF Marks
<1>3. deploy' \in [Deploys -> DeployRows]
    BY DeploySet DEF Marks
<1> QED
    BY <1>2, <1>3 DEF Marks, Typed, row, files, counters, host

\* Whoever calls supervisor.stop forgets the pid, and the row does.
LEMMA StopEffect ==
    ASSUME Typed, NEW t \in Threads, NEW next \in Places, Stops(t, next)
    PROVE  /\ Typed'
           /\ \A s \in Threads : s # t => th'[s] = th[s]
           /\ th'[t].at = next
           /\ next # "idle" => /\ th'[t].d = th[t].d /\ th'[t].id = th[t].id
                               /\ th'[t].op = th[t].op /\ th'[t].pid = None
                               /\ th'[t].new = th[t].new /\ th'[t].swapped = th[t].swapped
           /\ next = "idle" => th'[t] = IdleThread
<1>1. th \in [Threads -> Locals]
    BY DEF Typed
<1>2. th' = [th EXCEPT ![t] = IF next = "idle" THEN IdleThread
                              ELSE [@ EXCEPT !.at = next, !.pid = None]]
    BY DEF Stops
<1>3. next = "idle" => th'[t] = IdleThread
    BY <1>1, <1>2
<1>4. next # "idle" => th'[t] = [th[t] EXCEPT !.at = next, !.pid = None]
    BY <1>1, <1>2
<1>5. th' \in [Threads -> Locals]
    BY <1>1, <1>2, Blanks DEF Locals
<1>6. app' \in Rows /\ proc' \in [Pids -> Processes]
    BY RowTyped, RowsLikeIt, KilledTyped DEF Stops, StopProcesses
<1>7. Typed'
    BY <1>5, <1>6 DEF Stops, Typed, records, files, counters, host
<1> QED
    BY <1>1, <1>2, <1>3, <1>4, <1>7 DEF Locals, IdleThread

-----------------------------------------------------------------------------
(* Every step keeps types                                                   *)

LEMMA EnqueueTyped ==
    ASSUME Typed, NEW id \in AppIds, NEW v \in {None} \cup Deploys, Enqueue(id, v)
    PROVE  deploy' \in [Deploys -> DeployRows] /\ queue' \in Seq(Deploys)
<1>1. PICK d \in Deploys :
        /\ deploy' = [deploy EXCEPT ![d] = [status |-> "queued", app |-> id,
                                            version |-> IF v = None THEN d ELSE v]]
        /\ queue' = Append(queue, d)
    BY DEF Enqueue
<1>2. [status |-> "queued", app |-> id, version |-> IF v = None THEN d ELSE v] \in DeployRows
    BY DEF DeployRows, DeployStatus
<1>3. deploy' \in [Deploys -> DeployRows]
    BY <1>1, <1>2 DEF Typed
<1>4. queue' \in Seq(Deploys)
    BY <1>1, AppendProperties DEF Typed
<1> QED
    BY <1>3, <1>4

LEMMA StoreTyped ==
    ASSUME Typed, StoreUpload
    PROVE  kind' \in [Deploys -> {"unborn"} \cup Kinds] /\ zips' \subseteq Deploys
    BY DEF Typed, StoreUpload

LEMMA RequestsTyped ==
    ASSUME Typed, Upload \/ ReplaceStop \/ Rollback
    PROVE  Typed'
<1> USE DEF row, files, counters, host
<1>1. CASE Upload
    <2>1. CASE app.id # None /\ Enqueue(app.id, None) /\ UNCHANGED row
        <3>1. app.id \in AppIds
            BY <2>1 DEF Typed, Rows
        <3> QED
            BY <1>1, <2>1, <3>1, EnqueueTyped, StoreTyped DEF Upload, Typed
    <2>2. CASE /\ app.id = None /\ lastId < MaxIds /\ lastId' = lastId + 1
               /\ app' = [NoRow EXCEPT !.id = lastId + 1] /\ Enqueue(lastId + 1, None)
        <3>1. lastId + 1 \in AppIds
            BY <2>2, ConstantsOK DEF Typed, AppIds
        <3>2. app' \in Rows /\ lastId' \in 0 .. MaxIds
            BY <2>2, <3>1, Blanks, ConstantsOK DEF Rows, AppIds, Typed
        <3> QED
            BY <1>1, <2>2, <3>1, <3>2, EnqueueTyped, StoreTyped DEF Upload, Typed
    <2> QED
        BY <1>1, <2>1, <2>2 DEF Upload
<1>2. CASE ReplaceStop
    <2>1. app.id \in AppIds /\ app' \in Rows
        BY <1>2 DEF ReplaceStop, Typed, Rows, AppStatus
    <2> QED
        BY <1>2, <2>1, EnqueueTyped, StoreTyped DEF ReplaceStop, Typed
<1>3. CASE Rollback
    <2>1. PICK d \in DeploysOf(app.id) :
            /\ app.id # None /\ Enqueue(app.id, deploy[d].version)
            /\ UNCHANGED <<row, files, proc, th, counters, host>>
        BY <1>3 DEF Rollback
    <2>2. app.id \in AppIds /\ deploy[d].version \in {None} \cup Deploys
        BY <2>1 DEF Typed, Rows, DeploysOf, DeployRows
    <2> QED
        BY <2>1, <2>2, EnqueueTyped DEF Typed
<1> QED
    BY <1>1, <1>2, <1>3

LEMMA BuildTyped == ASSUME Typed, NEW w \in Workers, RunDeploy(w) PROVE Typed'
<1> USE DEF row, records, files, counters, host
<1>0. w \in Threads /\ WorkerPlaces \cup {"idle"} \subseteq Places
    BY DEF Threads, Places, OtherPlaces
<1>1. CASE Take(w)
    <2>1. queue' \in Seq(Deploys) /\ Head(queue) \in Deploys
        BY <1>1, HeadTailProperties DEF Take, Typed
    <2>2. CASE deploy[Head(queue)].status = "gone" /\ UNCHANGED <<deploy, th>>
        BY <1>1, <2>1, <2>2 DEF Take, Typed
    <2>3. CASE /\ th' = [th EXCEPT ![w] = [Holding("mark", "deploy") EXCEPT !.d = Head(queue)]]
               /\ SetDeploy(Head(queue), "building")
        <3>1. Holding("mark", "deploy") \in Locals
            BY <1>0, HoldingTyped DEF ThreadOps, WorkerPlaces
        <3>2. [Holding("mark", "deploy") EXCEPT !.d = Head(queue)] \in Locals
            BY <2>1, <3>1 DEF Locals
        <3>3. th' \in [Threads -> Locals]
            BY <2>3, <3>2 DEF Typed
        <3>4. deploy' \in [Deploys -> DeployRows]
            BY <2>3, DeploySet DEF DeployStatus
        <3> QED
            BY <1>1, <2>1, <3>3, <3>4 DEF Take, Typed
    <2> QED
        BY <1>1, <2>2, <2>3 DEF Take
<1>2. CASE MarkBuilding(w) \/ HoldApp(w) \/ FinishApp(w) \/ FailApp(w)
    BY <1>0, <1>2, WritesTyped, RowsLikeIt
       DEF MarkBuilding, HoldApp, FinishApp, FailApp, WorkerPlaces, AppStatus
<1>3. CASE ClearSource(w) \/ Unpack(w) \/ Build(w) \/ Prune(w)
    <2>1. th' \in [Threads -> Locals]
        BY <1>0, <1>3, GoesOn DEF ClearSource, Unpack, Build, Prune, WorkerPlaces
    <2>2. src' \in Sources
        <3>1. CASE ClearSource(w) \/ Prune(w)
            BY <3>1, Blanks DEF ClearSource, Prune, Typed
        <3>2. CASE Build(w)
            BY <3>2 DEF Build, Typed, Sources
        <3>3. CASE Unpack(w)
            <4>1. src' = NoSource
                  \/ (Version(w) \in zips /\ src' = [version |-> Version(w), built |-> FALSE])
                BY <3>3 DEF Unpack
            <4>2. \A v \in Deploys, b \in BOOLEAN : [version |-> v, built |-> b] \in Sources
                BY DEF Sources
            <4>3. Version(w) \in zips => src' \in Sources
                BY <4>1, <4>2, Blanks DEF Typed
            <4> QED
                BY <4>1, <4>3, Blanks
        <3> QED
            BY <1>3, <3>1, <3>2, <3>3
    <2> QED
        BY <1>3, <2>1, <2>2 DEF ClearSource, Unpack, Build, Prune, Typed
<1>4. CASE ClearSourceBusy(w)
    <2>1. th' \in [Threads -> Locals]
        BY <1>0, <1>4, GoesOn DEF ClearSourceBusy, WorkerPlaces
    <2>2. src' \in Sources
        BY <1>4, Blanks DEF ClearSourceBusy, Leftovers, Sources, Typed
    <2>3. app' \in Rows /\ proc' \in [Pids -> Processes]
        BY <1>4, RowTyped, RowsLikeIt, KilledTyped DEF ClearSourceBusy, StopProcesses
    <2> QED
        BY <1>4, <2>1, <2>2, <2>3 DEF ClearSourceBusy, Typed
<1>5. CASE Declare(w)
    <2>1. [app EXCEPT !.declared = (kind[Version(w)] = "wants")] \in Rows
        <3> DEFINE b == kind[Version(w)] = "wants"
        <3>1. b \in BOOLEAN
            OBVIOUS
        <3> HIDE DEF b
        <3>2. [app EXCEPT !.declared = b] \in Rows
            BY <3>1, RowsLikeIt
        <3> QED
            BY <3>2 DEF b
    <2>2. Writes(w, [app EXCEPT !.declared = (kind[Version(w)] = "wants")], "build")
        BY <1>5 DEF Declare
    <2> QED
        BY <1>0, <2>1, <2>2, WritesTyped DEF WorkerPlaces
<1>6. CASE BuildFails(w) \/ CheckSettings(w) \/ Verify(w) \/ PruneRefused(w)
    BY <1>0, <1>6, DecidesTyped
       DEF BuildFails, CheckSettings, Verify, PruneRefused, WorkerPlaces
<1>7. CASE Hold(w) \/ FinishDeploy(w) \/ Fail(w) \/ FailVerify(w)
    BY <1>0, <1>7, MarksTyped DEF Hold, FinishDeploy, Fail, FailVerify, WorkerPlaces, DeployStatus
<1>8. CASE StopPrevious(w)
    BY <1>0, <1>8, StopEffect DEF StopPrevious, WorkerPlaces
<1>9. CASE StartNew(w)
    <2>1. CASE CanSpawn
        <3>1. PICK p \in Pids :
                /\ Spawned(p)
                /\ th' = [th EXCEPT ![w].at = "record", ![w].new = p, ![w].swapped = TRUE]
            BY <1>9, <2>1 DEF StartNew
        <3>2. th' \in [Threads -> Locals]
            <4>1. [th[w] EXCEPT !.at = "record", !.new = p, !.swapped = TRUE] \in Locals
                BY <1>0 DEF Typed, Locals, WorkerPlaces
            <4>2. th' = [th EXCEPT ![w] = [th[w] EXCEPT !.at = "record", !.new = p, !.swapped = TRUE]]
                BY <3>1
            <4> QED
                BY <4>1, <4>2 DEF Typed
        <3> QED
            BY <1>9, <3>1, <3>2, SpawnedTyped DEF StartNew, Typed
    <2>2. CASE ~CanSpawn
        <3>1. th' \in [Threads -> Locals]
            BY <1>0, <1>9, <2>2, GoesOn DEF StartNew, WorkerPlaces
        <3> QED
            BY <1>9, <2>2, <3>1 DEF StartNew, Typed
    <2> QED
        BY <2>1, <2>2
<1>10. CASE RecordNew(w)
    <2>1. th[w].new \in {None} \cup Pids
        BY <1>0 DEF Typed, Locals
    <2> QED
        BY <1>0, <1>10, <2>1, WritesTyped, RowsLikeIt DEF RecordNew, WorkerPlaces
<1>11. CASE FailStop(w)
    <2>1. th' \in [Threads -> Locals]
        BY <1>0, <1>11, GoesOn DEF FailStop, WorkerPlaces
    <2>2. app' \in Rows /\ proc' \in [Pids -> Processes]
        BY <1>11, RowsLikeIt, KilledTyped DEF FailStop, Typed
    <2> QED
        BY <1>11, <2>1, <2>2 DEF FailStop, Typed
<1> QED
    BY <1>1, <1>2, <1>3, <1>4, <1>5, <1>6, <1>7, <1>8, <1>9, <1>10, <1>11 DEF RunDeploy

LEMMA PlacesAfter ==
    ASSUME NEW op
    PROVE  {AfterRefusal(op), AfterStart(op), AfterRaise(op)} \subseteq Places
    BY DEF AfterRefusal, AfterStart, AfterRaise, Places, LaunchPlaces, OtherPlaces

LEMMA LaunchTyped == ASSUME Typed, NEW t \in Threads, Launch(t) PROVE Typed'
<1> USE DEF row, records, files, counters, host
<1>0. LaunchPlaces \cup {"idle"} \subseteq Places
    BY DEF Places, OtherPlaces
<1>1. CASE LaunchFailed(t) \/ LaunchHeld(t) \/ LaunchCaught(t)
    BY <1>0, <1>1, WritesTyped, RowsLikeIt, PlacesAfter
       DEF LaunchFailed, LaunchHeld, LaunchCaught, AppStatus
<1>2. CASE LaunchStops(t)
    BY <1>0, <1>2, StopEffect DEF LaunchStops, LaunchPlaces
<1>3. CASE LaunchSpawns(t)
    <2>1. PICK p \in Pids :
            Spawned(p) /\ th' = [th EXCEPT ![t].at = "launch_record", ![t].new = p]
        BY <1>3 DEF LaunchSpawns
    <2>2. th' = [th EXCEPT ![t] = [th[t] EXCEPT !.at = "launch_record", !.new = p]]
        BY <2>1
    <2>3. [th[t] EXCEPT !.at = "launch_record", !.new = p] \in Locals
        BY <1>0 DEF Typed, Locals, LaunchPlaces
    <2>4. th' \in [Threads -> Locals]
        BY <2>2, <2>3 DEF Typed
    <2> QED
        BY <1>3, <2>1, <2>4, SpawnedTyped DEF LaunchSpawns, Typed
<1>4. CASE LaunchRaises(t)
    BY <1>4, DecidesTyped, PlacesAfter DEF LaunchRaises
<1>5. CASE LaunchRecords(t)
    <2>1. th' \in [Threads -> Locals]
        BY <1>5, GoesOn, PlacesAfter DEF LaunchRecords
    <2>2. th[t].new \in {None} \cup Pids
        BY DEF Typed, Locals
    <2>3. app' \in Rows
        BY <1>5, <2>2, RowTyped, RowsLikeIt DEF LaunchRecords
    <2> QED
        BY <1>5, <2>1, <2>3 DEF LaunchRecords, Typed
<1> QED
    BY <1>1, <1>2, <1>3, <1>4, <1>5 DEF Launch

\* A thread that begins something holds the row.
LEMMA BeginsTyped ==
    ASSUME Typed, NEW t \in Threads, NEW place \in Places, NEW op \in ThreadOps,
           th' = [th EXCEPT ![t] = Holding(place, op)]
    PROVE  /\ th' \in [Threads -> Locals]
           /\ th'[t] = Holding(place, op)
           /\ \A s \in Threads : s # t => th'[s] = th[s]
    BY HoldingTyped DEF Typed

LEMMA PagesTyped == ASSUME Typed, NEW c \in Clients, Press(c) \/ Serve(c) PROVE Typed'
<1> USE DEF row, records, files, counters, host
<1>0. c \in Threads /\ OtherPlaces \cup LaunchPlaces \subseteq Places
    BY DEF Threads, Places
<1>1. ASSUME NEW op \in ThreadOps, NEW new \in Rows, NEW place \in Places, Pressed(c, op, new, place)
      PROVE  Typed'
    BY <1>0, <1>1, BeginsTyped DEF Pressed, Typed
<1>2. CASE Press(c)
    <2>1. app \in Rows /\ {"stop", "start", "save", "remove", "restart_all", "delete"} \subseteq ThreadOps
        BY DEF Typed, ThreadOps, AllOps
    <2>2. {"stop_kill", "launch", "apply", "delete_kill"} \subseteq Places
        BY DEF Places, OtherPlaces, LaunchPlaces
    <2>3. With("stopped") \in Rows /\ \A b \in BOOLEAN : [app EXCEPT !.setting = b] \in Rows
        BY RowsLikeIt DEF AppStatus
    <2> QED
        BY <1>1, <1>2, <2>1, <2>2, <2>3
           DEF Press, Stop, Start, SaveSetting, RemoveSetting, RestartAll, Delete
<1>3. CASE StopKills(c) \/ Withdraw(c) \/ DeleteKills(c)
    BY <1>0, <1>3, StopEffect DEF StopKills, Withdraw, DeleteKills, OtherPlaces
<1>4. CASE ApplySettings(c)
    <2>1. \/ th' = [th EXCEPT ![c] = Holding("launch", "setup")]
          \/ th' = [th EXCEPT ![c] = Holding("launch", "refresh")]
          \/ th' = [th EXCEPT ![c] = Holding("withdraw", "remove")]
          \/ th' = [th EXCEPT ![c] = IdleThread]
        BY <1>4 DEF ApplySettings
    <2>2. /\ {"setup", "refresh", "remove"} \subseteq ThreadOps
          /\ {"launch", "withdraw"} \subseteq Places
        BY DEF ThreadOps, AllOps, Places, LaunchPlaces, OtherPlaces
    <2>3. th' \in [Threads -> Locals]
        BY <1>0, <2>1, <2>2, BeginsTyped, Blanks DEF Typed
    <2> QED
        BY <1>4, <2>3 DEF ApplySettings, Typed
<1>5. CASE WithdrawApp(c)
    BY <1>0, <1>5, WritesTyped, RowsLikeIt DEF WithdrawApp, OtherPlaces, AppStatus
<1>6. CASE Settle(c)
    <2>1. th' \in [Threads -> Locals]
        BY <1>0, <1>6, GoesOn DEF Settle, OtherPlaces
    <2>2. \A d \in Deploys : [deploy[d] EXCEPT !.status = "live"] \in DeployRows
        BY DEF Typed, DeployRows, DeployStatus
    <2>3. deploy' \in [Deploys -> DeployRows]
        BY <1>6, <2>2 DEF Settle, Typed
    <2> QED
        BY <1>6, <2>1, <2>3 DEF Settle, Typed
<1>7. CASE DeleteRow(c)
    <2>1. th' \in [Threads -> Locals]
        BY <1>0, <1>7, GoesOn DEF DeleteRow, OtherPlaces
    <2>2. \A d \in Deploys : [deploy[d] EXCEPT !.status = "gone"] \in DeployRows
        BY DEF Typed, DeployRows, DeployStatus
    <2>3. deploy' \in [Deploys -> DeployRows]
        BY <1>7, <2>2 DEF DeleteRow, Typed
    <2>4. app' \in Rows
        BY <1>7, Blanks, RowTyped DEF DeleteRow
    <2> QED
        BY <1>7, <2>1, <2>3, <2>4 DEF DeleteRow, Typed
<1>8. CASE DeleteFiles(c)
    <2>1. th' \in [Threads -> Locals]
        BY <1>0, <1>8, GoesOn DEF DeleteFiles, OtherPlaces
    <2> QED
        BY <1>8, <2>1, Blanks DEF DeleteFiles, Typed
<1>9. CASE Launch(c)
    BY <1>0, <1>9, LaunchTyped
<1> QED
    BY <1>2, <1>3, <1>4, <1>5, <1>6, <1>7, <1>8, <1>9 DEF Serve

LEMMA SuperviseTyped == ASSUME Typed, Supervise PROVE Typed'
<1> USE DEF row, records, files, counters, host
<1>0. /\ SUPERVISOR \in Threads /\ OtherPlaces \cup LaunchPlaces \subseteq Places
      /\ {"launch", "look", "give_up", "give_up_app", "idle"} \subseteq Places
      /\ "check" \in ThreadOps
    BY DEF Threads, Places, OtherPlaces, LaunchPlaces, ThreadOps
<1>1. CASE Look
    <2>1. th' \in [Threads -> Locals]
        BY <1>0, <1>1, BeginsTyped DEF Look
    <2> QED
        BY <1>1, <2>1 DEF Look, Typed
<1>2. CASE CheckDead \/ CheckHealthy \/ CheckHeavy
    <2>1. PICK next \in {"launch", "give_up", "idle"} : GoOn(SUPERVISOR, next)
        BY <1>2 DEF CheckDead, CheckHealthy, CheckHeavy
    <2>2. th' \in [Threads -> Locals]
        BY <1>0, <2>1, GoesOn
    <2> QED
        BY <1>2, <2>2 DEF CheckDead, CheckHealthy, CheckHeavy, Typed
<1>4. CASE GiveUp
    BY <1>0, <1>4, StopEffect DEF GiveUp
<1>5. CASE GiveUpApp
    <2>1. th' \in [Threads -> Locals]
        BY <1>0, <1>5, GoesOn DEF GiveUpApp
    <2>2. app' \in Rows
        BY <1>5, RowTyped, RowsLikeIt DEF GiveUpApp, AppStatus
    <2> QED
        BY <1>5, <2>1, <2>2 DEF GiveUpApp, Typed
<1> QED
    BY <1>0, <1>1, <1>2, <1>4, <1>5, LaunchTyped DEF Supervise

LEMMA HostTyped == ASSUME Typed, Crash \/ Recover \/ Environment PROVE Typed'
<1> USE DEF row, records, files, counters, host
<1>0. /\ SUPERVISOR \in Threads
      /\ {"launch", "recover_app", "idle"} \subseteq Places /\ {"recover", "restore"} \subseteq ThreadOps
    BY DEF Threads, Places, OtherPlaces, LaunchPlaces, ThreadOps
<1>1. CASE Crash
    <2>1. th' \in [Threads -> Locals] /\ proc' \in [Pids -> Processes] /\ queue' \in Seq(Deploys)
        BY <1>1, Blanks, EmptySeq DEF Crash, Typed
    <2> QED
        BY <1>1, <2>1 DEF Crash, Typed
<1>2. CASE Boot \/ Ready
    BY <1>2 DEF Boot, Ready, Typed
<1>3. CASE RecoverDeploy
    <2>1. th' \in [Threads -> Locals]
        BY <1>0, <1>3, BeginsTyped DEF RecoverDeploy
    <2>2. deploy' \in [Deploys -> DeployRows]
        BY <1>3, DeploySet DEF RecoverDeploy, DeployStatus
    <2> QED
        BY <1>3, <2>1, <2>2 DEF RecoverDeploy, Typed
<1>4. CASE RecoverApp
    <2>1. PICK new \in Rows : Writes(SUPERVISOR, new, "idle")
        BY <1>4, RowsLikeIt DEF RecoverApp, Typed, AppStatus
    <2> QED
        BY <1>0, <2>1, WritesTyped
<1>5. CASE Restore
    <2>1. th' \in [Threads -> Locals]
        BY <1>0, <1>5, BeginsTyped DEF Restore, Typed
    <2> QED
        BY <1>5, <2>1 DEF Restore, Typed
<1>6. CASE Environment
    <2>1. PICK p \in Pids : ComesUp(p) \/ Dies(p) \/ Reused(p) \/ StrangerExits(p)
        BY <1>6 DEF Environment
    <2>2. \E q \in Processes : proc' = [proc EXCEPT ![p] = q]
        <3>1. \A state \in {"up", "half"} : [proc[p] EXCEPT !.state = state] \in Processes
            BY DEF Typed, Processes
        <3>2. [NoProcess EXCEPT !.state = "stranger"] \in Processes
            BY DEF NoProcess, Processes
        <3> QED
            BY <2>1, <3>1, <3>2, Blanks DEF ComesUp, Dies, Reused, StrangerExits
    <2>3. OnlyProc
        BY <2>1 DEF ComesUp, Dies, Reused, StrangerExits
    <2>4. proc' \in [Pids -> Processes]
        BY <2>2 DEF Typed
    <2> QED
        BY <2>3, <2>4 DEF OnlyProc, Typed
<1> QED
    BY <1>1, <1>2, <1>3, <1>4, <1>5, <1>6 DEF Recover

LEMMA StutterTyped == ASSUME Typed, UNCHANGED vars PROVE Typed'
    BY DEF Typed, vars, row, records, files, counters, host

LEMMA TypesStay == ASSUME Typed, [Next]_vars PROVE Typed'
    BY RequestsTyped, BuildTyped, PagesTyped, SuperviseTyped, HostTyped, StutterTyped DEF Next

-----------------------------------------------------------------------------
(* Whose step it is                                                         *)

\* A worker's step leaves the locals of the others alone.
LEMMA WorkerAlone ==
    ASSUME Typed, NEW w \in Workers, RunDeploy(w)
    PROVE  /\ \A s \in Threads : s # w => th'[s] = th[s]
           /\ UNCHANGED counters /\ UNCHANGED host
<1>0. w \in Threads /\ WorkerPlaces \cup {"idle"} \subseteq Places
    BY DEF Threads, Places, OtherPlaces
<1>1. CASE Take(w)
    BY <1>1 DEF Take, Typed
<1>2. CASE StopPrevious(w)
    BY <1>0, <1>2, StopEffect DEF StopPrevious, WorkerPlaces, Stops
<1>3. CASE StartNew(w)
    <2>1. CASE ~CanSpawn
        BY <1>0, <1>3, <2>1, GoesOn DEF StartNew, WorkerPlaces
    <2>2. CASE CanSpawn
        BY <1>3, <2>2 DEF StartNew, Typed
    <2> QED
        BY <1>3, <2>1, <2>2 DEF StartNew
<1>4. CASE \E next \in WorkerPlaces \cup {"idle"} : GoOn(w, next) /\ UNCHANGED <<counters, host>>
    BY <1>0, <1>4, GoesOn
<1>5. RunDeploy(w) => \/ Take(w) \/ StopPrevious(w) \/ StartNew(w)
                      \/ \E next \in WorkerPlaces \cup {"idle"} : GoOn(w, next) /\ UNCHANGED <<counters, host>>
    BY DEF RunDeploy, MarkBuilding, ClearSource, ClearSourceBusy, Unpack, Declare, BuildFails, Build,
           CheckSettings, Hold, HoldApp, RecordNew, Verify, FinishDeploy, FinishApp, Prune,
           PruneRefused, Fail, FailVerify, FailStop, FailApp, Writes, Marks, Decides, WorkerPlaces
<1> QED
    BY <1>1, <1>2, <1>3, <1>4, <1>5

\* Launching changes no record, and leaves the launching places for idle or settle.
LEMMA LaunchAlone ==
    ASSUME Typed, NEW t \in Threads, Launch(t)
    PROVE  /\ \A s \in Threads : s # t => th'[s] = th[s]
           /\ UNCHANGED records /\ UNCHANGED host
           /\ attempts' \in {attempts, 0}
           /\ th[t].at \in LaunchPlaces
           /\ th'[t].at \in LaunchPlaces \cup {"settle", "idle"}
<1>0. LaunchPlaces \cup {"settle", "idle"} \subseteq Places
    BY DEF Places, OtherPlaces
<1>1. CASE LaunchStops(t)
    BY <1>0, <1>1, StopEffect DEF LaunchStops, LaunchPlaces, Stops, At, counters
<1>2. CASE LaunchSpawns(t)
    <2>1. PICK p \in Pids : th' = [th EXCEPT ![t].at = "launch_record", ![t].new = p]
        BY <1>2 DEF LaunchSpawns
    <2>2. th' = [th EXCEPT ![t] = [th[t] EXCEPT !.at = "launch_record", !.new = p]]
        BY <2>1
    <2>3. th'[t].at = "launch_record" /\ \A s \in Threads : s # t => th'[s] = th[s]
        BY <2>2 DEF Typed, Locals
    <2> QED
        BY <1>2, <2>3 DEF LaunchSpawns, LaunchPlaces, At, counters
<1>3. CASE \E next \in LaunchPlaces \cup {"settle", "idle"} :
              /\ GoOn(t, next) /\ UNCHANGED <<records, host>> /\ attempts' \in {attempts, 0}
              /\ th[t].at \in LaunchPlaces
    BY <1>0, <1>3, GoesOn
<1>4. Launch(t) => \/ LaunchStops(t) \/ LaunchSpawns(t)
                   \/ \E next \in LaunchPlaces \cup {"settle", "idle"} :
                         /\ GoOn(t, next) /\ UNCHANGED <<records, host>> /\ attempts' \in {attempts, 0}
                         /\ th[t].at \in LaunchPlaces
    BY DEF Launch, LaunchFailed, LaunchHeld, LaunchRaises, LaunchRecords, LaunchCaught, At, Writes,
           Decides, AfterRefusal, AfterStart, AfterRaise, LaunchPlaces, counters
<1> QED
    BY <1>1, <1>2, <1>3, <1>4

\* A request's step: the others' locals, the queue and the launcher stay, and
\* who is about to delete an app knows which.
LEMMA PageAlone ==
    ASSUME Typed, NEW c \in Clients, Press(c) \/ Serve(c)
    PROVE  /\ \A s \in Threads : s # c => th'[s] = th[s]
           /\ UNCHANGED queue /\ UNCHANGED host
           /\ attempts' \in {attempts, 0}
           /\ launcher = "up" \/ ~Idle(c)
           /\ \/ th'[c].at \notin {"delete_kill", "delete_row"}
              \/ th'[c].id \in AppIds
              \/ th[c].at = "delete_kill" /\ th'[c].id = th[c].id
           /\ UNCHANGED deploy \/ Settle(c) \/ DeleteRow(c)
<1> USE DEF row, records, files, counters, host
<1>0. c \in Threads /\ OtherPlaces \cup LaunchPlaces \subseteq Places
    BY DEF Threads, Places
<1>1. CASE Press(c)
    <2>1. PICK op \in ThreadOps, place \in Places : \E new : Pressed(c, op, new, place)
        BY <1>1 DEF Press, Stop, Start, SaveSetting, RemoveSetting, RestartAll, Delete, ThreadOps,
                    AllOps, Places, OtherPlaces, LaunchPlaces
    <2>2. /\ th'[c] = Holding(place, op) /\ th'[c].id = app.id
          /\ \A s \in Threads : s # c => th'[s] = th[s]
        <3>1. th' = [th EXCEPT ![c] = Holding(place, op)]
            BY <2>1 DEF Pressed
        <3> QED
            BY <1>0, <3>1, BeginsTyped, HoldingTyped
    <2>3. app.id \in AppIds /\ launcher = "up"
        BY <1>1 DEF Press, Stop, Start, SaveSetting, RemoveSetting, RestartAll, Delete, MayPress, Free,
                    Typed, Rows
    <2> QED
        BY <2>1, <2>2, <2>3 DEF Pressed
<1>2. CASE StopKills(c) \/ Withdraw(c) \/ DeleteKills(c)
    BY <1>0, <1>2, StopEffect DEF StopKills, Withdraw, DeleteKills, OtherPlaces, Stops, At, Idle
<1>3. CASE ApplySettings(c)
    <2>1. \/ th' = [th EXCEPT ![c] = Holding("launch", "setup")]
          \/ th' = [th EXCEPT ![c] = Holding("launch", "refresh")]
          \/ th' = [th EXCEPT ![c] = Holding("withdraw", "remove")]
          \/ th' = [th EXCEPT ![c] = IdleThread]
        BY <1>3 DEF ApplySettings
    <2>2. /\ {"setup", "refresh", "remove"} \subseteq ThreadOps
          /\ {"launch", "withdraw"} \subseteq Places
        BY DEF ThreadOps, AllOps, Places, LaunchPlaces, OtherPlaces
    <2>3. /\ th'[c].at \in {"launch", "withdraw", "idle"}
          /\ \A s \in Threads : s # c => th'[s] = th[s]
        BY <1>0, <2>1, <2>2, BeginsTyped, HoldingTyped DEF Typed, IdleThread
    <2> QED
        BY <1>3, <2>3 DEF ApplySettings, At, Idle
<1>4. CASE WithdrawApp(c) \/ Settle(c) \/ DeleteRow(c) \/ DeleteFiles(c)
    <2>1. PICK next \in {"idle", "delete_files"} : GoOn(c, next)
        BY <1>4 DEF WithdrawApp, Settle, DeleteRow, DeleteFiles, Writes
    <2>2. th'[c].at = next /\ \A s \in Threads : s # c => th'[s] = th[s]
        BY <1>0, <2>1, GoesOn DEF OtherPlaces
    <2> QED
        BY <1>4, <2>2 DEF WithdrawApp, Settle, DeleteRow, DeleteFiles, Writes, At, Idle
<1>5. CASE Launch(c)
    BY <1>0, <1>5, LaunchAlone DEF Idle, LaunchPlaces
<1> QED
    BY <1>1, <1>2, <1>3, <1>4, <1>5 DEF Serve

LEMMA TriesStay == ASSUME Typed, Tries, [Next]_vars PROVE Tries'
<1> USE DEF counters, host
<1>0. /\ SUPERVISOR \in Threads /\ SUPERVISOR \notin Workers /\ SUPERVISOR \notin Clients
      /\ RESTARTS_BEFORE_GIVING_UP \in Nat
    BY ConstantsOK DEF Threads
<1>1. ASSUME th'[SUPERVISOR] = th[SUPERVISOR], attempts' \in {attempts, 0} PROVE Tries'
    BY <1>0, <1>1 DEF Tries
<1>2. ASSUME NEW w \in Workers, RunDeploy(w) PROVE Tries'
    BY <1>0, <1>1, <1>2, WorkerAlone
<1>3. ASSUME NEW c \in Clients, Press(c) \/ Serve(c) PROVE Tries'
    BY <1>0, <1>1, <1>3, PageAlone
<1>4. CASE Supervise
    <2>1. CASE CheckDead
        <3>1. th[SUPERVISOR].at = "look"
            BY <2>1 DEF CheckDead, At
        <3>2. attempts \in 0 .. RESTARTS_BEFORE_GIVING_UP /\ attempts' = attempts + 1
            BY <2>1, <3>1 DEF CheckDead, Tries
        <3>3. th'[SUPERVISOR].at = "give_up" \/ attempts + 1 <= RESTARTS_BEFORE_GIVING_UP
            <4>1. CASE attempts + 1 > RESTARTS_BEFORE_GIVING_UP
                BY <1>0, <2>1, <4>1, GoesOn DEF CheckDead, Places, OtherPlaces
            <4> QED
                BY <1>0, <3>2, <4>1
        <3> QED
            BY <1>0, <3>2, <3>3 DEF Tries
    <2>5. CASE Look
        BY <1>0, <2>5 DEF Look, MayCheck, Free, Idle, Tries
    <2>2. CASE CheckHealthy \/ CheckHeavy \/ GiveUpApp
        BY <1>0, <2>2 DEF CheckHealthy, CheckHeavy, GiveUpApp, Tries
    <2>3. CASE GiveUp
        <3>1. th'[SUPERVISOR].at = "give_up_app" /\ UNCHANGED attempts
            BY <1>0, <2>3, StopEffect DEF GiveUp, Places, OtherPlaces, Stops
        <3> QED
            BY <3>1 DEF Tries
    <2>4. CASE Launch(SUPERVISOR)
        <3>1. th[SUPERVISOR].at \notin {"give_up", "give_up_app"} /\ attempts' \in {attempts, 0}
            BY <1>0, <2>4, LaunchAlone DEF LaunchPlaces
        <3> QED
            BY <1>0, <3>1 DEF Tries
    <2> QED
        BY <1>4, <2>1, <2>2, <2>3, <2>4, <2>5 DEF Supervise
<1>5. CASE Crash
    BY <1>0, <1>5 DEF Crash, Tries
<1>6. CASE Recover
    <2>1. UNCHANGED attempts /\ (th[SUPERVISOR].at \in {"idle", "recover_app"} \/ UNCHANGED th)
        BY <1>6 DEF Recover, Boot, RecoverDeploy, RecoverApp, Restore, Ready, Writes, Idle, At
    <2> QED
        BY <2>1 DEF Tries
<1>7. CASE Environment \/ Upload \/ ReplaceStop \/ Rollback \/ UNCHANGED vars
    <2>1. UNCHANGED attempts /\ UNCHANGED th
        BY <1>7 DEF Environment, ComesUp, Dies, Reused, StrangerExits, OnlyProc, Upload, ReplaceStop,
                    Rollback, vars
    <2> QED
        BY <2>1 DEF Tries
<1> QED
    BY <1>2, <1>3, <1>4, <1>5, <1>6, <1>7 DEF Next

LEMMA InitiallyTyped == Init => Typed /\ Tries
<1> SUFFICES ASSUME Init PROVE Typed /\ Tries
    OBVIOUS
<1>1. th \in [Threads -> Locals] /\ proc \in [Pids -> Processes] /\ queue \in Seq(Deploys)
    BY Blanks, EmptySeq DEF Init
<1>2. deploy \in [Deploys -> DeployRows] /\ app \in Rows /\ src \in Sources
    BY Blanks DEF Init
<1> QED
    BY <1>1, <1>2, ConstantsOK DEF Init, Typed, Tries

\* Rows, records, files, processes and every thread's locals keep their types,
\* and an app that dies is started RESTARTS_BEFORE_GIVING_UP times at most
\* before it is given up (supervisor.py, check_once).
THEOREM TypeCorrect == Spec => []TypeOK
<1>1. Init => Typed /\ Tries
    BY InitiallyTyped
<1>2. Typed /\ Tries /\ [Next]_vars => Typed' /\ Tries'
    BY TypesStay, TriesStay
<1>3. Typed /\ Tries => TypeOK
    BY TypeParts
<1> QED
    BY <1>1, <1>2, <1>3, PTL DEF Spec

-----------------------------------------------------------------------------
(* What a worker has in hand                                                *)

\* The statuses a record may have when its worker is at a place, unless the
\* app was deleted.
Word(place) == CASE place \in {"finish_app", "prune"}    -> {"live"}
                 [] place = "hold_app"                   -> {"needs_setup", "live"}
                 [] place \in {"fail_stop", "fail_app"}   -> {"failed"}
                 [] place = "fail"                       -> {"building"} \cup
                                                            (IF IS_WINDOWS THEN {"live"} ELSE {})
                 [] OTHER                                -> {"building"}

Status(d) == deploy[d].status

USE DEF Status

\* A worker that is at work has a record in hand that says so, and no two have
\* the same one.
InHand ==
    /\ \A w \in Workers : ~Idle(w) => /\ th[w].at \in WorkerPlaces /\ th[w].d \in Deploys
                                     /\ Status(th[w].d) \in Word(th[w].at) \cup {"gone"}
    /\ \A u, w \in Workers : ~Idle(u) /\ ~Idle(w) /\ th[u].d = th[w].d => u = w

\* The queue holds each record once, and none that has been taken.
Queued ==
    /\ \A i \in DOMAIN queue : Status(queue[i]) \in {"queued", "gone"}
    /\ \A i, j \in DOMAIN queue : queue[i] = queue[j] => i = j

\* Who deletes an app's records knows the app, and a record that was never
\* written is of none.
Deleting ==
    /\ \A c \in Clients : th[c].at \in {"delete_kill", "delete_row"} => th[c].id \in AppIds
    /\ \A d \in Deploys : Status(d) = "unborn" => deploy[d].app = None

\* Until the launcher is up only the supervisor's thread runs, and before it
\* restores the apps it has ended every record a crash left unfinished.
Starting ==
    /\ launcher # "up" => queue = << >> /\ \A t \in Workers \cup Clients : Idle(t)
    /\ launcher = "restoring" => Unfinished = {}

\* Every unfinished record is in the queue or in hand.
Kept ==
    launcher = "up" => \A d \in Deploys :
        /\ Status(d) = "queued" => \E i \in DOMAIN queue : queue[i] = d
        /\ Status(d) = "building" => \E w \in Workers : ~Idle(w) /\ th[w].d = d

Owned == InHand /\ Queued /\ Deleting /\ Starting /\ Kept

\* The invariant says more than the property.
LEMMA OwnedSuffices == ASSUME Typed, Owned PROVE UnfinishedHasOwner
<1>1. SUFFICES ASSUME launcher = "up", NEW d \in Deploys
               PROVE  /\ deploy[d].status = "queued" =>
                            /\ \E i \in DOMAIN queue : queue[i] = d
                            /\ \A i, j \in DOMAIN queue : queue[i] = d /\ queue[j] = d => i = j
                      /\ deploy[d].status = "building" =>
                            /\ \E w \in Workers : Building(w) /\ th[w].d = d
                            /\ \A u, w \in Workers : Building(u) /\ th[u].d = d
                                                       /\ Building(w) /\ th[w].d = d => u = w
    BY DEF UnfinishedHasOwner
<1>2. \A w \in Workers : Building(w) => ~Idle(w)
    BY DEF Building, Idle, WorkerPlaces
<1>3. ASSUME Status(d) = "building", NEW w \in Workers, ~Idle(w), th[w].d = d PROVE Building(w)
    <2>1. "building" \in Word(th[w].at) /\ th[w].at \in WorkerPlaces
        BY <1>3 DEF Owned, InHand
    <2> QED
        BY <2>1 DEF Building, Word
<1> QED
    BY <1>1, <1>2, <1>3 DEF Owned, InHand, Queued, Kept

LEMMA InitiallyOwned == Init => Owned
<1> SUFFICES ASSUME Init PROVE Owned
    OBVIOUS
<1>1. /\ \A t \in Threads : Idle(t)
      /\ \A d \in Deploys : Status(d) = "unborn" /\ deploy[d].app = None
    BY DEF Init, Idle, IdleThread, NoDeploy
<1>2. Workers \cup Clients \subseteq Threads
    BY DEF Threads
<1>3. queue = << >> /\ launcher = "up"
    BY DEF Init
<1> QED
    BY <1>1, <1>2, <1>3 DEF Owned, InHand, Queued, Deleting, Starting, Kept, Idle

\* The next record has never been written, and it alone is, as queued.
LEMMA EnqueueEffect ==
    ASSUME Typed, NEW id \in AppIds, NEW v, Enqueue(id, v)
    PROVE  \E d \in Deploys :
              /\ Status(d) = "unborn" /\ Status(d)' = "queued" /\ deploy'[d].app = id
              /\ \A e \in Deploys : e # d => deploy'[e] = deploy[e]
              /\ queue' = Append(queue, d)
<1>1. PICK d \in Deploys :
        /\ IsNext(d)
        /\ deploy' = [deploy EXCEPT ![d] = [status |-> "queued", app |-> id,
                                            version |-> IF v = None THEN d ELSE v]]
        /\ queue' = Append(queue, d)
    BY DEF Enqueue
<1> QED
    BY <1>1 DEF IsNext, Typed

LEMMA SetEffect ==
    ASSUME Typed, NEW d \in Deploys, NEW status, SetDeploy(d, status)
    PROVE  /\ \A e \in Deploys : e # d => deploy'[e] = deploy[e]
           /\ deploy'[d].app = deploy[d].app
           /\ Status(d)' = IF Status(d) = "gone" THEN "gone" ELSE status
    BY DEF Typed, SetDeploy, DeployRows

\* Where a worker may go from where it is: on, with the same record in hand, or
\* to rest when the last word on that is written.
GoesTo(w, next) ==
    /\ th[w].at \in WorkerPlaces /\ th'[w].at = next
    /\ \/ next = "idle" /\ "building" \notin Word(th[w].at)
       \/ /\ next \in WorkerPlaces /\ th'[w].d = th[w].d
          /\ Word(th[w].at) \subseteq Word(next)

\* The last word on a deploy, and where it is written.
LastWord(w, place, word, next) ==
    /\ th[w].at = place /\ SetDeploy(th[w].d, word)
    /\ th'[w].at = next /\ th'[w].d = th[w].d

LEMMA WorkerEffect ==
    ASSUME Typed, NEW w \in Workers, RunDeploy(w)
    PROVE  \/ /\ Idle(w) /\ launcher = "up" /\ queue # << >> /\ queue' = Tail(queue)
              /\ \/ Status(Head(queue)) = "gone" /\ UNCHANGED <<deploy, th>>
                 \/ /\ Status(Head(queue)) # "gone" /\ SetDeploy(Head(queue), "building")
                    /\ th'[w].at = "mark" /\ th'[w].d = Head(queue)
           \/ /\ UNCHANGED queue
              /\ \/ LastWord(w, "hold", "needs_setup", "hold_app")
                 \/ LastWord(w, "finish", "live", "finish_app")
                 \/ LastWord(w, "fail", "failed", "fail_app")
                 \/ LastWord(w, "fail_verify", "failed", "fail_stop")
           \/ UNCHANGED <<deploy, queue>> /\ \E next \in WorkerPlaces \cup {"idle"} : GoesTo(w, next)
<1> USE DEF row, records, files, counters, host
<1>0. w \in Threads /\ WorkerPlaces \cup {"idle"} \subseteq Places /\ "idle" \notin WorkerPlaces
    BY DEF Threads, Places, OtherPlaces, WorkerPlaces
<1>1. CASE Take(w)
    <2>1. ASSUME th' = [th EXCEPT ![w] = [Holding("mark", "deploy") EXCEPT !.d = Head(queue)]]
          PROVE  th'[w].at = "mark" /\ th'[w].d = Head(queue)
        <3>1. Holding("mark", "deploy") \in Locals /\ Holding("mark", "deploy").at = "mark"
            BY <1>0, HoldingTyped DEF ThreadOps, WorkerPlaces
        <3>2. th'[w] = [Holding("mark", "deploy") EXCEPT !.d = Head(queue)]
            BY <1>0, <2>1 DEF Typed
        <3> QED
            BY <3>1, <3>2 DEF Locals
    <2> QED
        BY <1>1, <2>1 DEF Take, Free
<1>2. CASE Hold(w) \/ FinishDeploy(w) \/ Fail(w) \/ FailVerify(w)
    BY <1>0, <1>2, GoesOn
       DEF Hold, FinishDeploy, Fail, FailVerify, Marks, LastWord, At, WorkerPlaces
<1>3. CASE StopPrevious(w)
    <2>1. th[w].at = "stop" /\ th'[w].at = "spawn" /\ th'[w].d = th[w].d /\ UNCHANGED <<deploy, queue>>
        BY <1>0, <1>3, StopEffect DEF StopPrevious, WorkerPlaces, Stops, At
    <2> QED
        BY <2>1 DEF GoesTo, Word, WorkerPlaces
<1>4. CASE StartNew(w)
    <2>1. CASE ~CanSpawn
        <3>1. th[w].at = "spawn" /\ th'[w].at = "fail" /\ th'[w].d = th[w].d /\ UNCHANGED <<deploy, queue>>
            BY <1>0, <1>4, <2>1, GoesOn DEF StartNew, WorkerPlaces, At
        <3> QED
            BY <3>1 DEF GoesTo, Word, WorkerPlaces
    <2>2. CASE CanSpawn
        <3>1. PICK p \in Pids : th' = [th EXCEPT ![w].at = "record", ![w].new = p, ![w].swapped = TRUE]
            BY <1>4, <2>2 DEF StartNew
        <3>2. th' = [th EXCEPT ![w] = [th[w] EXCEPT !.at = "record", !.new = p, !.swapped = TRUE]]
            BY <3>1
        <3>3. /\ th[w].at = "spawn" /\ th'[w].at = "record" /\ th'[w].d = th[w].d
              /\ UNCHANGED <<deploy, queue>>
            BY <1>0, <1>4, <3>2 DEF StartNew, At, Typed, Locals
        <3> QED
            BY <3>3 DEF GoesTo, Word, WorkerPlaces
    <2> QED
        BY <2>1, <2>2
<1>5. ASSUME NEW place \in WorkerPlaces, NEW next \in WorkerPlaces \cup {"idle"},
             At(w, place), GoOn(w, next), UNCHANGED <<deploy, queue>>,
             IF next = "idle" THEN "building" \notin Word(place) ELSE Word(place) \subseteq Word(next)
      PROVE  UNCHANGED <<deploy, queue>> /\ GoesTo(w, next)
    BY <1>0, <1>5, GoesOn DEF At, GoesTo
<1>6. CASE HoldApp(w) \/ FailApp(w) \/ Prune(w)
    <2>1. PICK place \in {"hold_app", "fail_app", "prune"} : At(w, place) /\ GoOn(w, "idle")
        BY <1>6 DEF HoldApp, FailApp, Prune, Writes
    <2>2. UNCHANGED <<deploy, queue>>
        BY <1>6 DEF HoldApp, FailApp, Prune, Writes
    <2>3. "building" \notin Word(place) /\ place \in WorkerPlaces
        BY DEF Word, WorkerPlaces
    <2> QED
        BY <1>5, <2>1, <2>2, <2>3
<1>7. CASE FinishApp(w) \/ PruneRefused(w) \/ FailStop(w)
    <2>1. UNCHANGED <<deploy, queue>>
        BY <1>7 DEF FinishApp, PruneRefused, FailStop, Writes, Decides
    <2>2. PICK place \in {"finish_app", "prune", "fail_stop"}, next \in {"prune", "fail", "fail_app"} :
            /\ At(w, place) /\ GoOn(w, next)
            /\ <<place, next>> \in {<<"finish_app", "prune">>, <<"fail_stop", "fail_app">>}
               \/ (<<place, next>> = <<"prune", "fail">> /\ IS_WINDOWS)
        BY <1>7 DEF FinishApp, PruneRefused, FailStop, Writes, Decides
    <2>3. Word(place) \subseteq Word(next) /\ {place, next} \subseteq WorkerPlaces /\ next # "idle"
        BY <2>2 DEF Word, WorkerPlaces
    <2> QED
        BY <1>5, <2>1, <2>2, <2>3
<1>8. ASSUME \/ MarkBuilding(w) \/ ClearSource(w) \/ ClearSourceBusy(w) \/ Unpack(w) \/ Declare(w)
             \/ BuildFails(w) \/ Build(w) \/ CheckSettings(w) \/ RecordNew(w) \/ Verify(w)
      PROVE  UNCHANGED <<deploy, queue>> /\ \E next \in WorkerPlaces \cup {"idle"} : GoesTo(w, next)
    <2> DEFINE Early  == {"mark", "clear", "unpack", "declare", "build", "check", "record", "verify"}
               Later  == {"clear", "unpack", "declare", "build", "check", "hold", "stop", "verify",
                          "finish", "fail", "fail_verify"}
    <2>1. UNCHANGED <<deploy, queue>> /\ \E place \in Early, next \in Later : At(w, place) /\ GoOn(w, next)
        BY <1>8 DEF MarkBuilding, ClearSource, ClearSourceBusy, Unpack, Declare, BuildFails, Build,
                    CheckSettings, RecordNew, Verify, Writes, Decides
    <2>2. PICK place \in Early, next \in Later : At(w, place) /\ GoOn(w, next)
        BY <2>1
    <2>3. Word(place) \subseteq Word(next) /\ {place, next} \subseteq WorkerPlaces /\ next # "idle"
        BY DEF Word, WorkerPlaces
    <2> QED
        BY <1>5, <2>1, <2>2, <2>3
<1> QED
    BY <1>1, <1>2, <1>3, <1>4, <1>6, <1>7, <1>8 DEF RunDeploy

-----------------------------------------------------------------------------
(* Every step keeps every unfinished record somebody's                      *)

LEMMA EnqueueKeeps ==
    ASSUME Typed, Owned, launcher = "up", UNCHANGED <<th, launcher>>,
           NEW id \in AppIds, NEW v, Enqueue(id, v)
    PROVE  Owned'
<1>1. PICK d \in Deploys :
        /\ Status(d) = "unborn" /\ Status(d)' = "queued" /\ deploy'[d].app = id
        /\ \A e \in Deploys : e # d => deploy'[e] = deploy[e]
        /\ queue' = Append(queue, d)
    BY EnqueueEffect
<1>2. /\ queue \in Seq(Deploys) /\ Len(queue) \in Nat /\ DOMAIN queue = 1 .. Len(queue)
      /\ DOMAIN queue' = 1 .. Len(queue) + 1 /\ queue'[Len(queue) + 1] = d
      /\ \A i \in DOMAIN queue : queue'[i] = queue[i] /\ queue[i] \in Deploys
    BY <1>1, AppendProperties, LenProperties, ElementOfSeq DEF Typed
<1>3. \A e \in Deploys : e # d => Status(e)' = Status(e)
    BY <1>1
<1>4. InHand'
    <2>1. \A w \in Workers : ~Idle(w) => th[w].d # d
        BY <1>1 DEF Owned, InHand, Word
    <2> QED
        BY <1>3, <2>1 DEF Owned, InHand, Idle
<1>5. Queued'
    <2>1. \A i \in DOMAIN queue : queue[i] # d
        BY <1>1 DEF Owned, Queued
    <2> QED
        BY <1>1, <1>2, <1>3, <2>1 DEF Owned, Queued
<1>6. Deleting'
    BY <1>1, <1>3 DEF Owned, Deleting
<1>7. Starting'
    BY DEF Starting
<1>8. Kept'
    <2>1. SUFFICES ASSUME NEW e \in Deploys
                   PROVE  /\ Status(e)' = "queued" => \E i \in DOMAIN queue' : queue'[i] = e
                          /\ Status(e)' = "building" => \E w \in Workers : ~Idle(w)' /\ th'[w].d = e
        BY DEF Kept
    <2>2. CASE e = d
        BY <1>1, <1>2, <2>2
    <2>3. CASE e # d
        BY <1>2, <1>3, <2>3 DEF Owned, Kept, Idle
    <2> QED
        BY <2>2, <2>3
<1> QED
    BY <1>4, <1>5, <1>6, <1>7, <1>8 DEF Owned

LEMMA RequestEnqueues ==
    ASSUME Typed, Upload \/ ReplaceStop \/ Rollback
    PROVE  \E id \in AppIds, v \in {None} \cup Deploys : Enqueue(id, v)
<1>1. app.id # None => app.id \in AppIds
    BY DEF Typed, Rows
<1>2. lastId < MaxIds => lastId + 1 \in AppIds
    BY ConstantsOK DEF Typed, AppIds
<1>3. \A d \in DeploysOf(app.id) : deploy[d].version \in {None} \cup Deploys
    BY DEF Typed, DeploysOf, DeployRows
<1> QED
    BY <1>1, <1>2, <1>3 DEF Upload, ReplaceStop, Rollback

LEMMA RequestsKeep == ASSUME Typed, Owned, Upload \/ ReplaceStop \/ Rollback PROVE Owned'
<1>1. launcher = "up" /\ UNCHANGED <<th, launcher>>
    BY DEF Upload, ReplaceStop, Rollback, MayRequest, host
<1>2. \E id \in AppIds, v \in {None} \cup Deploys : Enqueue(id, v)
    BY RequestEnqueues
<1> QED
    BY <1>1, <1>2, EnqueueKeeps

\* A worker that writes the last word on the deploy it has in hand.
LEMMA LastWordKeeps ==
    ASSUME Typed, Owned, NEW w \in Workers, NEW place, NEW word \in {"needs_setup", "live", "failed"},
           NEW next \in WorkerPlaces, LastWord(w, place, word, next), place # "idle",
           word \in Word(next), UNCHANGED <<queue, launcher>>,
           \A s \in Threads : s # w => th'[s] = th[s]
    PROVE  Owned'
<1>1. /\ ~Idle(w) /\ ~Idle(w)' /\ th'[w].d = th[w].d /\ th[w].d \in Deploys
      /\ Status(th[w].d) \in {"building", "live", "needs_setup", "failed", "gone"}
    BY DEF LastWord, Idle, WorkerPlaces, Owned, InHand, Word
<1>2. /\ \A e \in Deploys : e # th[w].d => deploy'[e] = deploy[e]
      /\ deploy'[th[w].d].status \in {word, "gone"}
      /\ Status(th[w].d) = "gone" => deploy'[th[w].d].status = "gone"
    BY <1>1, SetEffect DEF LastWord
<1>3. \A e \in Deploys : e # th[w].d => Status(e)' = Status(e)
    BY <1>2
<1>4. \A s \in Workers \cup Clients : s # w => th'[s] = th[s] /\ Idle(s)' = Idle(s)
    BY DEF Threads, Idle
<1>5. InHand'
    <2>1. \A u \in Workers : u # w /\ ~Idle(u) => th[u].d # th[w].d
        BY <1>1 DEF Owned, InHand
    <2>2. th'[w].at \in WorkerPlaces /\ deploy'[th'[w].d].status \in Word(th'[w].at) \cup {"gone"}
        BY <1>1, <1>2 DEF LastWord
    <2>3. \A u \in Workers : u # w /\ ~Idle(u)' =>
             /\ th'[u].at \in WorkerPlaces /\ th'[u].d \in Deploys
             /\ deploy'[th'[u].d].status \in Word(th'[u].at) \cup {"gone"}
        BY <1>3, <1>4, <2>1 DEF Owned, InHand
    <2>4. \A u, v \in Workers : ~Idle(u)' /\ ~Idle(v)' /\ th'[u].d = th'[v].d => u = v
        BY <1>1, <1>4, <2>1 DEF Owned, InHand
    <2> QED
        BY <1>1, <2>2, <2>3, <2>4 DEF InHand
<1>6. Queued'
    <2>1. \A i \in DOMAIN queue : queue[i] \in Deploys
        BY ElementOfSeq, LenProperties DEF Typed
    <2> QED
        BY <1>1, <1>2, <1>3, <2>1 DEF Owned, Queued
<1>7. Deleting'
    BY <1>1, <1>2, <1>3, <1>4, ConstantsOK DEF Owned, Deleting
<1>8. launcher = "up"
    BY <1>1 DEF Owned, Starting
<1>9. Starting' /\ Kept'
    BY <1>1, <1>2, <1>3, <1>4, <1>8 DEF Owned, Starting, Kept
<1> QED
    BY <1>5, <1>6, <1>7, <1>9 DEF Owned

\* A worker that goes on, or is done.
LEMMA GoingKeeps ==
    ASSUME Typed, Owned, NEW w \in Workers, NEW next \in WorkerPlaces \cup {"idle"}, GoesTo(w, next),
           UNCHANGED <<deploy, queue, launcher>>, \A s \in Threads : s # w => th'[s] = th[s]
    PROVE  Owned'
<1>1. ~Idle(w)
    BY DEF GoesTo, Idle, WorkerPlaces
<1>2. \A s \in Workers \cup Clients : s # w => th'[s] = th[s] /\ Idle(s)' = Idle(s)
    BY DEF Threads, Idle
<1>3. launcher = "up"
    BY <1>1 DEF Owned, Starting
<1>4. InHand'
    <2>1. ~Idle(w)' => /\ th'[w].at \in WorkerPlaces /\ th'[w].d = th[w].d
                       /\ Word(th[w].at) \subseteq Word(th'[w].at)
        BY DEF GoesTo, Idle
    <2>2. ~Idle(w)' => /\ th'[w].at \in WorkerPlaces /\ th'[w].d \in Deploys
                       /\ deploy'[th'[w].d].status \in Word(th'[w].at) \cup {"gone"}
        BY <1>1, <2>1 DEF Owned, InHand
    <2>3. \A u \in Workers : u # w /\ ~Idle(u)' =>
             /\ th'[u].at \in WorkerPlaces /\ th'[u].d \in Deploys
             /\ deploy'[th'[u].d].status \in Word(th'[u].at) \cup {"gone"}
        BY <1>2 DEF Owned, InHand
    <2>4. \A u, v \in Workers : ~Idle(u)' /\ ~Idle(v)' /\ th'[u].d = th'[v].d => u = v
        BY <1>1, <1>2, <2>1 DEF Owned, InHand
    <2> QED
        BY <2>2, <2>3, <2>4 DEF InHand
<1>5. Queued' /\ Starting'
    BY <1>3 DEF Owned, Queued, Starting
<1>6. Deleting'
    BY <1>2, ConstantsOK DEF Owned, Deleting
<1>7. Kept'
    <2>1. Status(th[w].d) = "building" => "building" \in Word(th[w].at)
        BY <1>1 DEF Owned, InHand
    <2>2. \/ ~Idle(w)' /\ th'[w].d = th[w].d
          \/ "building" \notin Word(th[w].at)
        BY DEF GoesTo, Idle, WorkerPlaces
    <2>3. ASSUME NEW d \in Deploys, Status(d) = "building"
          PROVE  \E u \in Workers : ~Idle(u)' /\ th'[u].d = d
        <3>1. PICK u \in Workers : ~Idle(u) /\ th[u].d = d
            BY <1>3, <2>3 DEF Owned, Kept
        <3>2. CASE u = w
            BY <2>1, <2>2, <2>3, <3>1, <3>2
        <3>3. CASE u # w
            BY <1>2, <3>1, <3>3
        <3> QED
            BY <3>2, <3>3
    <2> QED
        BY <1>3, <2>3 DEF Owned, Kept
<1> QED
    BY <1>4, <1>5, <1>6, <1>7 DEF Owned

\* What is left of the queue when its head is taken.
LEMMA TailOf ==
    ASSUME NEW S, NEW q \in Seq(S), q # << >>
    PROVE  /\ Head(q) = q[1] /\ 1 \in DOMAIN q /\ Head(q) \in S
           /\ \A i \in DOMAIN Tail(q) : i + 1 \in DOMAIN q /\ Tail(q)[i] = q[i + 1] /\ i \in Nat \ {0}
           /\ \A i \in DOMAIN q : i # 1 => i - 1 \in DOMAIN Tail(q) /\ q[i] = Tail(q)[i - 1]
<1>1. Len(q) \in Nat \ {0} /\ DOMAIN q = 1 .. Len(q)
    BY EmptySeq, LenProperties
<1>2. /\ Head(q) \in S /\ Tail(q) \in Seq(S) /\ Len(Tail(q)) = Len(q) - 1
      /\ \A i \in 1 .. Len(Tail(q)) : Tail(q)[i] = q[i + 1]
    BY HeadTailProperties
<1>3. DOMAIN Tail(q) = 1 .. Len(q) - 1
    BY <1>2, LenProperties
<1> QED
    BY <1>1, <1>2, <1>3

\* A worker that takes the head of the queue.
LEMMA TakingKeeps ==
    ASSUME Typed, Owned, NEW w \in Workers, Idle(w), launcher = "up", launcher' = "up",
           queue # << >>, queue' = Tail(queue), \A s \in Threads : s # w => th'[s] = th[s],
           \/ Status(Head(queue)) = "gone" /\ UNCHANGED <<deploy, th>>
           \/ /\ Status(Head(queue)) # "gone" /\ SetDeploy(Head(queue), "building")
              /\ th'[w].at = "mark" /\ th'[w].d = Head(queue)
    PROVE  Owned'
<1> DEFINE d == Head(queue)
<1>1. /\ d = queue[1] /\ 1 \in DOMAIN queue /\ d \in Deploys
      /\ \A i \in DOMAIN queue' : i + 1 \in DOMAIN queue /\ queue'[i] = queue[i + 1] /\ i \in Nat \ {0}
      /\ \A i \in DOMAIN queue : i # 1 => i - 1 \in DOMAIN queue' /\ queue[i] = queue'[i - 1]
    BY TailOf DEF Typed
<1>2. \A i \in DOMAIN queue' : queue'[i] # d
    BY <1>1 DEF Owned, Queued
<1>3. \A i, j \in DOMAIN queue' : queue'[i] = queue'[j] => i = j
    BY <1>1 DEF Owned, Queued
<1>4. \A e \in Deploys : e # d => deploy'[e] = deploy[e]
    BY <1>1, SetEffect
<1>5. /\ deploy'[d].app = deploy[d].app
      /\ IF Status(d) = "gone" THEN deploy'[d].status = "gone" ELSE deploy'[d].status = "building"
    BY <1>1, SetEffect
<1>6. Queued'
    <2>1. \A i \in DOMAIN queue : queue[i] \in Deploys
        BY ElementOfSeq, LenProperties DEF Typed
    <2> QED
        BY <1>1, <1>2, <1>3, <1>4, <2>1 DEF Owned, Queued
<1>7. \A s \in Workers \cup Clients : s # w => th'[s] = th[s] /\ Idle(s)' = Idle(s)
    BY DEF Threads, Idle
<1>8. Deleting'
    BY <1>1, <1>4, <1>5, <1>7, ConstantsOK DEF Owned, Deleting
<1>9. Starting'
    BY DEF Starting
<1>10. Status(d) \in {"queued", "gone"}
    BY <1>1 DEF Owned, Queued
<1>11. \A u \in Workers : ~Idle(u) => th[u].d # d \/ Status(d) = "gone"
    BY <1>10 DEF Owned, InHand, Word
<1>12. CASE Status(d) = "gone"
    <2>1. UNCHANGED <<deploy, th>>
        BY <1>12
    <2>2. InHand'
        BY <2>1 DEF Owned, InHand, Idle
    <2>3. \A e \in Deploys, i \in DOMAIN queue : Status(e) = "queued" /\ queue[i] = e =>
             i # 1 /\ queue'[i - 1] = e /\ i - 1 \in DOMAIN queue'
        BY <1>1, <1>12
    <2>4. Kept'
        BY <2>1, <2>3 DEF Owned, Kept, Idle
    <2> QED
        BY <1>6, <1>8, <1>9, <2>2, <2>4 DEF Owned
<1>13. CASE Status(d) = "queued"
    <2>1. ~Idle(w)' /\ th'[w].at = "mark" /\ th'[w].d = d /\ deploy'[d].status = "building"
        BY <1>5, <1>13 DEF Idle
    <2>2. \A u \in Workers : u # w /\ ~Idle(u)' =>
             /\ th'[u].at \in WorkerPlaces /\ th'[u].d \in Deploys /\ th'[u].d # d
             /\ deploy'[th'[u].d].status \in Word(th'[u].at) \cup {"gone"}
        BY <1>4, <1>7, <1>11, <1>13 DEF Owned, InHand
    <2>3. \A u, v \in Workers : u # w /\ v # w /\ ~Idle(u)' /\ ~Idle(v)' /\ th'[u].d = th'[v].d => u = v
        BY <1>7 DEF Owned, InHand
    <2>4. InHand'
        <3>1. "building" \in Word("mark") /\ "mark" \in WorkerPlaces
            BY DEF Word, WorkerPlaces
        <3>2. /\ th'[w].at \in WorkerPlaces /\ th'[w].d \in Deploys
              /\ deploy'[th'[w].d].status \in Word(th'[w].at) \cup {"gone"}
            BY <1>1, <2>1, <3>1
        <3>3. \A u, v \in Workers : ~Idle(u)' /\ ~Idle(v)' /\ th'[u].d = th'[v].d => u = v
            BY <2>1, <2>2, <2>3
        <3> QED
            BY <2>2, <3>2, <3>3 DEF InHand
    <2>5. Kept'
        <3>1. SUFFICES ASSUME NEW e \in Deploys
                       PROVE  /\ Status(e)' = "queued" => \E i \in DOMAIN queue' : queue'[i] = e
                              /\ Status(e)' = "building" => \E u \in Workers : ~Idle(u)' /\ th'[u].d = e
            BY DEF Kept
        <3>2. CASE e = d
            BY <2>1, <3>2
        <3>3. CASE e # d
            <4>1. Status(e)' = Status(e)
                BY <1>4, <3>3
            <4>2. ASSUME Status(e) = "queued" PROVE \E i \in DOMAIN queue' : queue'[i] = e
                <5>1. PICK i \in DOMAIN queue : queue[i] = e
                    BY <4>2 DEF Owned, Kept
                <5>2. i - 1 \in DOMAIN queue' /\ queue'[i - 1] = e
                    BY <1>1, <3>3, <5>1
                <5> QED
                    BY <5>2
            <4>3. Status(e) = "building" => \E u \in Workers : ~Idle(u)' /\ th'[u].d = e
                BY <1>7 DEF Owned, Kept
            <4> QED
                BY <4>1, <4>2, <4>3
        <3> QED
            BY <3>2, <3>3
    <2> QED
        BY <1>6, <1>8, <1>9, <2>4, <2>5 DEF Owned
<1> QED
    BY <1>10, <1>12, <1>13

LEMMA BuildKeeps == ASSUME Typed, Owned, NEW w \in Workers, RunDeploy(w) PROVE Owned'
<1>1. UNCHANGED launcher /\ \A s \in Threads : s # w => th'[s] = th[s]
    BY WorkerAlone DEF host
<1>2. ASSUME NEW place \in WorkerPlaces, NEW next \in WorkerPlaces,
             NEW word \in {"needs_setup", "live", "failed"},
             LastWord(w, place, word, next), word \in Word(next), UNCHANGED queue
      PROVE  Owned'
    <2>1. place # "idle"
        BY DEF WorkerPlaces
    <2> QED
        BY <1>1, <1>2, <2>1, LastWordKeeps
<1>3. /\ "needs_setup" \in Word("hold_app") /\ "live" \in Word("finish_app")
      /\ "failed" \in Word("fail_app") /\ "failed" \in Word("fail_stop")
      /\ {"hold", "finish", "fail", "fail_verify", "hold_app", "finish_app", "fail_app", "fail_stop"}
           \subseteq WorkerPlaces
    BY DEF Word, WorkerPlaces
<1>4. ASSUME Idle(w), launcher = "up", queue # << >>, queue' = Tail(queue),
             \/ Status(Head(queue)) = "gone" /\ UNCHANGED <<deploy, th>>
             \/ /\ Status(Head(queue)) # "gone" /\ SetDeploy(Head(queue), "building")
                /\ th'[w].at = "mark" /\ th'[w].d = Head(queue)
      PROVE  Owned'
    BY <1>1, <1>4, TakingKeeps
<1>5. ASSUME NEW next \in WorkerPlaces \cup {"idle"}, GoesTo(w, next), UNCHANGED <<deploy, queue>>
      PROVE  Owned'
    BY <1>1, <1>5, GoingKeeps
<1> QED
    BY <1>2, <1>3, <1>4, <1>5, WorkerEffect

\* A step that leaves records, workers and the launcher's state alone.
LEMMA AsideKeeps ==
    ASSUME Typed, Owned, UNCHANGED <<deploy, queue, launcher>>,
           \A w \in Workers : th'[w] = th[w],
           \A c \in Clients : /\ launcher # "up" => th'[c] = th[c]
                              /\ \/ th'[c] = th[c]
                                 \/ th'[c].at \notin {"delete_kill", "delete_row"}
                                 \/ th'[c].id \in AppIds
    PROVE  Owned'
    BY DEF Owned, InHand, Queued, Deleting, Starting, Kept, Idle, Unfinished

LEMMA DeleteEffect ==
    ASSUME Typed, Owned, NEW c \in Clients, DeleteRow(c)
    PROVE  \E gone \in SUBSET {d \in Deploys : Status(d) # "unborn"} :
              /\ \A d \in gone : Status(d)' = "gone"
              /\ \A d \in Deploys \ gone : deploy'[d] = deploy[d]
<1> DEFINE gone == {d \in Deploys : deploy[d].app = th[c].id}
<1>1. deploy' = [d \in Deploys |-> IF deploy[d].app = th[c].id
                                   THEN [deploy[d] EXCEPT !.status = "gone"] ELSE deploy[d]]
    BY DEF DeleteRow
<1>2. th[c].id \in AppIds
    BY DEF DeleteRow, At, Owned, Deleting
<1>3. gone \in SUBSET {d \in Deploys : Status(d) # "unborn"}
    BY <1>2 DEF Owned, Deleting, AppIds
<1>4. \A d \in gone : Status(d)' = "gone"
    BY <1>1 DEF Typed, DeployRows
<1>5. \A d \in Deploys \ gone : deploy'[d] = deploy[d]
    BY <1>1
<1> QED
    BY <1>3, <1>4, <1>5

LEMMA SettleEffect ==
    ASSUME Typed, NEW c \in Clients, Settle(c)
    PROVE  \/ \A d \in Deploys : deploy'[d] = deploy[d]
           \/ \E d \in Deploys : /\ Status(d) = "needs_setup" /\ Status(d)' = "live"
                                 /\ deploy'[d].app = deploy[d].app
                                 /\ \A e \in Deploys : e # d => deploy'[e] = deploy[e]
<1>1. deploy' = [d \in Deploys |->
                   IF IsNewest(d, th[c].id) /\ deploy[d].status = "needs_setup"
                   THEN [deploy[d] EXCEPT !.status = "live"] ELSE deploy[d]]
    BY DEF Settle
<1>2. CASE \E d \in Deploys : IsNewest(d, th[c].id) /\ deploy[d].status = "needs_setup"
    <2>1. PICK d \in Deploys : IsNewest(d, th[c].id) /\ deploy[d].status = "needs_setup"
        BY <1>2
    <2>2. \A e \in Deploys : e # d => ~IsNewest(e, th[c].id)
        BY <2>1 DEF IsNewest, DeploysOf, Deploys
    <2>3. deploy'[d] = [deploy[d] EXCEPT !.status = "live"]
        BY <1>1, <2>1
    <2> QED
        BY <1>1, <2>1, <2>2, <2>3 DEF Typed, DeployRows
<1>3. CASE ~\E d \in Deploys : IsNewest(d, th[c].id) /\ deploy[d].status = "needs_setup"
    BY <1>1, <1>3
<1> QED
    BY <1>2, <1>3

\* A page that settles a record that waited, or deletes an app's records.
LEMMA RecordsOnlyKeep ==
    ASSUME Typed, Owned, launcher = "up", UNCHANGED <<queue, launcher>>,
           \A w \in Workers : th'[w] = th[w],
           \A c \in Clients : \/ th'[c].at \notin {"delete_kill", "delete_row"}
                              \/ th'[c].id \in AppIds,
           \A d \in Deploys : \/ deploy'[d] = deploy[d]
                              \/ Status(d) # "unborn" /\ Status(d)' = "gone"
                              \/ Status(d) = "needs_setup" /\ Status(d)' = "live"
    PROVE  Owned'
<1>1. InHand'
    <2>1. \A w \in Workers : "needs_setup" \in Word(th[w].at) => "live" \in Word(th[w].at)
        BY DEF Word
    <2> QED
        BY <2>1 DEF Owned, InHand, Idle
<1>2. Queued'
    <2>1. \A i \in DOMAIN queue : queue[i] \in Deploys
        BY ElementOfSeq, LenProperties DEF Typed
    <2> QED
        BY <2>1 DEF Owned, Queued
<1>3. Deleting'
    BY DEF Owned, Deleting
<1>4. Starting' /\ Kept'
    BY DEF Owned, Starting, Kept, Idle
<1> QED
    BY <1>1, <1>2, <1>3, <1>4 DEF Owned

LEMMA PagesKeep == ASSUME Typed, Owned, NEW c \in Clients, Press(c) \/ Serve(c) PROVE Owned'
<1>1. launcher = "up" /\ UNCHANGED launcher /\ UNCHANGED queue
    BY PageAlone DEF Owned, Starting, host
<1>2. \A w \in Workers : th'[w] = th[w]
    BY PageAlone, ConstantsOK DEF Threads
<1>3. \A e \in Clients : th'[e].at \notin {"delete_kill", "delete_row"} \/ th'[e].id \in AppIds
    <2>1. \A e \in Clients : e # c => th'[e] = th[e]
        BY PageAlone DEF Threads
    <2> QED
        BY <2>1, PageAlone DEF Owned, Deleting
<1>4. CASE UNCHANGED deploy
    BY <1>1, <1>2, <1>3, <1>4, RecordsOnlyKeep
<1>5. CASE Settle(c)
    BY <1>1, <1>2, <1>3, <1>5, SettleEffect, RecordsOnlyKeep
<1>6. CASE DeleteRow(c)
    BY <1>1, <1>2, <1>3, <1>6, DeleteEffect, RecordsOnlyKeep
<1> QED
    BY <1>4, <1>5, <1>6, PageAlone

\* The supervisor's thread changes no record while it supervises.
LEMMA SuperviseAlone ==
    ASSUME Typed, Supervise
    PROVE  /\ \A t \in Workers \cup Clients : th'[t] = th[t]
           /\ UNCHANGED records /\ UNCHANGED host
<1>0. /\ SUPERVISOR \in Threads /\ SUPERVISOR \notin Workers \cup Clients
      /\ {"launch", "give_up", "idle", "give_up_app"} \subseteq Places
    BY ConstantsOK DEF Threads, Places, OtherPlaces, LaunchPlaces
<1>1. CASE Look \/ CheckDead \/ CheckHealthy \/ CheckHeavy
    <2>1. UNCHANGED records /\ UNCHANGED host
        BY <1>1 DEF Look, CheckDead, CheckHealthy, CheckHeavy
    <2>2. CASE Look
        BY <1>0, <2>1, <2>2 DEF Look, Typed, Threads
    <2>3. CASE CheckDead \/ CheckHealthy \/ CheckHeavy
        <3>1. \E next \in {"launch", "give_up", "idle"} : GoOn(SUPERVISOR, next)
            BY <2>3 DEF CheckDead, CheckHealthy, CheckHeavy
        <3> QED
            BY <1>0, <2>1, <3>1, GoesOn DEF Threads
    <2> QED
        BY <1>1, <2>2, <2>3
<1>2. CASE GiveUp
    BY <1>0, <1>2, StopEffect DEF GiveUp, Stops, Threads
<1>3. CASE GiveUpApp
    BY <1>0, <1>3, GoesOn DEF GiveUpApp, Threads
<1>4. CASE Launch(SUPERVISOR)
    BY <1>0, <1>4, LaunchAlone DEF Threads
<1> QED
    BY <1>1, <1>2, <1>3, <1>4 DEF Supervise

LEMMA RecoverEffect ==
    ASSUME Typed, RecoverDeploy
    PROVE  \E d \in Deploys :
              /\ Status(d) \in {"queued", "building"} /\ Status(d)' = "failed"
              /\ deploy'[d].app = deploy[d].app
              /\ \A e \in Deploys : e # d => deploy'[e] = deploy[e]
<1>1. PICK d \in Unfinished : SetDeploy(d, "failed")
    BY DEF RecoverDeploy
<1> QED
    BY <1>1, SetEffect DEF Unfinished

LEMMA HostKeeps == ASSUME Typed, Owned, Crash \/ Recover \/ Environment PROVE Owned'
<1> USE DEF row, records, host
<1>0. SUPERVISOR \notin Workers \cup Clients /\ Workers \cup Clients \subseteq Threads
    BY ConstantsOK DEF Threads
<1>1. CASE Crash
    <2>1. \A t \in Workers \cup Clients : Idle(t)' /\ th'[t].at = "idle"
        BY <1>0, <1>1 DEF Crash, Idle, IdleThread
    <2> QED
        BY <1>1, <2>1 DEF Crash, Owned, InHand, Queued, Deleting, Starting, Kept
<1>2. CASE Boot
    BY <1>2 DEF Boot, Owned, InHand, Queued, Deleting, Starting, Kept, Idle
<1>3. CASE RecoverDeploy
    <2>1. launcher = "recovering" /\ UNCHANGED <<queue, launcher>>
        BY <1>3 DEF RecoverDeploy
    <2>2. \A t \in Workers \cup Clients : th'[t] = th[t] /\ Idle(t)
        BY <1>0, <1>3, <2>1 DEF RecoverDeploy, Typed, Owned, Starting
    <2>3. queue = << >>
        BY <2>1 DEF Owned, Starting
    <2>4. \A d \in Deploys : Status(d)' = "unborn" => deploy'[d] = deploy[d]
        BY <1>3, RecoverEffect
    <2> QED
        BY <2>1, <2>2, <2>3, <2>4 DEF Owned, InHand, Queued, Deleting, Starting, Kept, Idle
<1>4. CASE RecoverApp
    <2>1. UNCHANGED <<deploy, queue, launcher>> /\ GoOn(SUPERVISOR, "idle")
        BY <1>4 DEF RecoverApp, Writes
    <2>2. \A t \in Workers \cup Clients : th'[t] = th[t]
        BY <1>0, <2>1, GoesOn DEF Threads, Places, OtherPlaces
    <2> QED
        BY <2>1, <2>2, AsideKeeps
<1>5. CASE Restore
    <2>1. \A t \in Workers \cup Clients : th'[t] = th[t]
        BY <1>0, <1>5 DEF Restore, Typed
    <2> QED
        BY <1>5, <2>1
           DEF Restore, Owned, InHand, Queued, Deleting, Starting, Kept, Idle, Unfinished
<1>6. CASE Ready
    <2>1. \A d \in Deploys : Status(d) \notin {"queued", "building"}
        BY <1>6 DEF Ready, Owned, Starting, Unfinished
    <2> QED
        BY <1>6, <2>1 DEF Ready, Owned, InHand, Queued, Deleting, Starting, Kept, Idle
<1>7. CASE Environment
    BY <1>7, AsideKeeps DEF Environment, ComesUp, Dies, Reused, StrangerExits, OnlyProc
<1> QED
    BY <1>1, <1>2, <1>3, <1>4, <1>5, <1>6, <1>7 DEF Recover

LEMMA OwnedStays == ASSUME Typed, Owned, [Next]_vars PROVE Owned'
<1>1. ASSUME Supervise PROVE Owned'
    BY <1>1, SuperviseAlone, AsideKeeps DEF records, host
<1>2. ASSUME UNCHANGED vars PROVE Owned'
    BY <1>2, AsideKeeps DEF vars, records, host
<1> QED
    BY <1>1, <1>2, RequestsKeep, BuildKeeps, PagesKeep, HostKeeps DEF Next

\* While the launcher is up a queued deploy waits in the executor's queue, once,
\* and one that is building is being built by exactly one worker, through
\* concurrent workers, deletions and crashes (supervisor.py:278).
THEOREM Owners == Spec => []UnfinishedHasOwner
<1>1. Init => Typed /\ Owned
    BY InitiallyTyped, InitiallyOwned
<1>2. Typed /\ Owned /\ [Next]_vars => Typed' /\ Owned'
    BY TypesStay, OwnedStays
<1>3. Typed /\ Owned => UnfinishedHasOwner
    BY OwnedSuffices
<1> QED
    BY <1>1, <1>2, <1>3, PTL DEF Spec

-----------------------------------------------------------------------------
(* The deploys table keeps the promise of DeployRecord                      *)

Shown == [d \in Deploys |-> deploy[d].status]

LEMMA ShowsOne ==
    ASSUME NEW d \in Deploys, NEW status, Status(d)' = status,
           \A e \in Deploys : e # d => deploy'[e] = deploy[e]
    PROVE  Shown' = [Shown EXCEPT ![d] = status] /\ Shown[d] = Status(d)
    BY DEF Shown

LEMMA StepsOfRecord ==
    ASSUME Typed, Owned, [Next]_vars
    PROVE  [Record!Next]_Shown
<1> DEFINE Moved(d, from, to) == Shown[d] = from /\ Shown' = [Shown EXCEPT ![d] = to]
<1>1. ASSUME UNCHANGED deploy PROVE UNCHANGED Shown
    BY <1>1 DEF Shown
<1>2. ASSUME NEW d \in Deploys,
             \/ Moved(d, "unborn", "queued") \/ Moved(d, "queued", "building")
             \/ \E result \in {"live", "failed", "needs_setup"} : Moved(d, "building", result)
             \/ Moved(d, "queued", "failed") \/ Moved(d, "needs_setup", "live")
             \/ IS_WINDOWS /\ Moved(d, "live", "failed")
      PROVE  Record!Next
    BY <1>2 DEF Shown, Record!Next, Record!Queue, Record!Build, Record!End, Record!Interrupt,
                Record!Settle, Record!Relapse, Record!Move, Record!Ended
<1>3. ASSUME NEW d \in Deploys, Status(d) \in {"queued", "building"}, Status(d)' = "failed",
             \A e \in Deploys : e # d => deploy'[e] = deploy[e]
      PROVE  Record!Next
    BY <1>2, <1>3, ShowsOne
<1>4. CASE Upload \/ ReplaceStop \/ Rollback
    <2>1. \E id \in AppIds, v \in {None} \cup Deploys : Enqueue(id, v)
        BY <1>4, RequestEnqueues
    <2>2. PICK d \in Deploys :
            /\ Status(d) = "unborn" /\ Status(d)' = "queued"
            /\ \A e \in Deploys : e # d => deploy'[e] = deploy[e]
        BY <2>1, EnqueueEffect
    <2> QED
        BY <1>2, <2>2, ShowsOne
<1>5. ASSUME NEW w \in Workers, RunDeploy(w) PROVE [Record!Next]_Shown
    <2>1. CASE queue # << >> /\ Status(Head(queue)) # "gone" /\ SetDeploy(Head(queue), "building")
        <3>1. Head(queue) \in Deploys /\ Status(Head(queue)) = "queued"
            BY <2>1, TailOf DEF Typed, Owned, Queued
        <3>2. /\ \A e \in Deploys : e # Head(queue) => deploy'[e] = deploy[e]
              /\ deploy'[Head(queue)].status = "building"
            BY <2>1, <3>1, SetEffect
        <3> DEFINE d == Head(queue)
        <3> HIDE DEF d
        <3>3. Moved(d, "queued", "building")
            BY <3>1, <3>2 DEF d, Shown
        <3> QED
            BY <1>2, <3>1, <3>3 DEF d
    <2>2. ASSUME NEW place \in {"hold", "finish", "fail", "fail_verify"},
                 NEW word \in {"needs_setup", "live", "failed"}, NEW next,
                 LastWord(w, place, word, next), place \in {"fail"} => word = "failed"
          PROVE  [Record!Next]_Shown
        <3>1. ~Idle(w) /\ th[w].at = place
            BY <2>2 DEF LastWord, Idle
        <3>2. th[w].d \in Deploys /\ Status(th[w].d) \in Word(place) \cup {"gone"}
            BY <3>1 DEF Owned, InHand
        <3>3. PICK d \in Deploys : d = th[w].d
            BY <3>2
        <3>4. /\ \A e \in Deploys : e # d => deploy'[e] = deploy[e]
              /\ Status(d)' = IF Status(d) = "gone" THEN "gone" ELSE word
            BY <2>2, <3>3, SetEffect DEF LastWord
        <3>5. \/ Status(d) \in {"gone", "building"}
              \/ Status(d) = "live" /\ IS_WINDOWS /\ word = "failed"
            BY <2>2, <3>2, <3>3 DEF Word
        <3>6. Shown[d] = Status(d) /\ Shown' = [Shown EXCEPT ![d] = Status(d)']
            BY <3>4 DEF Shown
        <3>7. CASE Status(d) = "gone"
            BY <3>4, <3>6, <3>7 DEF Shown
        <3>8. CASE Status(d) # "gone"
            BY <1>2, <3>4, <3>5, <3>6, <3>8
        <3> QED
            BY <3>7, <3>8
    <2> QED
        BY <1>1, <1>5, <2>1, <2>2, WorkerEffect
<1>6. ASSUME NEW c \in Clients, Press(c) \/ Serve(c) PROVE [Record!Next]_Shown
    <2>1. CASE Settle(c)
        <3>1. CASE \A d \in Deploys : deploy'[d] = deploy[d]
            BY <3>1 DEF Shown
        <3>2. CASE \E d \in Deploys : /\ Status(d) = "needs_setup" /\ Status(d)' = "live"
                                     /\ \A e \in Deploys : e # d => deploy'[e] = deploy[e]
            BY <1>2, <3>2, ShowsOne
        <3> QED
            BY <2>1, <3>1, <3>2, SettleEffect
    <2>2. CASE DeleteRow(c)
        <3>1. PICK gone \in SUBSET {d \in Deploys : Status(d) # "unborn"} :
                /\ \A d \in gone : Status(d)' = "gone"
                /\ \A d \in Deploys \ gone : deploy'[d] = deploy[d]
            BY <2>2, DeleteEffect
        <3>2. gone \in SUBSET {d \in Deploys : Shown[d] # "unborn"}
            BY <3>1 DEF Shown
        <3>3. Shown' = [d \in Deploys |-> IF d \in gone THEN "gone" ELSE Shown[d]]
            BY <3>1 DEF Shown
        <3> QED
            BY <3>2, <3>3 DEF Shown, Record!Next, Record!Forget
    <2> QED
        BY <1>1, <1>6, <2>1, <2>2, PageAlone
<1>7. CASE Crash \/ Recover \/ Environment \/ Supervise \/ UNCHANGED vars
    <2>1. CASE RecoverDeploy
        BY <1>3, <2>1, RecoverEffect
    <2>2. CASE ~RecoverDeploy
        <3>1. UNCHANGED deploy
            BY <1>7, <2>2, SuperviseAlone
               DEF Crash, Recover, Boot, RecoverApp, Restore, Ready, Writes, Environment, ComesUp, Dies,
                   Reused, StrangerExits, OnlyProc, vars, records
        <3> QED
            BY <1>1, <3>1
    <2> QED
        BY <2>1, <2>2
<1> QED
    BY <1>4, <1>5, <1>6, <1>7 DEF Next

\* Through concurrent workers, settings that arrive late, deletions and crashes, a
\* record is queued once, built once, ends once, and changes afterwards only as
\* DeployRecord says.
THEOREM KeepsPromise == Spec => ImplementsRecord
<1>1. Init => Typed /\ Owned
    BY InitiallyTyped, InitiallyOwned
<1>2. Typed /\ Owned /\ [Next]_vars => Typed' /\ Owned'
    BY TypesStay, OwnedStays
<1>3. Init => Record!Init
    BY DEF Init, Record!Init, NoDeploy
<1>4. Typed /\ Owned /\ [Next]_vars => [Record!Next]_[d \in Deploys |-> deploy[d].status]
    BY StepsOfRecord DEF Shown
<1> QED
    BY <1>1, <1>2, <1>3, <1>4, PTL DEF Spec, ImplementsRecord, Record!Spec

-----------------------------------------------------------------------------
(***************************************************************************)
(* One thing at a time: what holds of an app while nobody begins anything  *)
(* before the last thing is done and the launcher stays up, for any ZIPs,  *)
(* buttons, processes that die and pids that are used again.               *)
(***************************************************************************)

-----------------------------------------------------------------------------
(* What is known at every place of a thread                                 *)

\* Places where the row that was read when the thread began is still used.
HoldsRow == {"mark", "clear", "unpack", "declare", "build", "check", "hold", "stop", "launch",
             "stop_kill", "delete_kill", "withdraw", "look", "give_up"}
Unpacked == {"declare", "build", "check", "hold", "stop", "spawn", "record", "verify", "finish"}
BuiltAt  == {"check", "hold", "stop", "spawn", "record", "verify", "finish"}

Processed(d) == Status(d) \notin {"unborn", "queued", "gone"}

\* The process that was started last, or what is left of it.
Latest(p)  == p \in Pids /\ proc[p].version \in {None, src.version}
Configured == app.declared => app.setting
Declared   == kind[src.version] = "wants" => app.declared

\* The thread works on the app there is.
KnowsApp(t) == /\ IF At(t, "delete_files") THEN app = NoRow
                  ELSE app.id # None /\ th[t].id = app.id
               /\ ~At(t, "recover_app")

\* What it has stopped and started.
KnowsProcesses(t) ==
    /\ th[t].at \in HoldsRow => th[t].pid = app.pid \/ (Running = {} /\ app.pid = None)
    /\ th[t].at \in {"spawn", "launch_spawn"} => Running = {} /\ app.pid = None
    /\ th[t].at \in {"record", "launch_record"} =>
          app.pid = None /\ Running \subseteq {th[t].new} /\ Latest(th[t].new)
    /\ th[t].at \in {"verify", "finish"} => Latest(app.pid)
    /\ th[t].at = "delete_row" => Running = {}
    /\ th[t].at = "settle" =>
          \A d \in Deploys : IsNewest(d, app.id) /\ Status(d) = "needs_setup" => Latest(app.pid)

\* What it has looked at.
KnowsSettings(t) ==
    /\ th[t].at \in {"stop", "spawn", "launch_spawn"} => Configured
    /\ At(t, "launch") /\ th[t].op = "refresh" => Configured
    /\ At(t, "look") => th[t].op # "refresh"
    /\ At(t, "build") => Declared

\* What a worker has in hand: the latest of the deploys that were taken, and the
\* tree it has unpacked.
KnowsDeploy(t) ==
    th[t].at \in WorkerPlaces =>
        /\ t \in Workers
        /\ Status(th[t].d) \in Word(th[t].at)
        /\ \A e \in Deploys : Processed(e) => e <= th[t].d
        /\ th[t].at \in Unpacked => src.version = Version(t)
        /\ th[t].at \in BuiltAt => src.built
        /\ th[t].at # "mark" => app.status # "stopped"

Knows(t) == KnowsApp(t) /\ KnowsProcesses(t) /\ KnowsSettings(t) /\ KnowsDeploy(t)

-----------------------------------------------------------------------------
(* What is known at every moment                                            *)

Alone == /\ launcher = "up"
         /\ \A t, u \in Threads : ~Idle(t) /\ ~Idle(u) => t = u
         /\ \A t \in Threads : ~Idle(t) => Knows(t)

\* Records are of the app there is.
OneApp ==
    /\ app.id = None => app = NoRow
    /\ \A d \in Deploys : Status(d) \notin {"unborn", "gone"} => deploy[d].app = app.id /\ app.id # None

\* Only what the row names runs, or what is about to be named.
NothingElseRuns ==
    \A p \in Running : p = app.pid \/ \E t \in Threads : /\ th[t].at \in {"record", "launch_record"}
                                                         /\ p = th[t].new

Uploaded == {v \in Deploys : Status(v) # "unborn"}

\* The tree and the processes are of versions that were uploaded, and a built
\* tree has declared what it wants.
Trees ==
    /\ zips \subseteq Uploaded
    /\ src.version \in Uploaded \cup {None}
    /\ src.built => /\ src.version # None /\ kind[src.version] # "empty"
                    /\ Declared \/ \E t \in Threads : At(t, "delete_files")
    /\ \A p \in Running : /\ proc[p].version \in Uploaded
                          /\ kind[proc[p].version] = "wants" => proc[p].configured

\* An app that says it is stopped is down, or somebody is about to stop or start
\* it, or to build its next version.
StoppedStays ==
    app.status = "stopped" =>
        \/ Running = {}
        \/ \E d \in Deploys : Status(d) = "queued"
        \/ \E t \in Threads : th[t].at \in {"mark", "stop_kill", "delete_kill", "launch_record"}

\* Deploys are taken in the order in which they were asked for.
InOrder ==
    /\ \A i, j \in DOMAIN queue : i < j => queue[i] < queue[j]
    /\ \A i \in DOMAIN queue, e \in Deploys : Processed(e) => e < queue[i]
    /\ \A d, e \in Deploys : Status(d) # "unborn" /\ Status(e) = "unborn" => d < e

\* If the newest deploy is live or waits for a setting, the tree is its; if it is
\* live, so is what runs.
NewestIsThere ==
    \A d \in Deploys : IsNewest(d, app.id) =>
        /\ Status(d) \in {"live", "needs_setup"} => src.built /\ src.version = deploy[d].version
        /\ Status(d) = "live" => \A p \in Running : proc[p].version = deploy[d].version

Calm == /\ Alone /\ OneApp /\ NothingElseRuns /\ Trees /\ StoppedStays /\ InOrder /\ NewestIsThere

Known == Typed /\ Owned /\ Calm

-----------------------------------------------------------------------------
(* A thread takes a step                                                    *)

\* The thread t takes a step: it is the one that is at work, or nobody is.
Steps(t) == /\ Serial /\ (~Idle(t) \/ Quiet)
            /\ \A s \in Threads : s # t => th'[s] = th[s]
            /\ UNCHANGED launcher

LEMMA Others ==
    ASSUME Known, NEW t \in Threads, Steps(t)
    PROVE  /\ \A s \in Threads : s # t => Idle(s) /\ Idle(s)' /\ th'[s] = th[s]
           /\ \A s \in Threads : s # t => th[s].at = "idle" /\ th'[s].at = "idle"
           /\ (~Idle(t)' => Knows(t)') => Alone'
<1>1. \A s \in Threads : s # t => Idle(s)
    BY DEF Known, Calm, Alone, Steps, Quiet
<1> QED
    BY <1>1 DEF Known, Calm, Alone, Steps, Idle

\* A worker at work has a record in hand that was not deleted.
LEMMA Hand ==
    ASSUME Known, NEW w \in Workers, ~Idle(w)
    PROVE  /\ w \in Threads /\ th[w].at \in WorkerPlaces /\ th[w].d \in Deploys
           /\ Status(th[w].d) \in Word(th[w].at) /\ Status(th[w].d) # "gone"
           /\ Knows(w) /\ app.id # None /\ th[w].id = app.id
<1>1. w \in Threads /\ th[w].at \in WorkerPlaces /\ th[w].d \in Deploys
    BY DEF Known, Owned, InHand, Threads
<1>2. Knows(w)
    BY <1>1 DEF Known, Calm, Alone
<1>3. ~At(w, "delete_files")
    BY <1>1 DEF At, WorkerPlaces
<1>4. Status(th[w].d) \in Word(th[w].at)
    BY <1>1, <1>2 DEF Knows, KnowsDeploy
<1> QED
    BY <1>1, <1>2, <1>3, <1>4 DEF Knows, KnowsApp, Word

\* A step that moves t, and in the row changes the status and the setting at most.
LEMMA RowAside ==
    ASSUME Known, NEW t \in Threads, Steps(t),
           th[t].at \notin {"record", "launch_record", "delete_files"},
           app'.id = app.id, app'.pid = app.pid, app'.declared = app.declared,
           app.id # None \/ UNCHANGED app,
           UNCHANGED <<deploy, queue, kind, zips, src, proc>>
    PROVE  OneApp' /\ NothingElseRuns' /\ Trees' /\ InOrder' /\ NewestIsThere'
<1>1. \A s \in Threads : th[s].at \notin {"record", "launch_record", "delete_files"}
    BY Others
<1>2. Running' = Running
    BY DEF Running, FrontAlive
<1>3. OneApp'
    BY DEF Known, Calm, OneApp
<1>4. NothingElseRuns'
    BY <1>1, <1>2 DEF Known, Calm, NothingElseRuns
<1>5. Trees'
    BY <1>1, <1>2 DEF Known, Calm, Trees, Declared, Uploaded, At
<1>6. InOrder'
    BY DEF Known, Calm, InOrder, Processed
<1>7. NewestIsThere'
    BY <1>2 DEF Known, Calm, NewestIsThere, IsNewest, DeploysOf
<1> QED
    BY <1>3, <1>4, <1>5, <1>6, <1>7

\* After its step: what must be shown.
LEMMA After ==
    ASSUME Known, NEW t \in Threads, Steps(t), ~Idle(t)' => Knows(t)',
           OneApp', NothingElseRuns', Trees', StoppedStays', InOrder', NewestIsThere'
    PROVE  Calm'
    BY Others DEF Calm

\* Only what the row names runs, unless something was started just now.
LEMMA OnlyNamed ==
    ASSUME Known, NEW t \in Threads, Steps(t), th[t].at \notin {"record", "launch_record"}
    PROVE  Running \subseteq {app.pid}
    BY Others DEF Known, Calm, NothingElseRuns

\* A deploy in hand is the newest, or those that are newer are still queued.
LEMMA NewestInHand ==
    ASSUME Known, NEW w \in Workers, ~Idle(w), NEW d \in Deploys, IsNewest(d, app.id), Processed(d)
    PROVE  d = th[w].d
<1>1. th[w].d \in Deploys /\ Status(th[w].d) \notin {"gone", "unborn"} /\ d <= th[w].d
    BY Hand DEF Knows, KnowsDeploy, Word
<1>2. th[w].d \in DeploysOf(app.id)
    BY <1>1 DEF Known, Calm, OneApp, DeploysOf
<1> QED
    BY <1>1, <1>2 DEF IsNewest, Deploys

\* While it has no result, nothing is promised of the tree.
LEMMA NoPromise ==
    ASSUME Known, NEW w \in Workers, ~Idle(w), Status(th[w].d) \in {"building", "failed"},
           app'.id = app.id, UNCHANGED deploy
    PROVE  NewestIsThere'
<1>1. ASSUME NEW d \in Deploys, IsNewest(d, app.id) PROVE Status(d) \notin {"live", "needs_setup"}
    BY <1>1, NewestInHand DEF Processed
<1> QED
    BY <1>1 DEF NewestIsThere, IsNewest, DeploysOf

\* What the record says at each place.
Unended == {"mark", "clear", "unpack", "declare", "build", "check", "hold", "stop", "spawn",
            "record", "verify", "finish", "fail_verify"}

LEMMA Words ==
    /\ \A place \in Unended : Word(place) = {"building"}
    /\ {"building"} \subseteq Word("fail") /\ Word("fail") \subseteq {"building", "live"}
    /\ Word("finish_app") = {"live"} /\ Word("prune") = {"live"}
    /\ Word("fail_stop") = {"failed"} /\ Word("fail_app") = {"failed"}
    /\ Word("hold_app") = {"needs_setup", "live"}
    /\ Unended \subseteq WorkerPlaces
    BY DEF Word, Unended, WorkerPlaces

\* A worker that goes on with the record it has in hand.
LEMMA StillInHand ==
    ASSUME Known, NEW w \in Workers, ~Idle(w), th'[w].d = th[w].d,
           th'[w].at \in WorkerPlaces \ {"mark"}, Word(th[w].at) \subseteq Word(th'[w].at),
           UNCHANGED deploy,
           th'[w].at \in Unpacked => src'.version = Version(w), th'[w].at \in BuiltAt => src'.built,
           \/ app'.status # "stopped"
           \/ /\ th[w].at # "mark"
              /\ app'.status = app.status
    PROVE  KnowsDeploy(w)'
    BY Hand DEF Knows, KnowsDeploy, Processed, Version

LEMMA RunningSame == UNCHANGED proc => Running' = Running
    BY DEF Running, FrontAlive

\* A row that does not say "stopped" promises nothing, and one that said so
\* before is of an app that is down, but for a deploy that is asked for and a
\* thread that has just stopped it or started it on purpose.
LEMMA NotStopped == app'.status # "stopped" => StoppedStays'
    BY DEF StoppedStays

LEMMA StaysDown ==
    ASSUME Known, NEW t \in Threads, Steps(t),
           th[t].at \notin {"mark", "stop_kill", "delete_kill", "launch_record"},
           \A d \in Deploys : Status(d) = "queued" => Status(d)' = "queued",
           app'.status = app.status, Running' \subseteq Running
    PROVE  StoppedStays'
    BY Others DEF Known, Calm, StoppedStays

\* A step that changes neither the row nor anything outside the thread.
LEMMA Aside ==
    ASSUME Known, NEW t \in Threads, Steps(t), UNCHANGED <<app, deploy, queue, kind, zips, src, proc>>,
           th[t].at \notin {"record", "launch_record", "delete_files", "mark", "stop_kill", "delete_kill"}
    PROVE  OneApp' /\ NothingElseRuns' /\ Trees' /\ StoppedStays' /\ InOrder' /\ NewestIsThere'
    BY RowAside, StaysDown, RunningSame

-----------------------------------------------------------------------------
(* Steps that write the status                                              *)

LEMMA WritesStatus ==
    ASSUME Known, NEW t \in Threads, NEW status \in AppStatus \ {"stopped"}, NEW next \in Places,
           Serial, ~Idle(t), th[t].at \notin {"record", "launch_record", "delete_files"},
           UpdateApp(th[t].id, With(status)), GoOn(t, next),
           UNCHANGED <<records, files, proc, host>>
    PROVE  /\ Steps(t) /\ UNCHANGED <<deploy, queue, kind, zips, src, proc, launcher>>
           /\ app'.status = status
           /\ app'.id = app.id /\ app'.pid = app.pid /\ app'.declared = app.declared
           /\ app'.setting = app.setting
           /\ OneApp' /\ NothingElseRuns' /\ Trees' /\ InOrder' /\ NewestIsThere' /\ StoppedStays'
<1>1. app.id # None /\ th[t].id = app.id
    BY DEF Known, Calm, Alone, Knows, KnowsApp, At
<1>2. app' = [app EXCEPT !.status = status]
    BY <1>1 DEF UpdateApp, With
<1>3. /\ app'.id = app.id /\ app'.pid = app.pid /\ app'.declared = app.declared
      /\ app'.setting = app.setting /\ app'.status = status /\ status # "stopped"
    BY <1>2 DEF Known, Typed, Rows
<1>4. Steps(t) /\ UNCHANGED <<deploy, queue, kind, zips, src, proc, launcher>>
    BY GoesOn DEF Steps, Known, records, files, host
<1> QED
    BY <1>1, <1>2, <1>3, <1>4, RowAside, NotStopped

\* ... and is done.
LEMMA LastStatus ==
    ASSUME Known, NEW t \in Threads, NEW status \in AppStatus \ {"stopped"},
           Serial, ~Idle(t), th[t].at \notin {"record", "launch_record", "delete_files"},
           UpdateApp(th[t].id, With(status)), GoOn(t, "idle"),
           UNCHANGED <<records, files, proc, host>>
    PROVE  Calm'
<1>1. "idle" \in Places
    BY DEF Places, OtherPlaces
<1>2. Idle(t)'
    BY <1>1, GoesOn DEF Known, Idle
<1> QED
    BY <1>1, <1>2, WritesStatus, After

LEMMA MarkCalm == ASSUME Known, Serial, NEW w \in Workers, MarkBuilding(w) PROVE Calm'
<1>1. ~Idle(w) /\ th[w].at = "mark" /\ w \in Threads
    BY DEF MarkBuilding, At, Idle, Threads
<1>2. /\ UpdateApp(th[w].id, With("building")) /\ GoOn(w, "clear")
      /\ UNCHANGED <<records, files, proc, host>>
    BY DEF MarkBuilding, Writes
<1>3. "building" \in AppStatus \ {"stopped"} /\ "clear" \in Places /\ "clear" # "idle"
    BY DEF AppStatus, Places, WorkerPlaces
<1>4. th'[w].at = "clear" /\ th'[w].d = th[w].d /\ th'[w].id = th[w].id /\ th'[w].pid = th[w].pid
    BY <1>1, <1>2, <1>3, GoesOn DEF Known
<1>5. /\ Steps(w) /\ UNCHANGED <<deploy, queue, kind, zips, src, proc, launcher>>
      /\ app'.status = "building" /\ app'.id = app.id /\ app'.pid = app.pid
      /\ OneApp' /\ NothingElseRuns' /\ Trees' /\ InOrder' /\ NewestIsThere' /\ StoppedStays'
    BY <1>1, <1>2, <1>3, WritesStatus
<1>6. KnowsDeploy(w)'
    BY <1>1, <1>4, <1>5, StillInHand, Words DEF Unended, Unpacked, BuiltAt
<1>7. KnowsApp(w)' /\ KnowsProcesses(w)' /\ KnowsSettings(w)'
    BY <1>1, <1>4, <1>5, Hand, RunningSame
       DEF Knows, KnowsApp, KnowsProcesses, KnowsSettings, At, HoldsRow
<1> QED
    BY <1>1, <1>5, <1>6, <1>7, After DEF Knows

LEMMA EndsCalm == ASSUME Known, Serial, NEW w \in Workers, HoldApp(w) \/ FailApp(w) PROVE Calm'
<1>1. ~Idle(w) /\ w \in Threads /\ th[w].at \in {"hold_app", "fail_app"}
    BY DEF HoldApp, FailApp, At, Idle, Threads
<1>2. PICK status \in {"live", "needs_setup", "failed"} :
        /\ UpdateApp(th[w].id, With(status)) /\ GoOn(w, "idle")
        /\ UNCHANGED <<records, files, proc, host>>
    BY DEF HoldApp, FailApp, Writes
<1>3. status \in AppStatus \ {"stopped"}
    BY DEF AppStatus
<1> QED
    BY <1>1, <1>2, <1>3, LastStatus

LEMMA FinishAppCalm == ASSUME Known, Serial, NEW w \in Workers, FinishApp(w) PROVE Calm'
<1>1. ~Idle(w) /\ th[w].at = "finish_app" /\ w \in Threads
    BY DEF FinishApp, At, Idle, Threads
<1>2. /\ UpdateApp(th[w].id, With("live")) /\ GoOn(w, "prune")
      /\ UNCHANGED <<records, files, proc, host>>
    BY DEF FinishApp, Writes
<1>3. "live" \in AppStatus \ {"stopped"} /\ "prune" \in Places /\ "prune" # "idle"
    BY DEF AppStatus, Places, WorkerPlaces
<1>4. th'[w].at = "prune" /\ th'[w].d = th[w].d /\ th'[w].id = th[w].id
    BY <1>1, <1>2, <1>3, GoesOn DEF Known
<1>5. /\ Steps(w) /\ UNCHANGED <<deploy, queue, kind, zips, src, proc, launcher>>
      /\ app'.status = "live" /\ app'.id = app.id /\ app'.pid = app.pid
      /\ OneApp' /\ NothingElseRuns' /\ Trees' /\ InOrder' /\ NewestIsThere' /\ StoppedStays'
    BY <1>1, <1>2, <1>3, WritesStatus
<1>6. KnowsDeploy(w)'
    BY <1>1, <1>4, <1>5, StillInHand, Words DEF WorkerPlaces, Unpacked, BuiltAt
<1>7. KnowsApp(w)' /\ KnowsProcesses(w)' /\ KnowsSettings(w)'
    BY <1>4, <1>5, <1>1, Hand DEF KnowsApp, KnowsProcesses, KnowsSettings, At, HoldsRow
<1> QED
    BY <1>1, <1>5, <1>6, <1>7, After DEF Knows

-----------------------------------------------------------------------------
(* Steps that decide                                                        *)

LEMMA DecidesEffect ==
    ASSUME Known, Serial, NEW t \in Threads, NEW next \in Places, ~Idle(t), Decides(t, next),
           th[t].at \notin {"record", "launch_record", "delete_files", "mark", "stop_kill", "delete_kill"}
    PROVE  /\ Steps(t) /\ UNCHANGED <<app, deploy, queue, kind, zips, src, proc, launcher>>
           /\ OneApp' /\ NothingElseRuns' /\ Trees' /\ InOrder' /\ NewestIsThere' /\ StoppedStays'
           /\ th'[t].at = next
           /\ next # "idle" => /\ th'[t].d = th[t].d /\ th'[t].id = th[t].id
                               /\ th'[t].op = th[t].op /\ th'[t].pid = th[t].pid
<1>1. Steps(t) /\ UNCHANGED <<app, deploy, queue, kind, zips, src, proc, launcher>>
    BY GoesOn DEF Steps, Known, Decides, row, records, files, host
<1> QED
    BY <1>1, Aside, GoesOn DEF Known, Decides

LEMMA DecidesCalm ==
    ASSUME Known, Serial, NEW w \in Workers,
           BuildFails(w) \/ CheckSettings(w) \/ Verify(w) \/ PruneRefused(w)
    PROVE  Calm'
<1>1. ~Idle(w) /\ w \in Threads /\ th[w].at \in {"build", "check", "verify", "prune"}
    BY DEF BuildFails, CheckSettings, Verify, PruneRefused, At, Idle, Threads
<1>2. ~PruneRefused(w)
    <2>1. \A v \in Workers \ {w} : ~At(v, "unpack")
        BY <1>1 DEF Known, Calm, Alone, Threads, Idle, At
    <2> QED
        BY <2>1 DEF PruneRefused
<1>3. /\ app.id # None /\ th[w].id = app.id /\ th[w].d \in Deploys
      /\ KnowsProcesses(w) /\ KnowsSettings(w) /\ KnowsDeploy(w)
    BY <1>1, Hand DEF Knows
<1>4. PICK next \in {"fail", "hold", "stop", "finish", "fail_verify"} :
        /\ Decides(w, next)
        /\ \/ next \in {"fail", "fail_verify"}
           \/ th[w].at = "check" /\ next = "hold"
           \/ th[w].at = "check" /\ next = "stop" /\ Configured
           \/ th[w].at = "verify" /\ next = "finish"
    BY <1>2, <1>3 DEF BuildFails, CheckSettings, Verify, At, Missing, Configured
<1>5. next \in Places \ {"idle"} /\ next \in WorkerPlaces
    BY DEF Places, WorkerPlaces
<1>6. /\ Steps(w) /\ UNCHANGED <<app, deploy, queue, kind, zips, src, proc, launcher>>
      /\ OneApp' /\ NothingElseRuns' /\ Trees' /\ InOrder' /\ NewestIsThere' /\ StoppedStays'
      /\ th'[w].at = next /\ th'[w].d = th[w].d /\ th'[w].id = th[w].id /\ th'[w].pid = th[w].pid
    BY <1>1, <1>4, <1>5, DecidesEffect
<1>7. KnowsDeploy(w)'
    <2>1. Word(th[w].at) \subseteq Word(next)
        BY <1>1, <1>4, <1>2, Words DEF Unended, PruneRefused, BuildFails, CheckSettings, Verify, At
    <2>2. next \in Unpacked => th[w].at \in Unpacked /\ th[w].at \in BuiltAt
        BY <1>4 DEF Unpacked, BuiltAt
    <2>3. next \in BuiltAt => next \in Unpacked
        BY <1>4 DEF Unpacked, BuiltAt
    <2> QED
        BY <1>1, <1>3, <1>5, <1>6, <2>1, <2>2, <2>3, StillInHand DEF KnowsDeploy, WorkerPlaces
<1>8. KnowsApp(w)'
    BY <1>3, <1>4, <1>6 DEF KnowsApp, At
<1>9. KnowsProcesses(w)'
    BY <1>3, <1>4, <1>6, RunningSame DEF KnowsProcesses, HoldsRow, Latest, At
<1>10. KnowsSettings(w)'
    BY <1>4, <1>6 DEF KnowsSettings, Configured, At
<1> QED
    BY <1>1, <1>6, <1>7, <1>8, <1>9, <1>10, After DEF Knows

-----------------------------------------------------------------------------
(* Stopping                                                                 *)

\* Who holds the row stops all there is.
LEMMA StopEmpties ==
    ASSUME Known, Serial, NEW t \in Threads, th[t].at \in HoldsRow, StopProcesses(t)
    PROVE  /\ Running' = {} /\ app' = [app EXCEPT !.pid = None]
           /\ app'.pid = None /\ app'.id = app.id /\ app'.status = app.status
           /\ app'.declared = app.declared /\ app'.setting = app.setting
<1>1. ~Idle(t) /\ th[t].at \notin {"record", "launch_record", "delete_files"}
    BY DEF HoldsRow, Idle
<1>2. /\ app.id # None /\ th[t].id = app.id
      /\ th[t].pid = app.pid \/ Running = {}
    BY <1>1 DEF Known, Calm, Alone, Knows, KnowsApp, KnowsProcesses, At
<1>3. Running \subseteq {app.pid}
    <2>1. \A s \in Threads : th[s].at \notin {"record", "launch_record"}
        BY <1>1 DEF Known, Calm, Alone, Idle
    <2> QED
        BY <2>1 DEF Known, Calm, NothingElseRuns
<1>4. proc' = Killed(th[t].pid)
    BY DEF StopProcesses
<1>5. Running' = {}
    <2>1. SUFFICES ASSUME NEW p \in Pids PROVE ~FrontAlive(p)'
        BY DEF Running
    <2>2. CASE FrontAlive(th[t].pid)
        <3>1. proc' = [proc EXCEPT ![th[t].pid] = NoProcess]
            BY <1>4, <2>2 DEF Killed, Ours
        <3>2. p # th[t].pid => ~FrontAlive(p)
            BY <1>2, <1>3, <2>2 DEF Running, FrontAlive
        <3> QED
            BY <3>1, <3>2 DEF FrontAlive, Known, Typed, NoProcess
    <2>3. CASE ~FrontAlive(th[t].pid)
        <3>1. UNCHANGED proc
            BY <1>4, <2>3 DEF Killed, Ours
        <3>2. ~FrontAlive(p)
            BY <1>2, <1>3, <2>3 DEF Running
        <3> QED
            BY <3>1, <3>2 DEF FrontAlive
    <2> QED
        BY <2>2, <2>3
<1>6. app' = [app EXCEPT !.pid = None]
    BY <1>2 DEF StopProcesses, UpdateApp
<1> QED
    BY <1>5, <1>6 DEF Known, Typed, Rows

\* When nothing runs any more.
LEMMA Emptied ==
    ASSUME Known, NEW t \in Threads, Steps(t), th[t].at # "delete_files", Running' = {},
           app.id # None, app'.id = app.id, app'.declared = app.declared,
           UNCHANGED <<deploy, queue, kind, zips, src>>
    PROVE  OneApp' /\ NothingElseRuns' /\ Trees' /\ StoppedStays' /\ InOrder' /\ NewestIsThere'
<1>1. OneApp' /\ NothingElseRuns' /\ StoppedStays' /\ InOrder'
    BY DEF Known, Calm, OneApp, NothingElseRuns, StoppedStays, InOrder, Processed
<1>2. Trees'
    BY Others DEF Known, Calm, Trees, Declared, Uploaded, At
<1>3. NewestIsThere'
    BY DEF Known, Calm, NewestIsThere, IsNewest, DeploysOf
<1> QED
    BY <1>1, <1>2, <1>3

LEMMA StopsCalm ==
    ASSUME Known, Serial, NEW t \in Threads, th[t].at \in HoldsRow,
           NEW next \in {"spawn", "launch_spawn", "idle", "withdraw_app", "delete_row", "give_up_app"},
           Stops(t, next),
           next \in {"spawn", "launch_spawn"} => Configured,
           next = "spawn" => t \in Workers /\ th[t].at = "stop"
    PROVE  Calm'
<1>1. ~Idle(t) /\ th[t].at \notin {"record", "launch_record", "delete_files"}
    BY DEF HoldsRow, Idle
<1>2. app.id # None /\ th[t].id = app.id
    BY <1>1 DEF Known, Calm, Alone, Knows, KnowsApp, At
<1>3. /\ Running' = {}
      /\ app'.pid = None /\ app'.id = app.id /\ app'.status = app.status
      /\ app'.declared = app.declared /\ app'.setting = app.setting
    BY StopEmpties DEF Stops
<1>4. /\ \A s \in Threads : s # t => th'[s] = th[s]
      /\ th'[t].at = next
      /\ next # "idle" => th'[t].d = th[t].d /\ th'[t].id = th[t].id
    BY StopEffect DEF Known, Places, WorkerPlaces, LaunchPlaces, OtherPlaces
<1>5. Steps(t) /\ UNCHANGED <<deploy, queue, kind, zips, src>>
    BY <1>1, <1>4 DEF Steps, Stops, records, files, host
<1>6. OneApp' /\ NothingElseRuns' /\ Trees' /\ StoppedStays' /\ InOrder' /\ NewestIsThere'
    BY <1>1, <1>2, <1>3, <1>5, Emptied
<1>7. ASSUME ~Idle(t)' PROVE Knows(t)'
    <2>1. next # "idle"
        BY <1>4, <1>7 DEF Idle
    <2>2. KnowsApp(t)' /\ KnowsProcesses(t)'
        BY <1>2, <1>3, <1>4, <2>1 DEF KnowsApp, KnowsProcesses, HoldsRow, At
    <2>3. KnowsSettings(t)'
        BY <1>3, <1>4 DEF KnowsSettings, Configured, At
    <2>4. CASE next = "spawn"
        <3>1. KnowsDeploy(t)
            BY <1>1, <2>4, Hand DEF Knows
        <3>2. KnowsDeploy(t)'
            BY <1>1, <1>3, <1>4, <1>5, <2>1, <2>4, <3>1, StillInHand, Words
               DEF KnowsDeploy, Unended, Unpacked, BuiltAt, WorkerPlaces
        <3> QED
            BY <2>2, <2>3, <3>2 DEF Knows
    <2>5. CASE next # "spawn"
        BY <1>4, <2>1, <2>2, <2>3, <2>5 DEF Knows, KnowsDeploy, WorkerPlaces
    <2> QED
        BY <2>4, <2>5
<1> QED
    BY <1>5, <1>6, <1>7, After

LEMMA AllStopsCalm ==
    ASSUME Known, Serial, NEW t \in Threads,
           \/ t \in Workers /\ StopPrevious(t)
           \/ LaunchStops(t) \/ StopKills(t) \/ Withdraw(t) \/ DeleteKills(t)
           \/ t = SUPERVISOR /\ GiveUp
    PROVE  Calm'
<1>1. CASE t \in Workers /\ StopPrevious(t)
    <2>1. th[t].at = "stop" /\ Stops(t, "spawn")
        BY <1>1 DEF StopPrevious, At
    <2>2. Configured
        BY <1>1, <2>1, Hand DEF Knows, KnowsSettings, Idle
    <2> QED
        BY <1>1, <2>1, <2>2, StopsCalm DEF HoldsRow
<1>2. CASE LaunchStops(t)
    <2>1. th[t].at = "launch" /\ Stops(t, "launch_spawn") /\ ~Missing(th[t].id)
        BY <1>2 DEF LaunchStops, At
    <2>2. th[t].id = app.id
        BY <2>1 DEF Known, Calm, Alone, Knows, KnowsApp, At, Idle
    <2>3. Configured
        BY <2>1, <2>2 DEF Missing, Configured
    <2> QED
        BY <2>1, <2>3, StopsCalm DEF HoldsRow
<1>3. CASE StopKills(t) \/ Withdraw(t) \/ DeleteKills(t) \/ (t = SUPERVISOR /\ GiveUp)
    <2>1. PICK next \in {"idle", "withdraw_app", "delete_row", "give_up_app"} : Stops(t, next)
        BY <1>3 DEF StopKills, Withdraw, DeleteKills, GiveUp
    <2>2. th[t].at \in HoldsRow
        BY <1>3 DEF StopKills, Withdraw, DeleteKills, GiveUp, At, HoldsRow
    <2> QED
        BY <2>1, <2>2, StopsCalm
<1> QED
    BY <1>1, <1>2, <1>3

\* The new version that did not answer is stopped as the row names it.
LEMMA FailStopCalm == ASSUME Known, Serial, NEW w \in Workers, FailStop(w) PROVE Calm'
<1>1. ~Idle(w) /\ w \in Threads /\ th[w].at = "fail_stop" /\ GoOn(w, "fail_app")
    BY DEF FailStop, At, Idle, Threads
<1>2. app.id # None /\ th[w].id = app.id /\ KnowsDeploy(w)
    BY <1>1, Hand DEF Knows
<1>3. proc' = Killed(app.pid) /\ app' = [app EXCEPT !.pid = None]
    BY <1>2 DEF FailStop
<1>4. /\ \A s \in Threads : s # w => th'[s] = th[s]
      /\ th'[w].at = "fail_app" /\ th'[w].d = th[w].d /\ th'[w].id = th[w].id
    BY <1>1, GoesOn DEF Known, Places, WorkerPlaces
<1>5. Steps(w) /\ UNCHANGED <<deploy, queue, kind, zips, src>>
    BY <1>1, <1>4 DEF Steps, FailStop, records, files, host
<1>6. Running' = {}
    <2>1. Running \subseteq {app.pid}
        BY <1>1, <1>5, OnlyNamed
    <2>2. SUFFICES ASSUME NEW p \in Pids PROVE ~FrontAlive(p)'
        BY DEF Running
    <2>3. CASE FrontAlive(app.pid)
        BY <1>3, <2>1, <2>3 DEF Running, FrontAlive, Killed, Ours, Known, Typed, NoProcess
    <2>4. CASE ~FrontAlive(app.pid)
        BY <1>3, <2>1, <2>4 DEF Running, FrontAlive, Killed, Ours
    <2> QED
        BY <2>3, <2>4
<1>7. app'.id = app.id /\ app'.declared = app.declared /\ app'.status = app.status /\ app'.pid = None
    BY <1>3 DEF Known, Typed, Rows
<1>8. OneApp' /\ NothingElseRuns' /\ Trees' /\ StoppedStays' /\ InOrder' /\ NewestIsThere'
    BY <1>1, <1>2, <1>5, <1>6, <1>7, Emptied
<1>9. KnowsDeploy(w)'
    BY <1>1, <1>2, <1>4, <1>5, <1>7, StillInHand, Words DEF KnowsDeploy, WorkerPlaces, Unpacked, BuiltAt
<1>10. KnowsApp(w)' /\ KnowsProcesses(w)' /\ KnowsSettings(w)'
    BY <1>2, <1>4, <1>7 DEF KnowsApp, KnowsProcesses, KnowsSettings, At, HoldsRow
<1> QED
    BY <1>1, <1>5, <1>8, <1>9, <1>10, After DEF Knows

-----------------------------------------------------------------------------
(* The tree                                                                 *)

\* A worker whose deploy has no result yet may do what it likes with the tree,
\* if what it leaves was uploaded and has declared its settings.
LEMMA TreeSteps ==
    ASSUME Known, NEW w \in Workers, Steps(w), ~Idle(w), Status(th[w].d) \in {"building", "failed"},
           th[w].at \notin {"mark", "record"}, app'.id = app.id, app'.pid \in {app.pid, None},
           app'.status = app.status,
           app'.pid = app.pid \/ Running' = {},
           UNCHANGED <<deploy, queue, kind>>, zips' \subseteq zips,
           UNCHANGED proc \/ Running' = {},
           src'.version \in Uploaded \cup {None},
           src'.built => /\ src'.version # None /\ kind[src'.version] # "empty"
                         /\ kind[src'.version] = "wants" => app'.declared
    PROVE  OneApp' /\ NothingElseRuns' /\ Trees' /\ StoppedStays' /\ InOrder' /\ NewestIsThere'
<1>1. /\ app.id # None /\ w \in Threads /\ th[w].at \in WorkerPlaces
      /\ th[w].at \notin {"record", "launch_record", "delete_files", "mark", "stop_kill", "delete_kill"}
    BY Hand DEF WorkerPlaces
<1>2. OneApp' /\ InOrder' /\ NewestIsThere'
    BY <1>1, NoPromise DEF Known, Calm, OneApp, InOrder, Processed
<1>3. Running' \subseteq Running
    BY RunningSame
<1>4. StoppedStays'
    BY <1>1, <1>3, StaysDown
<1>5. NothingElseRuns'
    BY <1>1, <1>3, OnlyNamed DEF NothingElseRuns
<1>6. Uploaded' = Uploaded
    BY DEF Uploaded
<1>7. Trees'
    <2>1. zips' \subseteq Uploaded' /\ src'.version \in Uploaded' \cup {None}
        BY <1>6 DEF Known, Calm, Trees
    <2>2. \A p \in Running' : /\ proc'[p].version \in Uploaded'
                              /\ kind'[proc'[p].version] = "wants" => proc'[p].configured
        BY <1>3, <1>6 DEF Known, Calm, Trees
    <2>3. src'.built => /\ src'.version # None /\ kind'[src'.version] # "empty" /\ Declared'
        BY DEF Declared
    <2> QED
        BY <2>1, <2>2, <2>3 DEF Trees
<1> QED
    BY <1>2, <1>4, <1>5, <1>7

LEMMA ClearCalm == ASSUME Known, Serial, NEW w \in Workers, ClearSource(w) \/ ClearSourceBusy(w) PROVE Calm'
<1>1. ~Idle(w) /\ w \in Threads /\ th[w].at = "clear"
    BY DEF ClearSource, ClearSourceBusy, At, Idle, Threads
<1>2. PICK next \in {"unpack", "fail"} : GoOn(w, next) /\ src' \in Leftovers
    BY DEF ClearSource, ClearSourceBusy, Leftovers
<1>0. /\ src'.version \in {None, src.version}
      /\ src'.built => src' = src
    BY <1>2 DEF Leftovers, NoSource, Known, Typed, Sources
<1>3. /\ app.id # None /\ th[w].id = app.id /\ KnowsDeploy(w) /\ KnowsProcesses(w)
      /\ Status(th[w].d) = "building"
    BY <1>1, Hand, Words DEF Knows, Unended
<1>4. /\ \A s \in Threads : s # w => th'[s] = th[s]
      /\ th'[w].at = next /\ th'[w].d = th[w].d /\ th'[w].id = th[w].id /\ th'[w].pid = th[w].pid
    BY <1>1, <1>2, GoesOn DEF Known, Places, WorkerPlaces
<1>5. Steps(w) /\ UNCHANGED <<deploy, queue, kind, zips>>
    BY <1>1, <1>4 DEF Steps, ClearSource, ClearSourceBusy, row, records, host
<1>6. /\ app'.id = app.id /\ app'.status = app.status /\ app'.declared = app.declared
      /\ UNCHANGED <<app, proc>> \/ (Running' = {} /\ app'.pid = None)
    <2>1. CASE ClearSource(w)
        BY <2>1 DEF ClearSource, row
    <2>2. CASE ClearSourceBusy(w)
        BY <1>1, <2>2, StopEmpties DEF ClearSourceBusy, HoldsRow
    <2> QED
        BY <2>1, <2>2
<1>7. OneApp' /\ NothingElseRuns' /\ Trees' /\ StoppedStays' /\ InOrder' /\ NewestIsThere'
    <2>1. src'.version \in Uploaded \cup {None}
        BY <1>0 DEF Known, Calm, Trees
    <2>2. src'.built => /\ src'.version # None /\ kind[src'.version] # "empty"
                        /\ kind[src'.version] = "wants" => app'.declared
        BY <1>0, <1>1, <1>5, <1>6, Others DEF Known, Calm, Trees, Declared, At
    <2>3. (app'.pid = app.pid \/ Running' = {}) /\ app'.pid \in {app.pid, None}
        BY <1>6
    <2>4. UNCHANGED proc \/ Running' = {}
        BY <1>6
    <2> QED
        BY <1>1, <1>3, <1>5, <1>6, <2>1, <2>2, <2>3, <2>4, TreeSteps
<1>8. KnowsDeploy(w)'
    BY <1>1, <1>3, <1>4, <1>5, <1>6, StillInHand, Words
       DEF KnowsDeploy, Unended, Unpacked, BuiltAt, WorkerPlaces
<1>9. KnowsApp(w)' /\ KnowsSettings(w)'
    BY <1>3, <1>4, <1>6 DEF KnowsApp, KnowsSettings, At
<1>10. KnowsProcesses(w)'
    BY <1>1, <1>3, <1>4, <1>6, RunningSame DEF KnowsProcesses, HoldsRow, At
<1> QED
    BY <1>1, <1>5, <1>7, <1>8, <1>9, <1>10, After DEF Knows

LEMMA UnpackCalm ==
    ASSUME Known, Serial, NEW w \in Workers, Unpack(w) \/ Declare(w) \/ Build(w) PROVE Calm'
<1>1. ~Idle(w) /\ w \in Threads /\ th[w].at \in {"unpack", "declare", "build"}
    BY DEF Unpack, Declare, Build, At, Idle, Threads
<1>2. PICK next \in {"declare", "build", "check", "fail"} : GoOn(w, next)
    BY DEF Unpack, Declare, Build, Writes
<1>3. /\ app.id # None /\ th[w].id = app.id /\ KnowsDeploy(w) /\ KnowsProcesses(w) /\ KnowsSettings(w)
      /\ Status(th[w].d) = "building" /\ th[w].d \in Deploys
    BY <1>1, Hand, Words DEF Knows, Unended
<1>4. /\ \A s \in Threads : s # w => th'[s] = th[s]
      /\ th'[w].at = next /\ th'[w].d = th[w].d /\ th'[w].id = th[w].id /\ th'[w].pid = th[w].pid
    BY <1>1, <1>2, GoesOn DEF Known, Places, WorkerPlaces
<1>5. Steps(w) /\ UNCHANGED <<deploy, queue, kind, zips, proc>>
    BY <1>1, <1>4 DEF Steps, Unpack, Declare, Build, Writes, records, files, host
<1>6. /\ app'.id = app.id /\ app'.status = app.status /\ app'.pid = app.pid
      /\ \/ UNCHANGED app
         \/ app'.declared = (kind[Version(w)] = "wants") /\ th[w].at = "declare" /\ UNCHANGED src
    <2>1. CASE Unpack(w) \/ Build(w)
        BY <2>1 DEF Unpack, Build, row
    <2>2. CASE Declare(w)
        <3>1. app' = [app EXCEPT !.declared = (kind[Version(w)] = "wants")] /\ th[w].at = "declare"
            BY <1>3, <2>2 DEF Declare, Writes, UpdateApp, At
        <3> QED
            BY <2>2, <3>1 DEF Known, Typed, Rows, Declare, Writes, files
    <2> QED
        BY <2>1, <2>2
<1>7. /\ src'.version \in Uploaded \cup {None}
      /\ src'.built => /\ src'.version # None /\ kind[src'.version] # "empty"
                       /\ kind[src'.version] = "wants" => app'.declared
      /\ next # "fail" => src'.version = Version(w)
      /\ next = "check" => src'.built
      /\ next = "build" => Declared'
      /\ next \in {"declare", "build", "check", "fail"}
    <2>1. CASE Unpack(w)
        <3>1. \/ src' = NoSource /\ GoOn(w, "fail")
              \/ /\ Version(w) \in zips /\ src' = [version |-> Version(w), built |-> FALSE]
                 /\ GoOn(w, "declare") \/ GoOn(w, "fail")
            BY <2>1 DEF Unpack
        <3>2. \A other \in {"declare", "fail"} : GoOn(w, other) => next = other
            BY <1>1, <1>4, GoesOn DEF Known, Places, WorkerPlaces
        <3> QED
            BY <3>1, <3>2 DEF Known, Calm, Trees, NoSource
    <2>2. CASE Declare(w)
        <3>1. UNCHANGED src /\ th[w].at = "declare" /\ GoOn(w, "build") /\ UNCHANGED kind
            BY <2>2 DEF Declare, Writes, files, At
        <3>2. next = "build" /\ src.version = Version(w)
            BY <1>1, <1>3, <1>4, <3>1, GoesOn
               DEF Known, Places, WorkerPlaces, KnowsDeploy, Unpacked
        <3>3. /\ src'.version \in Uploaded \cup {None}
              /\ src'.built => src'.version # None /\ kind[src'.version] # "empty"
            BY <3>1 DEF Known, Calm, Trees
        <3>4. app'.declared = (kind[src'.version] = "wants")
            <4>1. app' = [app EXCEPT !.declared = (kind[Version(w)] = "wants")]
                BY <1>3, <2>2 DEF Declare, Writes, UpdateApp
            <4> QED
                BY <3>1, <3>2, <4>1 DEF Known, Typed, Rows
        <3> QED
            BY <3>1, <3>2, <3>3, <3>4 DEF Known, Calm, Trees, Declared
    <2>3. CASE Build(w)
        <3>1. /\ th[w].at = "build" /\ GoOn(w, "check") /\ UNCHANGED <<app, kind>>
              /\ src' = [src EXCEPT !.built = TRUE] /\ src.version # None /\ kind[src.version] # "empty"
            BY <2>3 DEF Build, row, At
        <3>2. next = "check" /\ src.version = Version(w) /\ Declared
            BY <1>1, <1>3, <1>4, <3>1, GoesOn
               DEF Known, Places, WorkerPlaces, KnowsDeploy, KnowsSettings, Unpacked, At
        <3>3. src'.version = src.version /\ src'.built
            BY <3>1 DEF Known, Typed, Sources
        <3> QED
            BY <3>1, <3>2, <3>3 DEF Known, Calm, Trees, Declared
    <2> QED
        BY <2>1, <2>2, <2>3
<1>8. OneApp' /\ NothingElseRuns' /\ Trees' /\ StoppedStays' /\ InOrder' /\ NewestIsThere'
    BY <1>1, <1>3, <1>5, <1>6, <1>7, TreeSteps
<1>9. KnowsDeploy(w)'
    <2>1. Word(th[w].at) \subseteq Word(next) /\ next \in WorkerPlaces \ {"mark"} /\ th[w].at \in WorkerPlaces
        BY <1>1, <1>7, Words DEF Unended, WorkerPlaces
    <2>2. th'[w].at \in Unpacked => src'.version = Version(w)
        BY <1>4, <1>7 DEF Unpacked
    <2>3. th'[w].at \in BuiltAt => src'.built
        BY <1>4, <1>7 DEF BuiltAt
    <2> QED
        BY <1>1, <1>4, <1>5, <1>6, <2>1, <2>2, <2>3, StillInHand
<1>10. KnowsApp(w)' /\ KnowsSettings(w)'
    BY <1>3, <1>4, <1>6, <1>7 DEF KnowsApp, KnowsSettings, At
<1>11. KnowsProcesses(w)'
    BY <1>1, <1>3, <1>4, <1>5, <1>6, <1>7, RunningSame DEF KnowsProcesses, HoldsRow, At
<1> QED
    BY <1>1, <1>5, <1>8, <1>9, <1>10, <1>11, After DEF Knows

\* Old ZIPs go.
LEMMA PruneCalm == ASSUME Known, Serial, NEW w \in Workers, Prune(w) PROVE Calm'
<1>1. ~Idle(w) /\ w \in Threads /\ th[w].at = "prune" /\ GoOn(w, "idle")
    BY DEF Prune, At, Idle, Threads
<1>2. Idle(w)' /\ \A s \in Threads : s # w => th'[s] = th[s]
    BY <1>1, GoesOn DEF Known, Places, OtherPlaces, Idle
<1>3. /\ Steps(w) /\ zips' \subseteq zips /\ UNCHANGED <<app, deploy, queue, kind, src, proc>>
    BY <1>1, <1>2 DEF Steps, Prune, row, records, host
<1>4. app.id # None
    BY <1>1, Hand
<1>5. OneApp' /\ NothingElseRuns' /\ StoppedStays' /\ InOrder' /\ NewestIsThere'
    <2>1. Running' = Running
        BY <1>3, RunningSame
    <2>2. StoppedStays'
        BY <1>1, <1>3, <2>1, StaysDown
    <2>3. NothingElseRuns'
        BY <1>1, <1>3, <2>1, OnlyNamed DEF NothingElseRuns
    <2> QED
        BY <1>3, <2>1, <2>2, <2>3
           DEF Known, Calm, OneApp, InOrder, Processed, NewestIsThere, IsNewest, DeploysOf
<1>6. Trees'
    BY <1>1, <1>3, RunningSame, Others DEF Known, Calm, Trees, Uploaded, Declared, At
<1> QED
    BY <1>1, <1>2, <1>3, <1>5, <1>6, After

-----------------------------------------------------------------------------
(* Starting                                                                 *)

LEMMA SpawnEffect ==
    ASSUME Known, NEW p \in Pids, Spawned(p), Running = {}
    PROVE  /\ Running' = {p}
           /\ proc'[p].version = src.version /\ proc'[p].configured = app.setting
<1>1. proc' = [proc EXCEPT ![p] = [state |-> "starting", version |-> src.version,
                                   configured |-> app.setting]]
    BY DEF Spawned
<1>2. proc'[p] = [state |-> "starting", version |-> src.version, configured |-> app.setting]
    BY <1>1 DEF Known, Typed
<1>3. \A q \in Pids \ {p} : proc'[q] = proc[q]
    BY <1>1 DEF Known, Typed
<1>4. \A q \in Pids : FrontAlive(q)' <=> q = p
    BY <1>2, <1>3 DEF Running, FrontAlive
<1> QED
    BY <1>2, <1>4 DEF Running

\* Something is started from the tree, which has what it wants.
LEMMA SpawnKeeps ==
    ASSUME Known, NEW t \in Threads, Steps(t), th[t].at # "delete_files", NEW p \in Pids, Spawned(p),
           Running = {}, Configured, src.built, app.id # None,
           th'[t].at \in {"record", "launch_record"}, th'[t].new = p,
           app.status = "stopped" => th'[t].at = "launch_record",
           UNCHANGED <<app, deploy, queue, kind, zips, src>>
    PROVE  OneApp' /\ NothingElseRuns' /\ Trees' /\ StoppedStays' /\ InOrder' /\ NewestIsThere'
<1>1. Running' = {p} /\ proc'[p].version = src.version /\ proc'[p].configured = app.setting
    BY SpawnEffect
<1>2. OneApp' /\ NothingElseRuns' /\ StoppedStays' /\ InOrder'
    BY <1>1 DEF Known, Calm, OneApp, NothingElseRuns, StoppedStays, InOrder, Processed
<1>3. Declared /\ src.version \in Uploaded
    BY Others DEF Known, Calm, Trees, At
<1>4. Trees'
    BY <1>1, <1>3 DEF Known, Calm, Trees, Declared, Configured, Uploaded
<1>5. NewestIsThere'
    BY <1>1 DEF Known, Calm, NewestIsThere, IsNewest, DeploysOf
<1> QED
    BY <1>2, <1>4, <1>5

LEMMA StartCalm == ASSUME Known, Serial, NEW w \in Workers, StartNew(w) PROVE Calm'
<1>1. ~Idle(w) /\ w \in Threads /\ th[w].at = "spawn"
    BY DEF StartNew, At, Idle, Threads
<1>2. /\ app.id # None /\ th[w].id = app.id /\ KnowsDeploy(w)
      /\ Running = {} /\ app.pid = None /\ Configured
    BY <1>1, Hand DEF Knows, KnowsProcesses, KnowsSettings
<1>3. UNCHANGED <<app, deploy, queue, kind, zips, src, launcher>>
    BY DEF StartNew, row, records, files, host
<1>4. CASE ~CanSpawn
    <2>1. GoOn(w, "fail") /\ UNCHANGED proc
        BY <1>4 DEF StartNew
    <2>2. /\ \A s \in Threads : s # w => th'[s] = th[s]
          /\ th'[w].at = "fail" /\ th'[w].d = th[w].d /\ th'[w].id = th[w].id
        BY <1>1, <2>1, GoesOn DEF Known, Places, WorkerPlaces
    <2>3. Steps(w)
        BY <1>1, <1>3, <2>2 DEF Steps
    <2>4. OneApp' /\ NothingElseRuns' /\ Trees' /\ StoppedStays' /\ InOrder' /\ NewestIsThere'
        BY <1>1, <1>3, <2>1, <2>3, Aside
    <2>5. KnowsDeploy(w)'
        BY <1>1, <1>2, <1>3, <2>2, StillInHand, Words DEF Unended, Unpacked, BuiltAt, WorkerPlaces
    <2>6. KnowsApp(w)' /\ KnowsProcesses(w)' /\ KnowsSettings(w)'
        BY <1>2, <1>3, <2>2 DEF KnowsApp, KnowsProcesses, KnowsSettings, At, HoldsRow
    <2> QED
        BY <1>1, <2>3, <2>4, <2>5, <2>6, After DEF Knows
<1>5. CASE CanSpawn
    <2>1. PICK p \in Pids :
            /\ Spawned(p)
            /\ th' = [th EXCEPT ![w].at = "record", ![w].new = p, ![w].swapped = TRUE]
        BY <1>5 DEF StartNew
    <2>2. th' = [th EXCEPT ![w] = [th[w] EXCEPT !.at = "record", !.new = p, !.swapped = TRUE]]
        BY <2>1
    <2>3. /\ \A s \in Threads : s # w => th'[s] = th[s]
          /\ th'[w].at = "record" /\ th'[w].new = p /\ th'[w].d = th[w].d /\ th'[w].id = th[w].id
        BY <1>1, <2>2 DEF Known, Typed, Locals
    <2>4. Steps(w)
        BY <1>1, <1>3, <2>3 DEF Steps
    <2>5. app.status # "stopped"
        BY <1>1, <1>2 DEF KnowsDeploy, WorkerPlaces
    <2>6. OneApp' /\ NothingElseRuns' /\ Trees' /\ StoppedStays' /\ InOrder' /\ NewestIsThere'
        BY <1>1, <1>2, <1>3, <1>5, <2>1, <2>3, <2>4, <2>5, SpawnKeeps DEF CanSpawn
    <2>7. Running' = {p} /\ proc'[p].version = src.version
        BY <1>2, <2>1, SpawnEffect
    <2>8. KnowsDeploy(w)'
        BY <1>1, <1>2, <1>3, <2>3, StillInHand, Words
           DEF KnowsDeploy, Unended, Unpacked, BuiltAt, WorkerPlaces
    <2>9. KnowsApp(w)' /\ KnowsProcesses(w)' /\ KnowsSettings(w)'
        BY <1>2, <1>3, <2>3, <2>7 DEF KnowsApp, KnowsProcesses, KnowsSettings, At, HoldsRow, Latest
    <2> QED
        BY <1>1, <2>4, <2>6, <2>8, <2>9, After DEF Knows
<1> QED
    BY <1>4, <1>5

LEMMA LaunchSpawnsCalm ==
    ASSUME Known, Serial, NEW t \in Threads, LaunchSpawns(t) PROVE Calm'
<1>1. ~Idle(t) /\ th[t].at = "launch_spawn"
    BY DEF LaunchSpawns, At, Idle
<1>2. /\ app.id # None /\ th[t].id = app.id
      /\ Running = {} /\ app.pid = None /\ Configured
    BY <1>1 DEF Known, Calm, Alone, Knows, KnowsApp, KnowsProcesses, KnowsSettings, At
<1>3. UNCHANGED <<app, deploy, queue, kind, zips, src, launcher>> /\ src.built
    BY DEF LaunchSpawns, row, records, files, host, CanSpawn
<1>4. PICK p \in Pids :
        /\ Spawned(p)
        /\ th' = [th EXCEPT ![t].at = "launch_record", ![t].new = p]
    BY DEF LaunchSpawns
<1>5. th' = [th EXCEPT ![t] = [th[t] EXCEPT !.at = "launch_record", !.new = p]]
    BY <1>4
<1>6. /\ \A s \in Threads : s # t => th'[s] = th[s]
      /\ th'[t].at = "launch_record" /\ th'[t].new = p /\ th'[t].id = th[t].id
    BY <1>5 DEF Known, Typed, Locals
<1>7. Steps(t)
    BY <1>1, <1>3, <1>6 DEF Steps
<1>8. OneApp' /\ NothingElseRuns' /\ Trees' /\ StoppedStays' /\ InOrder' /\ NewestIsThere'
    BY <1>1, <1>2, <1>3, <1>4, <1>6, <1>7, SpawnKeeps
<1>9. Running' = {p} /\ proc'[p].version = src.version
    BY <1>2, <1>4, SpawnEffect
<1>10. KnowsApp(t)' /\ KnowsProcesses(t)' /\ KnowsSettings(t)' /\ KnowsDeploy(t)'
    BY <1>2, <1>3, <1>6, <1>9
       DEF KnowsApp, KnowsProcesses, KnowsSettings, KnowsDeploy, At, HoldsRow, Latest, WorkerPlaces
<1> QED
    BY <1>7, <1>8, <1>10, After DEF Knows

\* The row names what was started.
LEMMA RecordKeeps ==
    ASSUME Known, NEW t \in Threads, Steps(t), th[t].at \in {"record", "launch_record"},
           app'.id = app.id, app'.pid = th[t].new, app'.declared = app.declared,
           UNCHANGED <<deploy, queue, kind, zips, src, proc>>
    PROVE  OneApp' /\ NothingElseRuns' /\ Trees' /\ InOrder' /\ NewestIsThere'
<1>1. Knows(t) /\ app.id # None
    BY DEF Known, Calm, Alone, Idle, Knows, KnowsApp, At
<1>2. Running' = Running
    BY RunningSame
<1>3. OneApp' /\ NothingElseRuns'
    BY <1>1, <1>2 DEF Known, Calm, OneApp, NothingElseRuns, Knows, KnowsProcesses
<1>4. Trees'
    BY <1>2, Others DEF Known, Calm, Trees, Declared, Uploaded, At
<1>5. InOrder' /\ NewestIsThere'
    BY <1>2 DEF Known, Calm, InOrder, Processed, NewestIsThere, IsNewest, DeploysOf
<1> QED
    BY <1>3, <1>4, <1>5

LEMMA RecordCalm == ASSUME Known, Serial, NEW w \in Workers, RecordNew(w) PROVE Calm'
<1>1. ~Idle(w) /\ w \in Threads /\ th[w].at = "record" /\ GoOn(w, "verify")
    BY DEF RecordNew, Writes, At, Idle, Threads
<1>2. app.id # None /\ th[w].id = app.id /\ KnowsDeploy(w) /\ KnowsProcesses(w)
    BY <1>1, Hand DEF Knows
<1>3. /\ UNCHANGED <<deploy, queue, kind, zips, src, proc, launcher>>
      /\ app' = [app EXCEPT !.pid = th[w].new]
    BY <1>2 DEF RecordNew, Writes, UpdateApp, records, files, host
<1>4. /\ app'.id = app.id /\ app'.pid = th[w].new /\ app'.declared = app.declared
      /\ app'.status = app.status
    BY <1>3 DEF Known, Typed, Rows
<1>5. /\ \A s \in Threads : s # w => th'[s] = th[s]
      /\ th'[w].at = "verify" /\ th'[w].d = th[w].d /\ th'[w].id = th[w].id
    BY <1>1, GoesOn DEF Known, Places, WorkerPlaces
<1>6. Steps(w)
    BY <1>1, <1>3, <1>5 DEF Steps
<1>7. OneApp' /\ NothingElseRuns' /\ Trees' /\ InOrder' /\ NewestIsThere'
    BY <1>1, <1>3, <1>4, <1>6, RecordKeeps
<1>8. StoppedStays'
    BY <1>1, <1>2, <1>4 DEF StoppedStays, KnowsDeploy, WorkerPlaces
<1>9. KnowsDeploy(w)'
    BY <1>1, <1>2, <1>3, <1>4, <1>5, StillInHand, Words
       DEF KnowsDeploy, Unended, Unpacked, BuiltAt, WorkerPlaces
<1>10. KnowsApp(w)' /\ KnowsProcesses(w)' /\ KnowsSettings(w)'
    BY <1>1, <1>2, <1>3, <1>4, <1>5 DEF KnowsApp, KnowsProcesses, KnowsSettings, At, HoldsRow, Latest
<1> QED
    BY <1>1, <1>6, <1>7, <1>8, <1>9, <1>10, After DEF Knows

LEMMA LaunchRecordsCalm ==
    ASSUME Known, Serial, NEW t \in Threads, LaunchRecords(t) PROVE Calm'
<1>1. ~Idle(t) /\ th[t].at = "launch_record"
    BY DEF LaunchRecords, At, Idle
<1>2. app.id # None /\ th[t].id = app.id /\ KnowsProcesses(t)
    BY <1>1 DEF Known, Calm, Alone, Knows, KnowsApp, At
<1>3. /\ UNCHANGED <<deploy, queue, kind, zips, src, proc, launcher>>
      /\ app' = [app EXCEPT !.status = "live", !.pid = th[t].new]
    BY <1>2 DEF LaunchRecords, UpdateApp, records, files, host
<1>4. /\ app'.id = app.id /\ app'.pid = th[t].new /\ app'.declared = app.declared
      /\ app'.status = "live"
    BY <1>3 DEF Known, Typed, Rows
<1>5. PICK next \in {"settle", "idle"} : GoOn(t, next)
    BY DEF LaunchRecords, AfterStart
<1>6. /\ \A s \in Threads : s # t => th'[s] = th[s]
      /\ th'[t].at = next
      /\ next # "idle" => th'[t].id = th[t].id
    BY <1>5, GoesOn DEF Known, Places, OtherPlaces
<1>7. Steps(t)
    BY <1>1, <1>3, <1>6 DEF Steps
<1>8. OneApp' /\ NothingElseRuns' /\ Trees' /\ InOrder' /\ NewestIsThere'
    BY <1>1, <1>3, <1>4, <1>7, RecordKeeps
<1>9. StoppedStays'
    BY <1>4, NotStopped
<1>10. ASSUME ~Idle(t)' PROVE Knows(t)'
    <2>1. th'[t].at = "settle" /\ th'[t].id = th[t].id
        BY <1>6, <1>10 DEF Idle
    <2>2. Latest(app.pid)'
        BY <1>1, <1>2, <1>3, <1>4 DEF KnowsProcesses, Latest
    <2>3. KnowsProcesses(t)'
        BY <2>1, <2>2 DEF KnowsProcesses, HoldsRow
    <2>4. KnowsApp(t)' /\ KnowsSettings(t)' /\ KnowsDeploy(t)'
        BY <1>2, <1>4, <2>1 DEF KnowsApp, KnowsSettings, KnowsDeploy, At, WorkerPlaces
    <2> QED
        BY <2>3, <2>4 DEF Knows
<1> QED
    BY <1>7, <1>8, <1>9, <1>10, After

-----------------------------------------------------------------------------
(* The records                                                              *)

LEMMA MarksCalm ==
    ASSUME Known, Serial, NEW w \in Workers, Hold(w) \/ FinishDeploy(w) \/ Fail(w) \/ FailVerify(w)
    PROVE  Calm'
<1>1. PICK word \in {"needs_setup", "live", "failed"}, next \in {"hold_app", "finish_app", "fail_app", "fail_stop"} :
        /\ Marks(w, word, next)
        /\ \/ th[w].at = "hold" /\ word = "needs_setup" /\ next = "hold_app"
           \/ th[w].at = "finish" /\ word = "live" /\ next = "finish_app"
           \/ th[w].at \in {"fail", "fail_verify"} /\ word = "failed" /\ next \in {"fail_app", "fail_stop"}
    BY DEF Hold, FinishDeploy, Fail, FailVerify, At
<1>2. ~Idle(w) /\ w \in Threads
    BY <1>1 DEF Idle, Threads
<1>3. /\ app.id # None /\ th[w].id = app.id /\ KnowsDeploy(w) /\ KnowsProcesses(w)
      /\ Status(th[w].d) \notin {"gone", "unborn"} /\ th[w].d \in Deploys
    BY <1>2, Hand, Words DEF Knows, Word
<1>0. PICK f \in Deploys : f = th[w].d
    BY <1>3
<1>4. /\ \A e \in Deploys : e # f => deploy'[e] = deploy[e]
      /\ deploy'[f].app = deploy[f].app
      /\ Status(f)' = word
    BY <1>0, <1>1, <1>3, SetEffect DEF Marks, Known
<1>5. \A e \in Deploys : deploy'[e].version = deploy[e].version
    <2>1. deploy' = [deploy EXCEPT ![th[w].d] = [@ EXCEPT !.status = word]]
        BY <1>1, <1>3 DEF Marks, SetDeploy
    <2> QED
        BY <2>1, <1>3 DEF Known, Typed, DeployRows
<1>6. /\ \A s \in Threads : s # w => th'[s] = th[s]
      /\ th'[w].at = next /\ th'[w].d = th[w].d /\ th'[w].id = th[w].id
    BY <1>1, <1>2, GoesOn DEF Known, Marks, Places, WorkerPlaces
<1>7. Steps(w) /\ UNCHANGED <<app, queue, kind, zips, src, proc>> /\ Running' = Running
    BY <1>1, <1>2, <1>6, RunningSame DEF Steps, Marks, row, files, host
<1>8. \A d, e \in Deploys :
         /\ Status(d)' = "unborn" <=> Status(d) = "unborn"
         /\ Processed(d)' <=> Processed(d) \/ d = f
         /\ Status(d)' \notin {"unborn", "gone"} <=> Status(d) \notin {"unborn", "gone"}
    BY <1>0, <1>1, <1>3, <1>4 DEF Processed
<1>9. th[w].at \in WorkerPlaces /\ Processed(f)
    <2>1. Status(th[w].d) \in Word(th[w].at) /\ th[w].at \in Unended \cup {"fail"}
        BY <1>1, <1>2, Hand DEF Unended
    <2>2. Status(th[w].d) \in {"building", "live"}
        BY <2>1, Words
    <2> QED
        BY <1>0, <1>2, <2>2, Hand DEF Processed
<1>10. OneApp' /\ NothingElseRuns' /\ StoppedStays'
    <2>1. OneApp'
        BY <1>3, <1>4, <1>7, <1>8 DEF Known, Calm, OneApp
    <2>2. NothingElseRuns'
        BY <1>1, <1>2, <1>7, OnlyNamed DEF NothingElseRuns
    <2>3. StoppedStays'
        BY <1>1, <1>3, <1>7, <1>9, NotStopped DEF KnowsDeploy
    <2> QED
        BY <2>1, <2>2, <2>3
<1>11. Trees'
    <2>1. Uploaded' = Uploaded
        BY <1>8 DEF Uploaded
    <2> QED
        BY <1>1, <1>2, <1>7, <2>1, Others DEF Known, Calm, Trees, Declared, At
<1>12. InOrder'
    <2>1. \A d \in Deploys : Processed(d)' <=> Processed(d)
        BY <1>8, <1>9
    <2>2. \A i, j \in DOMAIN queue' : i < j => queue'[i] < queue'[j]
        BY <1>7 DEF Known, Calm, InOrder
    <2>3. \A i \in DOMAIN queue', e \in Deploys : Processed(e)' => e < queue'[i]
        BY <1>7, <2>1 DEF Known, Calm, InOrder
    <2>4. \A d, e \in Deploys : Status(d)' # "unborn" /\ Status(e)' = "unborn" => d < e
        BY <1>8 DEF Known, Calm, InOrder
    <2> QED
        BY <2>2, <2>3, <2>4 DEF InOrder
<1>13. NewestIsThere'
    <2>1. SUFFICES ASSUME NEW d \in Deploys, IsNewest(d, app.id)', Status(d)' \in {"live", "needs_setup"}
                   PROVE  /\ src'.built /\ src'.version = deploy'[d].version
                          /\ Status(d)' = "live" => \A p \in Running' : proc'[p].version = deploy'[d].version
        BY DEF NewestIsThere
    <2>2. IsNewest(d, app.id)
        BY <1>4, <1>7, <1>8, <2>1, <1>3 DEF IsNewest, DeploysOf
    <2>3. Processed(d)
        BY <1>8, <1>9, <2>1 DEF Processed
    <2>4. d = f
        BY <1>0, <1>2, <2>2, <2>3, NewestInHand
    <2>5. word # "failed"
        BY <1>4, <2>1, <2>4
    <2>6. src.built /\ src.version = deploy[d].version
        BY <1>0, <1>1, <1>3, <1>9, <2>4, <2>5 DEF KnowsDeploy, Unpacked, BuiltAt, Version
    <2>7. ASSUME th[w].at = "finish", NEW p \in Running PROVE proc[p].version = src.version
        <3>1. p = app.pid /\ Latest(app.pid)
            BY <1>1, <1>2, <1>3, <1>7, <2>7, OnlyNamed DEF KnowsProcesses
        <3>2. proc[p].version \in Uploaded
            BY <2>7 DEF Known, Calm, Trees
        <3> QED
            BY <3>1, <3>2 DEF Latest, Uploaded, Deploys
    <2> QED
        BY <1>1, <1>4, <1>5, <1>7, <2>1, <2>4, <2>6, <2>7
<1>14. KnowsDeploy(w)'
    <2>1. word \in Word(next) /\ next \in WorkerPlaces \ {"mark"} /\ next \notin Unpacked \cup BuiltAt
        BY <1>1, Words DEF Unpacked, BuiltAt, WorkerPlaces
    <2>2. \A e \in Deploys : Processed(e)' => e <= f
        BY <1>0, <1>3, <1>8, <1>9 DEF KnowsDeploy, Deploys
    <2>3. app'.status # "stopped"
        BY <1>1, <1>3, <1>7, <1>9 DEF KnowsDeploy
    <2> QED
        BY <1>0, <1>4, <1>6, <2>1, <2>2, <2>3 DEF KnowsDeploy
<1>15. KnowsApp(w)' /\ KnowsProcesses(w)' /\ KnowsSettings(w)'
    BY <1>1, <1>3, <1>6, <1>7 DEF KnowsApp, KnowsProcesses, KnowsSettings, At, HoldsRow
<1> QED
    BY <1>2, <1>7, <1>10, <1>11, <1>12, <1>13, <1>14, <1>15, After DEF Knows

LEMMA TakeCalm == ASSUME Known, Serial, NEW w \in Workers, Take(w) PROVE Calm'
<1>0. PICK d \in Deploys : d = Head(queue)
    BY TailOf DEF Take, Known, Typed
<1>1. /\ Idle(w) /\ Quiet /\ w \in Threads /\ queue # << >> /\ queue' = Tail(queue)
      /\ UNCHANGED <<app, kind, zips, src, proc, launcher>> /\ Running' = Running
    BY RunningSame DEF Take, Free, Threads, row, files, host
<1>2. /\ d = queue[1] /\ 1 \in DOMAIN queue /\ d \in Deploys
      /\ \A i \in DOMAIN queue' : i + 1 \in DOMAIN queue /\ queue'[i] = queue[i + 1] /\ i \in Nat \ {0}
    BY <1>0, <1>1, TailOf DEF Known, Typed
<1>3. Status(d) \in {"queued", "gone"}
    BY <1>2 DEF Known, Owned, Queued
<1>4. /\ \A i, j \in DOMAIN queue' : i < j => queue'[i] < queue'[j]
      /\ \A i \in DOMAIN queue', e \in Deploys : Processed(e) => e < queue'[i]
      /\ \A i \in DOMAIN queue' : d < queue'[i]
    BY <1>2 DEF Known, Calm, InOrder
<1>5. CASE Status(d) = "gone" /\ UNCHANGED <<deploy, th>>
    <2>1. InOrder'
        BY <1>4, <1>5 DEF Known, Calm, InOrder, Processed
    <2>2. Alone' /\ OneApp' /\ NothingElseRuns' /\ StoppedStays'
        BY <1>1, <1>5 DEF Known, Calm, Alone, OneApp, NothingElseRuns, StoppedStays, Quiet, Idle
    <2>3. Trees' /\ NewestIsThere'
        BY <1>1, <1>5 DEF Known, Calm, Trees, Declared, Uploaded, At, NewestIsThere, IsNewest, DeploysOf
    <2> QED
        BY <2>1, <2>2, <2>3 DEF Calm
<1>6. CASE /\ Status(d) # "gone" /\ SetDeploy(d, "building")
           /\ th' = [th EXCEPT ![w] = [Holding("mark", "deploy") EXCEPT !.d = d]]
    <2>1. Status(d) = "queued"
        BY <1>3, <1>6
    <2>2. /\ \A e \in Deploys : e # d => deploy'[e] = deploy[e]
          /\ deploy'[d].app = deploy[d].app /\ Status(d)' = "building"
        BY <1>2, <1>6, SetEffect DEF Known
    <2>3. /\ \A s \in Threads : s # w => th'[s] = th[s]
          /\ th'[w].at = "mark" /\ th'[w].id = app.id /\ th'[w].pid = app.pid /\ th'[w].d = d
        <3>1. /\ Holding("mark", "deploy") \in Locals /\ Holding("mark", "deploy").at = "mark"
              /\ Holding("mark", "deploy").id = app.id /\ Holding("mark", "deploy").pid = app.pid
            <4>1. "mark" \in Places /\ "deploy" \in ThreadOps
                BY DEF Places, WorkerPlaces, ThreadOps
            <4>2. Typed
                BY DEF Known
            <4> QED
                BY <4>1, <4>2, HoldingTyped
        <3>2. th'[w] = [Holding("mark", "deploy") EXCEPT !.d = d]
            BY <1>1, <1>6 DEF Known, Typed
        <3>3. \A s \in Threads : s # w => th'[s] = th[s]
            BY <1>6 DEF Known, Typed
        <3> QED
            BY <3>1, <3>2, <3>3 DEF Locals
    <2>4. Steps(w)
        BY <1>1, <2>3 DEF Steps
    <2>5. app.id # None /\ deploy[d].app = app.id
        BY <1>2, <2>1 DEF Known, Calm, OneApp
    <2>6. \A e \in Deploys :
             /\ Status(e)' = "unborn" <=> Status(e) = "unborn"
             /\ Processed(e)' <=> Processed(e) \/ e = d
             /\ Status(e)' \notin {"unborn", "gone"} <=> Status(e) \notin {"unborn", "gone"}
        BY <1>2, <2>1, <2>2 DEF Processed
    <2>7. \A s \in Threads : th[s].at = "idle"
        BY <1>1 DEF Quiet, Idle
    <2>8. OneApp' /\ NothingElseRuns' /\ StoppedStays'
        <3>1. OneApp'
            BY <1>1, <2>2, <2>5, <2>6 DEF Known, Calm, OneApp
        <3>2. NothingElseRuns'
            BY <1>1, <2>4, <2>7, OnlyNamed DEF NothingElseRuns
        <3>3. StoppedStays'
            BY <1>1, <2>3 DEF StoppedStays
        <3> QED
            BY <3>1, <3>2, <3>3
    <2>9. Trees'
        <3>1. Uploaded' = Uploaded
            BY <2>6 DEF Uploaded
        <3> QED
            BY <1>1, <2>7, <3>1 DEF Known, Calm, Trees, Declared, At
    <2>10. InOrder'
        <3>1. \A i \in DOMAIN queue', e \in Deploys : Processed(e)' => e < queue'[i]
            BY <1>4, <2>6
        <3>2. \A e, f \in Deploys : Status(e)' # "unborn" /\ Status(f)' = "unborn" => e < f
            BY <2>6 DEF Known, Calm, InOrder
        <3> QED
            BY <1>4, <3>1, <3>2 DEF InOrder
    <2>11. NewestIsThere'
        <3>1. SUFFICES ASSUME NEW e \in Deploys, IsNewest(e, app.id)', Status(e)' \in {"live", "needs_setup"}
                       PROVE  /\ src'.built /\ src'.version = deploy'[e].version
                              /\ Status(e)' = "live" => \A p \in Running' : proc'[p].version = deploy'[e].version
            BY DEF NewestIsThere
        <3>2. e # d /\ deploy'[e] = deploy[e]
            BY <2>2, <3>1
        <3>3. IsNewest(e, app.id)
            BY <1>1, <2>2, <2>5, <2>6, <3>1 DEF IsNewest, DeploysOf
        <3> QED
            BY <1>1, <3>1, <3>2, <3>3 DEF Known, Calm, NewestIsThere
    <2>12. Knows(w)'
        <3>1. \A e \in Deploys : Processed(e)' => e <= d
            <4>1. \A e \in Deploys : Processed(e) => e < d
                BY <1>2 DEF Known, Calm, InOrder
            <4> QED
                BY <1>2, <2>6, <4>1 DEF Deploys
        <3>2. KnowsDeploy(w)'
            BY <1>1, <2>2, <2>3, <3>1, Words DEF KnowsDeploy, Unended, Unpacked, BuiltAt
        <3>3. KnowsApp(w)' /\ KnowsProcesses(w)' /\ KnowsSettings(w)'
            BY <1>1, <2>3, <2>5 DEF KnowsApp, KnowsProcesses, KnowsSettings, At, HoldsRow
        <3> QED
            BY <3>2, <3>3 DEF Knows
    <2> QED
        BY <1>1, <2>4, <2>8, <2>9, <2>10, <2>11, <2>12, After
<1> QED
    BY <1>0, <1>5, <1>6 DEF Take

\* The newest deploy, if it waited, is live now that the app was started.
LEMMA SettleCalm == ASSUME Known, Serial, NEW c \in Clients, Settle(c) PROVE Calm'
<1>1. ~Idle(c) /\ th[c].at = "settle" /\ c \in Threads /\ GoOn(c, "idle")
    BY DEF Settle, At, Idle, Threads
<1>2. app.id # None /\ th[c].id = app.id /\ KnowsProcesses(c)
    BY <1>1 DEF Known, Calm, Alone, Knows, KnowsApp, At
<1>3. Idle(c)' /\ \A s \in Threads : s # c => th'[s] = th[s]
    BY <1>1, GoesOn DEF Known, Places, OtherPlaces, Idle
<1>4. Steps(c) /\ UNCHANGED <<app, queue, kind, zips, src, proc>> /\ Running' = Running
    BY <1>1, <1>3, RunningSame DEF Steps, Settle, row, files, host
<1>5. \A d \in Deploys :
         /\ deploy'[d].app = deploy[d].app /\ deploy'[d].version = deploy[d].version
         /\ Status(d)' = IF IsNewest(d, app.id) /\ Status(d) = "needs_setup" THEN "live" ELSE Status(d)
    BY <1>2 DEF Settle, Known, Typed, DeployRows
<1>6. \A d \in Deploys :
         /\ Status(d)' = "unborn" <=> Status(d) = "unborn"
         /\ Status(d)' = "gone" <=> Status(d) = "gone"
         /\ Processed(d)' <=> Processed(d)
    BY <1>5 DEF Processed
<1>7. OneApp' /\ NothingElseRuns' /\ StoppedStays'
    <2>1. OneApp'
        BY <1>4, <1>5, <1>6 DEF Known, Calm, OneApp
    <2>2. NothingElseRuns'
        BY <1>1, <1>4, OnlyNamed DEF NothingElseRuns
    <2>3. StoppedStays'
        <3>1. \A d \in Deploys : Status(d) = "queued" => Status(d)' = "queued"
            BY <1>5
        <3> QED
            BY <1>1, <1>4, <3>1, StaysDown
    <2> QED
        BY <2>1, <2>2, <2>3
<1>8. Trees'
    <2>1. Uploaded' = Uploaded
        BY <1>6 DEF Uploaded
    <2> QED
        BY <1>1, <1>4, <2>1, Others DEF Known, Calm, Trees, Declared, At
<1>9. InOrder'
    BY <1>4, <1>6 DEF Known, Calm, InOrder
<1>10. NewestIsThere'
    <2>1. SUFFICES ASSUME NEW d \in Deploys, IsNewest(d, app.id)', Status(d)' \in {"live", "needs_setup"}
                   PROVE  /\ src'.built /\ src'.version = deploy'[d].version
                          /\ Status(d)' = "live" => \A p \in Running' : proc'[p].version = deploy'[d].version
        BY DEF NewestIsThere
    <2>2. IsNewest(d, app.id)
        BY <1>4, <1>5, <1>6, <2>1 DEF IsNewest, DeploysOf
    <2>3. Status(d) \in {"live", "needs_setup"}
        BY <1>5, <2>1
    <2>4. src.built /\ src.version = deploy[d].version
        BY <2>2, <2>3 DEF Known, Calm, NewestIsThere
    <2>5. ASSUME Status(d) = "needs_setup", NEW p \in Running PROVE proc[p].version = deploy[d].version
        <3>1. p = app.pid /\ Latest(app.pid)
            BY <1>1, <1>2, <1>4, <2>2, <2>5, OnlyNamed DEF KnowsProcesses
        <3>2. proc[p].version \in Uploaded
            BY <2>5 DEF Known, Calm, Trees
        <3> QED
            BY <2>4, <3>1, <3>2 DEF Latest, Uploaded, Deploys
    <2>6. Status(d) = "live" => \A p \in Running : proc[p].version = deploy[d].version
        BY <2>2 DEF Known, Calm, NewestIsThere
    <2> QED
        BY <1>4, <1>5, <2>3, <2>4, <2>5, <2>6
<1> QED
    BY <1>1, <1>3, <1>4, <1>7, <1>8, <1>9, <1>10, After

\* Deleting: the row and the records first, the files last.
LEMMA DeleteCalm == ASSUME Known, Serial, NEW c \in Clients, DeleteRow(c) \/ DeleteFiles(c) PROVE Calm'
<1>1. CASE DeleteRow(c)
    <2>1. ~Idle(c) /\ th[c].at = "delete_row" /\ c \in Threads /\ GoOn(c, "delete_files")
        BY <1>1 DEF DeleteRow, At, Idle, Threads
    <2>2. app.id # None /\ th[c].id = app.id /\ Running = {}
        BY <2>1 DEF Known, Calm, Alone, Knows, KnowsApp, KnowsProcesses, At
    <2>3. th'[c].at = "delete_files" /\ \A s \in Threads : s # c => th'[s] = th[s]
        BY <2>1, GoesOn DEF Known, Places, OtherPlaces
    <2>4. Steps(c) /\ UNCHANGED <<queue, kind, zips, src, proc>> /\ Running' = {} /\ app' = NoRow
        BY <1>1, <2>1, <2>2, <2>3, RunningSame DEF Steps, DeleteRow, files, host, UpdateApp
    <2>5. \A d \in Deploys : Status(d)' = IF deploy[d].app = app.id THEN "gone" ELSE Status(d)
        BY <1>1, <2>2 DEF DeleteRow, Known, Typed, DeployRows
    <2>6. \A d \in Deploys :
             /\ Status(d)' \in {"unborn", "gone"}
             /\ Status(d)' = "unborn" <=> Status(d) = "unborn"
             /\ ~Processed(d)'
        BY <2>2, <2>5 DEF Known, Owned, Deleting, Calm, OneApp, Processed
    <2>7. Uploaded' = Uploaded
        BY <2>6 DEF Uploaded
    <2>8. OneApp' /\ NothingElseRuns' /\ StoppedStays'
        BY <2>4, <2>6 DEF OneApp, NothingElseRuns, StoppedStays
    <2>9. Trees'
        BY <2>1, <2>3, <2>4, <2>7 DEF Known, Calm, Trees, At
    <2>10. InOrder'
        BY <2>4, <2>6 DEF Known, Calm, InOrder
    <2>11. NewestIsThere'
        BY <2>6 DEF NewestIsThere
    <2>12. Knows(c)'
        BY <2>3, <2>4
           DEF Knows, KnowsApp, KnowsProcesses, KnowsSettings, KnowsDeploy, At, HoldsRow, WorkerPlaces
    <2> QED
        BY <2>1, <2>4, <2>8, <2>9, <2>10, <2>11, <2>12, After
<1>2. CASE DeleteFiles(c)
    <2>1. ~Idle(c) /\ th[c].at = "delete_files" /\ c \in Threads /\ GoOn(c, "idle")
        BY <1>2 DEF DeleteFiles, At, Idle, Threads
    <2>2. app = NoRow
        BY <2>1 DEF Known, Calm, Alone, Knows, KnowsApp, At
    <2>3. Idle(c)' /\ \A s \in Threads : s # c => th'[s] = th[s]
        BY <2>1, GoesOn DEF Known, Places, OtherPlaces, Idle
    <2>4. /\ Steps(c) /\ UNCHANGED <<app, deploy, queue, kind, proc>> /\ Running' = Running
          /\ src' = NoSource /\ zips' = {}
        BY <1>2, <2>1, <2>3, RunningSame DEF Steps, DeleteFiles, row, records, host
    <2>5. Running = {}
        <3>1. Running \subseteq {None} /\ Running \subseteq Pids
            BY <2>1, <2>2, <2>4, OnlyNamed DEF NoRow, Running
        <3> QED
            BY <3>1 DEF Pids
    <2>6. OneApp' /\ NothingElseRuns' /\ StoppedStays' /\ InOrder'
        BY <2>4, <2>5 DEF Known, Calm, OneApp, NothingElseRuns, StoppedStays, InOrder, Processed
    <2>7. Trees'
        BY <2>4, <2>5 DEF Trees, NoSource
    <2>8. NewestIsThere'
        BY <2>2, <2>4 DEF Known, Calm, OneApp, NewestIsThere, NoRow
    <2> QED
        BY <2>1, <2>3, <2>4, <2>6, <2>7, <2>8, After
<1> QED
    BY <1>1, <1>2

-----------------------------------------------------------------------------
(* Launching, otherwise                                                     *)

\* Who was to start a newer version of a live app finds a tree that needs nothing.
LEMMA RefusedCalm ==
    ASSUME Known, Serial, NEW t \in Threads, LaunchFailed(t) \/ LaunchHeld(t) PROVE Calm'
<1>1. ~Idle(t) /\ th[t].at = "launch"
    BY DEF LaunchFailed, LaunchHeld, At, Idle
<1>2. app.id # None /\ th[t].id = app.id /\ KnowsSettings(t)
    BY <1>1 DEF Known, Calm, Alone, Knows, KnowsApp, At
<1>3. PICK status \in {"failed", "needs_setup"} :
        /\ UpdateApp(th[t].id, With(status)) /\ GoOn(t, AfterRefusal(th[t].op))
        /\ UNCHANGED <<records, files, proc, host>>
        /\ status = "failed" => NoApp
        /\ status = "needs_setup" => Missing(th[t].id)
    BY DEF LaunchFailed, LaunchHeld, Writes
<1>4. status \in AppStatus \ {"stopped"}
    BY DEF AppStatus
<1>5. CASE th[t].op # "refresh"
    <2>1. GoOn(t, "idle")
        BY <1>3, <1>5 DEF AfterRefusal
    <2> QED
        BY <1>1, <1>3, <1>4, <2>1, LastStatus
<1>6. CASE th[t].op = "refresh"
    <2>1. GoOn(t, "settle") /\ "settle" \in Places /\ "settle" # "idle"
        BY <1>3, <1>6 DEF AfterRefusal, Places, OtherPlaces
    <2>2. /\ Steps(t) /\ UNCHANGED <<deploy, queue, kind, zips, src, proc, launcher>>
          /\ app'.id = app.id /\ app'.pid = app.pid
          /\ OneApp' /\ NothingElseRuns' /\ Trees' /\ InOrder' /\ NewestIsThere' /\ StoppedStays'
        BY <1>1, <1>3, <1>4, <2>1, WritesStatus
    <2>3. th'[t].at = "settle" /\ th'[t].id = th[t].id
        BY <2>1, GoesOn DEF Known
    <2>4. status = "failed"
        BY <1>1, <1>2, <1>3, <1>6 DEF KnowsSettings, Configured, Missing, At
    <2>5. ~src.built
        BY <1>3, <2>4 DEF NoApp, Known, Calm, Trees
    <2>6. \A d \in Deploys : ~(IsNewest(d, app.id) /\ Status(d) = "needs_setup")
        BY <2>5 DEF Known, Calm, NewestIsThere
    <2>7. \A d \in Deploys : IsNewest(d, app.id)' => IsNewest(d, app.id)
        BY <2>2 DEF IsNewest, DeploysOf
    <2>8. KnowsProcesses(t)'
        BY <2>2, <2>3, <2>6, <2>7 DEF KnowsProcesses, HoldsRow
    <2>9. KnowsApp(t)' /\ KnowsSettings(t)' /\ KnowsDeploy(t)'
        BY <1>2, <2>2, <2>3 DEF KnowsApp, KnowsSettings, KnowsDeploy, At, WorkerPlaces
    <2> QED
        BY <2>2, <2>8, <2>9, After DEF Knows
<1> QED
    BY <1>5, <1>6

LEMMA RaisesCalm == ASSUME Known, Serial, NEW t \in Threads, LaunchRaises(t) PROVE Calm'
<1>1. ~Idle(t) /\ th[t].at = "launch_spawn"
    BY DEF LaunchRaises, At, Idle
<1>2. app.id # None /\ th[t].id = app.id
    BY <1>1 DEF Known, Calm, Alone, Knows, KnowsApp, At
<1>3. PICK next \in {"launch_failed", "idle"} : Decides(t, next)
    BY DEF LaunchRaises, AfterRaise
<1>4. next \in Places
    BY DEF Places, LaunchPlaces, OtherPlaces
<1>5. /\ Steps(t) /\ UNCHANGED <<app, deploy, queue, kind, zips, src, proc, launcher>>
      /\ OneApp' /\ NothingElseRuns' /\ Trees' /\ InOrder' /\ NewestIsThere' /\ StoppedStays'
      /\ th'[t].at = next
      /\ next # "idle" => th'[t].id = th[t].id
    BY <1>1, <1>3, <1>4, DecidesEffect
<1>6. ~Idle(t)' => Knows(t)'
    BY <1>2, <1>5
       DEF Idle, Knows, KnowsApp, KnowsProcesses, KnowsSettings, KnowsDeploy, At, HoldsRow, WorkerPlaces
<1> QED
    BY <1>5, <1>6, After

LEMMA LaunchCalm == ASSUME Known, Serial, NEW t \in Threads, Launch(t) PROVE Calm'
<1>1. ASSUME LaunchCaught(t) PROVE Calm'
    <2>1. /\ ~Idle(t) /\ th[t].at = "launch_failed"
          /\ UpdateApp(th[t].id, With("failed")) /\ GoOn(t, "idle")
          /\ UNCHANGED <<records, files, proc, host>>
        BY <1>1 DEF LaunchCaught, Writes, At, Idle
    <2>2. "failed" \in AppStatus \ {"stopped"}
        BY DEF AppStatus
    <2> QED
        BY <2>1, <2>2, LastStatus
<1> QED
    BY <1>1, RefusedCalm, AllStopsCalm, LaunchSpawnsCalm, RaisesCalm, LaunchRecordsCalm DEF Launch

-----------------------------------------------------------------------------
(* The pages and the supervisor                                             *)

\* A thread that begins something, with the row as it is, or is done.
LEMMA BeginsCalm ==
    ASSUME Known, Serial, NEW t \in Threads, ~Idle(t) \/ Quiet,
           NEW place \in {"stop_kill", "launch", "apply", "delete_kill", "withdraw", "look"},
           NEW op \in ThreadOps, th' = [th EXCEPT ![t] = Holding(place, op)],
           place = "launch" /\ op = "refresh" => Configured, place = "look" => op # "refresh",
           th[t].at \in {"idle", "apply"},
           app.id # None, app'.id = app.id, app'.pid = app.pid, app'.declared = app.declared,
           place = "launch" => app'.setting = app.setting,
           app'.status = app.status \/ place \in {"stop_kill", "delete_kill"},
           UNCHANGED <<deploy, queue, kind, zips, src, proc, launcher>>
    PROVE  Calm'
<1>1. place \in Places
    BY DEF Places, LaunchPlaces, OtherPlaces
<1>2. /\ \A s \in Threads : s # t => th'[s] = th[s]
      /\ th'[t].at = place /\ th'[t].id = app.id /\ th'[t].pid = app.pid /\ th'[t].op = op
    BY <1>1, BeginsTyped, HoldingTyped DEF Known
<1>3. Steps(t)
    BY <1>2 DEF Steps
<1>4. OneApp' /\ NothingElseRuns' /\ Trees' /\ InOrder' /\ NewestIsThere'
    BY <1>3, RowAside
<1>5. StoppedStays'
    BY <1>2, <1>3, RunningSame, StaysDown DEF StoppedStays
<1>6. Knows(t)'
    BY <1>2
       DEF Knows, KnowsApp, KnowsProcesses, KnowsSettings, Configured, KnowsDeploy, At, HoldsRow,
           WorkerPlaces
<1> QED
    BY <1>3, <1>4, <1>5, <1>6, After

LEMMA PressCalm == ASSUME Known, Serial, NEW c \in Clients, Press(c) PROVE Calm'
<1>1. PICK op \in ThreadOps, place \in {"stop_kill", "launch", "apply", "delete_kill"} :
        /\ th' = [th EXCEPT ![c] = Holding(place, op)] /\ Quiet /\ app.id # None
        /\ UNCHANGED <<records, files, proc, host>>
        /\ op # "refresh"
        /\ \/ app' = app
           \/ app' = With("stopped") /\ place \in {"stop_kill", "delete_kill"}
           \/ app' = [app EXCEPT !.setting = TRUE] /\ place = "apply"
           \/ app' = [app EXCEPT !.setting = FALSE] /\ place = "apply"
    BY DEF Press, Stop, Start, SaveSetting, RemoveSetting, RestartAll, Delete, MayPress, Free, Pressed,
           ThreadOps, AllOps
<1>2. /\ app'.id = app.id /\ app'.pid = app.pid /\ app'.declared = app.declared
      /\ place = "launch" => app'.setting = app.setting
      /\ app'.status = app.status \/ place \in {"stop_kill", "delete_kill"}
    BY <1>1 DEF Known, Typed, Rows, With
<1>3. c \in Threads /\ Idle(c)
    BY <1>1 DEF Threads, Quiet
<1> QED
    BY <1>1, <1>2, <1>3, BeginsCalm DEF Idle, records, files, host

LEMMA ApplyCalm == ASSUME Known, Serial, NEW c \in Clients, ApplySettings(c) PROVE Calm'
<1>1. ~Idle(c) /\ th[c].at = "apply" /\ c \in Threads
    BY DEF ApplySettings, At, Idle, Threads
<1>2. UNCHANGED <<app, deploy, queue, kind, zips, src, proc, launcher>>
    BY DEF ApplySettings, row, records, files, host
<1>3. app.id # None
    BY <1>1 DEF Known, Calm, Alone, Knows, KnowsApp, At
<1>4. CASE \/ th' = [th EXCEPT ![c] = Holding("launch", "setup")]
           \/ th' = [th EXCEPT ![c] = Holding("launch", "refresh")] /\ ~Missing(app.id)
           \/ th' = [th EXCEPT ![c] = Holding("withdraw", "remove")]
    <2>1. {"setup", "refresh", "remove"} \subseteq ThreadOps
        BY DEF ThreadOps, AllOps
    <2>2. ~Missing(app.id) => Configured
        BY DEF Missing, Configured
    <2> QED
        BY <1>1, <1>2, <1>3, <1>4, <2>1, <2>2, BeginsCalm
<1>5. CASE th' = [th EXCEPT ![c] = IdleThread]
    <2>1. Idle(c)' /\ \A s \in Threads : s # c => th'[s] = th[s]
        BY <1>1, <1>5 DEF Known, Typed, Idle, IdleThread
    <2>2. Steps(c)
        BY <1>1, <1>2, <2>1 DEF Steps
    <2>3. OneApp' /\ NothingElseRuns' /\ Trees' /\ StoppedStays' /\ InOrder' /\ NewestIsThere'
        BY <1>1, <1>2, <2>2, Aside
    <2> QED
        BY <1>1, <2>1, <2>2, <2>3, After
<1> QED
    BY <1>4, <1>5 DEF ApplySettings

LEMMA ServeCalm == ASSUME Known, Serial, NEW c \in Clients, Serve(c) PROVE Calm'
<1>1. ASSUME WithdrawApp(c) PROVE Calm'
    <2>1. /\ ~Idle(c) /\ c \in Threads /\ th[c].at = "withdraw_app"
          /\ UpdateApp(th[c].id, With("needs_setup")) /\ GoOn(c, "idle")
          /\ UNCHANGED <<records, files, proc, host>>
        BY <1>1 DEF WithdrawApp, Writes, At, Idle, Threads
    <2>2. "needs_setup" \in AppStatus \ {"stopped"}
        BY DEF AppStatus
    <2> QED
        BY <2>1, <2>2, LastStatus
<1>2. c \in Threads
    BY DEF Threads
<1> QED
    BY <1>1, <1>2, AllStopsCalm, ApplyCalm, SettleCalm, DeleteCalm, LaunchCalm DEF Serve

\* A step that leaves everything but counters alone.
LEMMA CountsCalm ==
    ASSUME Known, UNCHANGED <<app, deploy, queue, kind, zips, src, proc, th, launcher>> PROVE Calm'
<1>1. Running' = Running
    BY RunningSame
<1>2. \A t \in Threads : Knows(t) => Knows(t)'
    BY <1>1 DEF Knows, KnowsApp, KnowsProcesses, KnowsSettings, KnowsDeploy, At, Latest, Configured,
                Declared, Processed, Version, IsNewest, DeploysOf
<1>3. Alone' /\ OneApp' /\ NothingElseRuns' /\ StoppedStays' /\ InOrder'
    BY <1>1, <1>2
       DEF Known, Calm, Alone, Idle, OneApp, NothingElseRuns, StoppedStays, InOrder, Processed
<1>4. Trees' /\ NewestIsThere'
    BY <1>1 DEF Known, Calm, Trees, Declared, Uploaded, At, NewestIsThere, IsNewest, DeploysOf
<1> QED
    BY <1>3, <1>4 DEF Calm

\* The supervisor has looked: it restarts the app, gives it up, or leaves it alone.
LEMMA LooksCalm == ASSUME Known, Serial, CheckDead \/ CheckHealthy \/ CheckHeavy PROVE Calm'
<1>1. SUPERVISOR \in Threads /\ ~Idle(SUPERVISOR) /\ th[SUPERVISOR].at = "look"
    BY DEF CheckDead, CheckHealthy, CheckHeavy, At, Idle, Threads
<1>2. PICK next \in {"launch", "give_up", "idle"} : GoOn(SUPERVISOR, next)
    BY DEF CheckDead, CheckHealthy, CheckHeavy
<1>3. UNCHANGED <<app, deploy, queue, kind, zips, src, proc, launcher>>
    BY DEF CheckDead, CheckHealthy, CheckHeavy, row, records, files, host
<1>4. /\ \A s \in Threads : s # SUPERVISOR => th'[s] = th[s]
      /\ th'[SUPERVISOR].at = next
      /\ next # "idle" => /\ th'[SUPERVISOR].id = th[SUPERVISOR].id
                          /\ th'[SUPERVISOR].pid = th[SUPERVISOR].pid
                          /\ th'[SUPERVISOR].op = th[SUPERVISOR].op
    BY <1>1, <1>2, GoesOn DEF Known, Places, LaunchPlaces, OtherPlaces
<1>5. Steps(SUPERVISOR)
    BY <1>1, <1>3, <1>4 DEF Steps
<1>6. OneApp' /\ NothingElseRuns' /\ Trees' /\ StoppedStays' /\ InOrder' /\ NewestIsThere'
    BY <1>1, <1>3, <1>5, Aside
<1>7. th[SUPERVISOR].op # "refresh"
    BY <1>1 DEF Known, Calm, Alone, Knows, KnowsSettings, At
<1>8. ASSUME next # "idle" PROVE Knows(SUPERVISOR)'
    <2>1. KnowsApp(SUPERVISOR) /\ KnowsProcesses(SUPERVISOR)
        BY <1>1 DEF Known, Calm, Alone, Knows
    <2>2. KnowsApp(SUPERVISOR)' /\ KnowsDeploy(SUPERVISOR)' /\ KnowsSettings(SUPERVISOR)'
        BY <1>1, <1>3, <1>4, <1>7, <1>8, <2>1 DEF KnowsApp, KnowsDeploy, KnowsSettings, At, WorkerPlaces
    <2>3. KnowsProcesses(SUPERVISOR)'
        BY <1>1, <1>3, <1>4, <1>8, <2>1, RunningSame DEF KnowsProcesses, HoldsRow
    <2> QED
        BY <2>2, <2>3 DEF Knows
<1>9. ~Idle(SUPERVISOR)' => Knows(SUPERVISOR)'
    BY <1>4, <1>8 DEF Idle
<1> QED
    BY <1>1, <1>5, <1>6, <1>9, After

LEMMA SuperviseCalm == ASSUME Known, Serial, Supervise PROVE Calm'
<1>0. SUPERVISOR \in Threads /\ "check" \in ThreadOps
    BY DEF Threads, ThreadOps
<1>1. CASE Look
    <2>1. Idle(SUPERVISOR) /\ Quiet /\ app.status = "live"
        BY <1>1 DEF Look, MayCheck, Free
    <2>2. app.id # None
        BY <2>1 DEF Known, Calm, OneApp, NoRow
    <2> QED
        BY <1>0, <1>1, <2>1, <2>2, BeginsCalm DEF Look, Idle, row, records, files, host
<1>2. CASE CheckDead \/ CheckHealthy \/ CheckHeavy
    BY <1>2, LooksCalm
<1>4. CASE GiveUp
    BY <1>0, <1>4, AllStopsCalm
<1>5. CASE GiveUpApp
    <2>1. /\ ~Idle(SUPERVISOR) /\ th[SUPERVISOR].at = "give_up_app"
          /\ UpdateApp(th[SUPERVISOR].id, With("failed")) /\ GoOn(SUPERVISOR, "idle")
          /\ UNCHANGED <<records, files, proc, host>>
        BY <1>5 DEF GiveUpApp, At, Idle
    <2>2. "failed" \in AppStatus \ {"stopped"}
        BY DEF AppStatus
    <2> QED
        BY <1>0, <2>1, <2>2, LastStatus
<1>6. CASE Launch(SUPERVISOR)
    BY <1>0, <1>6, LaunchCalm
<1> QED
    BY <1>1, <1>2, <1>4, <1>5, <1>6 DEF Supervise

-----------------------------------------------------------------------------
(* Requests for a deploy                                                    *)

LEMMA RequestCalm == ASSUME Known, Serial, Upload \/ ReplaceStop \/ Rollback PROVE Calm'
<1>1. /\ Quiet /\ UNCHANGED <<src, proc, th, launcher>> /\ Running' = Running
      /\ \A t \in Threads : th[t].at = "idle"
    BY RunningSame DEF Upload, ReplaceStop, Rollback, MayRequest, files, host, Quiet, Idle
<1>2. PICK id \in AppIds, v \in {None} \cup Deploys :
        /\ Enqueue(id, v)
        /\ id = app'.id
        /\ \/ v = None /\ StoreUpload
           \/ v \in zips /\ UNCHANGED <<kind, zips>>
        /\ \/ UNCHANGED app /\ app.id # None
           \/ app.id = None /\ app' = [NoRow EXCEPT !.id = id]
           \/ app' = [app EXCEPT !.status = "stopped"] /\ app.id # None
    <2>1. app.id # None => app.id \in AppIds
        BY DEF Known, Typed, Rows
    <2>2. lastId < MaxIds => lastId + 1 \in AppIds
        BY ConstantsOK DEF Known, Typed, AppIds
    <2>3. CASE Upload
        <3>1. CASE app.id # None /\ Enqueue(app.id, None) /\ UNCHANGED row
            BY <2>1, <2>3, <3>1 DEF Upload, row
        <3>2. CASE /\ app.id = None /\ lastId < MaxIds /\ app' = [NoRow EXCEPT !.id = lastId + 1]
                   /\ Enqueue(lastId + 1, None)
            <4>1. app'.id = lastId + 1
                BY <3>2 DEF NoRow
            <4> QED
                BY <2>2, <2>3, <3>2, <4>1 DEF Upload
        <3> QED
            BY <2>3, <3>1, <3>2 DEF Upload
    <2>4. CASE ReplaceStop
        <3>1. app'.id = app.id
            BY <2>4 DEF ReplaceStop, Known, Typed, Rows
        <3> QED
            BY <2>1, <2>4, <3>1 DEF ReplaceStop, MayRequest
    <2>5. CASE Rollback
        <3>1. PICK d \in DeploysOf(app.id) :
                /\ app.id # None /\ deploy[d].version \in zips /\ Enqueue(app.id, deploy[d].version)
                /\ UNCHANGED <<row, files, proc, th, counters, host>>
            BY <2>5 DEF Rollback
        <3>2. deploy[d].version \in Deploys
            BY <3>1 DEF Known, Typed
        <3> QED
            BY <2>1, <3>1, <3>2 DEF row, files
    <2> QED
        BY <2>3, <2>4, <2>5
<1>3. PICK d \in Deploys :
        /\ IsNext(d)
        /\ deploy' = [deploy EXCEPT ![d] = [status |-> "queued", app |-> id,
                                            version |-> IF v = None THEN d ELSE v]]
        /\ queue' = Append(queue, d)
    BY <1>2 DEF Enqueue
<1>4. /\ Status(d) = "unborn" /\ Status(d)' = "queued" /\ deploy'[d].app = id
      /\ \A e \in Deploys : e # d => deploy'[e] = deploy[e]
    BY <1>3 DEF IsNext, Known, Typed
<1>5. /\ app'.id # None
      /\ app.id = None \/ app'.id = app.id
      /\ app'.pid = app.pid /\ app'.declared = app.declared
    <2>1. app'.id # None
        BY <1>2 DEF AppIds
    <2>2. app.id = None => app = NoRow
        BY DEF Known, Calm, OneApp
    <2> QED
        BY <1>2, <2>1, <2>2 DEF Known, Typed, Rows, NoRow
<1>6. Uploaded' = Uploaded \cup {d}
    BY <1>4 DEF Uploaded
<1>7. zips' \subseteq Uploaded' /\ \A u \in Uploaded : kind'[u] = kind[u]
    <2>1. CASE StoreUpload
        <3>1. PICK f \in Deploys, k \in Kinds :
                IsNext(f) /\ kind' = [kind EXCEPT ![f] = k] /\ zips' = zips \cup {f}
            BY <2>1 DEF StoreUpload
        <3>2. f = d
            BY <1>3, <3>1 DEF IsNext, Deploys
        <3>3. d \notin Uploaded
            BY <1>4 DEF Uploaded
        <3> QED
            BY <1>6, <3>1, <3>2, <3>3 DEF Known, Typed, Calm, Trees, Uploaded
    <2>2. CASE UNCHANGED <<kind, zips>>
        BY <1>6, <2>2 DEF Known, Calm, Trees
    <2> QED
        BY <1>2, <2>1, <2>2
<1>8. Alone'
    BY <1>1 DEF Known, Calm, Alone, Idle
<1>9. OneApp'
    <2>1. \A e \in Deploys : e # d /\ Status(e) \notin {"unborn", "gone"} => deploy[e].app = app'.id
        BY <1>5 DEF Known, Calm, OneApp
    <2> QED
        BY <1>2, <1>4, <1>5, <2>1 DEF OneApp
<1>10. NothingElseRuns'
    BY <1>1, <1>5 DEF Known, Calm, NothingElseRuns
<1>11. Trees'
    <2>1. src'.version \in Uploaded' \cup {None}
        BY <1>1, <1>6 DEF Known, Calm, Trees
    <2>2. src'.built => /\ src'.version # None /\ kind'[src'.version] # "empty" /\ Declared'
        BY <1>1, <1>5, <1>7 DEF Known, Calm, Trees, Declared, At
    <2>3. \A p \in Running' : /\ proc'[p].version \in Uploaded'
                              /\ kind'[proc'[p].version] = "wants" => proc'[p].configured
        BY <1>1, <1>6, <1>7 DEF Known, Calm, Trees
    <2> QED
        BY <1>7, <2>1, <2>2, <2>3 DEF Trees
<1>12. StoppedStays'
    BY <1>4 DEF StoppedStays
<1>13. InOrder'
    <2>1. /\ DOMAIN queue = 1 .. Len(queue) /\ Len(queue) \in Nat
          /\ DOMAIN queue' = 1 .. Len(queue) + 1 /\ queue'[Len(queue) + 1] = d
          /\ \A i \in DOMAIN queue : queue'[i] = queue[i] /\ queue[i] \in Deploys
        BY <1>3, AppendProperties, LenProperties, ElementOfSeq DEF Known, Typed
    <2>2. \A e \in Deploys : Status(e) # "unborn" => e < d
        BY <1>4 DEF Known, Calm, InOrder
    <2>3. \A i \in DOMAIN queue : queue[i] < d
        BY <2>1, <2>2 DEF Known, Owned, Queued
    <2>4. \A e \in Deploys : Processed(e)' => Processed(e) /\ e # d /\ e < d
        BY <1>4, <2>2 DEF Processed
    <2>5. \A i, j \in DOMAIN queue' : i < j => queue'[i] < queue'[j]
        BY <2>1, <2>3 DEF Known, Calm, InOrder
    <2>6. \A i \in DOMAIN queue', e \in Deploys : Processed(e)' => e < queue'[i]
        BY <2>1, <2>4 DEF Known, Calm, InOrder
    <2>7. \A e, f \in Deploys : Status(e)' # "unborn" /\ Status(f)' = "unborn" => e < f
        BY <1>3, <1>4 DEF Known, Calm, InOrder, IsNext, Deploys
    <2> QED
        BY <2>5, <2>6, <2>7 DEF InOrder
<1>14. NewestIsThere'
    <2>1. SUFFICES ASSUME NEW e \in Deploys, IsNewest(e, app.id)' PROVE e = d
        BY <1>4 DEF NewestIsThere
    <2>2. d \in DeploysOf(app.id)'
        BY <1>2, <1>4 DEF DeploysOf
    <2>3. e \in DeploysOf(app.id)' /\ d <= e
        BY <2>1, <2>2 DEF IsNewest
    <2>4. e # d => Status(e) # "unborn"
        BY <1>4, <1>5, <2>3 DEF DeploysOf, Known, Owned, Deleting
    <2> QED
        BY <1>4, <2>3, <2>4 DEF Known, Calm, InOrder, Deploys
<1> QED
    BY <1>8, <1>9, <1>10, <1>11, <1>12, <1>13, <1>14 DEF Calm

-----------------------------------------------------------------------------
(* The operating system                                                     *)

LEMMA EnvironmentCalm == ASSUME Known, Environment PROVE Calm'
<1>1. PICK p \in Pids : ComesUp(p) \/ Dies(p) \/ Reused(p) \/ StrangerExits(p)
    BY DEF Environment
<1>2. UNCHANGED <<app, deploy, queue, kind, zips, src, th, launcher>>
    BY <1>1 DEF ComesUp, Dies, Reused, StrangerExits, OnlyProc, row, records, files, host
<1>3. PICK new \in Processes :
        /\ proc' = [proc EXCEPT ![p] = new]
        /\ \/ new.state \in {"none", "stranger"} /\ new.version = None
           \/ /\ proc[p].state \in {"starting", "up", "half"} /\ new.version = proc[p].version
              /\ new.configured = proc[p].configured
    <2>1. \A state \in {"up", "half"} :
             /\ [proc[p] EXCEPT !.state = state] \in Processes
             /\ [proc[p] EXCEPT !.state = state].version = proc[p].version
             /\ [proc[p] EXCEPT !.state = state].configured = proc[p].configured
        BY DEF Known, Typed, Processes
    <2>2. /\ NoProcess \in Processes /\ NoProcess.version = None /\ NoProcess.state = "none"
          /\ [NoProcess EXCEPT !.state = "stranger"] \in Processes
          /\ [NoProcess EXCEPT !.state = "stranger"].version = None
          /\ [NoProcess EXCEPT !.state = "stranger"].state = "stranger"
        BY DEF NoProcess, Processes
    <2>3. CASE ComesUp(p)
        BY <2>1, <2>2, <2>3 DEF ComesUp
    <2>4. CASE Dies(p)
        BY <2>1, <2>2, <2>4 DEF Dies
    <2>5. CASE Reused(p) \/ StrangerExits(p)
        BY <2>2, <2>5 DEF Reused, StrangerExits
    <2> QED
        BY <1>1, <2>3, <2>4, <2>5
<1>4. \A q \in Pids : /\ proc'[q].version \in {None, proc[q].version}
                      /\ FrontAlive(q)' => /\ FrontAlive(q) /\ proc'[q].version = proc[q].version
                                           /\ proc'[q].configured = proc[q].configured
    BY <1>3 DEF Known, Typed, FrontAlive
<1>5. /\ Running' \subseteq Running
      /\ \A q \in Running' : /\ proc'[q].version = proc[q].version
                             /\ proc'[q].configured = proc[q].configured
    BY <1>4 DEF Running
<1>7. \A t \in Threads : Knows(t) => Knows(t)'
    <2>1. SUFFICES ASSUME NEW t \in Threads, Knows(t) PROVE Knows(t)'
        OBVIOUS
    <2>2. KnowsApp(t)' /\ KnowsSettings(t)'
        BY <1>2, <2>1 DEF Knows, KnowsApp, KnowsSettings, Configured, Declared, At
    <2>3. KnowsDeploy(t)'
        BY <1>2, <2>1 DEF Knows, KnowsDeploy, Processed, Version
    <2>4. KnowsProcesses(t)'
        <3>2. \A d : IsNewest(d, app.id)' <=> IsNewest(d, app.id)
            BY <1>2 DEF IsNewest, DeploysOf
        <3>3. Latest(th[t].new) => Latest(th[t].new)'
            BY <1>2, <1>4 DEF Latest
        <3>4. Latest(app.pid) => Latest(app.pid)'
            BY <1>2, <1>4 DEF Latest
        <3> QED
            BY <1>2, <1>5, <2>1, <3>2, <3>3, <3>4 DEF Knows, KnowsProcesses
    <2> QED
        BY <2>2, <2>3, <2>4 DEF Knows
<1>8. Alone' /\ OneApp' /\ NothingElseRuns' /\ StoppedStays' /\ InOrder'
    BY <1>2, <1>5, <1>7
       DEF Known, Calm, Alone, Idle, OneApp, NothingElseRuns, StoppedStays, InOrder, Processed
<1>9. Trees' /\ NewestIsThere'
    BY <1>2, <1>5 DEF Known, Calm, Trees, Declared, Uploaded, At, NewestIsThere, IsNewest, DeploysOf
<1> QED
    BY <1>8, <1>9 DEF Calm

-----------------------------------------------------------------------------
(* Every step                                                               *)

LEMMA BuildCalm == ASSUME Known, Serial, NEW w \in Workers, RunDeploy(w) PROVE Calm'
<1>1. w \in Threads
    BY DEF Threads
<1> QED
    BY <1>1, TakeCalm, MarkCalm, ClearCalm, UnpackCalm, DecidesCalm, EndsCalm, MarksCalm, AllStopsCalm,
       StartCalm, RecordCalm, FinishAppCalm, PruneCalm, FailStopCalm DEF RunDeploy

LEMMA RecoverCalm == ASSUME Known, Recover PROVE FALSE
<1>1. launcher = "up" /\ th[SUPERVISOR].at # "recover_app"
    BY DEF Known, Calm, Alone, Knows, KnowsApp, At, Idle, Threads
<1> QED
    BY <1>1 DEF Recover, Boot, RecoverDeploy, RecoverApp, Restore, Ready, At

LEMMA CalmStays == ASSUME Known, Serial, [Next]_vars, crashes' = 0 PROVE Calm'
<1>1. ~Crash
    BY DEF Crash, Known, Typed
<1>2. ASSUME UNCHANGED vars PROVE Calm'
    BY <1>2, CountsCalm DEF vars, row, records, files, host
<1> QED
    BY <1>1, <1>2, RequestCalm, BuildCalm, PressCalm, ServeCalm, SuperviseCalm, RecoverCalm,
       EnvironmentCalm DEF Next

LEMMA InitiallyCalm == Init => Calm
<1> SUFFICES ASSUME Init PROVE Calm
    OBVIOUS
<1>1. /\ \A t \in Threads : Idle(t) /\ th[t].at = "idle"
      /\ \A d \in Deploys : Status(d) = "unborn" /\ deploy[d].app = None
      /\ Running = {} /\ queue = << >> /\ app.id = None /\ app = NoRow
      /\ launcher = "up" /\ ~src.built /\ src.version = None /\ zips = {}
    BY DEF Init, Idle, IdleThread, NoDeploy, NoProcess, Running, FrontAlive, NoRow, NoSource
<1>2. DOMAIN queue = {}
    BY <1>1
<1>3. Alone /\ OneApp /\ NothingElseRuns /\ StoppedStays
    BY <1>1 DEF Alone, OneApp, NothingElseRuns, StoppedStays
<1>4. Trees /\ InOrder /\ NewestIsThere
    BY <1>1, <1>2 DEF Trees, InOrder, Processed, NewestIsThere
<1> QED
    BY <1>3, <1>4 DEF Calm

-----------------------------------------------------------------------------
(* What that means                                                          *)

Undisturbed == Typed /\ Owned /\ crashes <= MaxCrashes /\ (crashes = 0 => Calm)

LEMMA UndisturbedStays == ASSUME Serial, Undisturbed, [Next]_vars PROVE Undisturbed'
<1>1. Typed' /\ Owned'
    BY TypesStay, OwnedStays DEF Undisturbed
<1>2. crashes' = crashes \/ (crashes' = crashes + 1 /\ crashes < MaxCrashes)
    <2>1. CASE Crash
        BY <2>1 DEF Crash
    <2>2. CASE ~Crash
        <3>1. UNCHANGED crashes
            BY <2>2, WorkerAlone, PageAlone, SuperviseAlone
               DEF Next, Upload, ReplaceStop, Rollback, Recover, Boot, RecoverDeploy, RecoverApp,
                   Restore, Ready, Writes, Environment, ComesUp, Dies, Reused, StrangerExits, OnlyProc,
                   vars, host, Undisturbed
        <3> QED
            BY <3>1
    <2> QED
        BY <2>1, <2>2
<1>3. crashes' <= MaxCrashes /\ (crashes' = 0 => crashes = 0)
    BY <1>2, ConstantsOK DEF Undisturbed, Typed
<1>4. crashes' = 0 => Calm'
    BY <1>3, CalmStays DEF Undisturbed, Known
<1> QED
    BY <1>1, <1>3, <1>4 DEF Undisturbed

LEMMA InitiallyUndisturbed == Init => Undisturbed
    BY InitiallyTyped, InitiallyOwned, InitiallyCalm, ConstantsOK DEF Undisturbed, Init

\* Two processes that run are the same one.
LEMMA CalmOneCopy == ASSUME Known PROVE \A p, q \in Running : p = q
<1>1. SUFFICES ASSUME NEW p \in Running, NEW q \in Running PROVE p = q
    OBVIOUS
<1>2. CASE \A t \in Threads : th[t].at \notin {"record", "launch_record"}
    BY <1>2 DEF Known, Calm, NothingElseRuns
<1>3. CASE \E t \in Threads : th[t].at \in {"record", "launch_record"}
    <2>1. PICK t \in Threads : th[t].at \in {"record", "launch_record"}
        BY <1>3
    <2>2. Running \subseteq {th[t].new}
        BY <2>1 DEF Known, Calm, Alone, Idle, Knows, KnowsProcesses
    <2> QED
        BY <2>2
<1> QED
    BY <1>2, <1>3

\* At rest there is one process at most, and it is the row's.
LEMMA CalmAtRest ==
    ASSUME Known, Rest
    PROVE  /\ Running \subseteq {app.pid}
           /\ app.status = "stopped" => Running = {} \/ \E d \in Deploys : Status(d) = "queued"
    BY DEF Known, Calm, Rest, Quiet, Idle, NothingElseRuns, StoppedStays

LEMMA CalmServesNewest == ASSUME Known PROVE NewestServes
    BY DEF NewestServes, Known, Calm, NewestIsThere, Running, FrontAlive

\* A record goes live at the end of its deploy, or when the app is launched.
LEMMA CalmGoesLive ==
    ASSUME Known, Serial, [Next]_vars, crashes' = 0, NEW d \in Deploys,
           Status(d) # "live", Status(d)' = "live"
    PROVE  app.pid \in Pids /\ proc[app.pid].version \in {None, deploy[d].version}
<1>1. CASE \E w \in Workers : RunDeploy(w)
    <2>1. PICK w \in Workers : RunDeploy(w)
        BY <1>1
    <2>2. PICK next : LastWord(w, "finish", "live", next) \/ LastWord(w, "hold", "needs_setup", next)
                      \/ LastWord(w, "fail", "failed", next) \/ LastWord(w, "fail_verify", "failed", next)
                      \/ SetDeploy(Head(queue), "building") \/ UNCHANGED deploy
        BY <2>1, WorkerEffect DEF Known
    <2>3. LastWord(w, "finish", "live", next) /\ d = th[w].d
        BY <2>2 DEF LastWord, SetDeploy, Known, Typed, DeployRows
    <2>4. ~Idle(w) /\ th[w].at = "finish"
        BY <2>3 DEF LastWord, Idle
    <2>5. KnowsProcesses(w) /\ KnowsDeploy(w)
        BY <2>4, Hand DEF Knows
    <2> QED
        BY <2>3, <2>4, <2>5 DEF KnowsProcesses, KnowsDeploy, Latest, Unpacked, WorkerPlaces, Version
<1>2. CASE \E c \in Clients : Settle(c)
    <2>1. PICK c \in Clients : Settle(c)
        BY <1>2
    <2>2. th[c].at = "settle" /\ ~Idle(c) /\ c \in Threads
        BY <2>1 DEF Settle, At, Idle, Threads
    <2>3. th[c].id = app.id /\ KnowsProcesses(c)
        BY <2>2 DEF Known, Calm, Alone, Knows, KnowsApp, At
    <2>4. IsNewest(d, app.id) /\ Status(d) = "needs_setup"
        BY <2>1, <2>3 DEF Settle
    <2> QED
        BY <2>2, <2>3, <2>4 DEF KnowsProcesses, Latest, Known, Calm, NewestIsThere
<1>3. CASE \E c \in Clients : DeleteRow(c)
    BY <1>3 DEF DeleteRow, Known, Typed, DeployRows
<1>4. CASE Upload \/ ReplaceStop \/ Rollback
    <2>1. \E id \in AppIds, v \in {None} \cup Deploys : Enqueue(id, v)
        BY <1>4, RequestEnqueues DEF Known
    <2> QED
        BY <2>1, EnqueueEffect DEF Known
<1>5. CASE Crash \/ Supervise \/ Environment \/ UNCHANGED vars
    <2>1. UNCHANGED deploy
        BY <1>5, SuperviseAlone
           DEF Crash, Environment, ComesUp, Dies, Reused, StrangerExits, OnlyProc, vars, records, Known
    <2> QED
        BY <2>1
<1>6. ASSUME NEW c \in Clients, Press(c) \/ Serve(c) PROVE UNCHANGED deploy \/ Settle(c) \/ DeleteRow(c)
    BY <1>6, PageAlone DEF Known
<1> QED
    BY <1>1, <1>2, <1>3, <1>4, <1>5, <1>6, RecoverCalm DEF Next

\* While nobody begins before the last thing is done, the app never runs twice:
\* not while it is deployed, launched, restarted, checked, stopped or deleted, and
\* whatever dies (supervisor.py:115).
THEOREM OneCopy == ASSUME Serial PROVE Spec => []AtMostOneCopy
<1>1. Undisturbed /\ [Next]_vars => Undisturbed'
    BY UndisturbedStays
<1>2. Undisturbed => AtMostOneCopy
    BY CalmOneCopy DEF Undisturbed, Known, AtMostOneCopy
<1> QED
    BY <1>1, <1>2, InitiallyUndisturbed, PTL DEF Spec

\* If the launcher stays up too, nothing runs that the row does not name: no deploy,
\* launch, hold, withdrawal or deletion leaves a process behind
\* (supervisor.py, stop; deployer.py, run_deploy; app.py, delete_app).
THEOREM NoneForgotten == ASSUME Serial, MaxCrashes = 0 PROVE Spec => []NothingForgotten
<1>1. Undisturbed /\ [Next]_vars => Undisturbed'
    BY UndisturbedStays
<1>2. Undisturbed => NothingForgotten
    BY CalmAtRest DEF Undisturbed, Known, NothingForgotten, Typed
<1> QED
    BY <1>1, <1>2, InitiallyUndisturbed, PTL DEF Spec

\* An app that says it is stopped is down when everybody is done, whatever was
\* uploaded, restarted, checked, withdrawn or left behind before, unless a deploy is
\* queued for it: a replacement that was told to stop it first leaves that to the
\* deploy (app.py, stop_app and replace_app; supervisor.py, stop and launch).
THEOREM StoppedDown == ASSUME Serial, MaxCrashes = 0 PROVE Spec => []StoppedIsDown
<1>1. Undisturbed /\ [Next]_vars => Undisturbed'
    BY UndisturbedStays
<1>2. Undisturbed => StoppedIsDown
    BY CalmAtRest DEF Undisturbed, Known, StoppedIsDown, Typed
<1> QED
    BY <1>1, <1>2, InitiallyUndisturbed, PTL DEF Spec

\* When everybody is done, an app whose newest deploy is live serves that deploy's
\* version, whatever was held, rolled back, restarted or refused before
\* (deployer.py, run_deploy; app.py, _settle_held_deploy).
THEOREM ServesNewest == ASSUME Serial, MaxCrashes = 0 PROVE Spec => []NewestServes
<1>1. Undisturbed /\ [Next]_vars => Undisturbed'
    BY UndisturbedStays
<1>2. Undisturbed => NewestServes
    BY CalmServesNewest DEF Undisturbed, Known, Typed
<1> QED
    BY <1>1, <1>2, InitiallyUndisturbed, PTL DEF Spec

\* No process of a version that requires a setting was started without it: the
\* deploy holds it, and every launch looks again (README.md:299).
THEOREM Configures == ASSUME Serial, MaxCrashes = 0 PROVE Spec => []NeverHalfConfigured
<1>1. Undisturbed /\ [Next]_vars => Undisturbed'
    BY UndisturbedStays
<1>2. Undisturbed => NeverHalfConfigured
    BY DEF Undisturbed, Known, Typed, NeverHalfConfigured, Calm, Trees
<1> QED
    BY <1>1, <1>2, InitiallyUndisturbed, PTL DEF Spec

\* A deploy is called live only when what was started last is its own version, at the
\* end of its build or when the setting it waited for has come
\* (deployer.py:308, app.py:886).
THEOREM LiveOwn == ASSUME Serial, MaxCrashes = 0 PROVE Spec => LiveIsItsOwn
<1>1. Undisturbed /\ [Next]_vars => Undisturbed'
    BY UndisturbedStays
<1>2. Undisturbed /\ Undisturbed' /\ [Next]_vars =>
        [\A d \in Deploys :
            deploy[d].status # "live" /\ deploy'[d].status = "live" =>
                app.pid \in Pids /\ proc[app.pid].version \in {None, deploy[d].version}]_vars
    BY CalmGoesLive DEF Undisturbed, Known, Typed
<1> QED
    BY <1>1, <1>2, InitiallyUndisturbed, PTL DEF Spec, LiveIsItsOwn
-----------------------------------------------------------------------------
(***************************************************************************)
(* One lock: the deploy of an app, then any number of health checks and of *)
(* requests to restart everything, at any moment and from any thread.      *)
(* Nothing makes them wait for each other but the lock that the check and  *)
(* the restart both take, and the row's status, which is "live" only once  *)
(* the worker has finished.                                                *)
(***************************************************************************)

\* Who restarts what is live, and no second deploy meanwhile.
OnePass == MaxDeploys = 1 /\ Ops \subseteq {"upload", "restart_all"}

Passing   == Clients \cup {SUPERVISOR}
Making(w) == ~Idle(w) /\ th[w].at # "prune"
Down      == app.pid = None /\ Running = {}

\* Where nothing was started yet, and where what was started is not named yet.
Early == {"mark", "clear", "unpack", "declare", "build", "check", "hold", "stop", "spawn"}
AtNew == {"record", "launch_record"}

USE DEF Early

\* A pass holds the lock, and the row as it is.
IfPassing(t) == ~Idle(t) =>
    /\ th[t].op \in {"check", "restart_all"} /\ th[t].id = app.id
    /\ th[t].at \in LaunchPlaces \cup {"look", "give_up", "give_up_app"}
    /\ th[t].at \in {"look", "launch", "give_up"} => th[t].pid = app.pid
    /\ th[t].at = "launch_spawn" => Down
    /\ th[t].at = "launch_record" => app.pid = None /\ Running \subseteq {th[t].new}

\* Until it has finished a worker has the app for itself, and nothing runs
\* but what it has started.
IfMaking(w) == Making(w) =>
    /\ app.status # "live" /\ th[w].id = app.id /\ th[w].pid = None
    /\ \A t \in Passing : Idle(t)
    /\ th[w].at \in Early => Down
    /\ th[w].at = "record" => app.pid = None /\ Running \subseteq {th[w].new}

\* Only what the row names runs, unless it is about to name another.
Copies == (\A t \in Threads : th[t].at \notin AtNew) => Running \subseteq {app.pid}

\* Before the deploy is taken there is nothing to restart.
NotYet == \A d \in Deploys : Status(d) \in {"unborn", "queued"} =>
              app.status # "live" /\ Down /\ \A t \in Passing : Idle(t)

Locked == /\ launcher = "up"
          /\ \A t \in Passing : IfPassing(t)
          /\ \A s, t \in Passing : ~Idle(s) /\ ~Idle(t) => s = t
          /\ \A w \in Workers : IfMaking(w)
          /\ Copies /\ NotYet

Guarded == OnePass /\ Typed /\ Owned /\ Locked

\* The only deploy: who works has it in hand, and no one else works.
LEMMA OneInHand ==
    ASSUME Guarded
    PROVE  /\ \A d, e \in Deploys : d = e
           /\ \A u, w \in Workers : ~Idle(u) /\ ~Idle(w) => u = w
           /\ \A w \in Workers, d \in Deploys : ~Idle(w) => Status(d) \notin {"unborn", "queued"}
           /\ Workers \cap Passing = {} /\ Workers \cup Passing = Threads
<1>1. \A d, e \in Deploys : d = e
    BY DEF Guarded, OnePass, Deploys
<1>2. \A u, w \in Workers : ~Idle(u) /\ ~Idle(w) => u = w
    BY <1>1 DEF Guarded, Owned, InHand
<1>3. \A w \in Workers, d \in Deploys : ~Idle(w) => Status(d) \notin {"unborn", "queued"}
    BY <1>1 DEF Guarded, Owned, InHand, Word
<1>4. Workers \cap Passing = {} /\ Workers \cup Passing = Threads
    BY ConstantsOK DEF Passing, Threads
<1> QED
    BY <1>1, <1>2, <1>3, <1>4

\* While somebody passes no worker makes anything, and the other way round.
LEMMA PassAlone ==
    ASSUME Guarded, NEW t \in Passing, ~Idle(t)
    PROVE  /\ \A w \in Workers : ~Making(w) /\ th[w].at \notin AtNew
           /\ \A s \in Passing : s # t => Idle(s) /\ th[s].at \notin AtNew
           /\ \A d \in Deploys : Status(d) \notin {"unborn", "queued"}
           /\ th[t].at \notin AtNew => Running \subseteq {app.pid}
           /\ IfPassing(t)
<1>1. \A w \in Workers : ~Making(w) /\ th[w].at \notin AtNew
    BY DEF Guarded, Locked, IfMaking, Making, AtNew, Idle
<1>2. \A s \in Passing : s # t => Idle(s) /\ th[s].at \notin AtNew
    BY DEF Guarded, Locked, Idle, AtNew
<1>3. \A d \in Deploys : Status(d) \notin {"unborn", "queued"}
    BY DEF Guarded, Locked, NotYet
<1> QED
    BY <1>1, <1>2, <1>3, OneInHand DEF Guarded, Locked, Copies

LEMMA MakingAlone ==
    ASSUME Guarded, NEW w \in Workers, Making(w)
    PROVE  /\ \A s \in Threads : s # w => Idle(s) /\ th[s].at \notin AtNew
           /\ th[w].at \notin AtNew => Running \subseteq {app.pid}
           /\ IfMaking(w)
<1>1. \A s \in Threads : s # w => Idle(s) /\ th[s].at \notin AtNew
    BY OneInHand DEF Guarded, Locked, IfMaking, Making, AtNew, Idle
<1> QED
    BY <1>1 DEF Guarded, Locked, Copies

\* After a worker's step.
LEMMA WorkerLocked ==
    ASSUME Guarded, NEW w \in Workers, ~Idle(w), RunDeploy(w), IfMaking(w)', Copies',
           Making(w) \/ UNCHANGED <<app, proc>>
    PROVE  Locked'
<1>1. /\ \A s \in Threads : s # w => th'[s] = th[s]
      /\ launcher' = "up"
    BY WorkerAlone DEF Guarded, Locked, host
<1>2. \A d \in Deploys : Status(d)' \notin {"unborn", "queued"}
    <2>1. th[w].d \in Deploys
        BY DEF Guarded, Owned, InHand
    <2>2. \A d \in Deploys : Status(d) \notin {"unborn", "queued"}
        BY OneInHand
    <2>3. ASSUME NEW status \in {"needs_setup", "live", "failed"}, SetDeploy(th[w].d, status)
          PROVE  \A d \in Deploys : Status(d)' \notin {"unborn", "queued"}
        BY <2>1, <2>2, <2>3, SetEffect DEF Guarded
    <2>4. ASSUME UNCHANGED deploy PROVE \A d \in Deploys : Status(d)' \notin {"unborn", "queued"}
        BY <2>2, <2>4
    <2> QED
        BY <2>3, <2>4, WorkerEffect DEF Guarded, LastWord
<1>3. NotYet'
    BY <1>2 DEF NotYet
<1>4. \A u \in Workers : IfMaking(u)'
    <2>1. \A u \in Workers : u # w => ~Making(u)'
        BY <1>1, OneInHand DEF Making, Idle
    <2> QED
        BY <2>1 DEF IfMaking
<1>5. \A s \in Passing : th'[s] = th[s]
    BY <1>1, OneInHand
<1>6. \A s, t \in Passing : ~Idle(s)' /\ ~Idle(t)' => s = t
    BY <1>5 DEF Guarded, Locked, Idle
<1>7. \A t \in Passing : IfPassing(t)'
    <2>1. CASE Making(w)
        BY <1>5, <2>1 DEF Guarded, Locked, IfMaking, IfPassing, Idle
    <2>2. CASE UNCHANGED <<app, proc>>
        BY <1>5, <2>2 DEF Guarded, Locked, IfPassing, Idle, Down, Running, FrontAlive
    <2> QED
        BY <2>1, <2>2
<1> QED
    BY <1>1, <1>3, <1>4, <1>6, <1>7 DEF Locked

\* After a step of a pass.
LEMMA PassLocked ==
    ASSUME Guarded, NEW t \in Passing, ~Idle(t), UNCHANGED <<deploy, launcher>>,
           \A s \in Threads : s # t => th'[s] = th[s],
           IfPassing(t)', th'[t].at \notin AtNew => Running' \subseteq {app'.pid}
    PROVE  Locked'
<1>1. \A w \in Workers : ~Making(w)'
    BY PassAlone, OneInHand DEF Making, Idle
<1>2. \A s \in Passing : s # t => Idle(s)'
    BY PassAlone, OneInHand DEF Idle
<1>3. Copies'
    BY OneInHand DEF Copies
<1>4. NotYet'
    BY PassAlone DEF NotYet
<1> QED
    BY <1>1, <1>2, <1>3, <1>4 DEF Guarded, Locked, IfPassing, IfMaking

\* Starting something where nothing ran, and stopping all that runs.
LEMMA SpawnsOne ==
    ASSUME Typed, NEW p \in Pids, Spawned(p), Running = {} PROVE Running' = {p}
<1>1. proc' = [proc EXCEPT ![p] = [state |-> "starting", version |-> src.version,
                                   configured |-> app.setting]]
    BY DEF Spawned
<1>2. proc'[p].state = "starting" /\ \A q \in Pids \ {p} : proc'[q] = proc[q]
    BY <1>1 DEF Typed
<1> QED
    BY <1>2 DEF Running, FrontAlive

LEMMA KillsOnly ==
    ASSUME Typed, NEW p, proc' = Killed(p), Running \subseteq {p} PROVE Running' = {}
<1>1. CASE FrontAlive(p)
    <2>1. p \in Pids /\ proc' = [proc EXCEPT ![p] = NoProcess]
        BY <1>1 DEF Killed, Ours, FrontAlive
    <2>2. proc'[p].state = "none" /\ \A q \in Pids \ {p} : proc'[q] = proc[q]
        BY <2>1 DEF Typed, NoProcess
    <2> QED
        BY <2>2 DEF Running, FrontAlive
<1>2. CASE ~FrontAlive(p)
    BY <1>2 DEF Killed, Ours, Running, FrontAlive
<1> QED
    BY <1>1, <1>2

LEMMA NobodyAlive == ~FrontAlive(None)
    BY DEF FrontAlive, Pids

-----------------------------------------------------------------------------
(* The worker                                                               *)


\* A step that changes neither the row nor the processes, or the status only.
LEMMA StatusLocked ==
    ASSUME Guarded, NEW w \in Workers, RunDeploy(w), Making(w),
           NEW next \in Places, GoOn(w, next), next # "record",
           app'.id = app.id, app'.pid = app.pid, app'.status # "live", UNCHANGED proc,
           next \in Early => th[w].at \in Early,
           th[w].at # "record"
    PROVE  Locked'
<1>1. w \in Threads /\ ~Idle(w)
    BY DEF Threads, Making
<1>2. IfMaking(w) /\ Running \subseteq {app.pid}
    BY MakingAlone DEF AtNew, Making, Guarded, Owned, InHand, WorkerPlaces
<1>3. Running' = Running
    BY RunningSame
<1>4. /\ th'[w].at = next
      /\ next # "idle" => th'[w].id = th[w].id /\ th'[w].pid = th[w].pid
      /\ \A s \in Threads : s # w => th'[s] = th[s]
    BY <1>1, GoesOn DEF Guarded
<1>5. Copies'
    BY <1>2, <1>3 DEF Copies
<1>6. \A t \in Passing : Idle(t)'
    BY <1>2, <1>4, OneInHand DEF IfMaking, Idle
<1>7. IfMaking(w)'
    BY <1>2, <1>3, <1>4, <1>6 DEF IfMaking, Making, Idle, Down
<1> QED
    BY <1>1, <1>5, <1>7, WorkerLocked

LEMMA AsideLocked ==
    ASSUME Guarded, NEW w \in Workers, RunDeploy(w), UNCHANGED <<app, proc>>,
           NEW place \in WorkerPlaces \ {"record", "prune"}, At(w, place),
           NEW next \in WorkerPlaces \ {"record"}, GoOn(w, next),
           next \in Early => place \in Early
    PROVE  Locked'
<1>1. /\ Making(w) /\ next \in Places /\ th[w].at # "record"
      /\ next \in Early => th[w].at \in Early
    BY DEF At, Making, Idle, WorkerPlaces, Places
<1>2. app.status # "live"
    BY <1>1, MakingAlone DEF IfMaking
<1> QED
    BY <1>1, <1>2, StatusLocked

LEMMA StepsAside ==
    ASSUME Guarded, NEW w \in Workers, RunDeploy(w),
           \/ ClearSource(w) \/ Unpack(w) \/ BuildFails(w) \/ Build(w) \/ CheckSettings(w)
           \/ Hold(w) \/ Verify(w) \/ FinishDeploy(w) \/ Fail(w) \/ FailVerify(w)
    PROVE  Locked'
<1> USE DEF row
<1>1. CASE ClearSource(w) \/ Unpack(w) \/ BuildFails(w) \/ Build(w) \/ CheckSettings(w) \/ Hold(w)
    <2>1. UNCHANGED <<app, proc>> /\ \E place \in Early, next \in Early \cup {"fail", "hold_app"} :
                                        At(w, place) /\ GoOn(w, next)
        BY <1>1 DEF ClearSource, Unpack, BuildFails, Build, CheckSettings, Hold, Marks, Decides
    <2> QED
        BY <2>1, AsideLocked DEF WorkerPlaces
<1>2. CASE Verify(w) \/ FinishDeploy(w) \/ Fail(w) \/ FailVerify(w)
    <2>1. UNCHANGED <<app, proc>>
          /\ \E place \in {"verify", "finish", "fail", "fail_verify"},
                next \in {"finish", "fail_verify", "finish_app", "fail_app", "fail_stop"} :
                   At(w, place) /\ GoOn(w, next)
        BY <1>2 DEF Verify, FinishDeploy, Fail, FailVerify, Marks, Decides
    <2> QED
        BY <2>1, AsideLocked DEF WorkerPlaces
<1> QED
    BY <1>1, <1>2

\* Steps that write the row's status, or what the version declares.
LEMMA RowLocked ==
    ASSUME Guarded, NEW w \in Workers, RunDeploy(w),
           MarkBuilding(w) \/ Declare(w) \/ HoldApp(w) \/ FailApp(w)
    PROVE  Locked'
<1>1. Making(w) /\ th[w].at \in {"mark", "declare", "hold_app", "fail_app"}
    BY DEF MarkBuilding, Declare, HoldApp, FailApp, At, Making, Idle
<1>2. th[w].id = app.id /\ th[w].pid = None /\ app.status # "live"
    BY <1>1, MakingAlone DEF IfMaking
<1>3. PICK new \in {With("building"), With("failed"), With("needs_setup"),
                    [app EXCEPT !.declared = (kind[Version(w)] = "wants")]},
           next \in {"clear", "build", "idle"} :
         /\ Writes(w, new, next)
         /\ next \in Early => th[w].at \in Early
    <2>1. CASE MarkBuilding(w) \/ Declare(w)
        BY <2>1 DEF MarkBuilding, Declare, At
    <2>2. CASE HoldApp(w) \/ FailApp(w)
        <3>1. ~FrontAlive(th[w].pid)
            BY <1>2, NobodyAlive
        <3> QED
            BY <2>2, <3>1 DEF HoldApp, FailApp
    <2> QED
        BY <2>1, <2>2
<1>4. app' = new
    BY <1>2, <1>3 DEF Writes, UpdateApp
<1>5. new.id = app.id /\ new.pid = app.pid /\ new.status # "live"
    BY <1>2 DEF With, Guarded, Typed, Rows
<1>6. GoOn(w, next) /\ UNCHANGED proc /\ next \in Places /\ next # "record" /\ th[w].at # "record"
    BY <1>1, <1>3 DEF Writes, Places, WorkerPlaces, OtherPlaces
<1> QED
    BY <1>1, <1>3, <1>4, <1>5, <1>6, StatusLocked

\* The steps that stop and start processes.
LEMMA ProcessLocked ==
    ASSUME Guarded, NEW w \in Workers, RunDeploy(w),
           ClearSourceBusy(w) \/ StopPrevious(w) \/ RecordNew(w) \/ FailStop(w)
    PROVE  Locked'
<1>1. /\ Making(w) /\ ~Idle(w) /\ w \in Threads
      /\ th[w].at \in {"clear", "stop", "record", "fail_stop"}
    BY DEF ClearSourceBusy, StopPrevious, RecordNew, FailStop, At, Making, Idle, Threads
<1>2. /\ IfMaking(w) /\ th[w].id = app.id /\ th[w].pid = None /\ app.status # "live"
      /\ th[w].at \in {"clear", "stop", "spawn"} => Down
      /\ th[w].at \notin AtNew => Running \subseteq {app.pid}
    BY <1>1, MakingAlone DEF IfMaking
<1>3. ASSUME \A s \in Threads : s # w => th'[s] = th[s], IfMaking(w)', Copies'
      PROVE  Locked'
    BY <1>1, <1>3, WorkerLocked
<1>4. ASSUME \A s \in Threads : s # w => th'[s] = th[s] PROVE \A t \in Passing : Idle(t)'
    BY <1>2, <1>1, <1>4, OneInHand DEF IfMaking, Idle
<1>5. ~ClearSourceBusy(w)
    BY <1>2 DEF ClearSourceBusy, At, Down, Running
<1>6. CASE StopPrevious(w)
    <2>1. Stops(w, "spawn") /\ th[w].at = "stop" /\ "spawn" \in Places
        BY <1>6 DEF StopPrevious, At, Places, WorkerPlaces
    <2>2. /\ \A s \in Threads : s # w => th'[s] = th[s]
          /\ th'[w].at = "spawn" /\ th'[w].id = th[w].id /\ th'[w].pid = None
        BY <1>1, <2>1, StopEffect DEF Guarded
    <2>3. app' = [app EXCEPT !.pid = None] /\ proc' = Killed(None)
        BY <1>2, <2>1 DEF Stops, StopProcesses, UpdateApp
    <2>4. app'.pid = None /\ app'.id = app.id /\ app'.status = app.status /\ Running' = {}
        BY <1>2, <2>1, <2>3, KillsOnly DEF Guarded, Typed, Rows, Down
    <2> QED
        BY <1>2, <1>3, <1>4, <2>2, <2>4 DEF IfMaking, Copies, Down
<1>7. CASE RecordNew(w)
    <2>1. th[w].at = "record" /\ Writes(w, [app EXCEPT !.pid = th[w].new], "verify") /\ "verify" \in Places
        BY <1>7 DEF RecordNew, At, Places, WorkerPlaces
    <2>2. /\ \A s \in Threads : s # w => th'[s] = th[s]
          /\ th'[w].at = "verify" /\ th'[w].id = th[w].id /\ th'[w].pid = th[w].pid
        BY <1>1, <2>1, GoesOn DEF Guarded, Writes
    <2>3. app' = [app EXCEPT !.pid = th[w].new] /\ UNCHANGED proc
        BY <1>2, <2>1 DEF Writes, UpdateApp
    <2>4. app'.id = app.id /\ app'.pid = th[w].new /\ app'.status = app.status /\ Running' = Running
        BY <2>3, RunningSame DEF Guarded, Typed, Rows
    <2> QED
        BY <1>2, <1>3, <1>4, <2>1, <2>2, <2>4 DEF IfMaking, Copies, Making, Idle
<1>8. CASE FailStop(w)
    <2>1. th[w].at = "fail_stop" /\ GoOn(w, "fail_app") /\ "fail_app" \in Places
        BY <1>8 DEF FailStop, At, Places, WorkerPlaces
    <2>2. /\ \A s \in Threads : s # w => th'[s] = th[s]
          /\ th'[w].at = "fail_app" /\ th'[w].id = th[w].id /\ th'[w].pid = th[w].pid
        BY <1>1, <2>1, GoesOn DEF Guarded
    <2>3. app' = [app EXCEPT !.pid = None] /\ proc' = Killed(app.pid)
        BY <1>2, <1>8 DEF FailStop
    <2>4. app'.id = app.id /\ app'.status = app.status /\ Running' = {}
        BY <1>2, <2>1, <2>3, KillsOnly DEF Guarded, Typed, Rows, AtNew
    <2> QED
        BY <1>2, <1>3, <1>4, <2>2, <2>4 DEF IfMaking, Copies
<1> QED
    BY <1>5, <1>6, <1>7, <1>8

LEMMA StartLocked == ASSUME Guarded, NEW w \in Workers, RunDeploy(w), StartNew(w) PROVE Locked'
<1>1. /\ Making(w) /\ ~Idle(w) /\ w \in Threads
      /\ th[w].at = "spawn" /\ UNCHANGED app
    BY DEF StartNew, At, Making, Idle, Threads, row
<1>2. /\ IfMaking(w) /\ th[w].id = app.id /\ th[w].pid = None /\ app.status # "live"
      /\ Down
    BY <1>1, MakingAlone DEF IfMaking
<1>3. CASE ~CanSpawn
    <2>1. GoOn(w, "fail") /\ UNCHANGED proc
        BY <1>3 DEF StartNew
    <2> QED
        BY <1>1, <2>1, AsideLocked DEF WorkerPlaces, At
<1>4. CASE CanSpawn
    <2>1. PICK p \in Pids : Spawned(p) /\ th' = [th EXCEPT ![w].at = "record", ![w].new = p,
                                                           ![w].swapped = TRUE]
        BY <1>4 DEF StartNew
    <2>2. th' = [th EXCEPT ![w] = [th[w] EXCEPT !.at = "record", !.new = p, !.swapped = TRUE]]
        BY <2>1
    <2>3. /\ \A s \in Threads : s # w => th'[s] = th[s]
          /\ th'[w].at = "record" /\ th'[w].id = th[w].id /\ th'[w].pid = None /\ th'[w].new = p
        BY <1>1, <1>2, <2>2 DEF Guarded, Typed, Locals
    <2>4. Running' = {p}
        BY <1>2, <2>1, SpawnsOne DEF Guarded, Down
    <2>5. \A t \in Passing : Idle(t)'
        BY <1>1, <1>2, <2>3, OneInHand DEF IfMaking, Idle
    <2>6. IfMaking(w)' /\ Copies'
        BY <1>1, <1>2, <2>3, <2>4, <2>5 DEF IfMaking, Copies, Down, AtNew
    <2> QED
        BY <1>1, <2>6, WorkerLocked
<1> QED
    BY <1>3, <1>4

\* The last steps, with which the passes may begin.
LEMMA FinishLocked ==
    ASSUME Guarded, NEW w \in Workers, RunDeploy(w), FinishApp(w) \/ Prune(w) \/ PruneRefused(w)
    PROVE  Locked'
<1>1. ~Idle(w) /\ w \in Threads /\ th[w].at \in {"finish_app", "prune"} /\ {"prune", "idle"} \subseteq Places
    BY DEF FinishApp, Prune, PruneRefused, At, Idle, Threads, Places, WorkerPlaces, OtherPlaces
<1>2. ~PruneRefused(w)
    BY <1>1, OneInHand DEF PruneRefused, At, Idle
<1>3. CASE FinishApp(w)
    <2>1. Making(w) /\ th[w].at = "finish_app" /\ Writes(w, With("live"), "prune")
        BY <1>1, <1>3 DEF FinishApp, At, Making
    <2>2. th[w].id = app.id /\ Running \subseteq {app.pid}
        BY <2>1, MakingAlone DEF IfMaking, AtNew
    <2>3. app' = With("live") /\ app'.pid = app.pid /\ Running' = Running
        BY <2>1, <2>2, RunningSame DEF Writes, UpdateApp, With, Guarded, Typed, Rows
    <2>4. th'[w].at = "prune"
        BY <1>1, <2>1, GoesOn DEF Writes, Guarded
    <2> QED
        BY <1>1, <2>1, <2>2, <2>3, <2>4, WorkerLocked DEF IfMaking, Making, Copies
<1>4. CASE Prune(w)
    <2>1. th[w].at = "prune" /\ GoOn(w, "idle") /\ UNCHANGED <<app, proc>>
        BY <1>4 DEF Prune, At, row
    <2>2. th'[w].at = "idle" /\ \A s \in Threads : s # w => th'[s] = th[s]
        BY <1>1, <2>1, GoesOn DEF Guarded
    <2>3. Running' = Running
        BY <2>1, RunningSame
    <2>4. Copies'
        <3>1. SUFFICES ASSUME \A t \in Threads : th'[t].at \notin AtNew PROVE Running \subseteq {app.pid}
            BY <2>1, <2>3 DEF Copies
        <3>2. \A t \in Threads : th[t].at \notin AtNew
            BY <2>1, <2>2, <3>1 DEF AtNew
        <3> QED
            BY <3>2 DEF Guarded, Locked, Copies
    <2> QED
        BY <1>1, <2>1, <2>2, <2>4, WorkerLocked DEF IfMaking, Making, Idle
<1> QED
    BY <1>2, <1>3, <1>4

LEMMA TakeLocked == ASSUME Guarded, NEW w \in Workers, Take(w) PROVE Locked'
<1>1. /\ w \in Threads /\ Idle(w) /\ queue # << >>
      /\ UNCHANGED <<app, proc>> /\ launcher' = "up"
    BY DEF Take, Free, Threads, row, host, Guarded, Locked
<1>2. Running' = Running
    BY <1>1, RunningSame
<1>3. CASE Status(Head(queue)) = "gone"
    <2>1. UNCHANGED <<deploy, th>>
        BY <1>3 DEF Take
    <2> QED
        BY <1>1, <1>2, <2>1 DEF Guarded, Locked, IfPassing, IfMaking, Making, Idle, Down, Copies, NotYet
<1>4. CASE Status(Head(queue)) # "gone"
    <2>1. Head(queue) \in Deploys /\ Status(Head(queue)) = "queued"
        <3>1. /\ 1 \in DOMAIN queue /\ Head(queue) = queue[1] /\ queue[1] \in Deploys
            BY <1>1, ElementOfSeq, LenProperties, HeadTailProperties DEF Guarded, Typed
        <3> QED
            BY <1>4, <3>1 DEF Guarded, Owned, Queued
    <2>2. /\ th' = [th EXCEPT ![w] = [Holding("mark", "deploy") EXCEPT !.d = Head(queue)]]
          /\ SetDeploy(Head(queue), "building")
        BY <1>4 DEF Take
    <2>3. /\ Holding("mark", "deploy") \in Locals /\ Holding("mark", "deploy").at = "mark"
          /\ Holding("mark", "deploy").id = app.id /\ Holding("mark", "deploy").pid = app.pid
        <3>1. "mark" \in Places /\ "deploy" \in ThreadOps
            BY DEF Places, WorkerPlaces, ThreadOps
        <3>2. Typed
            BY DEF Guarded
        <3> QED
            BY <3>1, <3>2, HoldingTyped
    <2>4. th'[w] = [Holding("mark", "deploy") EXCEPT !.d = Head(queue)]
          /\ \A s \in Threads : s # w => th'[s] = th[s]
        BY <1>1, <2>2 DEF Guarded, Typed
    <2>5. th'[w].at = "mark" /\ th'[w].id = app.id /\ th'[w].pid = app.pid
        BY <2>3, <2>4 DEF Locals
    <2>6. app.status # "live" /\ Down /\ \A t \in Passing : Idle(t)
        BY <2>1 DEF Guarded, Locked, NotYet
    <2>7. \A t \in Passing : Idle(t)'
        BY <1>1, <2>4, <2>6, OneInHand DEF Idle
    <2>8. \A u \in Workers : IfMaking(u)'
        <3>1. ASSUME NEW u \in Workers, u # w PROVE IfMaking(u)'
            <4>1. th'[u] = th[u] /\ u \in Threads
                BY <2>4, <3>1 DEF Threads
            <4>2. Making(u)' => Making(u)
                BY <4>1 DEF Making, Idle
            <4> QED
                BY <1>1, <1>2, <2>7, <4>1, <4>2 DEF Guarded, Locked, IfMaking, Down
        <3>2. IfMaking(w)'
            BY <1>1, <1>2, <2>5, <2>6, <2>7 DEF IfMaking, Down
        <3> QED
            BY <3>1, <3>2
    <2>9. NotYet'
        BY <2>1, <2>2, SetEffect, OneInHand DEF NotYet, Guarded
    <2>10. Copies'
        BY <1>1, <1>2, <2>6 DEF Copies, Down
    <2> QED
        BY <1>1, <2>7, <2>8, <2>9, <2>10 DEF Locked, IfPassing
<1> QED
    BY <1>3, <1>4

LEMMA BuildLocked == ASSUME Guarded, NEW w \in Workers, RunDeploy(w) PROVE Locked'
    BY TakeLocked, StepsAside, RowLocked, ProcessLocked, StartLocked, FinishLocked DEF RunDeploy

-----------------------------------------------------------------------------
(* The passes                                                               *)

\* Whoever may begin finds nobody else at it.
LEMMA BeginLocked ==
    ASSUME Guarded, NEW t \in Passing, LockFree, app.status = "live",
           NEW op \in {"check", "restart_all"}, NEW place \in {"launch", "look"},
           th' = [th EXCEPT ![t] = Holding(place, op)], UNCHANGED <<app, deploy, proc, launcher>>
    PROVE  Locked'
<1>1. t \in Threads /\ place \in Places /\ op \in ThreadOps /\ place \notin AtNew
    BY OneInHand DEF Places, LaunchPlaces, OtherPlaces, ThreadOps, AllOps, AtNew
<1>2. \A s \in Passing : Idle(s) /\ th[s].at \notin AtNew
    BY OneInHand DEF Guarded, Locked, IfPassing, LockFree, Idle, AtNew
<1>3. /\ th'[t].at = place /\ th'[t].op = op /\ th'[t].id = app.id /\ th'[t].pid = app.pid
      /\ \A s \in Threads : s # t => th'[s] = th[s]
    BY <1>1, BeginsTyped, HoldingTyped DEF Guarded
<1>4. \A w \in Workers : ~Making(w) /\ th[w].at \notin AtNew
    BY DEF Guarded, Locked, IfMaking, Making, Idle, AtNew
<1>5. Running \subseteq {app.pid} /\ Running' = Running
    BY <1>2, <1>4, OneInHand, RunningSame DEF Guarded, Locked, Copies
<1>6. \A d \in Deploys : Status(d)' \notin {"unborn", "queued"}
    BY DEF Guarded, Locked, NotYet
<1>7. IfPassing(t)'
    BY <1>3 DEF IfPassing, LaunchPlaces
<1>8. \A s \in Passing : s # t => Idle(s)'
    BY <1>2, <1>3, OneInHand DEF Idle
<1>9. \A w \in Workers : ~Making(w)'
    BY <1>3, <1>4, OneInHand DEF Making, Idle
<1> QED
    BY <1>5, <1>6, <1>7, <1>8, <1>9 DEF Guarded, Locked, IfPassing, IfMaking, Copies, NotYet

\* Both passes, from the decision to launch on.
LEMMA LaunchLocked ==
    ASSUME Guarded, NEW t \in Passing, Launch(t) PROVE Locked'
<1>1. /\ t \in Threads /\ ~Idle(t) /\ th[t].at \in LaunchPlaces
      /\ UNCHANGED <<deploy, launcher>> /\ \A s \in Threads : s # t => th'[s] = th[s]
    BY OneInHand, LaunchAlone DEF Guarded, Idle, LaunchPlaces, records, host
<1>2. /\ th[t].op \in {"check", "restart_all"} /\ th[t].id = app.id
      /\ th[t].at = "launch" => th[t].pid = app.pid
      /\ th[t].at = "launch_spawn" => Down
      /\ th[t].at = "launch_record" => app.pid = None /\ Running \subseteq {th[t].new}
      /\ th[t].at \notin AtNew => Running \subseteq {app.pid}
    BY <1>1, PassAlone DEF IfPassing
<1>3. ASSUME IfPassing(t)', th'[t].at \notin AtNew => Running' \subseteq {app'.pid} PROVE Locked'
    BY <1>1, <1>3, PassLocked
<1>4. ASSUME Idle(t)', app'.pid = app.pid, UNCHANGED proc, th[t].at \notin AtNew PROVE Locked'
    BY <1>2, <1>3, <1>4, RunningSame DEF IfPassing
<1>5. "idle" \in Places /\ LaunchPlaces \subseteq Places /\ "idle" \notin LaunchPlaces
    BY DEF Places, OtherPlaces, LaunchPlaces
<1>6. CASE LaunchFailed(t) \/ LaunchHeld(t) \/ LaunchCaught(t)
    <2>1. PICK status \in {"failed", "needs_setup"} : Writes(t, With(status), "idle") /\ th[t].at \notin AtNew
        BY <1>2, <1>6 DEF LaunchFailed, LaunchHeld, LaunchCaught, AfterRefusal, At, AtNew
    <2>2. app' = With(status) /\ UNCHANGED proc /\ Idle(t)'
        BY <1>1, <1>2, <1>5, <2>1, GoesOn DEF Writes, UpdateApp, Guarded, Idle
    <2>3. app'.pid = app.pid
        BY <2>2 DEF With, Guarded, Typed, Rows
    <2> QED
        BY <1>4, <2>1, <2>2, <2>3
<1>7. CASE LaunchRaises(t)
    <2>1. PICK next \in {"idle", "launch_failed"} : Decides(t, next)
        BY <1>7 DEF LaunchRaises, AfterRaise
    <2>2. /\ th[t].at = "launch_spawn" /\ UNCHANGED <<app, proc>>
        BY <1>7, <2>1 DEF LaunchRaises, At, Decides, row
    <2>3. /\ th'[t].at = next
          /\ next # "idle" => th'[t].op = th[t].op /\ th'[t].id = th[t].id
        BY <1>1, <1>5, <2>1, GoesOn DEF Guarded, Decides, LaunchPlaces
    <2>4. IfPassing(t)'
        BY <1>2, <2>2, <2>3 DEF IfPassing, Idle, LaunchPlaces
    <2> QED
        BY <1>2, <1>3, <2>2, <2>4, RunningSame DEF AtNew
<1>8. CASE LaunchStops(t)
    <2>1. Stops(t, "launch_spawn") /\ th[t].at = "launch"
        BY <1>8 DEF LaunchStops, At
    <2>2. /\ th'[t].at = "launch_spawn" /\ th'[t].op = th[t].op /\ th'[t].id = th[t].id
        BY <1>1, <1>5, <2>1, StopEffect DEF Guarded, LaunchPlaces
    <2>3. app' = [app EXCEPT !.pid = None] /\ proc' = Killed(app.pid)
        BY <1>2, <2>1 DEF Stops, StopProcesses, UpdateApp
    <2>4. app'.pid = None /\ app'.id = app.id /\ Running' = {}
        BY <1>2, <2>1, <2>3, KillsOnly DEF Guarded, Typed, Rows, AtNew
    <2>5. IfPassing(t)'
        BY <1>2, <2>2, <2>4 DEF IfPassing, LaunchPlaces, Down
    <2> QED
        BY <1>3, <2>4, <2>5
<1>9. CASE LaunchSpawns(t)
    <2>1. PICK p \in Pids : Spawned(p) /\ th' = [th EXCEPT ![t].at = "launch_record", ![t].new = p]
        BY <1>9 DEF LaunchSpawns
    <2>2. th' = [th EXCEPT ![t] = [th[t] EXCEPT !.at = "launch_record", !.new = p]]
        BY <2>1
    <2>3. /\ th'[t].at = "launch_record" /\ th'[t].op = th[t].op /\ th'[t].id = th[t].id
          /\ th'[t].new = p
        BY <1>1, <2>2 DEF Guarded, Typed, Locals
    <2>4. th[t].at = "launch_spawn" /\ UNCHANGED app
        BY <1>9 DEF LaunchSpawns, At, row
    <2>5. Running' = {p}
        BY <1>2, <2>1, <2>4, SpawnsOne DEF Guarded, Down
    <2>6. IfPassing(t)'
        BY <1>2, <2>3, <2>4, <2>5 DEF IfPassing, LaunchPlaces, Down
    <2> QED
        BY <1>3, <2>3, <2>6 DEF AtNew
<1>10. CASE LaunchRecords(t)
    <2>1. th[t].at = "launch_record" /\ GoOn(t, "idle")
        BY <1>2, <1>10 DEF LaunchRecords, At, AfterStart
    <2>2. app' = [app EXCEPT !.status = "live", !.pid = th[t].new] /\ UNCHANGED proc /\ Idle(t)'
        BY <1>1, <1>2, <1>5, <1>10, <2>1, GoesOn DEF LaunchRecords, UpdateApp, Guarded, Idle
    <2>3. app'.pid = th[t].new
        BY <2>2 DEF Guarded, Typed, Rows
    <2> QED
        BY <1>2, <1>3, <2>1, <2>2, <2>3, RunningSame DEF IfPassing
<1> QED
    BY <1>6, <1>7, <1>8, <1>9, <1>10 DEF Launch

LEMMA SuperviseLocked == ASSUME Guarded, Supervise PROVE Locked'
<1> USE DEF row, records, host, counters
<1>0. /\ SUPERVISOR \in Passing /\ SUPERVISOR \in Threads
      /\ {"launch", "give_up", "idle", "give_up_app"} \subseteq Places
    BY DEF Passing, Threads, Places, OtherPlaces, LaunchPlaces
<1>1. CASE Look
    BY <1>0, <1>1, BeginLocked DEF Look, MayCheck
<1>5. CASE CheckDead \/ CheckHealthy \/ CheckHeavy
    <2>1. /\ ~Idle(SUPERVISOR) /\ th[SUPERVISOR].at = "look"
          /\ UNCHANGED <<app, deploy, proc, launcher>>
        BY <1>5 DEF CheckDead, CheckHealthy, CheckHeavy, At, Idle
    <2>2. PICK next \in {"launch", "give_up", "idle"} : GoOn(SUPERVISOR, next)
        BY <1>5 DEF CheckDead, CheckHealthy, CheckHeavy
    <2>3. /\ th[SUPERVISOR].op \in {"check", "restart_all"} /\ th[SUPERVISOR].id = app.id
          /\ th[SUPERVISOR].pid = app.pid /\ Running \subseteq {app.pid}
        BY <1>0, <2>1, PassAlone DEF IfPassing, AtNew
    <2>4. /\ \A s \in Threads : s # SUPERVISOR => th'[s] = th[s]
          /\ th'[SUPERVISOR].at = next
          /\ next # "idle" => /\ th'[SUPERVISOR].op = th[SUPERVISOR].op
                              /\ th'[SUPERVISOR].id = th[SUPERVISOR].id
                              /\ th'[SUPERVISOR].pid = th[SUPERVISOR].pid
        BY <1>0, <2>2, GoesOn DEF Guarded
    <2>5. IfPassing(SUPERVISOR)'
        BY <2>1, <2>3, <2>4 DEF IfPassing, Idle, LaunchPlaces
    <2> QED
        BY <1>0, <2>1, <2>3, <2>4, <2>5, RunningSame, PassLocked
<1>2. CASE GiveUp
    <2>1. ~Idle(SUPERVISOR) /\ th[SUPERVISOR].at = "give_up" /\ Stops(SUPERVISOR, "give_up_app")
        BY <1>2 DEF GiveUp, At, Idle
    <2>2. /\ th[SUPERVISOR].op \in {"check", "restart_all"} /\ th[SUPERVISOR].id = app.id
          /\ th[SUPERVISOR].pid = app.pid /\ Running \subseteq {app.pid}
        BY <1>0, <2>1, PassAlone DEF IfPassing, AtNew
    <2>3. app' = [app EXCEPT !.pid = None] /\ proc' = Killed(app.pid)
        BY <2>1, <2>2 DEF Stops, StopProcesses, UpdateApp
    <2>4. app'.pid = None /\ app'.id = app.id /\ Running' = {}
        BY <2>2, <2>3, KillsOnly DEF Guarded, Typed, Rows
    <2>5. /\ th'[SUPERVISOR].at = "give_up_app" /\ th'[SUPERVISOR].op = th[SUPERVISOR].op
          /\ th'[SUPERVISOR].id = th[SUPERVISOR].id
          /\ \A s \in Threads : s # SUPERVISOR => th'[s] = th[s]
          /\ UNCHANGED <<deploy, launcher>>
        BY <1>0, <2>1, StopEffect DEF Guarded, Stops
    <2>6. IfPassing(SUPERVISOR)'
        BY <2>2, <2>4, <2>5 DEF IfPassing, LaunchPlaces
    <2> QED
        BY <1>0, <2>1, <2>4, <2>5, <2>6, PassLocked
<1>3. CASE GiveUpApp
    <2>1. ~Idle(SUPERVISOR) /\ th[SUPERVISOR].at = "give_up_app" /\ GoOn(SUPERVISOR, "idle")
        BY <1>3 DEF GiveUpApp, At, Idle
    <2>2. th[SUPERVISOR].id = app.id /\ Running \subseteq {app.pid}
        BY <1>0, <2>1, PassAlone DEF IfPassing, AtNew
    <2>3. app' = With("failed") /\ UNCHANGED <<proc, deploy, launcher>>
        BY <1>3, <2>2 DEF GiveUpApp, UpdateApp
    <2>4. app'.pid = app.pid /\ Running' = Running
        BY <2>3, RunningSame DEF With, Guarded, Typed, Rows
    <2>5. Idle(SUPERVISOR)' /\ \A s \in Threads : s # SUPERVISOR => th'[s] = th[s]
        BY <1>0, <2>1, GoesOn DEF Guarded, Idle
    <2> QED
        BY <1>0, <2>1, <2>2, <2>3, <2>4, <2>5, PassLocked DEF IfPassing
<1>4. CASE Launch(SUPERVISOR)
    BY <1>0, <1>4, LaunchLocked
<1> QED
    BY <1>1, <1>2, <1>3, <1>4, <1>5 DEF Supervise

\* A request thread does nothing but restart everything.
LEMMA PageLocked == ASSUME Guarded, NEW c \in Clients, Press(c) \/ Serve(c) PROVE Locked'
<1>1. c \in Passing /\ Ops \subseteq {"upload", "restart_all"}
    BY DEF Passing, Guarded, OnePass
<1>2. CASE Press(c)
    <2>1. RestartAll(c)
        BY <1>1, <1>2 DEF Press, Stop, Start, SaveSetting, RemoveSetting, Delete, MayPress
    <2> QED
        BY <1>1, <2>1, BeginLocked DEF RestartAll, Pressed, records, host
<1>3. CASE Serve(c)
    <2>1. ~Idle(c) => th[c].at \in LaunchPlaces \cup {"look", "give_up", "give_up_app"}
        BY <1>1, PassAlone DEF IfPassing
    <2>2. th[c].at \notin {"stop_kill", "apply", "withdraw", "withdraw_app", "settle", "delete_kill",
                           "delete_row", "delete_files"}
        BY <2>1 DEF Idle, LaunchPlaces
    <2>3. Launch(c)
        BY <1>3, <2>2 DEF Serve, StopKills, ApplySettings, Withdraw, WithdrawApp, Settle, DeleteKills,
                          DeleteRow, DeleteFiles, At
    <2> QED
        BY <1>1, <2>3, LaunchLocked
<1> QED
    BY <1>2, <1>3

\* The upload, of which there is one.
LEMMA RequestLocked == ASSUME Guarded, Upload \/ ReplaceStop \/ Rollback PROVE Locked'
<1>1. Upload
    BY DEF ReplaceStop, Rollback, MayRequest, Guarded, OnePass
<1>2. PICK d \in Deploys : IsNext(d)
    BY <1>1 DEF Upload, StoreUpload
<1>3. Status(d) = "unborn"
    BY <1>2 DEF IsNext
<1>4. app.status # "live" /\ Down /\ \A t \in Passing : Idle(t)
    BY <1>3 DEF Guarded, Locked, NotYet
<1>5. \A w \in Workers : Idle(w)
    BY <1>3, OneInHand
<1>6. UNCHANGED <<proc, th, launcher>>
    BY <1>1 DEF Upload, host
<1>7. app'.status # "live" /\ app'.pid = None
    BY <1>1, <1>4 DEF Upload, Down, NoRow, row
<1> QED
    BY <1>4, <1>5, <1>6, <1>7, RunningSame
       DEF Guarded, Locked, IfPassing, IfMaking, Making, Idle, Down, Copies, NotYet

LEMMA WorldLocked == ASSUME Guarded, Environment PROVE Locked'
<1>1. PICK p \in Pids : ComesUp(p) \/ Dies(p) \/ Reused(p) \/ StrangerExits(p)
    BY DEF Environment
<1>2. UNCHANGED <<app, deploy, th, launcher>>
    BY <1>1 DEF ComesUp, Dies, Reused, StrangerExits, OnlyProc, row, records, host
<1>3. \A q \in Pids : FrontAlive(q)' => FrontAlive(q)
    <2>1. NoProcess.state = "none" /\ [NoProcess EXCEPT !.state = "stranger"].state = "stranger"
        BY DEF NoProcess
    <2>2. CASE ComesUp(p)
        <3>1. PICK new : proc' = [proc EXCEPT ![p] = new]
            BY <2>2 DEF ComesUp
        <3> QED
            BY <2>2, <3>1 DEF ComesUp, FrontAlive, Guarded, Typed
    <2>3. CASE Dies(p)
        <3>1. PICK new : proc' = [proc EXCEPT ![p] = new]
            BY <2>3 DEF Dies
        <3> QED
            BY <2>3, <3>1 DEF Dies, FrontAlive, Guarded, Typed
    <2>4. CASE Reused(p) \/ StrangerExits(p)
        BY <2>1, <2>4 DEF Reused, StrangerExits, FrontAlive, Guarded, Typed
    <2> QED
        BY <1>1, <2>2, <2>3, <2>4
<1>4. Running' \subseteq Running
    BY <1>3 DEF Running
<1> QED
    BY <1>2, <1>4 DEF Guarded, Locked, IfPassing, IfMaking, Making, Idle, Down, Copies, NotYet

-----------------------------------------------------------------------------
(* One copy                                                                 *)

LEMMA LockedStays == ASSUME Guarded, [Next]_vars, crashes' = 0 PROVE Locked'
<1>1. ~Crash
    BY DEF Crash, Guarded, Typed
<1>2. ~Recover
    <2>1. launcher = "up" /\ th[SUPERVISOR].at # "recover_app"
        BY DEF Guarded, Locked, IfPassing, Passing, Idle, LaunchPlaces
    <2> QED
        BY <2>1 DEF Recover, Boot, RecoverDeploy, RecoverApp, Restore, Ready, At
<1>3. CASE UNCHANGED vars
    BY <1>3, RunningSame DEF vars, row, records, host, Guarded, Locked, IfPassing, IfMaking, Making,
                             Idle, Down, Copies, NotYet
<1> QED
    BY <1>1, <1>2, <1>3, RequestLocked, BuildLocked, PageLocked, SuperviseLocked, WorldLocked DEF Next

\* Two processes that run are the same one.
LEMMA LockedOneCopy == ASSUME Guarded PROVE \A p, q \in Running : p = q
<1>1. CASE \A t \in Threads : th[t].at \notin AtNew
    BY <1>1 DEF Guarded, Locked, Copies
<1>2. CASE \E t \in Threads : th[t].at \in AtNew
    <2>1. PICK t \in Threads : th[t].at \in AtNew
        BY <1>2
    <2>2. CASE t \in Workers
        <3>1. th[t].at = "record" /\ Making(t)
            BY <2>1, <2>2 DEF Guarded, Owned, InHand, Idle, AtNew, WorkerPlaces, Making
        <3> QED
            BY <2>2, <3>1, MakingAlone DEF IfMaking
    <2>3. CASE t \in Passing
        <3>1. th[t].at = "launch_record" /\ ~Idle(t)
            BY <2>1, <2>3, PassAlone DEF IfPassing, Idle, AtNew, LaunchPlaces
        <3> QED
            BY <2>3, <3>1, PassAlone DEF IfPassing
    <2> QED
        BY <2>2, <2>3, OneInHand
<1> QED
    BY <1>1, <1>2

LEMMA InitiallyLocked == Init => Locked
<1> SUFFICES ASSUME Init PROVE Locked
    OBVIOUS
<1>1. /\ \A t \in Threads : Idle(t) /\ th[t].at = "idle"
      /\ Down /\ app.status # "live" /\ launcher = "up"
    BY DEF Init, Idle, IdleThread, NoProcess, Running, FrontAlive, NoRow, Down
<1>2. Workers \cup Passing = Threads
    BY DEF Passing, Threads
<1> QED
    BY <1>1, <1>2 DEF Locked, IfPassing, IfMaking, Making, Copies, NotYet, Down

\* The launcher's crashes are counted, never taken back.
LEMMA CrashesStay == ASSUME Typed, [Next]_vars, crashes' = 0 PROVE crashes = 0
<1>1. CASE Crash
    BY <1>1 DEF Crash, Typed
<1>2. CASE ~Crash
    BY <1>2, WorkerAlone, PageAlone, SuperviseAlone
       DEF Next, Upload, ReplaceStop, Rollback, Recover, Boot, RecoverDeploy, RecoverApp,
           Restore, Ready, Writes, Environment, ComesUp, Dies, Reused, StrangerExits, OnlyProc,
           vars, host
<1> QED
    BY <1>1, <1>2

\* With one deploy of the app, however many threads check it and restart it
\* whenever they like, it never runs twice: the supervisor's lock keeps the passes
\* apart, and the status keeps them from the app that is still being deployed
\* (supervisor.py:115, "decide it has died and start a second copy").
THEOREM OneCopyUnderLock == ASSUME OnePass PROVE Spec => []AtMostOneCopy
<1> DEFINE Inductive == Typed /\ Owned /\ (crashes = 0 => Locked)
<1>1. Init => Inductive
    BY InitiallyTyped, InitiallyOwned, InitiallyLocked
<1>2. Inductive /\ [Next]_vars => Inductive'
    BY TypesStay, OwnedStays, CrashesStay, LockedStays DEF Guarded
<1>3. Inductive => AtMostOneCopy
    BY LockedOneCopy DEF Guarded, AtMostOneCopy
<1> QED
    BY <1>1, <1>2, <1>3, PTL DEF Spec
=============================================================================
