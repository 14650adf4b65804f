-------------------------- MODULE ContainersProofs --------------------------
(***************************************************************************)
(* The containers of one app, for any number of request threads, deploys   *)
(* and crashes of the launcher, as long as there is one build worker and   *)
(* nobody needs the daemon while it is away: docker run finds the app's    *)
(* name free, and while one thread at a time is busy with the app its row, *)
(* its container and what it serves stay together.                         *)
(***************************************************************************)
EXTENDS Containers, TLAPS

-----------------------------------------------------------------------------
(* Types *)

USE ConstantsOK DEF ConstantsOK
USE DEF None

Row    == [id : 0 .. MaxIds,
           status : {"new", "building", "live", "failed", "stopped", "needs_setup"},
           cid : {None} \cup Deploys, image : {None} \cup Deploys,
           declared : BOOLEAN, setting : BOOLEAN]
Deploy == [status : {"unborn", "queued", "building", "live", "failed", "needs_setup"},
           app : 0 .. MaxIds, kind : Kinds \cup {"none"}, gone : BOOLEAN]
Box    == [cid : Deploys, state : {"created", "running", "dead", "stopped"}] \cup {NoBox}
Thread == [at : Places, id : 0 .. MaxIds, cid : {None} \cup Deploys,
           image : {None} \cup Deploys, d : {None} \cup Deploys, swapped : BOOLEAN]

RowOK     == app \in Row /\ lastId \in 0 .. MaxIds
DeploysOK == deploy \in [Deploys -> Deploy]
BoxOK     == box \in Box
ImagesOK  == images \subseteq Deploys
HostOK    == daemon \in {"up", "down"} /\ outages \in 0 .. MaxOutages /\ crashes \in 0 .. MaxCrashes
QueueOK   == queue \in Seq(Deploys)
ThreadsOK == /\ th \in [Threads -> Thread]
             /\ \A w \in Workers : ~At(w, "idle") => th[w].d \in Deploys
StateOK   == RowOK /\ DeploysOK /\ BoxOK /\ ImagesOK /\ HostOK /\ QueueOK /\ ThreadsOK

\* What a step leaves alone keeps its type.
LEMMA UntouchedKeepsType ==
    /\ RowOK /\ UNCHANGED row => RowOK'
    /\ DeploysOK /\ UNCHANGED deploy => DeploysOK'
    /\ BoxOK /\ ImagesOK /\ UNCHANGED docker => BoxOK' /\ ImagesOK'
    /\ BoxOK /\ UNCHANGED box => BoxOK'
    /\ ImagesOK /\ UNCHANGED images => ImagesOK'
    /\ HostOK /\ UNCHANGED host => HostOK'
    /\ QueueOK /\ UNCHANGED queue => QueueOK'
    /\ ThreadsOK /\ UNCHANGED th => ThreadsOK'
    BY DEF RowOK, DeploysOK, BoxOK, ImagesOK, HostOK, QueueOK, ThreadsOK, row, docker, host, At

\* An idle thread, and one at the beginning of something, are threads.
LEMMA NewThreads ==
    ASSUME RowOK
    PROVE  IdleThread \in Thread /\ \A place \in Places : Holding(place) \in Thread
<1>1. IdleThread \in Thread
    BY DEF IdleThread, Thread, Places
<1>2. ASSUME NEW place \in Places PROVE Holding(place) \in Thread
    <2>1. app.id \in 0 .. MaxIds /\ app.cid \in {None} \cup Deploys /\ app.image \in {None} \cup Deploys
        BY DEF RowOK, Row
    <2> QED
        BY <1>1, <2>1 DEF Holding, Thread
<1> QED
    BY <1>1, <1>2

\* A thread that goes on to one of the places is still one.
LEMMA GoingOnKeepsType ==
    ASSUME StateOK, NEW t \in Threads, NEW next \in Places, ~At(t, "idle"), GoOn(t, next)
    PROVE  ThreadsOK'
<1>1. IdleThread \in Thread
    BY NewThreads DEF StateOK
<1>2. [th[t] EXCEPT !.at = next] \in Thread
    BY DEF StateOK, ThreadsOK, Thread
<1>3. th' \in [Threads -> Thread]
    BY <1>1, <1>2 DEF StateOK, ThreadsOK, GoOn
<1>4. ASSUME NEW w \in Workers, th'[w].at # "idle" PROVE th'[w].d \in Deploys
    <2>1. CASE w = t
        <3>1. next # "idle"
            BY <1>4, <2>1 DEF GoOn, IdleThread, StateOK, ThreadsOK
        <3> QED
            BY <2>1, <3>1 DEF GoOn, StateOK, ThreadsOK, Thread
    <2>2. CASE w # t
        BY <1>4, <2>2 DEF GoOn, StateOK, ThreadsOK, Threads, At
    <2> QED
        BY <2>1, <2>2
<1> QED
    BY <1>3, <1>4 DEF ThreadsOK, At

\* The four forms most steps have: a new row, a new status of the deploy, a
\* docker command, and a button that is pressed.
LEMMA WritesKeepsType ==
    ASSUME StateOK, NEW t \in Threads, NEW newRow \in Row, NEW next \in Places,
           ~At(t, "idle"), Writes(t, newRow, next)
    PROVE  StateOK'
<1>1. ThreadsOK'
    BY GoingOnKeepsType DEF Writes
<1>2. RowOK'
    BY DEF Writes, StateOK, RowOK
<1> QED
    BY <1>1, <1>2, UntouchedKeepsType DEF Writes, StateOK

LEMMA MarksKeepsType ==
    ASSUME StateOK, NEW t \in Threads, NEW s \in {"live", "failed", "needs_setup"},
           NEW next \in Places, ~At(t, "idle"), Marks(t, s, next)
    PROVE  StateOK'
<1>1. ThreadsOK'
    BY GoingOnKeepsType DEF Marks
<1>2. \A d \in Deploys : [deploy[d] EXCEPT !.status = s] \in Deploy
    BY DEF StateOK, DeploysOK, Deploy
<1>3. DeploysOK'
    BY <1>2 DEF Marks, SetDeploy, StateOK, DeploysOK
<1> QED
    BY <1>1, <1>3, UntouchedKeepsType DEF Marks, StateOK

LEMMA RunsKeepsType ==
    ASSUME StateOK, NEW t \in Threads, NEW next \in Places, ~At(t, "idle"), BoxOK', GoOn(t, next),
           UNCHANGED <<row, deploy, images, host, queue>>
    PROVE  StateOK'
    BY GoingOnKeepsType, UntouchedKeepsType DEF StateOK

LEMMA PressedKeepsType ==
    ASSUME StateOK, NEW c \in Clients, NEW newRow \in Row, NEW place \in Places,
           Pressed(c, newRow, place)
    PROVE  StateOK'
<1>1. ThreadsOK'
    <2>1. th' = [th EXCEPT ![c] = Holding(place)] /\ Holding(place) \in Thread
        BY NewThreads DEF Pressed, StateOK
    <2>2. \A w \in Workers : th'[w] = th[w]
        BY <2>1 DEF StateOK, ThreadsOK, Threads
    <2>3. th' \in [Threads -> Thread]
        BY <2>1 DEF StateOK, ThreadsOK
    <2> QED
        BY <2>2, <2>3 DEF StateOK, ThreadsOK, At
<1>2. RowOK'
    BY DEF Pressed, StateOK, RowOK
<1> QED
    BY <1>1, <1>2, UntouchedKeepsType DEF Pressed, StateOK

\* What a docker command makes of a container is a container, or none.
LEMMA CommandsKeepType ==
    ASSUME StateOK, NEW cid, DockerStop(cid) \/ DockerRm(cid) \/ DockerStart(cid)
    PROVE  BoxOK'
<1>1. ASSUME NEW s \in {"stopped", "running"}, box # NoBox
      PROVE  [box EXCEPT !.state = s] \in Box
    BY <1>1 DEF StateOK, BoxOK, Box
<1>2. NoBox \in Box
    BY DEF Box
<1>3. CASE DockerStop(cid)
    BY <1>1, <1>3 DEF DockerStop, Commanded, Reached, StateOK, BoxOK
<1>4. CASE DockerRm(cid)
    BY <1>2, <1>4 DEF DockerRm, Commanded, StateOK, BoxOK
<1>5. CASE DockerStart(cid)
    BY <1>1, <1>5 DEF DockerStart, Commanded, Reached, StateOK, BoxOK
<1> QED
    BY <1>3, <1>4, <1>5

\* The rows that are written.
LEMMA NewRows ==
    ASSUME StateOK
    PROVE  /\ \A s \in {"building", "live", "failed", "stopped", "needs_setup"} : With(s) \in Row
           /\ \A b \in BOOLEAN : /\ [app EXCEPT !.declared = b] \in Row
                                 /\ [app EXCEPT !.setting = b] \in Row
           /\ \A d \in Deploys : [app EXCEPT !.cid = d, !.image = d] \in Row
           /\ NoRow \in Row /\ app \in Row
<1>1. app \in Row
    BY DEF StateOK, RowOK
<1>2. \A s \in {"building", "live", "failed", "stopped", "needs_setup"} : With(s) \in Row
    BY <1>1 DEF With, Row
<1>3. \A b \in BOOLEAN : [app EXCEPT !.declared = b] \in Row
    BY <1>1 DEF Row
<1>4. \A b \in BOOLEAN : [app EXCEPT !.setting = b] \in Row
    BY <1>1 DEF Row
<1>5. \A d \in Deploys : [app EXCEPT !.cid = d, !.image = d] \in Row
    BY <1>1 DEF Row
<1>6. NoRow \in Row
    BY DEF NoRow, Row
<1> QED
    BY <1>1, <1>2, <1>3, <1>4, <1>5, <1>6

\* A deploy that is queued.
LEMMA EnqueueKeepsType ==
    ASSUME StateOK, NEW id \in 0 .. MaxIds, Enqueue(id) PROVE DeploysOK' /\ QueueOK'
<1>1. PICK d \in Deploys, k \in Kinds :
        /\ deploy' = [deploy EXCEPT ![d] = [NoDeploy EXCEPT !.status = "queued", !.app = id,
                                                            !.kind = k]]
        /\ queue' = Append(queue, d)
    BY DEF Enqueue
<1>2. [NoDeploy EXCEPT !.status = "queued", !.app = id, !.kind = k] \in Deploy
    BY DEF NoDeploy, Deploy
<1> QED
    BY <1>1, <1>2 DEF StateOK, DeploysOK, QueueOK

\* Every step of a build worker keeps the types.
LEMMA BuildKeepsTypes ==
    ASSUME StateOK, NEW w \in Workers, RunDeploy(w) PROVE StateOK'
<1>0. w \in Threads
    BY DEF Threads
<1>1. /\ th[w] \in Thread
      /\ th[w].cid \in {None} \cup Deploys
      /\ {"idle", "mark", "clear", "free", "free_rm", "declare", "build", "check", "stop", "rm",
          "rm_name", "run", "record", "verify", "finish", "finish_app", "hold", "hold_app", "fail", "fail_app"} \subseteq Places
    BY <1>0 DEF StateOK, ThreadsOK, Places, Thread
<1>2. CASE Take(w)
    <2>1. Head(queue) \in Deploys /\ Tail(queue) \in Seq(Deploys)
        BY <1>2 DEF Take, StateOK, QueueOK
    <2>2. /\ [Holding("mark") EXCEPT !.d = Head(queue)] \in Thread
          /\ [Holding("mark") EXCEPT !.d = Head(queue)].d = Head(queue)
        BY <2>1, <1>1, NewThreads DEF StateOK, Thread
    <2>3. ThreadsOK'
        <3>1. CASE th' = th
            BY <3>1, UntouchedKeepsType DEF StateOK
        <3>2. CASE th' = [th EXCEPT ![w] = [Holding("mark") EXCEPT !.d = Head(queue)]]
            BY <1>0, <2>1, <2>2, <3>2 DEF StateOK, ThreadsOK, Threads, At
        <3> QED
            BY <1>2, <3>1, <3>2 DEF Take
    <2>4. [deploy[Head(queue)] EXCEPT !.status = "building"] \in Deploy
        BY <2>1 DEF StateOK, DeploysOK, Deploy
    <2>5. DeploysOK'
        BY <1>2, <2>4 DEF Take, SetDeploy, StateOK, DeploysOK
    <2>6. QueueOK'
        BY <1>2, <2>1 DEF Take, QueueOK
    <2> QED
        BY <1>2, <2>3, <2>5, <2>6, UntouchedKeepsType DEF Take, StateOK
<1>3. ASSUME ~Take(w) PROVE ~At(w, "idle") /\ th[w].d \in Deploys
    BY <1>3 DEF RunDeploy, MarkBuilding, Clear, FreeStops, FreeRemoves, Declare, Build, Check,
                StopPrevious, RemovePrevious, RemoveByName, ClearsTooLate, Run, Record, Verify, Finish, FinishApp, Hold, HoldApp, Fail,
                FailApp, At, StateOK, ThreadsOK
<1>4. CASE MarkBuilding(w) \/ FinishApp(w) \/ HoldApp(w) \/ FailApp(w)
    <2>1. ~Take(w)
        BY <1>4 DEF MarkBuilding, FinishApp, HoldApp, FailApp, Take, At
    <2> QED
        BY <1>0, <1>1, <1>3, <1>4, <2>1, NewRows, WritesKeepsType
        DEF MarkBuilding, FinishApp, HoldApp, FailApp
<1>5. CASE Declare(w)
    <2>1. [app EXCEPT !.declared = (Kind(w) = "wants")] \in Row
        BY NewRows
    <2>2. ~At(w, "idle")
        BY <1>5 DEF Declare, At
    <2> QED
        BY <1>0, <1>1, <1>5, <2>1, <2>2, WritesKeepsType DEF Declare
<1>6. CASE Record(w)
    <2>1. ~At(w, "idle") /\ th[w].d \in Deploys
        BY <1>3, <1>6 DEF Record, Take, At
    <2> QED
        BY <1>0, <1>1, <1>6, <2>1, NewRows, WritesKeepsType DEF Record
<1>7. CASE Build(w)
    <2>1. ~At(w, "idle") /\ th[w].d \in Deploys
        BY <1>3, <1>7 DEF Build, Take, At
    <2>2. ThreadsOK'
        <3>1. GoOn(w, "check") \/ GoOn(w, "fail")
            BY <1>7 DEF Build
        <3> QED
            BY <1>0, <1>1, <2>1, <3>1, GoingOnKeepsType
    <2>3. ImagesOK'
        BY <1>7, <2>1 DEF Build, StateOK, ImagesOK
    <2> QED
        BY <1>7, <2>2, <2>3, UntouchedKeepsType DEF Build, StateOK
<1>8. CASE Clear(w) \/ Check(w) \/ Verify(w)
    <2>1. \E next \in {"declare", "free", "hold", "fail", "rm_name", "stop", "finish"} : GoOn(w, next)
        BY <1>8 DEF Clear, Check, Verify
    <2>2. ~At(w, "idle")
        BY <1>8 DEF Clear, Check, Verify, At
    <2>3. ThreadsOK'
        BY <1>0, <1>1, <2>1, <2>2, GoingOnKeepsType
    <2> QED
        BY <1>8, <2>3, UntouchedKeepsType DEF Clear, Check, Verify, StateOK
<1>9. CASE \/ FreeStops(w) \/ FreeRemoves(w) \/ StopPrevious(w) \/ RemovePrevious(w)
           \/ RemoveByName(w) \/ ClearsTooLate(w)
    <2>1. /\ ~At(w, "idle") /\ UNCHANGED <<row, deploy, images, host, queue>>
          /\ \E next \in {"free_rm", "declare", "rm", "rm_name", "run", "fail"} : GoOn(w, next)
        BY <1>9 DEF FreeStops, FreeRemoves, StopPrevious, RemovePrevious, RemoveByName,
                    ClearsTooLate, Runs, At
    <2>2. BoxOK'
        BY <1>9, CommandsKeepType
        DEF FreeStops, FreeRemoves, StopPrevious, RemovePrevious, RemoveByName, ClearsTooLate,
            Runs, StateOK, BoxOK
    <2> QED
        BY <1>0, <1>1, <2>1, <2>2, RunsKeepsType
<1>10. CASE Run(w)
    <2>1. ~At(w, "idle") /\ th[w].d \in Deploys
        BY <1>3, <1>10 DEF Run, Take, At
    <2>2. BoxOK'
        <3>1. \A s \in {"running", "created"} : [cid |-> th[w].d, state |-> s] \in Box
            BY <2>1 DEF Box
        <3> QED
            BY <1>10, <3>1 DEF Run, StateOK, BoxOK
    <2>3. PICK place \in {"record", "fail"}, swapped \in BOOLEAN :
             th' = [th EXCEPT ![w].at = place, ![w].swapped = swapped]
        BY <1>10 DEF Run
    <2>4. th' = [th EXCEPT ![w] = [th[w] EXCEPT !.at = place, !.swapped = swapped]]
        BY <1>0, <2>3 DEF StateOK, ThreadsOK
    <2>5. /\ [th[w] EXCEPT !.at = place, !.swapped = swapped] \in Thread
          /\ [th[w] EXCEPT !.at = place, !.swapped = swapped].d = th[w].d
        BY <1>1 DEF Thread
    <2>6. ThreadsOK'
        BY <1>0, <2>1, <2>4, <2>5 DEF StateOK, ThreadsOK, Threads, At
    <2> QED
        BY <1>10, <2>2, <2>6, UntouchedKeepsType DEF Run, StateOK
<1>11. CASE Finish(w) \/ Hold(w) \/ Fail(w)
    <2>1. ~At(w, "idle")
        BY <1>11 DEF Finish, Hold, Fail, At
    <2> QED
        BY <1>0, <1>1, <1>11, <2>1, MarksKeepsType DEF Finish, Hold, Fail
<1> QED
    BY <1>2, <1>4, <1>5, <1>6, <1>7, <1>8, <1>9, <1>10, <1>11 DEF RunDeploy

\* Every upload and every button keeps the types.
LEMMA UploadKeepsTypes == StateOK /\ Upload => StateOK'
<1> SUFFICES ASSUME StateOK, Upload PROVE StateOK'
    OBVIOUS
<1>1. CASE Enqueue(app.id) /\ UNCHANGED row
    <2>1. app.id \in 0 .. MaxIds
        BY DEF StateOK, RowOK, Row
    <2> QED
        BY <1>1, <2>1, EnqueueKeepsType, UntouchedKeepsType DEF Upload, StateOK
<1>2. CASE /\ lastId < MaxIds /\ Enqueue(lastId + 1) /\ lastId' = lastId + 1
           /\ app' = [NoRow EXCEPT !.id = lastId + 1]
    <2>1. lastId + 1 \in 0 .. MaxIds
        BY <1>2 DEF StateOK, RowOK
    <2>2. [NoRow EXCEPT !.id = lastId + 1] \in Row
        BY <2>1 DEF NoRow, Row
    <2>3. RowOK'
        BY <1>2, <2>1, <2>2 DEF RowOK
    <2> QED
        BY <1>2, <2>1, <2>3, EnqueueKeepsType, UntouchedKeepsType DEF Upload, StateOK
<1> QED
    BY <1>1, <1>2 DEF Upload

LEMMA PressKeepsTypes ==
    ASSUME StateOK, NEW c \in Clients, Press(c) PROVE StateOK'
<1>1. {"replace", "stop", "start", "apply", "delete"} \subseteq Places
    BY DEF Places
<1> QED
    BY <1>1, NewRows, PressedKeepsType
    DEF Press, Replace, Stop, Start, SaveSetting, RemoveSetting, Delete

LEMMA ServeKeepsTypes ==
    ASSUME StateOK, NEW c \in Clients, Serve(c) PROVE StateOK'
<1>0. c \in Threads /\ ~At(c, "idle")
    BY DEF Threads, Serve, ReplaceStops, ReplaceStatus, ReplaceQueues, StopStops, StartStarts,
           StartStatus, Apply, Withdraw, WithdrawApp, Restart, Settle, DeleteStops, DeleteRm,
           DeleteImage, DeleteRow, At
<1>1. {"idle", "replace_status", "replace_queue", "started", "not_started", "withdraw", "restart",
       "withdraw_app", "settle", "delete_rm", "delete_image", "delete_row"} \subseteq Places
    BY DEF Places
<1>2. CASE \/ ReplaceStops(c) \/ StopStops(c) \/ StartStarts(c) \/ Withdraw(c) \/ Restart(c)
           \/ DeleteStops(c) \/ DeleteRm(c)
    <2>1. /\ \E next \in {"replace_status", "idle", "started", "not_started", "withdraw_app",
                          "settle", "delete_rm", "delete_image"} : GoOn(c, next)
          /\ UNCHANGED <<row, deploy, images, host, queue>>
        BY <1>2 DEF ReplaceStops, StopStops, StartStarts, Withdraw, Restart, DeleteStops,
                    DeleteRm, Runs
    <2>2. BoxOK'
        BY <1>2, CommandsKeepType DEF ReplaceStops, StopStops, StartStarts, Withdraw, Restart,
                                      DeleteStops, DeleteRm, Runs
    <2> QED
        BY <1>0, <1>1, <2>1, <2>2, RunsKeepsType
<1>3. CASE ReplaceStatus(c) \/ StartStatus(c) \/ WithdrawApp(c)
    BY <1>0, <1>1, <1>3, NewRows, WritesKeepsType DEF ReplaceStatus, StartStatus, WithdrawApp
<1>4. CASE ReplaceQueues(c)
    <2>1. app.id \in 0 .. MaxIds
        BY DEF StateOK, RowOK, Row
    <2>2. DeploysOK' /\ QueueOK'
        BY <1>4, <2>1, EnqueueKeepsType, UntouchedKeepsType DEF ReplaceQueues, StateOK
    <2>3. ThreadsOK'
        BY <1>0, <1>1, <1>4, GoingOnKeepsType DEF ReplaceQueues
    <2> QED
        BY <1>4, <2>2, <2>3, UntouchedKeepsType DEF ReplaceQueues, StateOK
<1>5. CASE Apply(c)
    <2>1. \A x \in {IdleThread, Holding("withdraw"), Holding("restart")} : x \in Thread
        BY <1>1, NewThreads DEF StateOK
    <2>2. \/ th' = [th EXCEPT ![c] = IdleThread]
          \/ th' = [th EXCEPT ![c] = Holding("withdraw")]
          \/ th' = [th EXCEPT ![c] = Holding("restart")]
        BY <1>5 DEF Apply
    <2>3. ThreadsOK'
        BY <1>0, <2>1, <2>2 DEF StateOK, ThreadsOK, Threads, At
    <2> QED
        BY <1>5, <2>3, UntouchedKeepsType DEF Apply, StateOK
<1>6. CASE Settle(c)
    <2>1. \A d \in Deploys : [deploy[d] EXCEPT !.status = "live"] \in Deploy
        BY DEF StateOK, DeploysOK, Deploy
    <2>2. DeploysOK'
        BY <1>6, <2>1 DEF Settle, StateOK, DeploysOK
    <2>3. ThreadsOK'
        BY <1>0, <1>1, <1>6, GoingOnKeepsType DEF Settle
    <2> QED
        BY <1>6, <2>2, <2>3, UntouchedKeepsType DEF Settle, StateOK
<1>7. CASE DeleteImage(c)
    <2>1. ThreadsOK'
        BY <1>0, <1>1, <1>7, GoingOnKeepsType DEF DeleteImage
    <2>2. ImagesOK'
        BY <1>7 DEF DeleteImage, StateOK, ImagesOK
    <2> QED
        BY <1>7, <2>1, <2>2, UntouchedKeepsType DEF DeleteImage, StateOK
<1>8. CASE DeleteRow(c)
    <2>1. \A d \in Deploys : [deploy[d] EXCEPT !.gone = TRUE] \in Deploy
        BY DEF StateOK, DeploysOK, Deploy
    <2>2. DeploysOK'
        BY <1>8, <2>1 DEF DeleteRow, StateOK, DeploysOK
    <2>3. ThreadsOK'
        BY <1>0, <1>1, <1>8, GoingOnKeepsType DEF DeleteRow
    <2>4. RowOK'
        BY <1>8, NewRows DEF DeleteRow, StateOK, RowOK
    <2> QED
        BY <1>8, <2>2, <2>3, <2>4, UntouchedKeepsType DEF DeleteRow, StateOK
<1> QED
    BY <1>2, <1>3, <1>4, <1>5, <1>6, <1>7, <1>8 DEF Serve

\* And a command that is answered too late.
LEMMA LosesKeepsTypes == StateOK /\ Loses => StateOK'
<1> SUFFICES ASSUME StateOK, Loses PROVE StateOK'
    OBVIOUS
<1>1. ASSUME NEW w \in Workers, RunsTooLate(w) PROVE StateOK'
    <2>1. /\ w \in Threads /\ ~At(w, "idle") /\ "fail" \in Places
          /\ GoOn(w, "fail") /\ UNCHANGED <<row, deploy, images, host, queue>>
        BY <1>1 DEF RunsTooLate, Threads, Places, At
    <2>2. th[w].d \in Deploys
        BY <2>1 DEF StateOK, ThreadsOK
    <2>3. BoxOK'
        <3>1. \A s \in {"running", "created"} : [cid |-> th[w].d, state |-> s] \in Box
            BY <2>2 DEF Box
        <3>2. NoBox \in Box
            BY DEF Box
        <3>3. \E s \in {"running", "created"} : box' \in {NoBox, [cid |-> th[w].d, state |-> s]}
            BY <1>1 DEF RunsTooLate
        <3> QED
            BY <3>1, <3>2, <3>3 DEF BoxOK
    <2> QED
        BY <2>1, <2>3, RunsKeepsType
<1>2. ASSUME NEW c \in Clients, ServesTooLate(c) PROVE StateOK'
    <2>1. /\ c \in Threads /\ ~At(c, "idle") /\ "idle" \in Places
          /\ GoOn(c, "idle") /\ UNCHANGED <<row, deploy, images, host, queue>>
        BY <1>2 DEF ServesTooLate, Threads, Places, At
    <2>2. BoxOK'
        BY <1>2, CommandsKeepType DEF ServesTooLate, StateOK, BoxOK
    <2> QED
        BY <2>1, <2>2, RunsKeepsType
<1> QED
    BY <1>1, <1>2 DEF Loses

\* So do Docker and a launcher that dies.
LEMMA EnvironmentKeepsTypes == StateOK /\ Environment => StateOK'
<1> SUFFICES ASSUME StateOK, Environment PROVE StateOK'
    OBVIOUS
<1>1. ASSUME NEW s \in {"running", "dead"}, box.state # "none"
      PROVE  [box EXCEPT !.state = s] \in Box
    BY <1>1 DEF StateOK, BoxOK, Box, NoBox
<1>2. CASE Exits \/ Revived
    <2>1. BoxOK'
        BY <1>1, <1>2 DEF Exits, Revived, BoxOK
    <2> QED
        BY <1>2, <2>1, UntouchedKeepsType DEF Exits, Revived, OnlyBox, StateOK
<1>3. CASE DaemonDown
    <2>1. BoxOK'
        BY <1>1, <1>3 DEF DaemonDown, StateOK, BoxOK
    <2>2. HostOK'
        BY <1>3 DEF DaemonDown, StateOK, HostOK
    <2> QED
        BY <1>3, <2>1, <2>2, UntouchedKeepsType DEF DaemonDown, StateOK
<1>4. CASE DaemonUp
    <2>1. HostOK'
        BY <1>4 DEF DaemonUp, StateOK, HostOK
    <2> QED
        BY <1>4, <2>1, UntouchedKeepsType DEF DaemonUp, StateOK
<1>5. CASE Crash
    <2>1. IdleThread \in Thread /\ IdleThread.at = "idle"
        BY NewThreads DEF StateOK, IdleThread
    <2>2. ThreadsOK'
        BY <1>5, <2>1 DEF Crash, ThreadsOK, Threads, At
    <2>3. HostOK' /\ QueueOK'
        BY <1>5 DEF Crash, StateOK, HostOK, QueueOK
    <2> QED
        BY <1>5, <2>2, <2>3, UntouchedKeepsType DEF Crash, StateOK
<1> QED
    BY <1>2, <1>3, <1>4, <1>5 DEF Environment

-----------------------------------------------------------------------------
(* The theorems *)

LEMMA StateIsInductive == StateOK /\ [Next]_vars => StateOK'
<1>1. StateOK /\ Next => StateOK'
    BY BuildKeepsTypes, UploadKeepsTypes, PressKeepsTypes, ServeKeepsTypes, EnvironmentKeepsTypes,
       LosesKeepsTypes
    DEF Next, Calls
<1>2. StateOK /\ UNCHANGED vars => StateOK'
    BY UntouchedKeepsType DEF vars, StateOK
<1> QED
    BY <1>1, <1>2

LEMMA StateOKAtFirst == Init => StateOK
<1> SUFFICES ASSUME Init PROVE StateOK
    OBVIOUS
<1>1. RowOK
    BY DEF Init, RowOK, NoRow, Row
<1>2. IdleThread \in Thread /\ IdleThread.at = "idle"
    BY <1>1, NewThreads DEF IdleThread
<1>3. ThreadsOK
    BY <1>2 DEF Init, ThreadsOK, Threads, At
<1>4. DeploysOK
    BY DEF Init, DeploysOK, NoDeploy, Deploy
<1>5. BoxOK /\ ImagesOK /\ HostOK /\ QueueOK
    BY DEF Init, BoxOK, Box, ImagesOK, HostOK, QueueOK
<1> QED
    BY <1>1, <1>3, <1>4, <1>5 DEF StateOK

\* The type invariant, for every value of the constants.  It is inductive only
\* together with this: whoever builds has a deploy to build.
THEOREM TypeCorrect == Spec => []TypeOK
<1> DEFINE IInv == StateOK /\ met \in BOOLEAN
<1>1. Init => IInv
    BY StateOKAtFirst DEF Init
<1>2. IInv /\ [Next]_vars => IInv'
    <2>1. Remembers => met' \in BOOLEAN
        BY DEF Remembers
    <2> QED
        BY <2>1, StateIsInductive DEF Next, Loses, vars
<1>3. IInv => TypeOK
    BY DEF StateOK, RowOK, DeploysOK, BoxOK, ImagesOK, HostOK, QueueOK, ThreadsOK, Row, Deploy,
           Box, Thread, TypeOK
<1> HIDE DEF IInv
<1> QED
    BY <1>1, <1>2, <1>3, PTL DEF Spec

\* A docker command brings no container into being.
LEMMA CommandsLeaveNameFree ==
    ASSUME NEW cid, box = NoBox, DockerStop(cid) \/ DockerRm(cid) \/ DockerStart(cid)
    PROVE  box' = NoBox
    BY DEF DockerStop, DockerRm, DockerStart, Commanded, Reached

\* Nor does anything but a build worker.
LEMMA OthersLeaveNameFree ==
    ASSUME box = NoBox,
           Upload \/ (\E c \in Clients : Press(c) \/ Serve(c)) \/ Environment
    PROVE  box' = NoBox
<1>1. ASSUME NEW c \in Clients, Press(c) PROVE box' = NoBox
    BY <1>1 DEF Press, Replace, Stop, Start, SaveSetting, RemoveSetting, Delete, Pressed, docker
<1>2. ASSUME NEW c \in Clients, Serve(c) PROVE box' = NoBox
    <2>1. CASE \/ ReplaceStops(c) \/ StopStops(c) \/ StartStarts(c) \/ Withdraw(c) \/ Restart(c)
               \/ DeleteStops(c) \/ DeleteRm(c)
        BY <2>1, CommandsLeaveNameFree
        DEF ReplaceStops, StopStops, StartStarts, Withdraw, Restart, DeleteStops, DeleteRm, Runs
    <2>2. CASE ~(\/ ReplaceStops(c) \/ StopStops(c) \/ StartStarts(c) \/ Withdraw(c) \/ Restart(c)
                 \/ DeleteStops(c) \/ DeleteRm(c))
        BY <1>2, <2>2 DEF Serve, ReplaceStatus, ReplaceQueues, StartStatus, Apply, WithdrawApp,
                          Settle, DeleteImage, DeleteRow, Writes, docker
    <2> QED
        BY <2>1, <2>2
<1>3. ASSUME Environment PROVE box' = NoBox
    BY <1>3 DEF Environment, Exits, Revived, DaemonDown, DaemonUp, Crash, docker, NoBox
<1>4. ASSUME Upload PROVE box' = NoBox
    BY <1>4 DEF Upload, docker
<1> QED
    BY <1>1, <1>2, <1>3, <1>4

\* The one build worker comes to docker run from the removal of what had the
\* name, and leaves it when it takes the name itself.
LEMMA NameFreeIsInductive ==
    ASSUME StateOK, NameIsFree, Next, ~OutageAnyTime, \A v, w \in Workers : v = w
    PROVE  NameIsFree'
<1> SUFFICES ASSUME NEW w \in Workers, th'[w].at = "run" PROVE box' = NoBox
    BY DEF NameIsFree, At
<1>0. w \in Threads /\ w \notin Clients /\ th[w] \in Thread
    BY DEF StateOK, ThreadsOK, Threads
<1>1. ASSUME th'[w] = th[w] PROVE box = NoBox
    BY <1>1 DEF NameIsFree, At
<1>2. ASSUME Upload PROVE box' = NoBox
    BY <1>1, <1>2, OthersLeaveNameFree DEF Upload
<1>3. ASSUME NEW c \in Clients, Press(c) PROVE box' = NoBox
    <2>1. \E x : th' = [th EXCEPT ![c] = x]
        BY <1>3 DEF Press, Replace, Stop, Start, SaveSetting, RemoveSetting, Delete, Pressed
    <2>2. th'[w] = th[w]
        BY <1>0, <2>1 DEF StateOK, ThreadsOK
    <2> QED
        BY <1>1, <1>3, <2>2, OthersLeaveNameFree
<1>4. ASSUME NEW c \in Clients, Serve(c) PROVE box' = NoBox
    <2>1. \E x : th' = [th EXCEPT ![c] = x]
        BY <1>4 DEF Serve, ReplaceStops, ReplaceStatus, ReplaceQueues, StopStops, StartStarts,
                    StartStatus, Apply, Withdraw, WithdrawApp, Restart, Settle, DeleteStops,
                    DeleteRm, DeleteImage, DeleteRow, Runs, Writes, GoOn
    <2>2. th'[w] = th[w]
        BY <1>0, <2>1 DEF StateOK, ThreadsOK
    <2> QED
        BY <1>1, <1>4, <2>2, OthersLeaveNameFree
<1>5. ASSUME Environment PROVE box' = NoBox
    <2>1. CASE Crash
        BY <1>0, <2>1 DEF Crash, IdleThread
    <2>2. CASE ~Crash
        BY <1>1, <1>5, <2>2, OthersLeaveNameFree
        DEF Environment, Exits, Revived, DaemonDown, DaemonUp, OnlyBox
    <2> QED
        BY <2>1, <2>2
<1>6. ASSUME RunDeploy(w), daemon = "up" PROVE box' = NoBox
    <2>1. CASE RemoveByName(w)
        BY <1>6, <2>1 DEF RemoveByName, Runs, DockerRm, Commanded, Reached
    <2>2. ASSUME ~RemoveByName(w) PROVE FALSE
        <3>1. CASE Take(w)
            BY <1>0, <3>1 DEF Take, At, Holding, IdleThread, StateOK, ThreadsOK
        <3>2. CASE Run(w)
            BY <1>0, <3>2 DEF Run, StateOK, ThreadsOK, Thread
        <3>3. ASSUME NEW next, next # "run", GoOn(w, next) PROVE FALSE
            BY <1>0, <3>3 DEF GoOn, IdleThread, StateOK, ThreadsOK, Thread
        <3> QED
            BY <1>6, <2>2, <3>1, <3>2, <3>3
            DEF RunDeploy, MarkBuilding, Clear, FreeStops, FreeRemoves, Declare, Build, Check,
                StopPrevious, RemovePrevious, ClearsTooLate, Record, Verify, Finish, FinishApp, Hold, HoldApp, Fail, FailApp, Runs, Writes,
                Marks
    <2> QED
        BY <2>1, <2>2
<1>7. ASSUME Loses PROVE box' = NoBox
    <2>1. ASSUME NEW v \in Workers, RunsTooLate(v) PROVE FALSE
        <3>1. v = w /\ GoOn(w, "fail")
            BY <2>1 DEF RunsTooLate
        <3> QED
            BY <1>0, <3>1 DEF GoOn, StateOK, ThreadsOK, Thread
    <2>2. ASSUME NEW c \in Clients, ServesTooLate(c) PROVE box' = NoBox
        <3>1. th'[w] = th[w]
            BY <1>0, <2>2 DEF ServesTooLate, GoOn, StateOK, ThreadsOK
        <3> QED
            BY <1>1, <2>2, <3>1, CommandsLeaveNameFree DEF ServesTooLate
    <2> QED
        BY <1>7, <2>1, <2>2 DEF Loses
<1> QED
    BY <1>2, <1>3, <1>4, <1>5, <1>6, <1>7 DEF Next, Calls

\* With one build worker, and if nobody needs the daemon while it is away, docker
\* run finds the app's name free: whatever the buttons do meanwhile, however
\* often the launcher dies between docker run and the row, and whatever is left
\* of a container that could not be started (deployer.py:297,
\* remove_container_by_name).
THEOREM NameFree ==
    ASSUME ~OutageAnyTime, \A v, w \in Workers : v = w PROVE Spec => []NameIsFree
<1> DEFINE IInv == StateOK /\ NameIsFree
<1>1. Init => IInv
    BY StateOKAtFirst DEF Init, NameIsFree
<1>2. IInv /\ [Next]_vars => IInv'
    <2>1. IInv /\ Next => NameIsFree'
        BY NameFreeIsInductive
    <2>2. NameIsFree /\ UNCHANGED vars => NameIsFree'
        BY DEF NameIsFree, At, vars, docker
    <2> QED
        BY <2>1, <2>2, StateIsInductive
<1>3. IInv => NameIsFree
    OBVIOUS
<1> HIDE DEF IInv
<1> QED
    BY <1>1, <1>2, <1>3, PTL DEF Spec

-----------------------------------------------------------------------------
(* What the launcher knows of its container, while one thread at a time is   *)
(* busy with the app                                                          *)

\* A deploy that has been taken from the queue.
Begun(d) == deploy[d].status \notin {"unborn", "queued"}

\* The executor's queue holds each deploy once, and none that was begun.
Fresh == /\ \A i \in 1 .. Len(queue) : deploy[queue[i]].status = "queued"
         /\ \A i, j \in 1 .. Len(queue) : queue[i] = queue[j] => i = j

\* Whoever is busy is busy with the app that is there, and so is the queue.
SameApp == /\ app.id = None => app = NoRow
           /\ queue # << >> => app.id # None
           /\ \A t \in Threads : ~At(t, "idle") => th[t].id = app.id /\ app.id # None

\* A container is one of a deploy that was begun, and the row never names one
\* that docker run could not start.
Sound == /\ \A d \in {app.cid, box.cid} \ {None} : Begun(d)
         /\ box.state = "created" => box.cid # app.cid

\* What the three invariants say, without the exceptions.
Remembered == box.cid \notin {None, app.cid} /\ box.state # "created" =>
                  crashes > 0 /\ deploy[box.cid].status = "building"
LiveRuns    == app.status = "live" => box.cid = app.cid /\ MayRun
StoppedRests == app.status = "stopped" /\ box.cid = app.cid => ~MayRun
AtRest      == LiveRuns /\ StoppedRests

\* Where a build worker still works on the old container's side of the swap.
BeforeRun == {"mark", "clear", "free", "free_rm", "declare", "build", "check", "stop", "rm", "rm_name", "run"}

\* What a build worker knows at each place.
Builds(w) ==
    /\ th[w].d # None /\ Begun(th[w].d)
    /\ IF At(w, "mark") THEN AtRest ELSE app.status = "building"
    /\ th[w].at \in BeforeRun =>
          /\ th[w].cid = app.cid /\ ~th[w].swapped
          /\ th[w].d \notin {app.cid, box.cid}
          /\ deploy[th[w].d].status = "building"
    /\ At(w, "run") => box = NoBox
    /\ At(w, "record") => /\ box.cid = th[w].d /\ MayRun /\ th[w].swapped
                          /\ app.cid # th[w].d /\ deploy[th[w].d].status = "building"
    /\ th[w].at \in {"verify", "finish", "finish_app"} =>
          box.cid = th[w].d /\ MayRun /\ app.cid = th[w].d /\ th[w].swapped
    /\ th[w].at \in {"hold", "hold_app"} => th[w].cid = app.cid /\ th[w].d # box.cid
    /\ th[w].at \in {"fail", "fail_app"} =>
          /\ ~th[w].swapped => th[w].cid = app.cid
          /\ box.cid = th[w].d => box.cid = app.cid \/ box.state = "created"

\* What a button knows at each place.
Presses(c) ==
    /\ th[c].cid = app.cid
    /\ th[c].at \in {"replace", "replace_queue", "start", "not_started", "apply", "withdraw",
                     "restart", "settle"} => AtRest
    /\ At(c, "replace_status") /\ box.cid = app.cid => ~MayRun
    /\ At(c, "stop") => app.status = "stopped"
    /\ At(c, "started") => box.cid = app.cid /\ MayRun
    /\ At(c, "restart") => app.status = "live"
    /\ th[c].at \in {"delete_image", "delete_row"} /\ box.cid = app.cid => box.cid = None

Knows(t) == /\ t \in Workers => Builds(t)
            /\ t \in Clients => Presses(t)
            /\ t \in Clients \/ ~At(t, "record") => Remembered

Calm == /\ ~Overlap
        /\ Fresh /\ SameApp /\ Sound
        /\ \A t \in Threads : ~At(t, "idle") => Knows(t)
        /\ Quiet => Remembered /\ AtRest

Undisturbed == met \/ Calm

-----------------------------------------------------------------------------
(* One thread at a time *)

\* A thread that goes on keeps its locals, and no other thread moves.
Moves(t, next) ==
    /\ \A s \in Threads : s # t => th'[s] = th[s]
    /\ th'[t].at = next
    /\ next # "idle" => /\ th'[t].id = th[t].id /\ th'[t].cid = th[t].cid
                        /\ th'[t].d = th[t].d /\ th'[t].swapped = th[t].swapped

LEMMA GoOnMoves ==
    ASSUME StateOK, NEW t \in Threads, NEW next \in Places, GoOn(t, next)
    PROVE  Moves(t, next)
<1>1. th[t] \in Thread /\ th \in [Threads -> Thread]
    BY DEF StateOK, ThreadsOK
<1>2. CASE next = "idle"
    BY <1>1, <1>2 DEF GoOn, Moves, IdleThread
<1>3. CASE next # "idle"
    <2>1. th'[t] = [th[t] EXCEPT !.at = next]
        BY <1>1, <1>3 DEF GoOn
    <2>2. /\ th'[t].at = next /\ th'[t].id = th[t].id /\ th'[t].cid = th[t].cid
          /\ th'[t].d = th[t].d /\ th'[t].swapped = th[t].swapped
        BY <1>1, <2>1 DEF Thread
    <2> QED
        BY <1>1, <2>2 DEF GoOn, Moves
<1> QED
    BY <1>2, <1>3

\* While it is quiet but for one thread, that thread is the only one to ask.
LEMMA OthersRest ==
    ASSUME Calm, NEW t \in Threads, ~At(t, "idle")
    PROVE  /\ \A s \in Threads : s # t => At(s, "idle")
           /\ Knows(t) /\ th[t].id = app.id /\ app.id # None
           /\ t \in Clients => queue = << >>
BY DEF Calm, Overlap, SameApp

LEMMA OneIsEnough ==
    ASSUME NEW t \in Threads, \A s \in Threads : s # t => At(s, "idle"),
           ~Overlap, Fresh, Sound, app.id = None => app = NoRow, queue # << >> => app.id # None,
           At(t, "idle") => Remembered /\ AtRest,
           ~At(t, "idle") => Knows(t) /\ th[t].id = app.id /\ app.id # None
    PROVE  Calm
<1>1. \A s \in Threads : ~At(s, "idle") => s = t
    OBVIOUS
<1>2. Quiet => At(t, "idle")
    BY DEF Quiet
<1>3. SameApp
    BY <1>1 DEF SameApp
<1> QED
    BY <1>1, <1>2, <1>3 DEF Calm

\* The same, about the state after a step in which one thread went on.
LEMMA GoneOn ==
    ASSUME StateOK, Calm, NEW t \in Threads, ~At(t, "idle"), NEW next \in Places, GoOn(t, next),
           ~Overlap', Fresh', Sound', app'.id = app.id,
           next = "idle" => Remembered' /\ AtRest',
           next # "idle" => Knows(t)'
    PROVE  Calm'
<1>1. Moves(t, next)
    BY GoOnMoves
<1>2. /\ \A s \in Threads : s # t => At(s, "idle")
      /\ th[t].id = app.id /\ app.id # None
    BY OthersRest
<1>3. \A s \in Threads : s # t => At(s, "idle")'
    BY <1>1, <1>2 DEF Moves, At
<1>4. At(t, "idle")' <=> next = "idle"
    BY <1>1 DEF Moves, At
<1>5. next # "idle" => th'[t].id = app'.id /\ app'.id # None
    BY <1>1, <1>2 DEF Moves
<1>6. \A s \in Threads : ~At(s, "idle")' => s = t
    BY <1>3
<1>7. Quiet' => At(t, "idle")'
    BY DEF Quiet
<1>8. SameApp'
    BY <1>2, <1>4, <1>5, <1>6 DEF SameApp
<1> QED
    BY <1>4, <1>6, <1>7, <1>8 DEF Calm

\* What a step that leaves the deploys and the queue alone cannot disturb.
LEMMA FreshStays ==
    ASSUME Fresh, UNCHANGED <<deploy, queue>> PROVE Fresh'
BY DEF Fresh

LEMMA SoundStays ==
    ASSUME Sound, UNCHANGED <<deploy, box>>, app'.cid = app.cid PROVE Sound'
BY DEF Sound, Begun

LEMMA RestStays ==
    ASSUME AtRest, app'.status = app.status, app'.cid = app.cid, UNCHANGED box PROVE AtRest'
BY DEF AtRest, LiveRuns, StoppedRests, MayRun

LEMMA RememberedStays ==
    ASSUME Remembered, UNCHANGED <<deploy, box, crashes>>, app'.cid = app.cid PROVE Remembered'
BY DEF Remembered

\* A new status is a row with the same container.
LEMMA WithFields ==
    ASSUME StateOK, NEW s
    PROVE  With(s).status = s /\ With(s).cid = app.cid /\ With(s).id = app.id
BY DEF With, StateOK, RowOK, Row

\* A step of a build worker that is a write of the app's status, as by
\* MarkBuilding, FinishApp, HoldApp and FailApp.
LEMMA StatusWritten ==
    ASSUME StateOK, Calm, NEW w \in Workers, ~At(w, "idle"), ~At(w, "record"),
           NEW s \in {"building", "live", "failed", "stopped", "needs_setup"},
           NEW next \in {"idle", "clear"}, Writes(w, With(s), next), ~Overlap',
           next = "idle" => (s \in {"failed", "needs_setup"} \/ (s = "live" /\ box.cid = app.cid /\ MayRun)),
           next = "clear" => At(w, "mark") /\ s = "building"
    PROVE  Calm'
<1>1. w \in Threads /\ w \notin Clients /\ next \in Places
    BY DEF Threads, Places
<1>2. th[w].id = app.id /\ Builds(w) /\ Remembered
    BY <1>1, OthersRest DEF Knows
<1>3. /\ app' = With(s) /\ UNCHANGED <<deploy, box, queue, crashes>>
      /\ app'.status = s /\ app'.cid = app.cid /\ app'.id = app.id
    BY <1>2, WithFields DEF Writes, docker, host
<1>4. Fresh' /\ Sound' /\ Remembered'
    BY <1>2, <1>3, FreshStays, SoundStays, RememberedStays DEF Calm
<1>5. next = "idle" => AtRest'
    BY <1>3 DEF AtRest, LiveRuns, StoppedRests, MayRun
<1>6. next # "idle" => Knows(w)'
    <2> SUFFICES ASSUME next = "clear" PROVE Builds(w)'
        BY <1>1, <1>4 DEF Knows
    <2>1. /\ th'[w].at = "clear" /\ th'[w].d = th[w].d /\ th'[w].cid = th[w].cid
          /\ th'[w].swapped = th[w].swapped
        BY <1>1, GoOnMoves DEF Writes, Moves
    <2>2. th[w].at = "mark"
        BY DEF At
    <2> QED
        BY <1>2, <1>3, <2>1, <2>2 DEF Builds, Begun, BeforeRun, At
<1> QED
    BY <1>1, <1>3, <1>4, <1>5, <1>6, GoneOn DEF Writes

\* A step of a build worker before docker run that leaves everything the app
\* has alone, except what is declared of its settings.
LEMMA OnTheWayToRun ==
    ASSUME StateOK, Calm, NEW w \in Workers, th[w].at \in {"clear", "declare", "build", "check"},
           NEW next \in {"declare", "free", "build", "check", "stop", "rm_name", "hold", "fail"}, GoOn(w, next),
           ~Overlap', app'.id = app.id, app'.cid = app.cid, app'.status = app.status,
           UNCHANGED <<deploy, box, queue, crashes>>
    PROVE  Calm'
<1>1. w \in Threads /\ w \notin Clients /\ next \in Places /\ ~At(w, "idle") /\ next # "idle"
    BY DEF Threads, Places, At
<1>2. Builds(w) /\ Remembered
    BY <1>1, OthersRest DEF Knows, At
<1>3. Fresh' /\ Sound' /\ Remembered'
    BY <1>2, FreshStays, SoundStays, RememberedStays DEF Calm
<1>4. /\ th'[w].at = next /\ th'[w].d = th[w].d /\ th'[w].cid = th[w].cid
      /\ th'[w].swapped = th[w].swapped
    BY <1>1, GoOnMoves DEF Moves
<1>5. Builds(w)'
    BY <1>2, <1>4 DEF Builds, Begun, BeforeRun, At
<1> QED
    BY <1>1, <1>3, <1>5, GoneOn DEF Knows

\* The docker commands with which a build worker frees the old files and clears
\* the way for its container: they touch the one the row names, or what has the
\* name, in time or not.
LEMMA WayIsCleared ==
    ASSUME StateOK, Calm, NEW w \in Workers, daemon = "up", ~Overlap',
           \/ FreeStops(w) \/ FreeRemoves(w) \/ StopPrevious(w) \/ RemovePrevious(w)
           \/ RemoveByName(w) \/ ClearsTooLate(w)
    PROVE  Calm'
<1> DEFINE ways == {"free_rm", "declare", "rm", "rm_name", "run", "fail"}
<1>1. PICK next \in ways : GoOn(w, next) /\ (next = "run" => RemoveByName(w))
    BY DEF FreeStops, FreeRemoves, StopPrevious, RemovePrevious, RemoveByName, ClearsTooLate, Runs
<1>2. /\ w \in Threads /\ w \notin Clients /\ next \in Places /\ ~At(w, "idle") /\ next # "idle"
      /\ th[w].at \in {"free", "free_rm", "stop", "rm", "rm_name"}
    BY DEF Threads, Places, At, FreeStops, FreeRemoves, StopPrevious, RemovePrevious,
           RemoveByName, ClearsTooLate
<1>3. Builds(w) /\ Remembered
    BY <1>2, OthersRest DEF Knows, At
<1>4. UNCHANGED <<app, deploy, queue, crashes>>
    BY DEF FreeStops, FreeRemoves, StopPrevious, RemovePrevious, RemoveByName, ClearsTooLate,
           Runs, row, host
<1>5. \/ box' = box /\ ~RemoveByName(w)
      \/ box' = NoBox
      \/ box' = [box EXCEPT !.state = "stopped"] /\ box.cid = app.cid /\ ~RemoveByName(w)
    <2>1. th[w].cid = app.cid
        BY <1>2, <1>3 DEF Builds, BeforeRun
    <2>2. CASE RemoveByName(w)
        BY <2>2 DEF RemoveByName, Runs, DockerRm, Commanded, Reached
    <2>3. CASE FreeStops(w) \/ FreeRemoves(w) \/ StopPrevious(w) \/ RemovePrevious(w)
        <3>1. ~RemoveByName(w)
            BY <2>3 DEF FreeStops, FreeRemoves, StopPrevious, RemovePrevious, RemoveByName, At
        <3> QED
            BY <2>1, <2>3, <3>1 DEF FreeStops, FreeRemoves, StopPrevious, RemovePrevious, Runs,
                                    DockerStop, DockerRm, Commanded, Reached
    <2>4. CASE ClearsTooLate(w)
        <3>1. ~RemoveByName(w)
            <4>1. th'[w].at = "fail"
                BY <1>2, <2>4, GoOnMoves DEF ClearsTooLate, Moves, Places
            <4>2. RemoveByName(w) => th'[w].at = "run"
                BY <1>2, GoOnMoves DEF RemoveByName, Runs, Moves, Places
            <4> QED
                BY <4>1, <4>2
        <3> QED
            BY <2>1, <2>4, <3>1 DEF ClearsTooLate, DockerStop, DockerRm, Commanded, Reached
    <2> QED
        BY <2>2, <2>3, <2>4
<1>6. box'.cid \in {box.cid, None} /\ (box'.state = "created" => box' = box)
    BY <1>5 DEF NoBox, StateOK, BoxOK, Box
<1>7. Fresh'
    BY <1>4, FreshStays DEF Calm
<1>8. Sound'
    BY <1>4, <1>6 DEF Calm, Sound, Begun
<1>9. Remembered'
    BY <1>3, <1>4, <1>5, <1>6 DEF Remembered, NoBox, StateOK, BoxOK, Box
<1>10. /\ th'[w].at = next /\ th'[w].d = th[w].d /\ th'[w].cid = th[w].cid
       /\ th'[w].swapped = th[w].swapped
    BY <1>1, <1>2, GoOnMoves DEF Moves
<1>11. box' = NoBox \/ next # "run"
    BY <1>1, <1>5
<1>12. Builds(w)'
    BY <1>2, <1>3, <1>4, <1>6, <1>10, <1>11 DEF Builds, Begun, BeforeRun, At, StateOK, BoxOK, Box
<1> QED
    BY <1>1, <1>2, <1>4, <1>7, <1>8, <1>9, <1>12, GoneOn DEF Knows

\* docker run: the container is the deploy's, and the row does not know it yet.
LEMMA RunStaysCalm ==
    ASSUME StateOK, Calm, NEW w \in Workers, daemon = "up", ~Overlap', Run(w)
    PROVE  Calm'
<1>1. w \in Threads /\ w \notin Clients /\ ~At(w, "idle") /\ th[w].at = "run"
    BY DEF Threads, At, Run
<1>2. /\ Builds(w) /\ Remembered /\ th[w].id = app.id /\ app.id # None
      /\ \A s \in Threads : s # w => At(s, "idle")
    BY <1>1, OthersRest DEF Knows, At
<1>3. box = NoBox /\ UNCHANGED <<app, deploy, queue, crashes>>
    BY <1>1, <1>2 DEF Builds, At, Run, row, host
<1> DEFINE started == Kind(w) # "refused"
<1>4. box' = [cid |-> th[w].d, state |-> IF started THEN "running" ELSE "created"]
    BY <1>3 DEF Run
<1>5. th' = [th EXCEPT ![w].at = IF started THEN "record" ELSE "fail", ![w].swapped = started]
    BY <1>3 DEF Run
<1>6. /\ th'[w].at = IF started THEN "record" ELSE "fail"
      /\ th'[w].swapped = started
      /\ th'[w].d = th[w].d /\ th'[w].cid = th[w].cid /\ th'[w].id = th[w].id
      /\ \A s \in Threads : s # w => th'[s] = th[s]
    <2>1. th \in [Threads -> Thread] /\ th[w] \in Thread
        BY <1>1 DEF StateOK, ThreadsOK
    <2> HIDE DEF started
    <2> QED
        BY <1>1, <1>5, <2>1 DEF Thread
<1> HIDE DEF started
<1>7. Fresh'
    BY <1>3, FreshStays DEF Calm
<1>8. /\ th[w].d # None /\ Begun(th[w].d) /\ th[w].d # app.cid /\ app.status = "building"
      /\ th[w].cid = app.cid /\ deploy[th[w].d].status = "building"
    BY <1>1, <1>2 DEF Builds, BeforeRun, At
<1>9. box'.cid = th[w].d /\ box'.state = IF started THEN "running" ELSE "created"
    BY <1>4
<1>10. Sound'
    BY <1>3, <1>8, <1>9 DEF Calm, Sound, Begun
<1>11. Builds(w)'
    BY <1>3, <1>6, <1>8, <1>9 DEF Builds, Begun, BeforeRun, At, MayRun
<1>12. ~started => Remembered'
    BY <1>9 DEF Remembered
<1>13. ~At(w, "idle")' /\ Knows(w)'
    BY <1>1, <1>6, <1>11, <1>12 DEF Knows, At
<1>14. \A s \in Threads : ~At(s, "idle")' => s = w
    BY <1>2, <1>6 DEF At
<1>15. SameApp'
    BY <1>2, <1>3, <1>6, <1>14 DEF SameApp
<1>16. ~Quiet'
    BY <1>1, <1>13 DEF Quiet
<1> QED
    BY <1>7, <1>10, <1>13, <1>14, <1>15, <1>16 DEF Calm

\* The row is told of the container.
LEMMA RecordStaysCalm ==
    ASSUME StateOK, Calm, NEW w \in Workers, ~Overlap', Record(w)
    PROVE  Calm'
<1>1. /\ w \in Threads /\ w \notin Clients /\ ~At(w, "idle") /\ th[w].at = "record"
      /\ "verify" \in Places /\ GoOn(w, "verify")
    BY DEF Threads, Places, At, Record, Writes
<1>2. Builds(w) /\ th[w].id = app.id
    BY <1>1, OthersRest DEF Knows
<1>3. UNCHANGED <<deploy, box, queue, crashes>>
    BY DEF Record, Writes, docker, host
<1>4. app'.cid = th[w].d /\ app'.status = app.status /\ app'.id = app.id
    BY <1>2 DEF Record, Writes, StateOK, RowOK, Row
<1>5. box.cid = th[w].d /\ MayRun /\ th[w].swapped /\ th[w].d # None /\ Begun(th[w].d)
    BY <1>1, <1>2 DEF Builds, At
<1>6. Fresh'
    BY <1>3, FreshStays DEF Calm
<1>7. Sound' /\ Remembered'
    BY <1>3, <1>4, <1>5 DEF Sound, Begun, MayRun, Remembered
<1>8. /\ th'[w].at = "verify" /\ th'[w].d = th[w].d /\ th'[w].cid = th[w].cid
      /\ th'[w].swapped = th[w].swapped
    BY <1>1, GoOnMoves DEF Moves
<1>9. Builds(w)'
    BY <1>1, <1>2, <1>3, <1>4, <1>5, <1>8 DEF Builds, Begun, BeforeRun, At, MayRun
<1> QED
    BY <1>1, <1>4, <1>6, <1>7, <1>9, GoneOn DEF Knows

\* Somebody answers, or nobody does.
LEMMA VerifyStaysCalm ==
    ASSUME StateOK, Calm, NEW w \in Workers, ~Overlap', Verify(w)
    PROVE  Calm'
<1>1. PICK next \in {"finish", "fail"} : GoOn(w, next)
    BY DEF Verify
<1>2. w \in Threads /\ w \notin Clients /\ ~At(w, "idle") /\ th[w].at = "verify" /\ next \in Places
    BY DEF Threads, Places, At, Verify
<1>3. Builds(w) /\ Remembered
    BY <1>2, OthersRest DEF Knows, At
<1>4. UNCHANGED <<app, deploy, box, queue, crashes>>
    BY DEF Verify, row, docker, host
<1>5. Fresh' /\ Sound' /\ Remembered'
    BY <1>3, <1>4, FreshStays, SoundStays, RememberedStays DEF Calm
<1>6. /\ th'[w].at = next /\ th'[w].d = th[w].d /\ th'[w].cid = th[w].cid
      /\ th'[w].swapped = th[w].swapped
    BY <1>1, <1>2, GoOnMoves DEF Moves
<1>7. Builds(w)'
    BY <1>2, <1>3, <1>4, <1>6 DEF Builds, Begun, BeforeRun, At, MayRun
<1> QED
    BY <1>1, <1>2, <1>4, <1>5, <1>7, GoneOn DEF Knows

\* The deploy's own status is written; its container is the row's by then, or
\* was never started, or was never made.
LEMMA MarkStaysCalm ==
    ASSUME StateOK, Calm, NEW w \in Workers, ~Overlap', Finish(w) \/ Hold(w) \/ Fail(w)
    PROVE  Calm'
<1>1. PICK s \in {"live", "failed", "needs_setup"}, next \in {"finish_app", "hold_app", "fail_app"} :
          /\ Marks(w, s, next)
          /\ \/ th[w].at = "finish" /\ next = "finish_app"
             \/ th[w].at = "hold" /\ next = "hold_app"
             \/ th[w].at = "fail" /\ next = "fail_app"
    BY DEF Finish, Hold, Fail, At
<1>2. /\ w \in Threads /\ w \notin Clients /\ next \in Places /\ next # "idle"
      /\ ~At(w, "idle") /\ ~At(w, "record")
    BY <1>1 DEF Threads, Places, At
<1>3. Builds(w) /\ Remembered
    BY <1>2, OthersRest DEF Knows
<1>4. UNCHANGED <<app, box, queue, crashes>> /\ SetDeploy(th[w].d, s)
    BY <1>1 DEF Marks, row, docker, host
<1>5. \A d \in Deploys : d # th[w].d => deploy'[d] = deploy[d]
    BY <1>4 DEF SetDeploy, StateOK, DeploysOK
<1>6. \A d \in Deploys : Begun(d) => Begun(d)'
    BY <1>4 DEF SetDeploy, StateOK, DeploysOK, Deploy, Begun
<1>7. th[w].d \in Deploys /\ Begun(th[w].d)
    BY <1>2, <1>3 DEF StateOK, ThreadsOK, Builds
<1>8. Fresh'
    <2>1. \A i \in 1 .. Len(queue) : queue[i] \in Deploys /\ queue[i] # th[w].d
        BY <1>7 DEF Calm, Fresh, Begun, StateOK, QueueOK
    <2> QED
        BY <1>4, <1>5, <2>1 DEF Calm, Fresh
<1>9. Sound'
    <2>1. app.cid \in {None} \cup Deploys /\ box.cid \in {None} \cup Deploys
        BY DEF StateOK, RowOK, Row, BoxOK, Box, NoBox
    <2> QED
        BY <1>4, <1>6, <2>1 DEF Calm, Sound
<1>10. Remembered'
    <2>1. box.cid \notin {None, app.cid} /\ box.state # "created" => box.cid # th[w].d
        BY <1>1, <1>3 DEF Builds, At
    <2>2. box.cid \in {None} \cup Deploys
        BY DEF StateOK, BoxOK, Box, NoBox
    <2> QED
        BY <1>3, <1>4, <1>5, <2>1, <2>2 DEF Remembered
<1>11. /\ th'[w].at = next /\ th'[w].d = th[w].d /\ th'[w].cid = th[w].cid
       /\ th'[w].swapped = th[w].swapped
    BY <1>1, <1>2, GoOnMoves DEF Moves, Marks
<1>12. Builds(w)'
    BY <1>1, <1>3, <1>4, <1>6, <1>7, <1>11 DEF Builds, BeforeRun, At, MayRun
<1> QED
    BY <1>1, <1>2, <1>4, <1>8, <1>9, <1>10, <1>12, GoneOn DEF Knows, Marks

\* A deploy is taken from the queue while nobody else is busy.
LEMMA TakeStaysCalm ==
    ASSUME StateOK, Calm, NEW w \in Workers, ~Overlap', Take(w)
    PROVE  Calm'
<1> DEFINE d == Head(queue)
<1>0. w \in Threads /\ w \notin Clients /\ At(w, "idle")
    BY DEF Threads, Take
<1>1. /\ d \in Deploys /\ deploy[d].status = "queued"
      /\ \A i \in 1 .. Len(queue') : queue'[i] = queue[i + 1] /\ i + 1 \in 1 .. Len(queue)
      /\ \A i \in 1 .. Len(queue') : queue'[i] # d /\ queue'[i] \in Deploys
    <2>1. queue \in Seq(Deploys) /\ queue # << >> /\ queue' = Tail(queue)
        BY DEF Take, StateOK, QueueOK
    <2>2. d = queue[1] /\ 1 \in 1 .. Len(queue) /\ d \in Deploys
        BY <2>1
    <2>3. \A i \in 1 .. Len(queue') : queue'[i] = queue[i + 1] /\ i + 1 \in 1 .. Len(queue) /\ i + 1 # 1
        BY <2>1
    <2>4. \A i \in 1 .. Len(queue) : queue[i] \in Deploys
        BY <2>1
    <2> HIDE DEF d
    <2> QED
        BY <2>2, <2>3, <2>4 DEF Calm, Fresh
<1>2. UNCHANGED <<app, box, crashes>> /\ (queue' # << >> => app.id # None) /\ app.id # None
    BY DEF Take, row, docker, host, Calm, SameApp
<1> HIDE DEF d
<1>3. CASE deploy[d].gone
    <2>1. UNCHANGED <<deploy, th>>
        BY <1>3 DEF Take, d
    <2>2. Fresh'
        BY <1>1, <2>1 DEF Calm, Fresh
    <2>3. Sound' /\ SameApp'
        BY <1>2, <2>1 DEF Calm, Sound, SameApp, Begun, At
    <2>4. \A t \in Threads : Knows(t) => Knows(t)'
        BY <1>2, <2>1 DEF Knows, Builds, Presses, At, Begun, Remembered, AtRest, LiveRuns,
                          StoppedRests, MayRun
    <2>5. Remembered /\ AtRest => Remembered' /\ AtRest'
        BY <1>2, <2>1 DEF Remembered, AtRest, LiveRuns, StoppedRests, MayRun
    <2> QED
        BY <2>1, <2>2, <2>3, <2>4, <2>5 DEF Calm, Quiet, At
<1>4. CASE ~deploy[d].gone
    <2>1. /\ th' = [th EXCEPT ![w] = [Holding("mark") EXCEPT !.d = d]]
          /\ deploy' = [deploy EXCEPT ![d].status = "building"]
        BY <1>4 DEF Take, SetDeploy, d
    <2>2. /\ th'[w].at = "mark" /\ th'[w].id = app.id /\ th'[w].cid = app.cid
          /\ th'[w].d = d /\ th'[w].swapped = FALSE
          /\ \A s \in Threads : s # w => th'[s] = th[s]
        BY <1>0, <2>1 DEF StateOK, ThreadsOK, Holding, IdleThread
    <2>3. \A s \in Threads : s # w => At(s, "idle") /\ At(s, "idle")'
        BY <1>0, <2>2 DEF Overlap, At
    <2>4. Remembered /\ AtRest
        BY <1>0, <2>3 DEF Calm, Quiet
    <2>5. /\ deploy'[d].status = "building"
          /\ \A e \in Deploys : e # d => deploy'[e] = deploy[e]
        BY <1>1, <2>1 DEF StateOK, DeploysOK, Deploy
    <2>6. Fresh'
        BY <1>1, <2>5 DEF Calm, Fresh
    <2>7. /\ app.cid \in {None} \cup Deploys /\ box.cid \in {None} \cup Deploys
          /\ app.cid # d /\ box.cid # d /\ d # None
        <3>1. d # None /\ ~Begun(d)
            BY <1>1 DEF Deploys, Begun
        <3>2. d \notin {app.cid, box.cid}
            BY <3>1 DEF Calm, Sound
        <3> QED
            BY <3>1, <3>2 DEF StateOK, RowOK, Row, BoxOK, Box, NoBox
    <2>8. Sound' /\ Remembered' /\ AtRest'
        BY <1>2, <2>4, <2>5, <2>7 DEF Calm, Sound, Begun, Remembered, AtRest, LiveRuns,
                                      StoppedRests, MayRun
    <2>9. Builds(w)'
        BY <1>2, <2>2, <2>5, <2>7, <2>8 DEF Builds, Begun, BeforeRun, At
    <2>10. SameApp' /\ ~Quiet'
        BY <1>0, <1>2, <2>2, <2>3 DEF SameApp, Quiet, At
    <2>11. \A s \in Threads : ~At(s, "idle")' => s = w
        BY <2>3
    <2> QED
        BY <1>0, <2>6, <2>8, <2>9, <2>10, <2>11 DEF Calm, Knows
<1> QED
    BY <1>3, <1>4

\* Every step of a build worker that finds the daemon up.
LEMMA BuildStaysCalm ==
    ASSUME StateOK, Calm, NEW w \in Workers, daemon = "up", ~Overlap', RunDeploy(w)
    PROVE  Calm'
<1>1. CASE Take(w)
    BY <1>1, TakeStaysCalm
<1>2. CASE \/ FreeStops(w) \/ FreeRemoves(w) \/ StopPrevious(w) \/ RemovePrevious(w)
           \/ RemoveByName(w) \/ ClearsTooLate(w)
    BY <1>2, WayIsCleared
<1>3. CASE Run(w)
    BY <1>3, RunStaysCalm
<1>4. CASE Record(w)
    BY <1>4, RecordStaysCalm
<1>5. CASE Verify(w)
    BY <1>5, VerifyStaysCalm
<1>6. CASE Finish(w) \/ Hold(w) \/ Fail(w)
    BY <1>6, MarkStaysCalm
<1>7. CASE Declare(w)
    <2>1. th[w].at = "declare" /\ GoOn(w, "build") /\ UNCHANGED <<deploy, box, queue, crashes>>
        BY <1>7 DEF Declare, Writes, At, docker, host
    <2>2. app'.id = app.id /\ app'.cid = app.cid /\ app'.status = app.status
        BY <1>7 DEF Declare, Writes, StateOK, RowOK, Row
    <2> QED
        BY <2>1, <2>2, OnTheWayToRun
<1>8. CASE Clear(w) \/ Build(w) \/ Check(w)
    <2>1. PICK next \in {"declare", "free", "check", "stop", "rm_name", "hold", "fail"} : GoOn(w, next)
        BY <1>8 DEF Clear, Build, Check
    <2>2. th[w].at \in {"clear", "build", "check"} /\ UNCHANGED <<app, deploy, box, queue, crashes>>
        BY <1>8 DEF Clear, Build, Check, At, row, docker, host
    <2> QED
        BY <2>1, <2>2, OnTheWayToRun
<1>9. CASE MarkBuilding(w)
    BY <1>9, StatusWritten DEF MarkBuilding, At
<1>10. CASE FinishApp(w)
    <2>1. w \in Threads /\ At(w, "finish_app") /\ ~At(w, "idle") /\ ~At(w, "record")
        BY <1>10 DEF FinishApp, Threads, At
    <2>2. box.cid = app.cid /\ MayRun
        BY <2>1, OthersRest DEF Knows, Builds, At
    <2> QED
        BY <1>10, <2>1, <2>2, StatusWritten DEF FinishApp
<1>11. CASE HoldApp(w) \/ FailApp(w)
    <2>1. w \in Threads /\ th[w].at \in {"hold_app", "fail_app"} /\ ~At(w, "idle") /\ ~At(w, "record")
        BY <1>11 DEF HoldApp, FailApp, Threads, At
    <2>2. th[w].at = "hold_app" \/ ~th[w].swapped => th[w].cid = app.cid
        BY <2>1, OthersRest DEF Knows, Builds
    <2>3. IsServing(th[w].cid) => box.cid = th[w].cid /\ MayRun
        BY DEF IsServing, Reached, MayRun
    <2>4. \E s \in {"live", "failed", "needs_setup"} :
              /\ Writes(w, With(s), "idle")
              /\ s = "live" => box.cid = app.cid /\ MayRun
        BY <1>11, <2>2, <2>3 DEF HoldApp, FailApp, At
    <2> QED
        BY <2>1, <2>4, StatusWritten
<1> QED
    BY <1>1, <1>2, <1>3, <1>4, <1>5, <1>6, <1>7, <1>8, <1>9, <1>10, <1>11 DEF RunDeploy

\* A deploy that is queued is new to everybody.
LEMMA EnqueuedIsNew ==
    ASSUME StateOK, Calm, NEW id \in 0 .. MaxIds, Enqueue(id)
    PROVE  /\ Fresh' /\ queue' # << >>
           /\ \A e \in Deploys : Begun(e) => deploy'[e] = deploy[e]
<1>1. PICK d \in Deploys, k \in Kinds :
        /\ deploy[d].status = "unborn"
        /\ deploy' = [deploy EXCEPT ![d] = [NoDeploy EXCEPT !.status = "queued", !.app = id,
                                                            !.kind = k]]
        /\ queue' = Append(queue, d)
    BY DEF Enqueue
<1>2. deploy'[d].status = "queued" /\ \A e \in Deploys : e # d => deploy'[e] = deploy[e]
    BY <1>1 DEF NoDeploy, StateOK, DeploysOK
<1>3. \A i \in 1 .. Len(queue) : queue[i] \in Deploys /\ queue[i] # d
    BY <1>1 DEF Calm, Fresh, StateOK, QueueOK
<1>4. /\ Len(queue') = Len(queue) + 1 /\ queue'[Len(queue) + 1] = d
      /\ \A i \in 1 .. Len(queue) : queue'[i] = queue[i]
      /\ queue' # << >> /\ Len(queue) \in Nat
    BY <1>1 DEF StateOK, QueueOK
<1>5. Fresh'
    <2>1. \A i \in 1 .. Len(queue') : i \in 1 .. Len(queue) \/ i = Len(queue) + 1
        BY <1>4
    <2>2. \A i \in 1 .. Len(queue') : deploy'[queue'[i]].status = "queued"
        BY <1>2, <1>3, <1>4, <2>1 DEF Calm, Fresh
    <2>3. \A i, j \in 1 .. Len(queue') : queue'[i] = queue'[j] => i = j
        BY <1>3, <1>4, <2>1 DEF Calm, Fresh
    <2> QED
        BY <2>2, <2>3 DEF Fresh
<1> QED
    BY <1>1, <1>2, <1>4, <1>5 DEF Begun

\* Nobody notices a deploy that is queued.
LEMMA NewDeployIsUnnoticed ==
    ASSUME StateOK, \A e \in Deploys : Begun(e) => deploy'[e] = deploy[e], UNCHANGED <<box, crashes>>
    PROVE  /\ Sound /\ app'.cid = app.cid => Sound'
           /\ Remembered /\ app'.cid = app.cid => Remembered'
           /\ \A t \in Threads : Knows(t) /\ UNCHANGED <<app, th>> => Knows(t)'
<1>1. \A e \in Deploys : Begun(e) => Begun(e)' /\ deploy'[e] = deploy[e]
    BY DEF Begun
<1>2. app.cid \in {None} \cup Deploys /\ box.cid \in {None} \cup Deploys
    BY DEF StateOK, RowOK, Row, BoxOK, Box, NoBox
<1>3. Sound /\ app'.cid = app.cid => Sound'
    BY <1>1, <1>2 DEF Sound
<1>4. Remembered /\ app'.cid = app.cid => Remembered'
    BY <1>1, <1>2 DEF Remembered, Begun
<1>5. ASSUME NEW t \in Threads, Knows(t), UNCHANGED <<app, th>> PROVE Knows(t)'
    <2>1. t \in Clients \/ ~At(t, "record") => Remembered'
        BY <1>4, <1>5 DEF Knows
    <2>2. t \in Clients => Presses(t)'
        BY <1>5 DEF Knows, Presses, At, AtRest, LiveRuns, StoppedRests, MayRun
    <2>3. ASSUME t \in Workers PROVE Builds(t)'
        <3>1. Builds(t) /\ th[t].d \in Deploys /\ Begun(th[t].d)
            BY <1>5, <2>3 DEF Knows, Builds, StateOK, ThreadsOK, Thread
        <3>2. deploy'[th[t].d] = deploy[th[t].d] /\ Begun(th[t].d)'
            BY <1>1, <1>5, <3>1
        <3> QED
            BY <1>5, <3>1, <3>2 DEF Builds, At, AtRest, LiveRuns, StoppedRests, MayRun
    <2> QED
        BY <1>5, <2>1, <2>2, <2>3 DEF Knows, At
<1> QED
    BY <1>3, <1>4, <1>5

\* An upload, of an app that is there or of a new one.
LEMMA UploadStaysCalm ==
    ASSUME StateOK, Calm, ~Overlap', Upload
    PROVE  Calm'
<1>0. UNCHANGED <<box, crashes, th>>
    BY DEF Upload, docker, host
<1>1. CASE app.id # None /\ Enqueue(app.id) /\ UNCHANGED row
    <2>1. app.id \in 0 .. MaxIds /\ UNCHANGED app
        BY <1>1 DEF StateOK, RowOK, Row, row
    <2>2. Fresh' /\ \A e \in Deploys : Begun(e) => deploy'[e] = deploy[e]
        BY <1>1, <2>1, EnqueuedIsNew
    <2>3. Sound' /\ (Remembered => Remembered') /\ \A t \in Threads : Knows(t) => Knows(t)'
        BY <1>0, <2>1, <2>2, NewDeployIsUnnoticed DEF Calm
    <2>4. AtRest => AtRest'
        BY <1>0, <2>1, RestStays
    <2>5. SameApp'
        BY <1>0, <1>1, <2>1 DEF Calm, SameApp, At
    <2> QED
        BY <1>0, <2>2, <2>3, <2>4, <2>5 DEF Calm, Quiet, At
<1>2. CASE /\ app.id = None /\ lastId < MaxIds /\ Enqueue(lastId + 1)
           /\ app' = [NoRow EXCEPT !.id = lastId + 1]
    <2>1. lastId + 1 \in 0 .. MaxIds /\ lastId + 1 # None
        BY <1>2 DEF StateOK, RowOK
    <2>2. Fresh' /\ \A e \in Deploys : Begun(e) => deploy'[e] = deploy[e]
        BY <1>2, <2>1, EnqueuedIsNew
    <2>3. app = NoRow /\ \A t \in Threads : At(t, "idle") /\ At(t, "idle")'
        BY <1>0, <1>2 DEF Calm, SameApp, At
    <2>4. app'.cid = app.cid /\ app'.status = "new" /\ app'.id # None
        BY <1>2, <2>1, <2>3 DEF NoRow
    <2>5. Sound' /\ Remembered'
        BY <1>0, <2>2, <2>3, <2>4, NewDeployIsUnnoticed DEF Calm, Quiet
    <2>6. AtRest' /\ SameApp'
        BY <2>3, <2>4 DEF AtRest, LiveRuns, StoppedRests, SameApp
    <2> QED
        BY <2>2, <2>3, <2>5, <2>6 DEF Calm
<1> QED
    BY <1>1, <1>2 DEF Upload

-----------------------------------------------------------------------------
(* The buttons, one at a time *)

\* A button is pressed while nobody else is busy.
LEMMA PressStaysCalm ==
    ASSUME StateOK, Calm, NEW c \in Clients, ~Overlap', Press(c)
    PROVE  Calm'
<1>1. PICK newRow \in Row, place \in {"replace", "stop", "start", "apply", "delete"} :
          /\ Pressed(c, newRow, place) /\ At(c, "idle") /\ app.id # None
          /\ newRow.id = app.id /\ newRow.cid = app.cid
          /\ \/ newRow.status = app.status /\ place \in {"replace", "start", "apply"}
             \/ newRow.status = "stopped" /\ place \in {"stop", "delete"}
    <2>1. \A b \in BOOLEAN : LET r == [app EXCEPT !.setting = b]
                             IN  r.id = app.id /\ r.cid = app.cid /\ r.status = app.status
        BY DEF StateOK, RowOK, Row
    <2>2. CASE Stop(c) \/ Delete(c)
        BY <2>2, WithFields, NewRows DEF Stop, Delete, MayPress
    <2>3. CASE Replace(c) \/ Start(c)
        BY <2>3, NewRows DEF Replace, Start, MayPress
    <2>4. CASE SaveSetting(c) \/ RemoveSetting(c)
        BY <2>1, <2>4, NewRows DEF SaveSetting, RemoveSetting, MayPress
    <2> QED
        BY <2>2, <2>3, <2>4 DEF Press
<1>2. /\ c \in Threads /\ c \notin Workers
      /\ app' = newRow /\ UNCHANGED <<deploy, box, queue, crashes>>
      /\ th' = [th EXCEPT ![c] = Holding(place)]
    BY <1>1 DEF Threads, Pressed, docker, host
<1>3. /\ th'[c].at = place /\ th'[c].id = app.id /\ th'[c].cid = app.cid
      /\ \A s \in Threads : s # c => th'[s] = th[s]
    BY <1>2 DEF StateOK, ThreadsOK, Holding, IdleThread
<1>4. \A s \in Threads : s # c => At(s, "idle") /\ At(s, "idle")'
    BY <1>2, <1>3 DEF Overlap, At
<1>5. Remembered /\ AtRest
    BY <1>1, <1>4 DEF Calm, Quiet
<1>6. Fresh' /\ Sound' /\ Remembered'
    BY <1>1, <1>2, <1>5, FreshStays, SoundStays, RememberedStays DEF Calm
<1>7. newRow.status = app.status => AtRest'
    BY <1>1, <1>2, <1>5, RestStays
<1>8. Presses(c)'
    BY <1>1, <1>2, <1>3, <1>7 DEF Presses, At
<1>9. \A s \in Threads : ~At(s, "idle")' => s = c
    BY <1>4
<1>10. SameApp' /\ ~Quiet'
    BY <1>1, <1>2, <1>3, <1>9 DEF SameApp, Quiet, At
<1> QED
    BY <1>2, <1>6, <1>8, <1>9, <1>10 DEF Calm, Knows

\* What the docker commands of a button do: they touch the container the row
\* names, and no other.
LEMMA OwnContainer ==
    ASSUME StateOK, Calm, NEW c \in Clients, ~At(c, "idle"), daemon = "up",
           UNCHANGED <<app, deploy, queue, crashes>>, NEW cid, cid = th[c].cid,
           DockerStop(cid) \/ DockerRm(cid) \/ DockerStart(cid)
    PROVE  /\ Fresh' /\ Sound' /\ Remembered'
           /\ DockerStop(cid) => box'.cid = box.cid /\ (box.cid = app.cid => ~MayRun')
           /\ DockerRm(cid) /\ box'.cid = app.cid => box'.cid = None
           /\ DockerStart(cid) => IF Reached(cid) THEN box'.cid = app.cid /\ MayRun'
                                                  ELSE box' = box
<1>1. c \in Threads
    BY DEF Threads
<1>2. Presses(c) /\ Remembered
    BY <1>1, OthersRest DEF Knows
<1>3. cid = app.cid
    BY <1>2 DEF Presses
<1>4. box = NoBox \/ (box \in [cid : Deploys, state : {"created", "running", "dead", "stopped"}]
                      /\ box.cid # None)
    BY DEF StateOK, BoxOK, Box, Deploys
<1>5. box.cid = app.cid => box.state # "created"
    BY DEF Calm, Sound
<1>6. Reached(cid) <=> box # NoBox /\ box.cid = app.cid
    BY <1>3 DEF Reached
<1>7. CASE DockerStop(cid)
    <2>1. box' = IF Reached(cid) THEN [box EXCEPT !.state = "stopped"] ELSE box
        BY <1>5, <1>6, <1>7 DEF DockerStop, Commanded
    <2>2. box'.cid = box.cid /\ (box.cid = app.cid => ~MayRun')
        BY <1>4, <1>6, <2>1 DEF MayRun, NoBox
    <2>3. box.cid # app.cid => box' = box
        BY <1>6, <2>1
    <2>4. box.cid = app.cid => box'.state # "created"
        BY <1>4, <1>5, <1>6, <2>1
    <2>5. Sound' /\ Remembered'
        BY <1>2, <2>2, <2>3, <2>4 DEF Calm, Sound, Begun, Remembered
    <2>6. box.cid = app.cid => ~DockerRm(cid) \/ box'.cid = None
        BY <1>4, <1>6 DEF DockerRm, Commanded, NoBox
    <2>7. DockerRm(cid) /\ box'.cid = app.cid => box'.cid = None
        BY <2>2, <2>6
    <2>8. DockerStart(cid) => IF Reached(cid) THEN box'.cid = app.cid /\ MayRun' ELSE box' = box
        BY <1>4, <1>6 DEF DockerStart, Commanded, MayRun
    <2> QED
        BY <2>2, <2>5, <2>7, <2>8, FreshStays DEF Calm
<1>8. CASE DockerRm(cid)
    <2>1. box' = IF Reached(cid) THEN NoBox ELSE box
        BY <1>8 DEF DockerRm, Commanded
    <2>2. box'.cid = app.cid => box'.cid = None
        BY <1>4, <1>6, <2>1 DEF NoBox
    <2>3. Sound' /\ Remembered'
        BY <1>2, <2>1 DEF Calm, Sound, Begun, Remembered, NoBox
    <2>4. DockerStop(cid) => box'.cid = box.cid /\ (box.cid = app.cid => ~MayRun')
        BY <1>4, <1>6 DEF DockerStop, Commanded, MayRun, NoBox
    <2>5. DockerStart(cid) => IF Reached(cid) THEN box'.cid = app.cid /\ MayRun' ELSE box' = box
        BY <1>4, <1>6 DEF DockerStart, Commanded, MayRun
    <2> QED
        BY <2>2, <2>3, <2>4, <2>5, FreshStays DEF Calm
<1>9. CASE DockerStart(cid)
    <2>1. box' = IF Reached(cid) THEN [box EXCEPT !.state = "running"] ELSE box
        BY <1>9 DEF DockerStart, Commanded
    <2>2. /\ box'.cid = box.cid
          /\ IF Reached(cid) THEN box'.cid = app.cid /\ MayRun' ELSE box' = box
        BY <1>4, <1>6, <2>1 DEF MayRun
    <2>3. box.cid # app.cid => box' = box
        BY <1>6, <2>1
    <2>4. box.cid = app.cid => box'.state # "created"
        BY <1>4, <1>5, <1>6, <2>1
    <2>5. Sound' /\ Remembered'
        BY <1>2, <2>2, <2>3, <2>4 DEF Calm, Sound, Begun, Remembered
    <2>6. DockerStop(cid) => box'.cid = box.cid /\ (box.cid = app.cid => ~MayRun')
        BY <1>4, <1>6 DEF DockerStop, Commanded, MayRun, NoBox
    <2>7. box.cid = app.cid => ~DockerRm(cid) \/ box'.cid = None
        BY <1>4, <1>6 DEF DockerRm, Commanded, NoBox
    <2> QED
        BY <2>2, <2>5, <2>6, <2>7, FreshStays DEF Calm
<1> QED
    BY <1>7, <1>8, <1>9

\* A button that goes on, when what it knows at its next place is so.
LEMMA ButtonGoesOn ==
    ASSUME StateOK, Calm, NEW c \in Clients, ~At(c, "idle"), NEW next \in Places, GoOn(c, next),
           ~Overlap', Fresh', Sound', Remembered', app'.id = app.id, app'.cid = app.cid,
           next \in {"idle", "replace_queue", "not_started", "settle"} => AtRest',
           next \notin {"replace", "start", "apply", "withdraw", "restart", "stop"},
           next = "replace_status" /\ box'.cid = app.cid => ~MayRun',
           next = "started" => box'.cid = app.cid /\ MayRun',
           next \in {"delete_image", "delete_row"} /\ box'.cid = app.cid => box'.cid = None
    PROVE  Calm'
<1>1. c \in Threads /\ c \notin Workers
    BY DEF Threads
<1>2. Presses(c)
    BY <1>1, OthersRest DEF Knows
<1>3. next # "idle" => th'[c].at = next /\ th'[c].cid = th[c].cid
    BY <1>1, GoOnMoves DEF Moves
<1>4. next # "idle" => Presses(c)'
    BY <1>2, <1>3 DEF Presses, At
<1> QED
    BY <1>1, <1>4, GoneOn DEF Knows

LEMMA DockerButtonsStayCalm ==
    ASSUME StateOK, Calm, NEW c \in Clients, daemon = "up", ~Overlap',
           \/ ReplaceStops(c) \/ StopStops(c) \/ StartStarts(c) \/ Withdraw(c) \/ Restart(c)
           \/ DeleteStops(c) \/ DeleteRm(c)
    PROVE  Calm'
<1> DEFINE cid == th[c].cid
<1>0. c \in Threads /\ ~At(c, "idle")
    BY DEF Threads, ReplaceStops, StopStops, StartStarts, Withdraw, Restart, DeleteStops, DeleteRm, At
<1>1. Presses(c)
    BY <1>0, OthersRest DEF Knows
<1>2. UNCHANGED <<app, deploy, queue, crashes>>
    BY DEF ReplaceStops, StopStops, StartStarts, Withdraw, Restart, DeleteStops, DeleteRm, Runs,
           row, host
<1>3. DockerStop(cid) \/ DockerRm(cid) \/ DockerStart(cid)
    BY DEF ReplaceStops, StopStops, StartStarts, Withdraw, Restart, DeleteStops, DeleteRm, Runs
<1> HIDE DEF cid
<1>4. /\ Fresh' /\ Sound' /\ Remembered'
      /\ DockerStop(cid) => box'.cid = box.cid /\ (box.cid = app.cid => ~MayRun')
      /\ DockerRm(cid) /\ box'.cid = app.cid => box'.cid = None
      /\ DockerStart(cid) => IF Reached(cid) THEN box'.cid = app.cid /\ MayRun' ELSE box' = box
    BY <1>0, <1>2, <1>3, OwnContainer DEF cid
<1>5. {"replace_status", "idle", "started", "not_started", "withdraw_app", "settle", "delete_rm",
       "delete_image"} \subseteq Places
    BY DEF Places
<1>6. CASE ReplaceStops(c)
    <2>1. DockerStop(cid) /\ GoOn(c, "replace_status")
        BY <1>6 DEF ReplaceStops, Runs, cid
    <2> QED
        BY <1>0, <1>2, <1>4, <1>5, <2>1, ButtonGoesOn
<1>7. CASE StopStops(c)
    <2>1. DockerStop(cid) /\ GoOn(c, "idle") /\ app.status = "stopped"
        BY <1>1, <1>7 DEF StopStops, Runs, Presses, cid
    <2>2. AtRest'
        BY <1>2, <1>4, <2>1 DEF AtRest, LiveRuns, StoppedRests
    <2> QED
        BY <1>0, <1>2, <1>4, <1>5, <2>1, <2>2, ButtonGoesOn
<1>8. CASE StartStarts(c)
    <2>1. /\ DockerStart(cid) /\ AtRest
          /\ IF Reached(cid) THEN GoOn(c, "started") ELSE GoOn(c, "not_started")
        BY <1>1, <1>8 DEF StartStarts, Runs, Presses, At, cid
    <2>2. ~Reached(cid) => AtRest'
        BY <1>2, <1>4, <2>1, RestStays
    <2> QED
        BY <1>0, <1>2, <1>4, <1>5, <2>1, <2>2, ButtonGoesOn
<1>9. CASE Withdraw(c)
    <2>1. GoOn(c, "withdraw_app")
        BY <1>9 DEF Withdraw, Runs
    <2> QED
        BY <1>0, <1>2, <1>4, <1>5, <2>1, ButtonGoesOn
<1>10. CASE Restart(c)
    <2>1. DockerStart(cid) /\ GoOn(c, "settle") /\ app.status = "live" /\ AtRest
        BY <1>1, <1>10 DEF Restart, Runs, Presses, At, cid
    <2>2. AtRest'
        BY <1>2, <1>4, <2>1 DEF AtRest, LiveRuns, StoppedRests, MayRun
    <2> QED
        BY <1>0, <1>2, <1>4, <1>5, <2>1, <2>2, ButtonGoesOn
<1>11. CASE DeleteStops(c)
    <2>1. GoOn(c, "delete_rm")
        BY <1>11 DEF DeleteStops, Runs
    <2> QED
        BY <1>0, <1>2, <1>4, <1>5, <2>1, ButtonGoesOn
<1>12. CASE DeleteRm(c)
    <2>1. DockerRm(cid) /\ GoOn(c, "delete_image")
        BY <1>12 DEF DeleteRm, Runs, cid
    <2> QED
        BY <1>0, <1>2, <1>4, <1>5, <2>1, ButtonGoesOn
<1> QED
    BY <1>6, <1>7, <1>8, <1>9, <1>10, <1>11, <1>12

\* The writes of a button to the app's status.
LEMMA ButtonsWriteCalmly ==
    ASSUME StateOK, Calm, NEW c \in Clients, ~Overlap',
           ReplaceStatus(c) \/ StartStatus(c) \/ WithdrawApp(c)
    PROVE  Calm'
<1>0. c \in Threads /\ ~At(c, "idle")
    BY DEF Threads, ReplaceStatus, StartStatus, WithdrawApp, At
<1>1. Presses(c) /\ Remembered /\ th[c].id = app.id
    BY <1>0, OthersRest DEF Knows
<1>2. PICK s \in {"stopped", "live", "failed", "needs_setup"}, next \in {"replace_queue", "idle"} :
          /\ Writes(c, With(s), next)
          /\ \/ s = "stopped" /\ At(c, "replace_status")
             \/ s = "live" /\ At(c, "started")
             \/ s \in {"failed", "needs_setup"}
    BY DEF ReplaceStatus, StartStatus, WithdrawApp
<1>3. /\ app'.status = s /\ app'.cid = app.cid /\ app'.id = app.id
      /\ UNCHANGED <<deploy, box, queue, crashes>> /\ GoOn(c, next) /\ next \in Places
    BY <1>1, <1>2, WithFields DEF Writes, docker, host, Places
<1>4. AtRest'
    BY <1>1, <1>2, <1>3 DEF Presses, AtRest, LiveRuns, StoppedRests, MayRun
<1>5. Fresh' /\ Sound' /\ Remembered'
    BY <1>1, <1>3, FreshStays, SoundStays, RememberedStays DEF Calm
<1> QED
    BY <1>0, <1>2, <1>3, <1>4, <1>5, ButtonGoesOn

\* The last step of a replacement, and of a setting.
LEMMA ReplaceQueuesCalmly ==
    ASSUME StateOK, Calm, NEW c \in Clients, ~Overlap', ReplaceQueues(c)
    PROVE  Calm'
<1>0. c \in Threads /\ ~At(c, "idle") /\ At(c, "replace_queue") /\ "idle" \in Places
    BY DEF Threads, ReplaceQueues, At, Places
<1>1. AtRest /\ Remembered /\ th[c].id = app.id
    BY <1>0, OthersRest DEF Knows, Presses, At
<1>2. Enqueue(app.id) /\ GoOn(c, "idle") /\ UNCHANGED <<app, box, crashes>>
    BY <1>1 DEF ReplaceQueues, row, docker, host
<1>3. app.id \in 0 .. MaxIds
    BY DEF StateOK, RowOK, Row
<1>4. Fresh' /\ \A e \in Deploys : Begun(e) => deploy'[e] = deploy[e]
    BY <1>2, <1>3, EnqueuedIsNew
<1>5. Sound' /\ Remembered' /\ AtRest'
    BY <1>1, <1>2, <1>4, NewDeployIsUnnoticed, RestStays DEF Calm
<1> QED
    BY <1>0, <1>2, <1>4, <1>5, ButtonGoesOn

LEMMA SettleStaysCalm ==
    ASSUME StateOK, Calm, NEW c \in Clients, ~Overlap', Settle(c)
    PROVE  Calm'
<1>0. c \in Threads /\ ~At(c, "idle") /\ At(c, "settle") /\ "idle" \in Places
    BY DEF Threads, Settle, At, Places
<1>1. AtRest /\ Remembered
    BY <1>0, OthersRest DEF Knows, Presses, At
<1>2. GoOn(c, "idle") /\ UNCHANGED <<app, box, queue, crashes>>
    BY DEF Settle, row, docker, host
<1>3. \A d \in Deploys : \/ deploy'[d].status = deploy[d].status
                         \/ deploy[d].status = "needs_setup" /\ deploy'[d].status = "live"
    BY DEF Settle, StateOK, DeploysOK, Deploy
<1>4. /\ \A d \in Deploys : deploy[d].status \in {"queued", "building"}
                                => deploy'[d].status = deploy[d].status
      /\ \A d \in Deploys : Begun(d) => Begun(d)'
    BY <1>3 DEF Begun
<1>5. Fresh'
    <2>1. \A i \in 1 .. Len(queue) : queue[i] \in Deploys
        BY DEF StateOK, QueueOK
    <2> QED
        BY <1>2, <1>4, <2>1 DEF Calm, Fresh
<1>6. Sound' /\ Remembered' /\ AtRest'
    <2>1. app.cid \in {None} \cup Deploys /\ box.cid \in {None} \cup Deploys
        BY DEF StateOK, RowOK, Row, BoxOK, Box, NoBox
    <2> QED
        BY <1>1, <1>2, <1>4, <2>1, RestStays DEF Calm, Sound, Remembered
<1> QED
    BY <1>0, <1>2, <1>5, <1>6, ButtonGoesOn

\* What is live is restarted or withdrawn; what waits is left alone.
LEMMA ApplyStaysCalm ==
    ASSUME StateOK, Calm, NEW c \in Clients, ~Overlap', Apply(c)
    PROVE  Calm'
<1>0. c \in Threads /\ c \notin Workers /\ ~At(c, "idle") /\ At(c, "apply")
    BY DEF Threads, Apply, At
<1>1. /\ AtRest /\ Remembered /\ app.id # None
      /\ \A s \in Threads : s # c => At(s, "idle")
    BY <1>0, OthersRest DEF Knows, Presses, At
<1>2. UNCHANGED <<app, deploy, box, queue, crashes>>
    BY DEF Apply, row, docker, host
<1>3. Fresh' /\ Sound' /\ Remembered' /\ AtRest'
    BY <1>1, <1>2, FreshStays, SoundStays, RememberedStays, RestStays DEF Calm
<1>4. PICK record : /\ th' = [th EXCEPT ![c] = record]
                    /\ \/ record = IdleThread
                       \/ app.status = "live" /\ record \in {Holding("withdraw"), Holding("restart")}
    BY DEF Apply
<1>5. th'[c] = record /\ \A s \in Threads : s # c => th'[s] = th[s]
    BY <1>0, <1>4 DEF StateOK, ThreadsOK
<1>6. \A s \in Threads : s # c => At(s, "idle")'
    BY <1>1, <1>5 DEF At
<1>7. CASE record = IdleThread
    <2>1. At(c, "idle")'
        BY <1>5, <1>7 DEF IdleThread, At
    <2>2. \A s \in Threads : At(s, "idle")'
        BY <1>6, <2>1
    <2> QED
        BY <1>1, <1>2, <1>3, <2>2 DEF Calm, SameApp
<1>8. CASE app.status = "live" /\ record \in {Holding("withdraw"), Holding("restart")}
    <2>1. th'[c].at \in {"withdraw", "restart"} /\ th'[c].id = app.id /\ th'[c].cid = app.cid
        BY <1>5, <1>8 DEF Holding, IdleThread
    <2>2. Presses(c)'
        BY <1>2, <1>3, <1>8, <2>1 DEF Presses, At
    <2>3. \A s \in Threads : ~At(s, "idle")' => s = c
        BY <1>6
    <2>4. SameApp' /\ ~Quiet'
        BY <1>0, <1>1, <1>2, <2>1, <2>3 DEF SameApp, Quiet, At
    <2> QED
        BY <1>0, <1>3, <2>2, <2>3, <2>4 DEF Calm, Knows
<1> QED
    BY <1>4, <1>7, <1>8

\* The image goes, and then the row, when the container is gone.
LEMMA DeleteImageStaysCalm ==
    ASSUME StateOK, Calm, NEW c \in Clients, ~Overlap', DeleteImage(c)
    PROVE  Calm'
<1>0. c \in Threads /\ ~At(c, "idle") /\ At(c, "delete_image") /\ "delete_row" \in Places
    BY DEF Threads, DeleteImage, At, Places
<1>1. Remembered /\ (box.cid = app.cid => box.cid = None)
    BY <1>0, OthersRest DEF Knows, Presses, At
<1>2. UNCHANGED <<app, deploy, box, queue, crashes>> /\ GoOn(c, "delete_row")
    BY DEF DeleteImage, row, docker, host
<1>3. Fresh' /\ Sound' /\ Remembered'
    BY <1>1, <1>2, FreshStays, SoundStays, RememberedStays DEF Calm
<1> QED
    BY <1>0, <1>1, <1>2, <1>3, ButtonGoesOn

LEMMA DeleteRowStaysCalm ==
    ASSUME StateOK, Calm, NEW c \in Clients, ~Overlap', DeleteRow(c)
    PROVE  Calm'
<1>0. c \in Threads /\ ~At(c, "idle") /\ At(c, "delete_row") /\ "idle" \in Places
    BY DEF Threads, DeleteRow, At, Places
<1>1. /\ Remembered /\ (box.cid = app.cid => box.cid = None) /\ th[c].id = app.id
      /\ \A s \in Threads : s # c => At(s, "idle")
      /\ queue = << >>
    BY <1>0, OthersRest DEF Knows, Presses, At
<1>2. UNCHANGED <<box, queue, crashes>> /\ GoOn(c, "idle") /\ app' = NoRow
    BY <1>1 DEF DeleteRow, docker, host
<1>3. \A d \in Deploys : deploy'[d].status = deploy[d].status
    BY DEF DeleteRow, StateOK, DeploysOK, Deploy
<1>4. box.cid \in {None} \cup Deploys /\ (box.state = "created" => box.cid # None)
    BY DEF StateOK, BoxOK, Box, NoBox, Deploys
<1>5. Fresh'
    BY <1>1, <1>2 DEF Fresh
<1>6. app'.cid = None /\ app'.status = "new"
    BY <1>2 DEF NoRow
<1>7. Sound' /\ Remembered' /\ AtRest'
    BY <1>1, <1>2, <1>3, <1>4, <1>6
    DEF Calm, Sound, Begun, Remembered, AtRest, LiveRuns, StoppedRests
<1>8. \A s \in Threads : At(s, "idle")'
    BY <1>0, <1>1, <1>2, GoOnMoves DEF Moves, At
<1> QED
    BY <1>1, <1>2, <1>5, <1>7, <1>8 DEF Calm, SameApp

LEMMA ServeStaysCalm ==
    ASSUME StateOK, Calm, NEW c \in Clients, daemon = "up", ~Overlap', Serve(c)
    PROVE  Calm'
BY DockerButtonsStayCalm, ButtonsWriteCalmly, ReplaceQueuesCalmly, SettleStaysCalm,
   ApplyStaysCalm, DeleteImageStaysCalm, DeleteRowStaysCalm DEF Serve

-----------------------------------------------------------------------------
(* Docker and the launcher *)

\* Docker starts again what died, and leaves alone what was stopped.
LEMMA BoxAgesCalmly ==
    ASSUME StateOK, Calm, UNCHANGED <<app, deploy, queue, th, crashes>>,
           \/ box' = box
           \/ MayRun /\ box'.cid = box.cid /\ MayRun'
    PROVE  Calm'
<1>1. /\ box'.cid = box.cid /\ (MayRun' <=> MayRun)
      /\ box'.state = "created" <=> box.state = "created"
      /\ box = NoBox => box' = NoBox
    BY DEF MayRun, NoBox
<1>2. Fresh'
    BY FreshStays DEF Calm
<1>3. Sound' /\ SameApp'
    BY <1>1 DEF Calm, Sound, SameApp, Begun, At
<1>4. (Remembered => Remembered') /\ (AtRest => AtRest')
    BY <1>1 DEF Remembered, AtRest, LiveRuns, StoppedRests
<1>5. ASSUME NEW t \in Threads, Knows(t) PROVE Knows(t)'
    <2>1. t \in Clients => Presses(t)'
        BY <1>1, <1>4, <1>5 DEF Knows, Presses, At
    <2>2. t \in Workers => Builds(t)'
        BY <1>1, <1>4, <1>5 DEF Knows, Builds, At, Begun
    <2> QED
        BY <1>4, <1>5, <2>1, <2>2 DEF Knows, At
<1>6. ~Overlap'
    BY DEF Calm, Overlap, At
<1> QED
    BY <1>2, <1>3, <1>4, <1>5, <1>6 DEF Calm, Quiet, At

\* The launcher dies while a deploy is at work, or nobody is; the container of
\* that deploy is the one it may forget.
LEMMA CrashStaysCalm ==
    ASSUME StateOK, Calm, Crash, \A c \in Clients : At(c, "idle"), ~Overlap'
    PROVE  Calm'
<1>1. UNCHANGED <<app, deploy, box>> /\ queue' = << >> /\ crashes' > 0
    BY DEF Crash, row, docker, StateOK, HostOK
<1>2. \A t \in Threads : At(t, "idle")'
    BY DEF Crash, IdleThread, At
<1>3. Fresh'
    BY <1>1 DEF Fresh
<1>4. Sound' /\ SameApp'
    BY <1>1, <1>2 DEF Calm, Sound, Begun, SameApp
<1>5. AtRest /\ (box.cid \notin {None, app.cid} /\ box.state # "created"
                    => deploy[box.cid].status = "building")
    <2>1. CASE Quiet
        BY <2>1 DEF Calm, Remembered
    <2>2. CASE ~Quiet
        <3>1. PICK w \in Workers : ~At(w, "idle")
            BY <2>2 DEF Quiet, Threads
        <3>2. Builds(w) /\ (~At(w, "record") => Remembered)
            BY <3>1 DEF Calm, Knows, Threads
        <3> QED
            BY <3>2 DEF Builds, Remembered, At, AtRest, LiveRuns, StoppedRests
    <2> QED
        BY <2>1, <2>2
<1>6. Remembered' /\ AtRest'
    BY <1>1, <1>5 DEF Remembered, AtRest, LiveRuns, StoppedRests, MayRun
<1> QED
    BY <1>2, <1>3, <1>4, <1>6 DEF Calm

LEMMA EnvironmentStaysCalm ==
    ASSUME StateOK, Calm, Environment, Remembers, ~met'
    PROVE  Calm'
<1>0. ~Overlap'
    BY DEF Remembers
<1>1. CASE Crash
    <2>1. crashes' > crashes
        BY <1>1 DEF Crash, StateOK, HostOK
    <2>2. \A c \in Clients : At(c, "idle")
        BY <2>1 DEF Remembers
    <2> QED
        BY <1>0, <1>1, <2>2, CrashStaysCalm
<1>2. CASE ~Crash
    <2>1. UNCHANGED <<app, deploy, queue, th, crashes>>
        BY <1>2 DEF Environment, Exits, Revived, DaemonDown, DaemonUp, OnlyBox, row, docker, host
    <2>2. box' = box \/ (MayRun /\ box'.cid = box.cid /\ MayRun')
        <3>1. ASSUME NEW s \in {"running", "dead"}, MayRun
              PROVE  [box EXCEPT !.state = s].cid = box.cid /\ [box EXCEPT !.state = s].state = s
            BY <3>1 DEF MayRun, StateOK, BoxOK, Box, NoBox
        <3> QED
            BY <1>2, <3>1 DEF Environment, Exits, Revived, DaemonDown, DaemonUp, MayRun, docker
    <2> QED
        BY <2>1, <2>2, BoxAgesCalmly
<1> QED
    BY <1>1, <1>2

LEMMA UndisturbedIsInductive ==
    ASSUME StateOK, Undisturbed, [Next]_vars, ~OutageAnyTime PROVE Undisturbed'
<1> SUFFICES ASSUME ~met' PROVE Calm'
    BY DEF Undisturbed
<1>1. CASE UNCHANGED vars
    <2>1. UNCHANGED <<met, app, deploy, queue, th, crashes, box>>
        BY <1>1 DEF vars, row, docker, host
    <2> QED
        BY <2>1, BoxAgesCalmly DEF Undisturbed
<1>2. CASE Next
    <2>1. ~met /\ ~Overlap' /\ Calm /\ ~Loses
        BY <1>2 DEF Next, Remembers, Loses, Undisturbed
    <2>2. CASE Environment
        BY <1>2, <2>1, <2>2, EnvironmentStaysCalm DEF Next
    <2>3. CASE Calls
        BY <2>1, <2>3, UploadStaysCalm, BuildStaysCalm, PressStaysCalm, ServeStaysCalm DEF Calls
    <2> QED
        BY <1>2, <2>1, <2>2, <2>3 DEF Next
<1> QED
    BY <1>1, <1>2

LEMMA StaysUndisturbed == ASSUME ~OutageAnyTime PROVE Spec => []Undisturbed
<1> DEFINE IInv == StateOK /\ Undisturbed
<1>1. Init => IInv
    <2> SUFFICES ASSUME Init PROVE Calm
        BY StateOKAtFirst DEF Undisturbed
    <2>1. \A t \in Threads : At(t, "idle")
        BY DEF Init, At, IdleThread
    <2>2. app.id = None /\ app.cid = None /\ app.status = "new" /\ box.cid = None /\ box.state = "none"
        BY DEF Init, NoRow, NoBox
    <2>3. Fresh /\ Sound /\ SameApp /\ ~Overlap
        BY <2>1, <2>2 DEF Init, Fresh, Sound, SameApp, Overlap
    <2>4. Remembered /\ AtRest
        BY <2>2 DEF Remembered, AtRest, LiveRuns, StoppedRests
    <2> QED
        BY <2>1, <2>3, <2>4 DEF Calm
<1>2. IInv /\ [Next]_vars => IInv'
    BY StateIsInductive, UndisturbedIsInductive
<1>3. IInv => Undisturbed
    OBVIOUS
<1> HIDE DEF IInv
<1> QED
    BY <1>1, <1>2, <1>3, PTL DEF Spec

\* While the daemon is there when it is needed and one thread at a time is busy
\* with the app, the launcher forgets no container but that of a deploy it died
\* under, whatever was pressed and uploaded before (deployer.py:297).
THEOREM OnlyCrashesForget == ASSUME ~OutageAnyTime PROVE Spec => []OnlyACrashForgets
<1>1. Undisturbed => OnlyACrashForgets
    BY DEF Undisturbed, Calm, Remembered, OnlyACrashForgets
<1> QED
    BY <1>1, StaysUndisturbed, PTL

\* Under the same conditions an app that shows as live has the container its row
\* names, and not one that was stopped (deployer.py:157).
THEOREM LiveHasIts == ASSUME ~OutageAnyTime PROVE Spec => []LiveHasContainer
<1>1. Undisturbed => LiveHasContainer
    BY DEF Undisturbed, Calm, AtRest, LiveRuns, LiveHasContainer
<1> QED
    BY <1>1, StaysUndisturbed, PTL

\* And a stopped app is down and stays down, through any number of restarts of
\* the daemon and of the launcher (runtime.py:97).
THEOREM StoppedIsLeft == ASSUME ~OutageAnyTime PROVE Spec => []StoppedStaysDown
<1>1. Undisturbed => StoppedStaysDown
    BY DEF Undisturbed, Calm, AtRest, StoppedRests, StoppedStaysDown
<1> QED
    BY <1>1, StaysUndisturbed, PTL
=============================================================================
