------------------------------ MODULE Uploads ------------------------------
(***************************************************************************)
(* The uploaded ZIPs of one app name: data/uploads/<name>/<stamp>.zip      *)
(*                                                                         *)
(*   - a request streams its ZIP into a file named after the second it     *)
(*     began in, and then makes a deploy record    (app.py, _store_upload)  *)
(*   - a roll back makes a record for a file that is there already          *)
(*   - a worker reads the file, and after a good deploy prunes old ones     *)
(*                                                 (launcher/deployer.py)   *)
(*   - a deletion takes the row, and then the directory                     *)
(*                                                                         *)
(* Requests that upload run on the event loop and can be overtaken while   *)
(* they wait for the next chunk; the others run on threads.  A file is a   *)
(* directory entry for an inode: who has it open goes on writing when the  *)
(* entry is gone, and two writers of one name write into one inode.        *)
(***************************************************************************)
EXTENDS Integers, Sequences, FiniteSets

CONSTANTS Requests,    \* requests that may be served at the same time
          Workers,     \* build threads
          MaxUploads,  \* bound: ZIPs ever sent
          MaxDeploys,  \* bound: deploy records ever made
          MaxIds,      \* bound: app rows ever created
          MaxTime,     \* bound: seconds that differ in name
          MaxFaults,   \* bound: full disks and crashes of the launcher
          KEEP_VERSIONS,
          FallsBack    \* is the wall clock ever put back?

Uploads == 1 .. MaxUploads
Deploys == 1 .. MaxDeploys
Stamps  == 1 .. MaxTime
Threads == Requests \cup Workers
Chunks  == 1 .. 2       \* enough for half a file
None    == 0

ASSUME ConstantsOK ==
    /\ {MaxUploads, MaxDeploys, MaxIds, MaxTime, MaxFaults, KEEP_VERSIONS} \subseteq Nat
    /\ MaxTime # 0
    /\ FallsBack \in BOOLEAN
    /\ Requests \cap Workers = {}

VARIABLES
    clock,     \* time.strftime, to the second
    stamp,     \* the second each upload began in
    lastUp,    \* how many uploads have begun
    file,      \* the directory: the inode behind each name
    data,      \* which upload each chunk of an inode is from
    app,       \* the id of the name's row, or None
    lastId,    \* the highest id handed out
    deploy,    \* the deploys table, with the upload each is meant to be
    queue,     \* deploys no worker has taken yet
    th,        \* what each thread is doing
    faults,    \* how many faults there were
    disturbed  \* uploads that met a fault, or a deletion under way

disk    == <<file, data>>
rows    == <<app, lastId>>
records == <<deploy, queue>>
time    == <<clock, stamp, lastUp>>
vars    == <<time, disk, rows, records, th, faults, disturbed>>

-----------------------------------------------------------------------------
Idle     == [at |-> "idle", id |-> None, u |-> None, inode |-> None, k |-> 1,
             d |-> None, list |-> {}]
NoDeploy == [status |-> "unborn", app |-> None, from |-> None, got |-> None, gone |-> FALSE]
Hole     == [k \in Chunks |-> None]

At(t, place) == th[t].at = place
GoOn(t, next) == th' = [th EXCEPT ![t] = IF next = "idle" THEN Idle ELSE [@ EXCEPT !.at = next]]
Quiet == queue = << >> /\ \A t \in Threads : At(t, "idle")

\* Uploads somebody still has to deal with: a request, the queue or a worker.
InFlight == {th[r].u : r \in Requests} \cup
            {deploy[d].from : d \in {e \in Deploys : deploy[e].status \in {"queued", "building"}}}

Deleting == \E r \in Requests : th[r].at \in {"delete_row", "delete_files"}

Init == /\ clock = 1
        /\ stamp = [u \in Uploads |-> None]
        /\ lastUp = 0
        /\ file = [s \in Stamps |-> None]
        /\ data = [i \in Uploads |-> Hole]
        /\ app = None
        /\ lastId = 0
        /\ deploy = [d \in Deploys |-> NoDeploy]
        /\ queue = << >>
        /\ th = [t \in Threads |-> Idle]
        /\ faults = 0
        /\ disturbed = {}

-----------------------------------------------------------------------------
(* _store_upload *)

\* upload and replace_app: take the stamp, open the file, empty it if it is
\* there.  A replacement holds the row it has read, a new upload holds none.
Open(r) ==
    /\ At(r, "idle") /\ lastUp < MaxUploads
    /\ LET u     == lastUp + 1
           inode == IF file[clock] = None THEN u ELSE file[clock]
       IN  /\ lastUp' = u
           /\ stamp' = [stamp EXCEPT ![u] = clock]
           /\ file' = [file EXCEPT ![clock] = inode]
           /\ data' = [data EXCEPT ![inode] = Hole]
           /\ \E id \in {None} \cup ({app} \ {None}) :
                 th' = [th EXCEPT ![r] = [Idle EXCEPT !.at = "stream", !.id = id, !.u = u,
                                                      !.inode = inode]]
    /\ UNCHANGED <<clock, rows, records, faults>>

\* Where a request goes on: upload looks for the row only now.
Streamed(r) == IF th[r].id = None THEN "look_up" ELSE "record"

\* Mutant: the deploy is queued when the first chunk has arrived.
WriteFirst(r) ==
    /\ At(r, "stream")
    /\ data' = [data EXCEPT ![th[r].inode][1] = th[r].u]
    /\ GoOn(r, Streamed(r))
    /\ UNCHANGED <<time, file, rows, records, faults>>

Write(r) ==
    /\ At(r, "stream")
    /\ data' = [data EXCEPT ![th[r].inode][th[r].k] = th[r].u]
    /\ IF th[r].k \in Chunks \ {1}
       THEN GoOn(r, Streamed(r))
       ELSE th' = [th EXCEPT ![r].k = @ + 1]
    /\ UNCHANGED <<time, file, rows, records, faults>>

\* Mutant: what was written so far stays.
TooLargeStays(r) ==
    /\ At(r, "stream") /\ th[r].k # 1
    /\ GoOn(r, "idle")
    /\ UNCHANGED <<time, disk, rows, records, faults>>

\* UploadTooLarge: whatever has the name is unlinked.
TooLarge(r) ==
    /\ At(r, "stream") /\ th[r].k # 1
    /\ file' = [file EXCEPT ![stamp[th[r].u]] = None]
    /\ GoOn(r, "idle")
    /\ UNCHANGED <<time, data, rows, records, faults>>

\* Any other exception leaves the file as it is.
DiskFull(r) ==
    /\ At(r, "stream") /\ faults < MaxFaults
    /\ faults' = faults + 1
    /\ GoOn(r, "idle")
    /\ UNCHANGED <<time, disk, rows, records>>

-----------------------------------------------------------------------------
(* The deploy record *)

\* get_app_by_name or create_app.
LookUp(r) ==
    /\ At(r, "look_up")
    /\ app # None \/ lastId < MaxIds
    /\ app' = IF app = None THEN lastId + 1 ELSE app
    /\ lastId' = IF app = None THEN lastId + 1 ELSE lastId
    /\ th' = [th EXCEPT ![r].at = "record", ![r].id = app']
    /\ UNCHANGED <<time, disk, records, faults>>

\* create_deploy and enqueue; the table refuses a deploy of an app that is gone.
Record(r) ==
    /\ At(r, "record")
    /\ IF app # th[r].id
       THEN UNCHANGED records
       ELSE \E d \in Deploys :
               /\ deploy[d].status = "unborn"
               /\ \A e \in Deploys : deploy[e].status = "unborn" => d <= e
               /\ deploy' = [deploy EXCEPT ![d] = [NoDeploy EXCEPT
                                !.status = "queued", !.app = app, !.from = th[r].u]]
               /\ queue' = Append(queue, d)
    /\ GoOn(r, "idle")
    /\ UNCHANGED <<time, disk, rows, faults>>

Present(s) == file[s] # None

\* rollback: the file of an earlier deploy is there.
Rollback(r) == \E d \in Deploys :
    /\ At(r, "idle")
    /\ app # None /\ deploy[d].app = app /\ ~deploy[d].gone
    /\ Present(stamp[deploy[d].from])
    /\ th' = [th EXCEPT ![r] = [Idle EXCEPT !.at = "record", !.id = app,
                                            !.u = deploy[d].from]]
    /\ UNCHANGED <<time, disk, rows, records, faults>>

-----------------------------------------------------------------------------
(* run_deploy, as far as the ZIP is concerned *)

Take(w) ==
    /\ At(w, "idle") /\ queue # << >>
    /\ queue' = Tail(queue)
    /\ LET d == Head(queue) IN
       IF deploy[d].gone
       THEN UNCHANGED <<deploy, th>>
       ELSE /\ th' = [th EXCEPT ![w] = [Idle EXCEPT !.at = "read", !.d = d]]
            /\ deploy' = [deploy EXCEPT ![d].status = "building"]
    /\ UNCHANGED <<time, disk, rows, faults>>

Ends(w, status, next) ==
    /\ deploy' = IF deploy[th[w].d].gone THEN deploy
                 ELSE [deploy EXCEPT ![th[w].d].status = status]
    /\ GoOn(w, next)
    /\ UNCHANGED <<time, disk, rows, queue, faults>>

\* archive.extract opens what has the name now.  A ZIP has its directory at its
\* end: half of one, or half of two, is an ArchiveError.
Whole(u, s) == Present(s) /\ data[file[s]] = [k \in Chunks |-> u]

Unreadable(w) ==
    /\ At(w, "read")
    /\ \A u \in Uploads : ~Whole(u, stamp[deploy[th[w].d].from])
    /\ Ends(w, "failed", "idle")

\* Mutant: the newest upload, also for a roll back.
ReadNewest(w) ==
    /\ At(w, "read")
    /\ Whole(lastUp, stamp[lastUp])
    /\ deploy' = [deploy EXCEPT ![th[w].d].got = lastUp]
    /\ GoOn(w, "build")
    /\ UNCHANGED <<time, disk, rows, queue, faults>>

Read(w) ==
    /\ At(w, "read")
    /\ \E u \in Uploads :
          /\ Whole(u, stamp[deploy[th[w].d].from])
          /\ deploy' = [deploy EXCEPT ![th[w].d].got = u]
    /\ GoOn(w, "build")
    /\ UNCHANGED <<time, disk, rows, queue, faults>>

Fails(w)    == At(w, "build") /\ Ends(w, "failed", "idle")
Succeeds(w) == At(w, "build") /\ Ends(w, "live", "glob")

\* Mutant: one version fewer is kept.
GlobTooFew(w) ==
    /\ At(w, "glob")
    /\ th' = [th EXCEPT ![w].at = "prune",
                        ![w].list = {s \in Stamps : /\ Present(s)
                            /\ Cardinality({q \in Stamps : q > s /\ Present(q)})
                                 >= KEEP_VERSIONS - 1}]
    /\ UNCHANGED <<time, disk, rows, records, faults>>

\* _prune_old_versions: list the names in order, all but the last
\* KEEP_VERSIONS are stale; then unlink those.
Glob(w) ==
    /\ At(w, "glob")
    /\ th' = [th EXCEPT ![w].at = "prune",
                        ![w].list = {s \in Stamps : /\ Present(s)
                            /\ Cardinality({q \in Stamps : q > s /\ Present(q)})
                                 >= KEEP_VERSIONS}]
    /\ UNCHANGED <<time, disk, rows, records, faults>>

Prune(w) ==
    /\ At(w, "prune")
    /\ file' = [s \in Stamps |-> IF s \in th[w].list THEN None ELSE file[s]]
    /\ GoOn(w, "idle")
    /\ UNCHANGED <<time, data, rows, records, faults>>

-----------------------------------------------------------------------------
(* delete_app: the row with its deploys, then the directory *)

Delete(r) ==
    /\ At(r, "idle") /\ app # None
    /\ th' = [th EXCEPT ![r] = [Idle EXCEPT !.at = "delete_row", !.id = app]]
    /\ UNCHANGED <<time, disk, rows, records, faults>>

DeleteRow(r) ==
    /\ At(r, "delete_row")
    /\ app' = IF app = th[r].id THEN None ELSE app
    /\ deploy' = [d \in Deploys |-> IF deploy[d].app = th[r].id
                                    THEN [deploy[d] EXCEPT !.gone = TRUE] ELSE deploy[d]]
    /\ GoOn(r, "delete_files")
    /\ UNCHANGED <<time, disk, lastId, queue, faults>>

DeleteFiles(r) ==
    /\ At(r, "delete_files")
    /\ file' = [s \in Stamps |-> None]
    /\ GoOn(r, "idle")
    /\ UNCHANGED <<time, data, rows, records, faults>>

-----------------------------------------------------------------------------
(* The clock, and a launcher that dies: what was unfinished is failed when it *)
(* comes back (supervisor.recover_interrupted_deploys).                       *)

Tick ==
    /\ \/ clock < MaxTime /\ clock' = clock + 1
       \/ FallsBack /\ clock > 1 /\ clock' = clock - 1
    /\ UNCHANGED <<stamp, lastUp, disk, rows, records, th, faults>>

Crash ==
    /\ faults < MaxFaults /\ ~Quiet
    /\ faults' = faults + 1
    /\ th' = [t \in Threads |-> Idle]
    /\ queue' = << >>
    /\ deploy' = [d \in Deploys |-> IF deploy[d].status \in {"queued", "building"} /\ ~deploy[d].gone
                                    THEN [deploy[d] EXCEPT !.status = "failed"] ELSE deploy[d]]
    /\ UNCHANGED <<time, disk, rows>>

-----------------------------------------------------------------------------
Serve(r) == \/ Open(r) \/ Write(r) \/ TooLarge(r) \/ DiskFull(r) \/ LookUp(r) \/ Record(r)
            \/ Rollback(r) \/ Delete(r) \/ DeleteRow(r) \/ DeleteFiles(r)

Work(w) == \/ Take(w) \/ Unreadable(w) \/ Read(w) \/ Fails(w) \/ Succeeds(w)
           \/ Glob(w) \/ Prune(w)

\* A fault concerns what somebody was dealing with; a crash between the two
\* halves of a deletion, everything that was to be deleted.
Remembers ==
    LET faulted == faults' # faults
    IN  disturbed' = disturbed
            \cup (IF Deleting' THEN InFlight' \ {None} ELSE {})
            \cup (IF faulted THEN InFlight \ (InFlight' \cup {None}) ELSE {})
            \cup (IF faulted /\ Deleting /\ ~Deleting' THEN 1 .. lastUp ELSE {})

Next == /\ \/ \E r \in Requests : Serve(r)
           \/ \E w \in Workers : Work(w)
           \/ Tick \/ Crash
        /\ Remembers

Spec == Init /\ [][Next]_vars

-----------------------------------------------------------------------------
(* Properties *)

Places == {"idle", "stream", "look_up", "record", "read", "build", "glob", "prune",
           "delete_row", "delete_files"}

\* Type invariant.
TypeOK ==
    /\ clock \in Stamps /\ lastUp \in 0 .. MaxUploads
    /\ stamp \in [Uploads -> {None} \cup Stamps]
    /\ file \in [Stamps -> {None} \cup Uploads]
    /\ data \in [Uploads -> [Chunks -> {None} \cup Uploads]]
    /\ app \in 0 .. MaxIds /\ lastId \in 0 .. MaxIds
    /\ deploy \in [Deploys -> [status : {"unborn", "queued", "building", "live", "failed"},
                               app : 0 .. MaxIds, from : {None} \cup Uploads,
                               got : {None} \cup Uploads, gone : BOOLEAN]]
    /\ queue \in Seq(Deploys)
    /\ th \in [Threads -> [at : Places, id : 0 .. MaxIds, u : {None} \cup Uploads,
                           inode : {None} \cup Uploads, k : Chunks,
                           d : {None} \cup Deploys, list : SUBSET Stamps]]
    /\ faults \in 0 .. MaxFaults
    /\ disturbed \subseteq Uploads

\* Another upload of the same name began in the same second.
Shared(u) == \E v \in Uploads \ {u} : stamp[v] = stamp[u]

\* A deploy that finds its ZIP finds the whole of the ZIP that was sent for it,
\* and that is what it unpacks, however uploads, roll backs, prunings, deletions
\* and crashes of the name overlap; two uploads of the same second are the
\* exception (app.py:535, the name of the file).
ReadsItsOwnUpload ==
    \A d \in Deploys : deploy[d].status # "unborn" /\ ~Shared(deploy[d].from) =>
        /\ Present(stamp[deploy[d].from]) => Whole(deploy[d].from, stamp[deploy[d].from])
        /\ deploy[d].got \in {None, deploy[d].from}

\* A version can be rolled back to until KEEP_VERSIONS later ones were sent
\* (config.py:112): no failed, rejected or slower upload, and no order in which
\* they finish, costs one that is newer than that.
LostOnlyToNewer ==
    \A d \in Deploys :
        LET u == deploy[d].from IN
        /\ deploy[d].status # "unborn" /\ ~deploy[d].gone
        /\ u \notin disturbed /\ ~Shared(u)
        /\ ~Present(stamp[u])
        => lastUp - u >= KEEP_VERSIONS

\* Between requests every ZIP on disk belongs to a version somebody can see,
\* unless an upload met a full disk, a crash or a deletion: a rejected upload
\* leaves nothing, a deleted app leaves nothing (app.py:484, "fill the disk").
NoStrayFiles ==
    Quiet => \A s \in Stamps : Present(s) =>
        \/ \E d \in Deploys : ~deploy[d].gone /\ deploy[d].from # None /\ stamp[deploy[d].from] = s
        \/ \E u \in disturbed : stamp[u] = s

-----------------------------------------------------------------------------
(* What does not hold: see the README                                       *)

\* A deploy unpacks its own upload, whenever that began.
ReadsItsOwnAlways == \A d \in Deploys : deploy[d].got \in {None, deploy[d].from}

\* What was deployed last and went live can be deployed again.
LiveCanBeRedone ==
    Quiet => \A d \in Deploys :
        deploy[d].status = "live" /\ ~deploy[d].gone
            /\ (\A e \in Deploys : e > d => deploy[e].status = "unborn")
        => Present(stamp[deploy[d].from])

\* A deletion takes the ZIPs of the app it deletes and of no other.
AcceptedIsThere ==
    \A d \in Deploys : deploy[d].status = "queued" /\ ~deploy[d].gone => Present(stamp[deploy[d].from])
=============================================================================
