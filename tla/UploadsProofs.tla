--------------------------- MODULE UploadsProofs ---------------------------
(***************************************************************************)
(* The files of one app's uploads, for any number of requests, workers,    *)
(* uploads and seconds, whether the clock falls back or not: a deploy      *)
(* unpacks the ZIP that was sent for it, and nothing stays behind that     *)
(* belongs to nobody. As long as the clock is not put back, a version is   *)
(* lost only to newer ones.                                                *)
(***************************************************************************)
EXTENDS Uploads, FiniteSetTheorems, TLAPS

-----------------------------------------------------------------------------
(* Types *)

USE ConstantsOK DEF ConstantsOK
USE DEF None

Deploy == [status : {"unborn", "queued", "building", "live", "failed"},
           app : 0 .. MaxIds, from : {None} \cup Uploads,
           got : {None} \cup Uploads, gone : BOOLEAN]

Thread == [at : Places, id : 0 .. MaxIds, u : {None} \cup Uploads,
           inode : {None} \cup Uploads, k : Chunks,
           d : {None} \cup Deploys, list : SUBSET Stamps]

\* The type invariant by the groups that are changed together, without the
\* ghost.
TimeOK    == /\ clock \in Stamps /\ lastUp \in 0 .. MaxUploads
             /\ stamp \in [Uploads -> {None} \cup Stamps]
DiskOK    == /\ file \in [Stamps -> {None} \cup Uploads]
             /\ data \in [Uploads -> [Chunks -> {None} \cup Uploads]]
RowsOK    == app \in 0 .. MaxIds /\ lastId \in 0 .. MaxIds
RecordsOK == deploy \in [Deploys -> Deploy] /\ queue \in Seq(Deploys)
ThreadsOK == th \in [Threads -> Thread]
StateOK   == TimeOK /\ DiskOK /\ RowsOK /\ RecordsOK /\ ThreadsOK /\ faults \in 0 .. MaxFaults

\* One step of the launcher, of the clock or of fate, without the ghost.
Step == \/ \E r \in Requests : Serve(r)
        \/ \E w \in Workers : Work(w)
        \/ Tick \/ Crash

\* An idle thread is a thread.
LEMMA IdleIsAThread == Idle \in Thread
    BY DEF Idle, Thread, Places, Chunks

\* A thread that goes on to one of the places is still one.
LEMMA GoingOnKeepsType ==
    ASSUME ThreadsOK, NEW t \in Threads, NEW next \in Places, GoOn(t, next)
    PROVE  ThreadsOK'
<1>1. CASE next = "idle"
    BY <1>1, IdleIsAThread DEF ThreadsOK, GoOn
<1>2. CASE next # "idle"
    <2>1. [th[t] EXCEPT !.at = next] \in Thread
        BY DEF ThreadsOK, Thread
    <2> QED
        BY <1>2, <2>1 DEF ThreadsOK, GoOn
<1> QED
    BY <1>1, <1>2

\* What a step leaves alone keeps its type.
LEMMA UntouchedKeepsType ==
    /\ TimeOK /\ UNCHANGED time => TimeOK'
    /\ DiskOK /\ UNCHANGED disk => DiskOK'
    /\ RowsOK /\ UNCHANGED rows => RowsOK'
    /\ RecordsOK /\ UNCHANGED records => RecordsOK'
    BY DEF TimeOK, DiskOK, RowsOK, RecordsOK, time, disk, rows, records

\* Every step of a request keeps the types.
LEMMA ServeKeepsTypes ==
    ASSUME StateOK, NEW r \in Requests, Serve(r) PROVE StateOK'
<1> USE GoingOnKeepsType, UntouchedKeepsType DEF StateOK
<1>0. r \in Threads
    BY DEF Threads
<1>1. CASE Open(r)
    <2> DEFINE u     == lastUp + 1
               inode == IF file[clock] = None THEN u ELSE file[clock]
    <2>1. u \in Uploads /\ inode \in Uploads
        BY <1>1 DEF Open, TimeOK, DiskOK, Uploads
    <2>2. TimeOK'
        BY <1>1, <2>1 DEF Open, TimeOK, Uploads
    <2>3. DiskOK'
        BY <1>1, <2>1 DEF Open, DiskOK, Hole
    <2>4. ThreadsOK'
        <3>1. PICK id \in {None} \cup ({app} \ {None}) :
                 th' = [th EXCEPT ![r] = [Idle EXCEPT !.at = "stream", !.id = id, !.u = u,
                                                      !.inode = inode]]
            BY <1>1 DEF Open
        <3> HIDE DEF u, inode
        <3>2. id \in 0 .. MaxIds
            BY DEF RowsOK
        <3>3. [Idle EXCEPT !.at = "stream", !.id = id, !.u = u, !.inode = inode] \in Thread
            BY <2>1, <3>2, IdleIsAThread DEF Thread, Places
        <3> QED
            BY <3>1, <3>3, <1>0 DEF ThreadsOK
    <2> QED
        BY <1>1, <2>2, <2>3, <2>4 DEF Open
<1>2. CASE Write(r)
    <2>1. th[r].u \in {None} \cup Uploads /\ th[r].k \in Chunks
        BY <1>0 DEF ThreadsOK, Thread
    <2>2. DiskOK'
        BY <1>2, <2>1 DEF Write, DiskOK, disk
    <2>3. ThreadsOK'
        <3>1. CASE th[r].k \in Chunks \ {1}
            BY <1>0, <1>2, <3>1 DEF Write, Streamed, Places
        <3>2. CASE th[r].k = 1
            <4>1. [th[r] EXCEPT !.k = @ + 1] \in Thread
                BY <1>0, <3>2 DEF ThreadsOK, Thread, Chunks
            <4> QED
                BY <1>0, <1>2, <3>2, <4>1 DEF Write, ThreadsOK
        <3> QED
            BY <2>1, <3>1, <3>2
    <2> QED
        BY <1>2, <2>2, <2>3 DEF Write
<1>3. CASE TooLarge(r)
    BY <1>0, <1>3 DEF TooLarge, DiskOK, Places
<1>4. CASE DiskFull(r)
    BY <1>0, <1>4 DEF DiskFull, Places
<1>5. CASE LookUp(r)
    <2>1. RowsOK'
        BY <1>5 DEF LookUp, RowsOK
    <2>2. [th[r] EXCEPT !.at = "record", !.id = app'] \in Thread
        BY <1>0, <2>1 DEF ThreadsOK, Thread, RowsOK, Places
    <2>3. ThreadsOK'
        BY <1>0, <1>5, <2>2 DEF LookUp, ThreadsOK
    <2> QED
        BY <1>5, <2>1, <2>3 DEF LookUp
<1>6. CASE Record(r)
    <2>1. ThreadsOK'
        BY <1>0, <1>6 DEF Record, Places
    <2>2. RecordsOK'
        <3>1. CASE app # th[r].id
            BY <1>6, <3>1 DEF Record
        <3>2. CASE app = th[r].id
            <4>1. PICK d \in Deploys :
                    /\ deploy' = [deploy EXCEPT ![d] = [NoDeploy EXCEPT
                                    !.status = "queued", !.app = app, !.from = th[r].u]]
                    /\ queue' = Append(queue, d)
                BY <1>6, <3>2 DEF Record
            <4>2. [NoDeploy EXCEPT !.status = "queued", !.app = app, !.from = th[r].u] \in Deploy
                BY <1>0 DEF NoDeploy, Deploy, RowsOK, ThreadsOK, Thread
            <4> QED
                BY <4>1, <4>2 DEF RecordsOK
        <3> QED
            BY <3>1, <3>2
    <2> QED
        BY <1>6, <2>1, <2>2 DEF Record
<1>7. CASE Rollback(r)
    <2>1. PICK d \in Deploys :
             th' = [th EXCEPT ![r] = [Idle EXCEPT !.at = "record", !.id = app,
                                                  !.u = deploy[d].from]]
        BY <1>7 DEF Rollback
    <2>2. [Idle EXCEPT !.at = "record", !.id = app, !.u = deploy[d].from] \in Thread
        BY IdleIsAThread DEF Thread, Places, RowsOK, RecordsOK, Deploy
    <2>3. ThreadsOK'
        BY <1>0, <2>1, <2>2 DEF ThreadsOK
    <2> QED
        BY <1>7, <2>3 DEF Rollback
<1>8. CASE Delete(r)
    <2>1. [Idle EXCEPT !.at = "delete_row", !.id = app] \in Thread
        BY IdleIsAThread DEF Thread, Places, RowsOK
    <2>2. ThreadsOK'
        BY <1>0, <1>8, <2>1 DEF Delete, ThreadsOK
    <2> QED
        BY <1>8, <2>2 DEF Delete
<1>9. CASE DeleteRow(r)
    <2>1. ThreadsOK'
        BY <1>0, <1>9 DEF DeleteRow, Places
    <2>2. RowsOK' /\ UNCHANGED <<time, disk, faults>>
        BY <1>9 DEF DeleteRow, RowsOK
    <2>3. RecordsOK'
        <3>1. \A d \in Deploys : [deploy[d] EXCEPT !.gone = TRUE] \in Deploy
            BY DEF RecordsOK, Deploy
        <3> QED
            BY <1>9, <3>1 DEF DeleteRow, RecordsOK
    <2> QED
        BY <2>1, <2>2, <2>3
<1>10. CASE DeleteFiles(r)
    BY <1>0, <1>10 DEF DeleteFiles, DiskOK, Places
<1> QED
    BY <1>1, <1>2, <1>3, <1>4, <1>5, <1>6, <1>7, <1>8, <1>9, <1>10 DEF Serve

\* A worker that ends its deploy changes one status.
LEMMA EndsKeepsTypes ==
    ASSUME StateOK, NEW w \in Workers, NEW s \in {"live", "failed"}, NEW next \in Places,
           Ends(w, s, next)
    PROVE  StateOK'
<1>1. ThreadsOK'
    BY GoingOnKeepsType DEF StateOK, Ends, Threads
<1>2. \A d \in Deploys : [deploy[d] EXCEPT !.status = s] \in Deploy
    BY DEF StateOK, RecordsOK, Deploy
<1>3. RecordsOK'
    BY <1>2 DEF StateOK, Ends, RecordsOK
<1> QED
    BY <1>1, <1>3, UntouchedKeepsType DEF StateOK, Ends

\* Every step of a worker keeps the types.
LEMMA WorkKeepsTypes ==
    ASSUME StateOK, NEW w \in Workers, Work(w) PROVE StateOK'
<1> USE GoingOnKeepsType, UntouchedKeepsType
<1>0. w \in Threads
    BY DEF Threads
<1>1. CASE Take(w)
    <2>1. Head(queue) \in Deploys /\ Tail(queue) \in Seq(Deploys)
        BY <1>1 DEF Take, StateOK, RecordsOK
    <2>2. [Idle EXCEPT !.at = "read", !.d = Head(queue)] \in Thread
        BY <2>1, IdleIsAThread DEF Thread, Places
    <2>3. [deploy[Head(queue)] EXCEPT !.status = "building"] \in Deploy
        BY <2>1 DEF StateOK, RecordsOK, Deploy
    <2>4. ThreadsOK'
        BY <1>0, <1>1, <2>2 DEF Take, StateOK, ThreadsOK
    <2>5. RecordsOK'
        BY <1>1, <2>1, <2>3 DEF Take, StateOK, RecordsOK
    <2> QED
        BY <1>1, <2>4, <2>5 DEF Take, StateOK
<1>2. CASE Unreadable(w)
    BY <1>2, EndsKeepsTypes DEF Unreadable, Places
<1>3. CASE Read(w)
    <2>1. \A d \in Deploys, u \in Uploads : [deploy[d] EXCEPT !.got = u] \in Deploy
        BY DEF StateOK, RecordsOK, Deploy
    <2>2. RecordsOK'
        <3>1. PICK u \in Uploads : deploy' = [deploy EXCEPT ![th[w].d].got = u]
            BY <1>3 DEF Read
        <3> QED
            BY <1>3, <2>1, <3>1 DEF Read, StateOK, RecordsOK, records
    <2>3. ThreadsOK'
        BY <1>0, <1>3 DEF Read, StateOK, Places
    <2> QED
        BY <1>3, <2>2, <2>3 DEF Read, StateOK
<1>4. CASE Fails(w)
    BY <1>4, EndsKeepsTypes DEF Fails, Places
<1>5. CASE Succeeds(w)
    BY <1>5, EndsKeepsTypes DEF Succeeds, Places
<1>6. CASE Glob(w)
    <2> DEFINE stale == {s \in Stamps : /\ Present(s)
                            /\ Cardinality({q \in Stamps : q > s /\ Present(q)}) >= KEEP_VERSIONS}
    <2>1. th' = [th EXCEPT ![w] = [th[w] EXCEPT !.at = "prune", !.list = stale]]
        BY <1>0, <1>6 DEF Glob, StateOK, ThreadsOK, Thread
    <2>2. stale \subseteq Stamps
        OBVIOUS
    <2> HIDE DEF stale
    <2>3. [th[w] EXCEPT !.at = "prune", !.list = stale] \in Thread
        BY <1>0, <2>2 DEF StateOK, ThreadsOK, Thread, Places
    <2>4. ThreadsOK'
        BY <1>0, <2>1, <2>3 DEF StateOK, ThreadsOK
    <2> QED
        BY <1>6, <2>4 DEF Glob, StateOK
<1>7. CASE Prune(w)
    BY <1>0, <1>7 DEF Prune, StateOK, DiskOK, Places
<1> QED
    BY <1>1, <1>2, <1>3, <1>4, <1>5, <1>6, <1>7 DEF Work

\* So do the clock and a crash.
LEMMA StepKeepsTypes == StateOK /\ Step => StateOK'
<1> SUFFICES ASSUME StateOK, Step PROVE StateOK'
    OBVIOUS
<1>1. CASE Tick
    <2>1. clock' \in Stamps
        BY <1>1 DEF Tick, StateOK, TimeOK, Stamps
    <2> QED
        BY <1>1, <2>1, UntouchedKeepsType DEF Tick, StateOK, TimeOK, ThreadsOK
<1>2. CASE Crash
    <2>1. ThreadsOK'
        BY <1>2, IdleIsAThread DEF Crash, ThreadsOK
    <2>2. \A d \in Deploys : [deploy[d] EXCEPT !.status = "failed"] \in Deploy
        BY DEF StateOK, RecordsOK, Deploy
    <2>3. RecordsOK'
        BY <1>2, <2>2 DEF Crash, StateOK, RecordsOK
    <2>4. faults' \in 0 .. MaxFaults
        BY <1>2 DEF Crash, StateOK
    <2> QED
        BY <1>2, <2>1, <2>3, <2>4, UntouchedKeepsType DEF Crash, StateOK
<1> QED
    BY <1>1, <1>2, ServeKeepsTypes, WorkKeepsTypes DEF Step

\* What a fault disturbs is an upload.
LEMMA DisturbsUploads ==
    ASSUME StateOK, StateOK', disturbed \subseteq Uploads, Remembers
    PROVE  disturbed' \subseteq Uploads
<1>1. InFlight \subseteq {None} \cup Uploads
    BY DEF StateOK, RecordsOK, ThreadsOK, Threads, Deploy, Thread, InFlight
<1>2. InFlight' \subseteq {None} \cup Uploads
    BY DEF StateOK, RecordsOK, ThreadsOK, Threads, Deploy, Thread, InFlight
<1>3. 1 .. lastUp \subseteq Uploads
    BY DEF StateOK, TimeOK, Uploads
<1>4. ASSUME NEW u \in disturbed' PROVE u \in Uploads
    BY <1>1, <1>2, <1>3 DEF Remembers
<1> QED
    BY <1>4

\* The type invariant, for every value of the constants.
THEOREM TypeCorrect == Spec => []TypeOK
<1>1. Init => TypeOK
    <2> SUFFICES ASSUME Init PROVE TypeOK
        OBVIOUS
    <2>1. th \in [Threads -> Thread]
        BY IdleIsAThread DEF Init
    <2>2. NoDeploy \in Deploy
        BY DEF NoDeploy, Deploy
    <2>3. deploy \in [Deploys -> Deploy]
        BY <2>2 DEF Init
    <2>4. clock \in Stamps
        BY DEF Init, Stamps
    <2> QED
        BY <2>1, <2>3, <2>4 DEF Init, TypeOK, Thread, Deploy, Hole
<1>2. TypeOK /\ [Next]_vars => TypeOK'
    <2> SUFFICES ASSUME TypeOK, [Next]_vars PROVE TypeOK'
        OBVIOUS
    <2>1. StateOK /\ disturbed \subseteq Uploads
        BY DEF TypeOK, StateOK, TimeOK, DiskOK, RowsOK, RecordsOK, ThreadsOK, Deploy, Thread
    <2>2. CASE Next
        <3>1. Step /\ Remembers
            BY <2>2 DEF Next, Step
        <3>2. StateOK'
            BY <2>1, <3>1, StepKeepsTypes
        <3>3. disturbed' \subseteq Uploads
            BY <2>1, <3>1, <3>2, DisturbsUploads
        <3> QED
            BY <3>2, <3>3
            DEF TypeOK, StateOK, TimeOK, DiskOK, RowsOK, RecordsOK, ThreadsOK, Deploy, Thread
    <2>3. CASE UNCHANGED vars
        BY <2>3 DEF TypeOK, vars, time, disk, rows, records
    <2> QED
        BY <2>2, <2>3
<1> QED
    BY <1>1, <1>2, PTL DEF Spec

-----------------------------------------------------------------------------
(* Who writes into which inode *)

Streams(r) == At(r, "stream")

StampedInOrder == \A u \in Uploads : stamp[u] # None <=> u <= lastUp

\* A name stands for an inode that was made in the second it names.
NamesTheirSecond == \A s \in Stamps : file[s] # None => /\ file[s] \in 1 .. lastUp
                                                        /\ stamp[file[s]] = s

\* Who streams writes into an inode of the upload's own second.
StreamsItsSecond ==
    \A r \in Requests : Streams(r) =>
        /\ th[r].u \in 1 .. lastUp /\ th[r].inode \in 1 .. lastUp
        /\ stamp[th[r].inode] = stamp[th[r].u]
        /\ ~Shared(th[r].u) /\ th[r].k # 1 => data[th[r].u][1] = th[r].u

OneWriterEach ==
    \A r, q \in Requests : Streams(r) /\ Streams(q) /\ th[r].u = th[q].u => r = q

DiskInv == StampedInOrder /\ NamesTheirSecond /\ StreamsItsSecond /\ OneWriterEach

\* An upload that has arrived: nobody writes it any more, and all of it is there.
Sent(u) ==
    /\ u \in 1 .. lastUp
    /\ \A r \in Requests : Streams(r) => th[r].u # u
    /\ ~Shared(u) => data[u] = [k \in Chunks |-> u]

\* What has arrived has begun.
LEMMA SentHasBegun ==
    ASSUME StateOK, NEW u, Sent(u) PROVE u \in Uploads /\ u \in 1 .. lastUp
    BY DEF Sent, StateOK, TimeOK, Uploads

\* A step that writes into no file and opens none.
Calm ==
    /\ UNCHANGED <<stamp, lastUp, data>>
    /\ \A s \in Stamps : file'[s] \in {None, file[s]}
    /\ \A r \in Requests : Streams(r)' => th'[r] = th[r]

\* Such a step takes nothing from what has arrived.
LEMMA CalmKeepsDisk ==
    ASSUME StateOK, DiskInv, Calm
    PROVE  DiskInv' /\ \A u \in Uploads : Sent(u) => Sent(u)'
<1>1. \A u : Shared(u)' <=> Shared(u)
    BY DEF Calm, Shared
<1>2. \A r \in Requests : Streams(r)' => Streams(r)
    BY DEF Calm, Streams, At
<1>3. StampedInOrder' /\ NamesTheirSecond'
    BY DEF DiskInv, StampedInOrder, NamesTheirSecond, Calm
<1>4. StreamsItsSecond' /\ OneWriterEach'
    BY <1>1, <1>2 DEF DiskInv, StreamsItsSecond, OneWriterEach, Calm
<1>5. \A u \in Uploads : Sent(u) => Sent(u)'
    BY <1>1, <1>2 DEF Sent, Calm
<1> QED
    BY <1>3, <1>4, <1>5 DEF DiskInv

\* An upload that begins takes an inode nobody unshared has.
LEMMA OpenKeepsDisk ==
    ASSUME StateOK, DiskInv, NEW r \in Requests, Open(r)
    PROVE  DiskInv' /\ \A u \in Uploads : Sent(u) => Sent(u)'
<1> DEFINE new   == lastUp + 1
           inode == IF file[clock] = None THEN new ELSE file[clock]
<1>1. /\ new \in Uploads /\ lastUp' = new
      /\ stamp' = [stamp EXCEPT ![new] = clock]
      /\ file' = [file EXCEPT ![clock] = inode]
      /\ data' = [data EXCEPT ![inode] = Hole]
    BY DEF Open, StateOK, TimeOK, Uploads
<1>2. r \in Threads /\ clock \in Stamps /\ clock # None /\ lastUp \in Nat
    BY DEF StateOK, TimeOK, Threads, Stamps
<1>3. /\ th'[r].at = "stream" /\ th'[r].u = new /\ th'[r].inode = inode /\ th'[r].k = 1
      /\ \A q \in Requests \ {r} : th'[q] = th[q]
    BY <1>2 DEF Open, StateOK, ThreadsOK, Threads, Idle
<1>4. inode \in 1 .. new /\ stamp'[inode] = clock
    BY <1>1, <1>2 DEF DiskInv, NamesTheirSecond, StateOK, TimeOK, Uploads
<1> HIDE DEF new, inode
<1>5. /\ stamp'[new] = clock
      /\ \A u \in Uploads : u # new => stamp'[u] = stamp[u]
      /\ \A u \in Uploads : u # inode => data'[u] = data[u]
      /\ \A s \in Stamps : s # clock => file'[s] = file[s]
      /\ file'[clock] = inode
    BY <1>1, <1>2 DEF StateOK, TimeOK, DiskOK
<1>6. \A u \in 1 .. lastUp : u \in Uploads /\ u # new /\ (~Shared(u)' => ~Shared(u) /\ u # inode)
    <2> SUFFICES ASSUME NEW u \in 1 .. lastUp
                 PROVE  u \in Uploads /\ u # new /\ (~Shared(u)' => ~Shared(u) /\ u # inode)
        OBVIOUS
    <2>1. u \in Uploads /\ u # new
        BY <1>2 DEF new, StateOK, TimeOK, Uploads
    <2>2. ASSUME Shared(u) PROVE Shared(u)'
        <3>1. PICK v \in Uploads \ {u} : stamp[v] = stamp[u]
            BY <2>2 DEF Shared
        <3>2. stamp[u] # None
            BY <2>1 DEF DiskInv, StampedInOrder, Uploads
        <3>3. v # new
            BY <1>2, <3>1, <3>2 DEF DiskInv, StampedInOrder, new, Uploads
        <3> QED
            BY <1>5, <2>1, <3>1, <3>3 DEF Shared
    <2>3. ASSUME u = inode PROVE Shared(u)'
        BY <1>1, <1>4, <1>5, <2>1, <2>3 DEF Shared
    <2> QED
        BY <2>1, <2>2, <2>3
<1>7. StampedInOrder'
    BY <1>1, <1>2, <1>5 DEF DiskInv, StampedInOrder, Uploads, new
<1>8. NamesTheirSecond'
    BY <1>1, <1>2, <1>4, <1>5, <1>6 DEF DiskInv, NamesTheirSecond, new
<1>9. StreamsItsSecond'
    <2> SUFFICES ASSUME NEW q \in Requests, Streams(q)'
                 PROVE  /\ th'[q].u \in 1 .. lastUp' /\ th'[q].inode \in 1 .. lastUp'
                        /\ stamp'[th'[q].inode] = stamp'[th'[q].u]
                        /\ ~Shared(th[q].u)' /\ th'[q].k # 1 => data'[th'[q].u][1] = th'[q].u
        BY DEF StreamsItsSecond
    <2>1. CASE q = r
        BY <1>1, <1>2, <1>3, <1>4, <1>5, <2>1 DEF new
    <2>2. CASE q # r
        <3>1. Streams(q) /\ th'[q] = th[q]
            BY <1>3, <2>2 DEF Streams, At
        <3>2. /\ th[q].u \in 1 .. lastUp /\ th[q].inode \in 1 .. lastUp
              /\ stamp[th[q].inode] = stamp[th[q].u]
              /\ ~Shared(th[q].u) /\ th[q].k # 1 => data[th[q].u][1] = th[q].u
            BY <3>1 DEF DiskInv, StreamsItsSecond
        <3> QED
            BY <1>1, <1>2, <1>5, <1>6, <3>1, <3>2 DEF new
    <2> QED
        BY <2>1, <2>2
<1>10. OneWriterEach'
    BY <1>1, <1>2, <1>3, <1>6 DEF DiskInv, StreamsItsSecond, OneWriterEach, Streams, At
<1>11. ASSUME NEW u \in Uploads, Sent(u) PROVE Sent(u)'
    <2>1. u \in 1 .. lastUp /\ u # new
        BY <1>6, <1>11 DEF Sent
    <2>2. \A q \in Requests : Streams(q)' => th'[q].u # u
        BY <1>3, <1>11, <2>1 DEF Sent, Streams, At
    <2>3. ~Shared(u)' => data'[u] = [k \in Chunks |-> u]
        BY <1>5, <1>6, <1>11, <2>1 DEF Sent
    <2> QED
        BY <1>1, <1>2, <2>1, <2>2, <2>3 DEF Sent, new
<1> QED
    BY <1>7, <1>8, <1>9, <1>10, <1>11 DEF DiskInv

\* A chunk reaches the upload it is of, and no other that has a second to itself.
LEMMA WriteKeepsDisk ==
    ASSUME StateOK, DiskInv, NEW r \in Requests, Write(r)
    PROVE  /\ DiskInv'
           /\ \A u \in Uploads : Sent(u) => Sent(u)'
           /\ th'[r].at \in {"look_up", "record"} => Sent(th[r].u)'
<1> DEFINE mine == th[r].u
           into == th[r].inode
           k    == th[r].k
<1>1. r \in Threads /\ k \in {1, 2} /\ Streams(r)
    BY DEF Threads, StateOK, ThreadsOK, Thread, Chunks, Write, Streams
<1>2. /\ mine \in 1 .. lastUp /\ into \in 1 .. lastUp
      /\ stamp[into] = stamp[mine]
      /\ ~Shared(mine) /\ k # 1 => data[mine][1] = mine
    BY <1>1 DEF DiskInv, StreamsItsSecond
<1>3. mine \in Uploads /\ into \in Uploads /\ 1 .. lastUp \subseteq Uploads
    BY <1>2 DEF StateOK, TimeOK, Uploads
<1>4. /\ data' = [data EXCEPT ![into][k] = mine]
      /\ UNCHANGED <<clock, stamp, lastUp, file>>
    BY DEF Write, time
<1>5. \A q \in Requests \ {r} : th'[q] = th[q]
    BY <1>1 DEF Write, GoOn, StateOK, ThreadsOK, Threads
<1>6. \/ k = 1 /\ th'[r] = [th[r] EXCEPT !.k = 2]
      \/ k = 2 /\ th'[r] = [th[r] EXCEPT !.at = Streamed(r)]
    BY <1>1 DEF Write, GoOn, StateOK, ThreadsOK, Streamed, Chunks
<1>7. /\ th'[r].u = mine
      /\ k = 1 => th'[r].at = "stream" /\ th'[r].inode = into
      /\ k = 2 => th'[r].at \in {"look_up", "record"}
    BY <1>1, <1>6 DEF Streams, At, StateOK, ThreadsOK, Thread, Streamed
<1> HIDE DEF mine, into, k
<1>8. \A u : Shared(u)' <=> Shared(u)
    BY <1>4 DEF Shared
<1>9. \A u \in Uploads : u # mine /\ ~Shared(u) => data'[u] = data[u]
    <2> SUFFICES ASSUME NEW u \in Uploads, u # mine, ~Shared(u) PROVE data'[u] = data[u]
        OBVIOUS
    <2>1. u # into
        BY <1>2, <1>3 DEF Shared
    <2> QED
        BY <1>3, <1>4, <2>1 DEF StateOK, DiskOK
<1>10. ~Shared(mine) => /\ into = mine
                        /\ data'[mine][k] = mine
                        /\ k = 2 => data'[mine][1] = data[mine][1]
                        /\ data'[mine] \in [Chunks -> {None} \cup Uploads]
    <2>1. ~Shared(mine) => into = mine
        BY <1>2, <1>3 DEF Shared
    <2>2. data[mine] \in [Chunks -> {None} \cup Uploads]
        BY <1>3 DEF StateOK, DiskOK
    <2>3. ~Shared(mine) => data'[mine] = [data[mine] EXCEPT ![k] = mine]
        BY <1>3, <1>4, <2>1 DEF StateOK, DiskOK
    <2> QED
        BY <1>1, <1>3, <2>1, <2>2, <2>3 DEF Chunks
<1>11. ASSUME NEW q \in Requests \ {r}, Streams(q)' PROVE Streams(q) /\ th[q].u # mine
    BY <1>1, <1>5, <1>11 DEF Streams, At, DiskInv, OneWriterEach, mine
<1>12. StampedInOrder' /\ NamesTheirSecond'
    BY <1>4 DEF DiskInv, StampedInOrder, NamesTheirSecond
<1>13. StreamsItsSecond'
    <2> SUFFICES ASSUME NEW q \in Requests, Streams(q)'
                 PROVE  /\ th'[q].u \in 1 .. lastUp' /\ th'[q].inode \in 1 .. lastUp'
                        /\ stamp'[th'[q].inode] = stamp'[th'[q].u]
                        /\ ~Shared(th[q].u)' /\ th'[q].k # 1 => data'[th'[q].u][1] = th'[q].u
        BY DEF StreamsItsSecond
    <2>1. CASE q = r
        <3>1. k = 1
            BY <1>1, <1>7, <2>1 DEF Streams, At, k
        <3> QED
            BY <1>2, <1>4, <1>7, <1>8, <1>10, <2>1, <3>1
    <2>2. CASE q # r
        <3>1. Streams(q) /\ th[q].u # mine /\ th'[q] = th[q]
            BY <1>5, <1>11, <2>2
        <3>2. /\ th[q].u \in 1 .. lastUp /\ th[q].inode \in 1 .. lastUp
              /\ stamp[th[q].inode] = stamp[th[q].u]
              /\ ~Shared(th[q].u) /\ th[q].k # 1 => data[th[q].u][1] = th[q].u
            BY <3>1 DEF DiskInv, StreamsItsSecond
        <3> QED
            BY <1>3, <1>4, <1>8, <1>9, <3>1, <3>2
    <2> QED
        BY <2>1, <2>2
<1>14. OneWriterEach'
    BY <1>5, <1>7, <1>11 DEF DiskInv, OneWriterEach
<1>15. ASSUME NEW u \in Uploads, Sent(u) PROVE Sent(u)'
    <2>1. u # mine
        BY <1>1, <1>15 DEF Sent, mine
    <2>2. \A q \in Requests : Streams(q)' => th'[q].u # u
        BY <1>5, <1>7, <1>11, <1>15, <2>1 DEF Sent
    <2>3. ~Shared(u)' => data'[u] = [j \in Chunks |-> u]
        BY <1>8, <1>9, <1>15, <2>1 DEF Sent
    <2> QED
        BY <1>4, <1>15, <2>2, <2>3 DEF Sent
<1>16. ASSUME th'[r].at \in {"look_up", "record"} PROVE Sent(th[r].u)'
    <2>1. k = 2
        BY <1>1, <1>7, <1>16
    <2>2. ~Shared(mine) => data'[mine] = [j \in Chunks |-> mine]
        BY <1>2, <1>10, <2>1 DEF Chunks
    <2>3. ~Shared(th[r].u)' => data'[mine] = [j \in Chunks |-> mine]
        BY <1>7, <1>8, <2>2
    <2>4. \A q \in Requests : Streams(q)' => th'[q].u # mine
        BY <1>5, <1>11, <1>16 DEF Streams, At
    <2> QED
        BY <1>2, <1>4, <1>7, <2>3, <2>4 DEF Sent
<1> QED
    BY <1>7, <1>12, <1>13, <1>14, <1>15, <1>16 DEF DiskInv

\* Every other step of a request or a worker is calm.
LEMMA ServeIsCalm ==
    ASSUME StateOK, NEW r \in Requests, Serve(r), ~Open(r), ~Write(r) PROVE Calm
<1> USE DEF Calm, Streams, At, StateOK, ThreadsOK, Threads, Idle, GoOn, time, disk
<1>1. CASE TooLarge(r)
    BY <1>1 DEF TooLarge, DiskOK
<1>2. CASE DiskFull(r)
    BY <1>2 DEF DiskFull
<1>3. CASE LookUp(r)
    BY <1>3 DEF LookUp
<1>4. CASE Record(r)
    BY <1>4 DEF Record
<1>5. CASE Rollback(r)
    BY <1>5 DEF Rollback
<1>6. CASE Delete(r)
    BY <1>6 DEF Delete
<1>7. CASE DeleteRow(r)
    BY <1>7 DEF DeleteRow
<1>8. CASE DeleteFiles(r)
    BY <1>8 DEF DeleteFiles
<1> QED
    BY <1>1, <1>2, <1>3, <1>4, <1>5, <1>6, <1>7, <1>8 DEF Serve

\* A worker reads and unlinks.
LEMMA WorkIsCalm ==
    ASSUME StateOK, NEW w \in Workers, Work(w) PROVE Calm
<1>1. \A r \in Requests : th'[r] = th[r]
    <2> SUFFICES ASSUME NEW r \in Requests PROVE th'[r] = th[r]
        OBVIOUS
    <2>1. r # w /\ th = [t \in Threads |-> th[t]] /\ r \in Threads
        BY DEF StateOK, ThreadsOK, Threads
    <2>2. \/ \E x : th' = [th EXCEPT ![w] = x]
          \/ UNCHANGED th
          \/ Glob(w)
        BY DEF Work, Take, Unreadable, Read, Fails, Succeeds, Prune, Ends, GoOn
    <2> QED
        BY <2>1, <2>2 DEF Glob
<1>2. UNCHANGED <<stamp, lastUp, data>>
    BY DEF Work, Take, Unreadable, Read, Fails, Succeeds, Glob, Prune, Ends, time, disk
<1>3. \A s \in Stamps : file'[s] \in {None, file[s]}
    BY DEF Work, Take, Unreadable, Read, Fails, Succeeds, Glob, Prune, Ends, disk
<1> QED
    BY <1>1, <1>2, <1>3 DEF Calm

\* No step takes anything from an upload that has arrived.
LEMMA StepKeepsDisk ==
    ASSUME StateOK, DiskInv, Step
    PROVE  DiskInv' /\ \A u \in Uploads : Sent(u) => Sent(u)'
<1>1. ASSUME NEW r \in Requests, Serve(r)
      PROVE  DiskInv' /\ \A u \in Uploads : Sent(u) => Sent(u)'
    BY <1>1, ServeIsCalm, CalmKeepsDisk, OpenKeepsDisk, WriteKeepsDisk
<1>2. ASSUME NEW w \in Workers, Work(w)
      PROVE  DiskInv' /\ \A u \in Uploads : Sent(u) => Sent(u)'
    BY <1>2, WorkIsCalm, CalmKeepsDisk
<1>3. CASE Tick
    <2>1. Calm
        BY <1>3 DEF Tick, Calm, disk
    <2> QED
        BY <2>1, CalmKeepsDisk
<1>4. CASE Crash
    <2>1. Calm
        BY <1>4 DEF Crash, Calm, Streams, At, Idle, Threads, time, disk
    <2> QED
        BY <2>1, CalmKeepsDisk
<1> QED
    BY <1>1, <1>2, <1>3, <1>4 DEF Step

-----------------------------------------------------------------------------
(* Deploys are made for uploads that have arrived *)

Born(d) == deploy[d].status # "unborn"

RequestsHoldSent ==
    \A r \in Requests : th[r].at \in {"look_up", "record"} => Sent(th[r].u)

DeploysAreSent ==
    \A d \in Deploys : Born(d) =>
        /\ Sent(deploy[d].from)
        /\ ~Shared(deploy[d].from) => deploy[d].got \in {None, deploy[d].from}

\* What is queued or worked on has a record.
QueueIsBorn == \A i \in 1 .. Len(queue) : Born(queue[i])
WorkIsBorn  == \A w \in Workers : th[w].at \in {"read", "build"} =>
                                     th[w].d \in Deploys /\ Born(th[w].d)

UnbornIsNobodys == \A d \in Deploys : ~Born(d) => deploy[d].app = None

RecordsInv ==
    RequestsHoldSent /\ DeploysAreSent /\ QueueIsBorn /\ WorkIsBorn /\ UnbornIsNobodys

\* The whole inductive invariant.
Inv == StateOK /\ DiskInv /\ RecordsInv

\* Stamps stay, so two uploads of one second stay two uploads of one second.
LEMMA SharedStays ==
    ASSUME StateOK, DiskInv, Step, NEW u \in 1 .. lastUp, Shared(u) PROVE Shared(u)'
<1>1. \A v \in 1 .. lastUp : stamp'[v] = stamp[v]
    <2>1. ASSUME NEW r \in Requests, Open(r) PROVE \A v \in 1 .. lastUp : stamp'[v] = stamp[v]
        BY <2>1 DEF Open, StateOK, TimeOK, Uploads
    <2>2. ASSUME NEW r \in Requests, Serve(r), ~Open(r) PROVE UNCHANGED stamp
        BY <2>2, ServeIsCalm DEF Write, time, Calm
    <2>3. ASSUME NEW w \in Workers, Work(w) PROVE UNCHANGED stamp
        BY <2>3, WorkIsCalm DEF Calm
    <2> QED
        BY <2>1, <2>2, <2>3 DEF Step, Tick, Crash, time
<1>2. PICK v \in Uploads \ {u} : stamp[v] = stamp[u]
    BY DEF Shared
<1>3. stamp[u] # None /\ v \in 1 .. lastUp
    BY <1>2 DEF DiskInv, StampedInOrder, StateOK, TimeOK, Uploads
<1> QED
    BY <1>1, <1>2, <1>3 DEF Shared

\* A step that makes no record and unpacks nothing.
DeploysStay ==
    \A d \in Deploys : /\ deploy'[d].from = deploy[d].from /\ deploy'[d].got = deploy[d].got
                       /\ deploy'[d].app = deploy[d].app
                       /\ Born(d)' <=> Born(d)

\* Such a step keeps what is known of the deploys.
LEMMA StayingKeepsDeploys ==
    ASSUME Inv, Step, DeploysStay PROVE DeploysAreSent' /\ UnbornIsNobodys'
<1>1. \A u \in Uploads : Sent(u) => Sent(u)'
    BY StepKeepsDisk DEF Inv
<1>2. \A d \in Deploys : deploy[d].from \in {None} \cup Uploads
    BY DEF Inv, StateOK, RecordsOK, Deploy
<1>3. ASSUME NEW d \in Deploys, Born(d)'
      PROVE  /\ Sent(deploy[d].from)'
             /\ ~Shared(deploy[d].from)' => deploy'[d].got \in {None, deploy'[d].from}
    <2> DEFINE u == deploy[d].from
    <2>1. Born(d) /\ deploy'[d].from = u /\ deploy'[d].got = deploy[d].got
        BY <1>3 DEF DeploysStay
    <2>2. Sent(u) /\ (~Shared(u) => deploy[d].got \in {None, u})
        BY <2>1 DEF Inv, RecordsInv, DeploysAreSent
    <2>3. u \in 1 .. lastUp /\ u \in Uploads
        BY <1>2, <2>2 DEF Sent
    <2>4. ASSUME NEW v, v = u PROVE Sent(v)' /\ (Shared(v) => Shared(v)')
        BY <1>1, <2>2, <2>3, <2>4, SharedStays DEF Inv
    <2> QED
        BY <2>1, <2>2, <2>4
<1>4. UnbornIsNobodys'
    BY DEF Inv, RecordsInv, UnbornIsNobodys, DeploysStay
<1> QED
    BY <1>3, <1>4 DEF DeploysAreSent

\* A request keeps to uploads that have arrived, and makes records of no others.
LEMMA ServeKeepsRecords ==
    ASSUME Inv, NEW r \in Requests, Serve(r) PROVE RecordsInv'
<1>1. Step /\ StateOK /\ DiskInv /\ StateOK' /\ r \in Threads
    BY ServeKeepsTypes DEF Inv, Step, Threads
<1>2. \A u \in Uploads : Sent(u) => Sent(u)'
    BY <1>1, StepKeepsDisk
<1>3. \A t \in Threads \ {r} : th'[t] = th[t]
    BY <1>1 DEF Serve, Open, Write, TooLarge, DiskFull, LookUp, Record, Rollback, Delete,
                DeleteRow, DeleteFiles, GoOn, StateOK, ThreadsOK
<1>4. th[r] \in Thread /\ th'[r] \in Thread
    BY <1>1 DEF StateOK, ThreadsOK
<1>5. ASSUME ~Record(r) PROVE DeploysStay /\ queue' = queue
    <2>1. CASE DeleteRow(r)
        <3>1. \A d \in Deploys : deploy'[d] \in {deploy[d], [deploy[d] EXCEPT !.gone = TRUE]}
            BY <2>1 DEF DeleteRow
        <3> QED
            BY <1>1, <2>1, <3>1 DEF DeleteRow, DeploysStay, Born, StateOK, RecordsOK, Deploy
    <2>2. CASE ~DeleteRow(r)
        BY <1>5, <2>2 DEF Serve, Open, Write, TooLarge, DiskFull, LookUp, Rollback, Delete,
                          DeleteFiles, records, DeploysStay, Born
    <2> QED
        BY <2>1, <2>2
<1>6. ASSUME th'[r].at \in {"look_up", "record"} PROVE Sent(th[r].u)'
    <2>1. CASE Write(r)
        BY <1>1, <1>6, <2>1, WriteKeepsDisk
    <2>2. CASE LookUp(r)
        <3>1. th'[r].u = th[r].u /\ Sent(th[r].u)
            BY <1>1, <2>2 DEF LookUp, At, StateOK, ThreadsOK, Inv, RecordsInv, RequestsHoldSent
        <3> QED
            BY <1>1, <1>2, <3>1, SentHasBegun
    <2>3. CASE Rollback(r)
        <3>1. PICK d \in Deploys : /\ app # None /\ deploy[d].app = app
                                   /\ th' = [th EXCEPT ![r] = [Idle EXCEPT !.at = "record",
                                                !.id = app, !.u = deploy[d].from]]
            BY <2>3 DEF Rollback
        <3>2. th'[r].u = deploy[d].from
            BY <1>1, <3>1 DEF Idle, StateOK, ThreadsOK
        <3>3. Born(d)
            BY <3>1 DEF Inv, RecordsInv, UnbornIsNobodys
        <3>4. Sent(th'[r].u)
            BY <3>2, <3>3 DEF Inv, RecordsInv, DeploysAreSent
        <3>5. th'[r].u \in Uploads
            BY <1>4, <3>4 DEF Sent, Thread
        <3> QED
            BY <1>2, <3>4, <3>5
    <2>4. CASE ~Write(r) /\ ~LookUp(r) /\ ~Rollback(r)
        <3>1. CASE Open(r)
            BY <1>1, <1>6, <3>1 DEF Open, Idle, StateOK, ThreadsOK
        <3>2. CASE TooLarge(r) \/ DiskFull(r) \/ Record(r) \/ DeleteFiles(r)
            BY <1>1, <1>6, <3>2 DEF TooLarge, DiskFull, Record, DeleteFiles, GoOn, Idle,
                                    StateOK, ThreadsOK
        <3>3. CASE Delete(r)
            BY <1>1, <1>6, <3>3 DEF Delete, Idle, StateOK, ThreadsOK
        <3>4. CASE DeleteRow(r)
            BY <1>1, <1>4, <1>6, <3>4 DEF DeleteRow, GoOn, StateOK, ThreadsOK, Thread
        <3> QED
            BY <2>4, <3>1, <3>2, <3>3, <3>4 DEF Serve
    <2> QED
        BY <2>1, <2>2, <2>3, <2>4
<1>7. RequestsHoldSent'
    <2> SUFFICES ASSUME NEW q \in Requests, th'[q].at \in {"look_up", "record"}
                 PROVE  Sent(th[q].u)'
        BY DEF RequestsHoldSent
    <2>1. CASE q = r
        BY <1>6, <2>1
    <2>2. CASE q # r
        <3>1. th'[q] = th[q] /\ th[q] \in Thread
            BY <1>1, <1>3, <2>2 DEF Threads, StateOK, ThreadsOK
        <3>2. Sent(th[q].u) /\ th[q].u \in Uploads
            BY <1>1, <3>1, SentHasBegun DEF Inv, RecordsInv, RequestsHoldSent
        <3> QED
            BY <1>2, <3>1, <3>2
    <2> QED
        BY <2>1, <2>2
<1>8. CASE ~Record(r)
    <2>1. DeploysAreSent' /\ UnbornIsNobodys'
        BY <1>1, <1>5, <1>8, StayingKeepsDeploys
    <2>2. QueueIsBorn'
        BY <1>1, <1>5, <1>8 DEF Inv, RecordsInv, QueueIsBorn, DeploysStay, StateOK, RecordsOK
    <2>3. WorkIsBorn'
        BY <1>1, <1>3, <1>5, <1>8 DEF Inv, RecordsInv, WorkIsBorn, DeploysStay, Threads
    <2> QED
        BY <1>7, <2>1, <2>2, <2>3 DEF RecordsInv
<1>9. CASE Record(r) /\ app # th[r].id
    <2>1. DeploysStay /\ UNCHANGED records
        BY <1>9 DEF Record, DeploysStay, Born, records
    <2>2. DeploysAreSent' /\ UnbornIsNobodys'
        BY <1>1, <2>1, StayingKeepsDeploys
    <2>3. QueueIsBorn' /\ WorkIsBorn'
        BY <1>1, <1>3, <2>1 DEF Inv, RecordsInv, QueueIsBorn, WorkIsBorn, DeploysStay, Threads,
                                records, Born
    <2> QED
        BY <1>7, <2>2, <2>3 DEF RecordsInv
<1>10. CASE Record(r) /\ app = th[r].id
    <2>1. PICK d \in Deploys :
            /\ deploy[d].status = "unborn"
            /\ deploy' = [deploy EXCEPT ![d] = [NoDeploy EXCEPT
                            !.status = "queued", !.app = app, !.from = th[r].u]]
            /\ queue' = Append(queue, d)
        BY <1>10 DEF Record
    <2>2. /\ deploy'[d].status = "queued" /\ deploy'[d].from = th[r].u /\ deploy'[d].got = None
          /\ \A e \in Deploys \ {d} : deploy'[e] = deploy[e]
        BY <1>1, <2>1 DEF NoDeploy, StateOK, RecordsOK
    <2>3. Sent(th[r].u) /\ th[r].u \in Uploads
        BY <1>1, <1>10, SentHasBegun DEF Record, At, Inv, RecordsInv, RequestsHoldSent
    <2>4. \A e \in Deploys : Born(e) => Born(e)'
        BY <2>1, <2>2 DEF Born
    <2>5. DeploysAreSent'
        <3> SUFFICES ASSUME NEW e \in Deploys, Born(e)'
                     PROVE  /\ Sent(deploy[e].from)'
                            /\ ~Shared(deploy[e].from)'
                                 => deploy'[e].got \in {None, deploy'[e].from}
            BY DEF DeploysAreSent
        <3>1. CASE e = d
            <4>1. ASSUME NEW v, v = th[r].u PROVE Sent(v)'
                BY <1>2, <2>3, <4>1
            <4> QED
                BY <2>2, <3>1, <4>1
        <3>2. CASE e # d
            <4>1. Born(e) /\ deploy'[e] = deploy[e]
                BY <2>2, <3>2 DEF Born
            <4>2. Sent(deploy[e].from) /\ (~Shared(deploy[e].from) =>
                                              deploy[e].got \in {None, deploy[e].from})
                BY <4>1 DEF Inv, RecordsInv, DeploysAreSent
            <4>3. deploy[e].from \in 1 .. lastUp /\ deploy[e].from \in Uploads
                BY <1>1, <4>2 DEF Sent, StateOK, RecordsOK, Deploy
            <4>4. ASSUME NEW v, v = deploy[e].from PROVE Sent(v)' /\ (Shared(v) => Shared(v)')
                BY <1>1, <1>2, <4>2, <4>3, <4>4, SharedStays
            <4> QED
                BY <4>1, <4>2, <4>4
        <3> QED
            BY <3>1, <3>2
    <2>6. UnbornIsNobodys'
        BY <2>2 DEF Inv, RecordsInv, UnbornIsNobodys, Born
    <2>7. QueueIsBorn'
        BY <1>1, <2>1, <2>2, <2>4 DEF Inv, RecordsInv, QueueIsBorn, Born, StateOK, RecordsOK
    <2>8. WorkIsBorn'
        BY <1>1, <1>3, <2>4 DEF Inv, RecordsInv, WorkIsBorn, Threads
    <2> QED
        BY <1>7, <2>5, <2>6, <2>7, <2>8 DEF RecordsInv
<1> QED
    BY <1>8, <1>9, <1>10

\* A worker unpacks the upload of its deploy, if that has its second to itself.
LEMMA WorkKeepsRecords ==
    ASSUME Inv, NEW w \in Workers, Work(w) PROVE RecordsInv'
<1>1. Step /\ StateOK /\ DiskInv /\ StateOK' /\ w \in Threads
    BY WorkKeepsTypes DEF Inv, Step, Threads
<1>2. \A u \in Uploads : Sent(u) => Sent(u)'
    BY <1>1, StepKeepsDisk
<1>3. \A t \in Threads \ {w} : th'[t] = th[t]
    BY <1>1 DEF Work, Take, Unreadable, Read, Fails, Succeeds, Glob, Prune, Ends, GoOn,
                StateOK, ThreadsOK
<1>4. th[w] \in Thread
    BY <1>1 DEF StateOK, ThreadsOK
<1>5. RequestsHoldSent'
    <2> SUFFICES ASSUME NEW q \in Requests, th'[q].at \in {"look_up", "record"}
                 PROVE  Sent(th[q].u)'
        BY DEF RequestsHoldSent
    <2>1. th'[q] = th[q] /\ th[q] \in Thread
        BY <1>1, <1>3 DEF Threads, StateOK, ThreadsOK
    <2>2. Sent(th[q].u) /\ th[q].u \in Uploads
        BY <1>1, <2>1, SentHasBegun DEF Inv, RecordsInv, RequestsHoldSent
    <2> QED
        BY <1>2, <2>1, <2>2
<1>6. \A d \in Deploys : Born(d)' <=> Born(d)
    <2>1. CASE Take(w)
        <3>1. Head(queue) \in Deploys /\ Born(Head(queue))
            BY <1>1, <2>1 DEF Take, Inv, RecordsInv, QueueIsBorn, StateOK, RecordsOK
        <3>2. CASE deploy' = deploy
            BY <3>2 DEF Born
        <3>3. CASE deploy' = [deploy EXCEPT ![Head(queue)].status = "building"]
            BY <1>1, <3>1, <3>3 DEF Born, StateOK, RecordsOK
        <3> QED
            BY <2>1, <3>2, <3>3 DEF Take
    <2>2. ASSUME NEW s \in {"live", "failed"}, NEW next, Ends(w, s, next),
                 th[w].at \in {"read", "build"}
          PROVE  \A d \in Deploys : Born(d)' <=> Born(d)
        <3>1. th[w].d \in Deploys /\ Born(th[w].d)
            BY <2>2 DEF Inv, RecordsInv, WorkIsBorn
        <3> QED
            BY <1>1, <2>2, <3>1 DEF Ends, Born, StateOK, RecordsOK, Deploy
    <2>3. CASE Read(w)
        BY <1>1, <2>3 DEF Read, Born, StateOK, RecordsOK, Deploy
    <2>4. CASE Glob(w) \/ Prune(w)
        BY <2>4 DEF Glob, Prune, Born, records
    <2> QED
        BY <2>1, <2>2, <2>3, <2>4 DEF Work, Unreadable, Fails, Succeeds, At
<1>7. \A d \in Deploys : /\ deploy'[d].from = deploy[d].from
                         /\ deploy'[d].app = deploy[d].app
                         /\ ~Read(w) => deploy'[d].got = deploy[d].got
    <2>1. CASE Take(w)
        <3>1. PICK e : deploy' = deploy \/ deploy' = [deploy EXCEPT ![e].status = "building"]
            BY <2>1 DEF Take
        <3>2. CASE deploy' = deploy
            BY <3>2
        <3>3. CASE deploy' = [deploy EXCEPT ![e].status = "building"]
            BY <1>1, <3>3 DEF StateOK, RecordsOK, Deploy
        <3> QED
            BY <3>1, <3>2, <3>3
    <2>2. CASE Read(w)
        <3>1. PICK e, u : deploy' = [deploy EXCEPT ![e].got = u]
            BY <2>2 DEF Read
        <3> QED
            BY <1>1, <2>2, <3>1 DEF StateOK, RecordsOK, Deploy
    <2>3. ASSUME NEW s, NEW next, Ends(w, s, next)
          PROVE  \A d \in Deploys : /\ deploy'[d].from = deploy[d].from
                                    /\ deploy'[d].app = deploy[d].app
                                    /\ deploy'[d].got = deploy[d].got
        BY <1>1, <2>3 DEF Ends, StateOK, RecordsOK, Deploy
    <2>4. CASE Glob(w) \/ Prune(w)
        BY <2>4 DEF Glob, Prune, records
    <2> QED
        BY <2>1, <2>2, <2>3, <2>4 DEF Work, Unreadable, Fails, Succeeds
<1>8. DeploysAreSent' /\ UnbornIsNobodys'
    <2>1. CASE ~Read(w)
        BY <1>1, <1>6, <1>7, <2>1, StayingKeepsDeploys DEF DeploysStay
    <2>2. CASE Read(w)
        <3> DEFINE mine == th[w].d
        <3>1. PICK u \in Uploads : /\ Whole(u, stamp[deploy[mine].from])
                                   /\ deploy' = [deploy EXCEPT ![mine].got = u]
            BY <2>2 DEF Read
        <3>2. mine \in Deploys /\ Born(mine)
            BY <2>2 DEF Read, At, Inv, RecordsInv, WorkIsBorn
        <3>3. /\ deploy'[mine].got = u
              /\ \A d \in Deploys \ {mine} : deploy'[d] = deploy[d]
            BY <1>1, <3>1, <3>2 DEF StateOK, RecordsOK, Deploy
        <3>4. Sent(deploy[mine].from)
            BY <3>2 DEF Inv, RecordsInv, DeploysAreSent
        <3>5. ~Shared(deploy[mine].from) => u = deploy[mine].from
            <4> DEFINE v == deploy[mine].from
                       i == file[stamp[v]]
            <4>1. v \in 1 .. lastUp /\ v \in Uploads /\ stamp[v] \in Stamps
                <5>1. v \in 1 .. lastUp /\ v \in Uploads
                    BY <1>1, <3>4, SentHasBegun
                <5>2. stamp[v] # None
                    BY <1>1, <5>1 DEF DiskInv, StampedInOrder, StateOK, TimeOK
                <5> QED
                    BY <1>1, <5>1, <5>2 DEF StateOK, TimeOK
            <4>2. i \in 1 .. lastUp /\ i \in Uploads /\ stamp[i] = stamp[v] /\ data[i] = [k \in Chunks |-> u]
                BY <1>1, <3>1, <4>1
                DEF Whole, Present, DiskInv, NamesTheirSecond, StateOK, TimeOK, DiskOK
            <4> HIDE DEF i, v
            <4>3. ~Shared(v) => i = v
                BY <4>1, <4>2 DEF Shared
            <4>4. ~Shared(v) => data[v] = [k \in Chunks |-> v]
                BY <3>4 DEF Sent, v
            <4>5. ~Shared(v) => data[v][1] = u /\ data[v][1] = v
                BY <4>2, <4>3, <4>4 DEF Chunks
            <4> QED
                BY <4>5 DEF v
        <3>6. DeploysAreSent'
            <4> SUFFICES ASSUME NEW d \in Deploys, Born(d)'
                         PROVE  /\ Sent(deploy[d].from)'
                                /\ ~Shared(deploy[d].from)'
                                     => deploy'[d].got \in {None, deploy'[d].from}
                BY DEF DeploysAreSent
            <4>1. /\ Sent(deploy[d].from)
                  /\ ~Shared(deploy[d].from) => deploy'[d].got \in {None, deploy[d].from}
                BY <1>6, <3>3, <3>5 DEF Inv, RecordsInv, DeploysAreSent
            <4>2. deploy[d].from \in 1 .. lastUp /\ deploy[d].from \in Uploads
                BY <1>1, <4>1 DEF Sent, StateOK, RecordsOK, Deploy
            <4>3. ASSUME NEW v, v = deploy[d].from PROVE Sent(v)' /\ (Shared(v) => Shared(v)')
                BY <1>1, <1>2, <4>1, <4>2, <4>3, SharedStays
            <4> QED
                BY <1>7, <4>1, <4>3
        <3>7. UnbornIsNobodys'
            BY <1>6, <1>7 DEF Inv, RecordsInv, UnbornIsNobodys
        <3> QED
            BY <3>6, <3>7
    <2> QED
        BY <2>1, <2>2
<1>9. QueueIsBorn' /\ WorkIsBorn'
    <2>1. CASE Take(w)
        <3>1. /\ Head(queue) \in Deploys /\ Born(Head(queue))
              /\ \A i \in 1 .. Len(queue) : queue[i] \in Deploys /\ Born(queue[i])
              /\ queue' = Tail(queue) /\ queue # << >> /\ queue \in Seq(Deploys)
            BY <1>1, <2>1 DEF Take, Inv, RecordsInv, QueueIsBorn, StateOK, RecordsOK
        <3>2. \A i \in 1 .. Len(queue') : i + 1 \in 1 .. Len(queue) /\ queue'[i] = queue[i + 1]
            BY <3>1
        <3>3. (th'[w].at = "read" /\ th'[w].d = Head(queue)) \/ th'[w] = th[w]
            BY <1>1, <2>1 DEF Take, Idle, StateOK, ThreadsOK
        <3>4. \A v \in Workers : v # w => th'[v] = th[v]
            BY <1>3 DEF Threads
        <3> QED
            BY <1>6, <3>1, <3>2, <3>3, <3>4 DEF Inv, RecordsInv, QueueIsBorn, WorkIsBorn
    <2>2. CASE ~Take(w)
        <3>1. queue' = queue
            BY <2>2 DEF Work, Unreadable, Read, Fails, Succeeds, Glob, Prune, Ends, records
        <3>2. th'[w].at \in {"read", "build"} => th[w].at = "read" /\ th'[w].d = th[w].d
            BY <1>1, <1>4, <2>2 DEF Work, Unreadable, Read, Fails, Succeeds, Glob, Prune, Ends,
                                    GoOn, Idle, At, StateOK, ThreadsOK, Thread
        <3>3. \A v \in Workers : v # w => th'[v] = th[v]
            BY <1>3 DEF Threads
        <3> QED
            BY <1>1, <1>6, <3>1, <3>2, <3>3
            DEF Inv, RecordsInv, QueueIsBorn, WorkIsBorn, StateOK, RecordsOK
    <2> QED
        BY <2>1, <2>2
<1> QED
    BY <1>5, <1>8, <1>9 DEF RecordsInv

\* A crash forgets what was queued and worked on, and keeps the rest.
LEMMA CrashKeepsRecords == Inv /\ Crash => RecordsInv'
<1> SUFFICES ASSUME Inv, Crash PROVE RecordsInv'
    OBVIOUS
<1>1. Step /\ StateOK
    BY DEF Step, Inv
<1>2. DeploysStay
    <2>1. \A d \in Deploys : \/ deploy'[d] = deploy[d]
                             \/ Born(d) /\ deploy'[d] = [deploy[d] EXCEPT !.status = "failed"]
        BY DEF Crash, Born
    <2>2. ASSUME NEW d \in Deploys
          PROVE  /\ deploy'[d].from = deploy[d].from /\ deploy'[d].got = deploy[d].got
                 /\ deploy'[d].app = deploy[d].app /\ (Born(d)' <=> Born(d))
        <3>1. CASE deploy'[d] = deploy[d]
            BY <3>1 DEF Born
        <3>2. CASE Born(d) /\ deploy'[d] = [deploy[d] EXCEPT !.status = "failed"]
            BY <1>1, <3>2 DEF Born, StateOK, RecordsOK, Deploy
        <3> QED
            BY <2>1, <3>1, <3>2
    <2> QED
        BY <2>2 DEF DeploysStay
<1>3. DeploysAreSent' /\ UnbornIsNobodys'
    BY <1>1, <1>2, StayingKeepsDeploys
<1>4. \A t \in Threads : th'[t].at = "idle"
    BY DEF Crash, Idle
<1>5. RequestsHoldSent' /\ WorkIsBorn'
    BY <1>4 DEF RequestsHoldSent, WorkIsBorn, Threads
<1>6. QueueIsBorn'
    BY DEF Crash, QueueIsBorn
<1> QED
    BY <1>3, <1>5, <1>6 DEF RecordsInv

\* Time passes and nothing else does.
LEMMA IdlingKeepsInv ==
    ASSUME Inv, UNCHANGED <<stamp, lastUp, disk, rows, records, th, faults>>, clock' \in Stamps
    PROVE  Inv'
<1>1. StateOK'
    BY DEF Inv, StateOK, TimeOK, DiskOK, RowsOK, RecordsOK, ThreadsOK, disk, rows, records
<1>2. DiskInv' /\ \A u \in Uploads : Sent(u) => Sent(u)'
    <2>1. Calm
        BY DEF Calm, disk
    <2> QED
        BY <2>1, CalmKeepsDisk DEF Inv
<1>3. \A u : (Sent(u) => Sent(u)') /\ (Shared(u)' <=> Shared(u))
    BY <1>2, SentHasBegun DEF Shared, Inv
<1>4. RecordsInv'
    BY <1>3 DEF Inv, RecordsInv, RequestsHoldSent, DeploysAreSent, QueueIsBorn, WorkIsBorn,
                UnbornIsNobodys, Born, records
<1> QED
    BY <1>1, <1>2, <1>4 DEF Inv

\* The strengthening is kept by every step and by a stutter.
LEMMA InvIsInductive == Inv /\ [Next]_vars => Inv'
<1> SUFFICES ASSUME Inv, [Next]_vars PROVE Inv'
    OBVIOUS
<1>1. CASE Step
    <2>1. StateOK' /\ DiskInv'
        BY <1>1, StepKeepsTypes, StepKeepsDisk DEF Inv
    <2>2. CASE Tick
        BY <2>1, <2>2, IdlingKeepsInv DEF Tick, Inv, StateOK, TimeOK
    <2>3. CASE ~Tick
        BY <1>1, <2>1, <2>3, ServeKeepsRecords, WorkKeepsRecords, CrashKeepsRecords
        DEF Step, Inv
    <2> QED
        BY <2>2, <2>3
<1>2. CASE UNCHANGED vars
    BY <1>2, IdlingKeepsInv DEF vars, time, Inv, StateOK, TimeOK
<1> QED
    BY <1>1, <1>2 DEF Next, Step

\* It holds of an empty directory.
LEMMA InvHoldsAtFirst == Init => Inv
<1> SUFFICES ASSUME Init PROVE Inv
    OBVIOUS
<1>1. StateOK
    <2>1. th \in [Threads -> Thread]
        BY IdleIsAThread DEF Init
    <2>2. NoDeploy \in Deploy
        BY DEF NoDeploy, Deploy
    <2>3. deploy \in [Deploys -> Deploy]
        BY <2>2 DEF Init
    <2>4. clock \in Stamps
        BY DEF Init, Stamps
    <2> QED
        BY <2>1, <2>3, <2>4
        DEF Init, StateOK, TimeOK, DiskOK, RowsOK, RecordsOK, ThreadsOK, Hole
<1>2. \A t \in Threads : th[t].at = "idle"
    BY DEF Init, Idle
<1>3. \A d \in Deploys : deploy[d].status = "unborn" /\ deploy[d].app = None
    BY DEF Init, NoDeploy
<1>4. DiskInv
    BY <1>2 DEF Init, DiskInv, StampedInOrder, NamesTheirSecond, StreamsItsSecond,
                OneWriterEach, Streams, At, Threads, Uploads
<1>5. RecordsInv
    BY <1>2, <1>3 DEF Init, RecordsInv, RequestsHoldSent, DeploysAreSent, QueueIsBorn,
                      WorkIsBorn, UnbornIsNobodys, Born, Threads
<1> QED
    BY <1>1, <1>4, <1>5 DEF Inv

\* A deploy whose ZIP is there finds all of the ZIP that was sent for it, and
\* unpacks no other, for every number of requests, workers, uploads and faults,
\* also when the clock falls back; unless another upload of the name began in
\* the same second (app.py, _store_upload; archive.py, extract).
THEOREM OwnUpload == Spec => []ReadsItsOwnUpload
<1>1. Init => Inv
    BY InvHoldsAtFirst
<1>2. Inv /\ [Next]_vars => Inv'
    BY InvIsInductive
<1>3. Inv => ReadsItsOwnUpload
    <2> SUFFICES ASSUME Inv, NEW d \in Deploys, Born(d), ~Shared(deploy[d].from)
                 PROVE  /\ Present(stamp[deploy[d].from])
                             => Whole(deploy[d].from, stamp[deploy[d].from])
                        /\ deploy[d].got \in {None, deploy[d].from}
        BY DEF ReadsItsOwnUpload, Born
    <2> DEFINE u == deploy[d].from
               i == file[stamp[u]]
    <2>1. Sent(u) /\ deploy[d].got \in {None, u}
        BY DEF Inv, RecordsInv, DeploysAreSent
    <2>2. u \in Uploads /\ u \in 1 .. lastUp
        BY <2>1, SentHasBegun DEF Inv
    <2>3. stamp[u] \in Stamps
        BY <2>2 DEF Inv, DiskInv, StampedInOrder, StateOK, TimeOK
    <2>4. i # None => i \in Uploads /\ stamp[i] = stamp[u]
        BY <2>3 DEF Inv, DiskInv, NamesTheirSecond, StateOK, DiskOK
    <2>5. i # None => i = u
        BY <2>2, <2>4 DEF Shared
    <2>6. data[u] = [k \in Chunks |-> u]
        BY <2>1 DEF Sent
    <2> QED
        BY <2>1, <2>5, <2>6 DEF Present, Whole
<1> QED
    BY <1>1, <1>2, <1>3, PTL DEF Spec

-----------------------------------------------------------------------------
(* Which files are accounted for, and which may be lost *)

Deletes(r) == th[r].at \in {"delete_row", "delete_files"}

\* A deploy that people can see.
Listed(d) == Born(d) /\ ~deploy[d].gone

\* An upload somebody has in hand, or has a visible record of.
Cared(u) == \/ \E r \in Requests : th[r].u = u
            \/ \E d \in Deploys : Listed(d) /\ deploy[d].from = u

\* What a request holds, by where it is.
RequestsInv ==
    /\ app <= lastId
    /\ \A r \in Requests :
        /\ th[r].id <= lastId
        /\ th[r].u # None => th[r].at \in {"stream", "look_up", "record"}
        /\ th[r].at = "record" \/ Deletes(r) => th[r].id # None
        /\ th[r].at = "delete_files" => th[r].id # app

\* Visible deploys are of the row there is.
ListedIsOfRow == \A d \in Deploys : Listed(d) => deploy[d].app = app /\ app # None

\* While a deletion is under way whatever is in flight counts as disturbed.
DeletionDisturbs == Deleting => InFlight \ {None} \subseteq disturbed

\* So does what is visible of another row than the one that is being deleted.
NewRowIsDisturbed ==
    \A r \in Requests, d \in Deploys :
        Deletes(r) /\ Listed(d) /\ deploy[d].app # th[r].id => deploy[d].from \in disturbed

\* A request whose row has gone, and a deploy that went before its end.
RefusedIsDisturbed ==
    \A r \in Requests : /\ th[r].at \in {"stream", "record"}
                        /\ th[r].id \notin {None, app}
                        => th[r].u \in disturbed
GoneIsDisturbed ==
    \A d \in Deploys : /\ deploy[d].gone /\ deploy[d].status \in {"queued", "building"}
                       => deploy[d].from \in disturbed

\* Every file is of an upload that somebody knows, or is about to go.
Accounted ==
    \/ \E r \in Requests : th[r].at = "delete_files"
    \/ \A s \in Stamps : Present(s) =>
          \E u \in 1 .. lastUp : stamp[u] = s /\ (Cared(u) \/ u \in disturbed)

PlainInv == RequestsInv /\ ListedIsOfRow
GhostInv == DeletionDisturbs /\ NewRowIsDisturbed /\ RefusedIsDisturbed /\ GoneIsDisturbed /\ Accounted

InOrder == /\ \A u \in 1 .. lastUp : stamp[u] <= clock
           /\ \A u, v \in 1 .. lastUp : u < v => stamp[u] <= stamp[v]

\* Upload u has KEEP_VERSIONS newer ones.
Outdated(u) == lastUp - u >= KEEP_VERSIONS

ListsOutdated ==
    \A w \in Workers : \A s \in th[w].list : \E u \in 1 .. lastUp : stamp[u] = s /\ Outdated(u)

LostIsOutdated ==
    \A u \in 1 .. lastUp : Cared(u) /\ u \notin disturbed /\ ~Shared(u) /\ ~Present(stamp[u]) => Outdated(u)
LossInv == InOrder /\ ListsOutdated /\ LostIsOutdated

\* What a request does to what it holds.
LEMMA ServeMoves ==
    ASSUME Inv, NEW r \in Requests, Serve(r)
    PROVE  /\ r \in Threads /\ \A t \in Threads \ {r} : th'[t] = th[t]
           /\ Open(r) => /\ th[r].at = "idle" /\ th'[r].at = "stream" /\ th'[r].u = lastUp + 1
                         /\ th'[r].id \in {None, app}
           /\ Write(r) => /\ th[r].at = "stream" /\ th'[r].u = th[r].u /\ th'[r].id = th[r].id
                          /\ th'[r].at \in {"stream", IF th[r].id = None THEN "look_up" ELSE "record"}
           /\ LookUp(r) => /\ th[r].at = "look_up" /\ th'[r].at = "record"
                           /\ th'[r].u = th[r].u /\ th'[r].id = app'
           /\ TooLarge(r) \/ DiskFull(r) \/ Record(r) \/ DeleteFiles(r) => th'[r] = Idle
           /\ Rollback(r) => /\ th[r].at = "idle" /\ th'[r].at = "record" /\ th'[r].id = app
                             /\ app # None
                             /\ \E d \in Deploys : Listed(d) /\ th'[r].u = deploy[d].from
           /\ Delete(r) => /\ th[r].at = "idle" /\ app # None
                           /\ th'[r].at = "delete_row" /\ th'[r].u = None /\ th'[r].id = app
           /\ DeleteRow(r) => /\ th[r].at = "delete_row" /\ th'[r].at = "delete_files"
                              /\ th'[r].u = th[r].u /\ th'[r].id = th[r].id
<1> USE DEF At, GoOn, Idle
<1>1. r \in Threads /\ th = [t \in Threads |-> th[t]] /\ th[r] \in Thread
    BY DEF Threads, Inv, StateOK, ThreadsOK
<1>2. \A t \in Threads \ {r} : th'[t] = th[t]
    BY <1>1 DEF Serve, Open, Write, TooLarge, DiskFull, LookUp, Record, Rollback, Delete,
                DeleteRow, DeleteFiles
<1>3. Open(r) => /\ th[r].at = "idle" /\ th'[r].at = "stream" /\ th'[r].u = lastUp + 1
                 /\ th'[r].id \in {None, app}
    <2> SUFFICES ASSUME Open(r) PROVE /\ th[r].at = "idle" /\ th'[r].at = "stream"
                                      /\ th'[r].u = lastUp + 1 /\ th'[r].id \in {None, app}
        OBVIOUS
    <2>1. PICK id \in {None, app} : \E i :
             th' = [th EXCEPT ![r] = [Idle EXCEPT !.at = "stream", !.id = id, !.u = lastUp + 1,
                                                  !.inode = i]]
        BY DEF Open
    <2>2. PICK i : th' = [th EXCEPT ![r] = [Idle EXCEPT !.at = "stream", !.id = id,
                                                        !.u = lastUp + 1, !.inode = i]]
        BY <2>1
    <2>3. th'[r] = [Idle EXCEPT !.at = "stream", !.id = id, !.u = lastUp + 1, !.inode = i]
        BY <1>1, <2>2 DEF Inv, StateOK
    <2>4. th'[r].at = "stream" /\ th'[r].u = lastUp + 1 /\ th'[r].id = id
        BY <2>3
    <2>5. th[r].at = "idle"
        BY DEF Open
    <2> QED
        BY <2>4, <2>5
<1>4. Write(r) => /\ th[r].at = "stream" /\ th'[r].u = th[r].u /\ th'[r].id = th[r].id
                  /\ th'[r].at \in {"stream", IF th[r].id = None THEN "look_up" ELSE "record"}
    BY <1>1 DEF Write, Streamed, Thread
<1>5. LookUp(r) => /\ th[r].at = "look_up" /\ th'[r].at = "record"
                   /\ th'[r].u = th[r].u /\ th'[r].id = app'
    BY <1>1 DEF LookUp, Thread
<1>6. TooLarge(r) \/ DiskFull(r) \/ Record(r) \/ DeleteFiles(r) => th'[r] = Idle
    BY <1>1 DEF TooLarge, DiskFull, Record, DeleteFiles
<1>7. Rollback(r) => /\ th[r].at = "idle" /\ th'[r].at = "record" /\ th'[r].id = app
                     /\ app # None
                     /\ \E d \in Deploys : Listed(d) /\ th'[r].u = deploy[d].from
    BY <1>1 DEF Rollback, Listed, Inv, RecordsInv, UnbornIsNobodys
<1>8. Delete(r) => /\ th[r].at = "idle" /\ app # None
                   /\ th'[r].at = "delete_row" /\ th'[r].u = None /\ th'[r].id = app
    BY <1>1 DEF Delete
<1>9. DeleteRow(r) => /\ th[r].at = "delete_row" /\ th'[r].at = "delete_files"
                      /\ th'[r].u = th[r].u /\ th'[r].id = th[r].id
    BY <1>1 DEF DeleteRow, Thread
<1> QED
    BY <1>1, <1>2, <1>3, <1>4, <1>5, <1>6, <1>7, <1>8, <1>9

\* A worker moves only itself, changes no row and no deploy's place in it, and
\* unlinks what it has listed.
LEMMA WorkMoves ==
    ASSUME Inv, NEW w \in Workers, Work(w)
    PROVE  /\ \A r \in Requests : th'[r] = th[r]
           /\ UNCHANGED <<clock, stamp, lastUp, app, lastId, faults>>
           /\ \A d \in Deploys : /\ deploy'[d].app = deploy[d].app
                                 /\ deploy'[d].from = deploy[d].from
                                 /\ deploy'[d].gone = deploy[d].gone
                                 /\ deploy[d].gone => deploy'[d].status = deploy[d].status
                                 /\ Born(d)' <=> Born(d)
           /\ \A s \in Stamps : file'[s] = file[s] \/ s \in th[w].list
<1>1. /\ w \in Threads /\ th = [t \in Threads |-> th[t]] /\ th[w] \in Thread
      /\ \A r \in Requests : r \in Threads /\ r # w
      /\ deploy \in [Deploys -> Deploy]
    BY DEF Threads, Inv, StateOK, ThreadsOK, RecordsOK
<1>2. th[w].at \in {"read", "build"} => th[w].d \in Deploys /\ Born(th[w].d)
    BY DEF Inv, RecordsInv, WorkIsBorn
<1>3. ASSUME NEW s \in {"live", "failed"}, NEW next, Ends(w, s, next), th[w].at \in {"read", "build"}
      PROVE  /\ \A r \in Requests : th'[r] = th[r]
             /\ UNCHANGED <<clock, stamp, lastUp, app, lastId, faults, file>>
             /\ \A d \in Deploys : /\ deploy'[d].app = deploy[d].app
                                   /\ deploy'[d].from = deploy[d].from
                                   /\ deploy'[d].gone = deploy[d].gone
                                   /\ deploy[d].gone => deploy'[d].status = deploy[d].status
                                   /\ Born(d)' <=> Born(d)
    BY <1>1, <1>2, <1>3 DEF Ends, GoOn, Deploy, Born, time, rows, disk
<1>4. CASE Unreadable(w) \/ Fails(w) \/ Succeeds(w)
    BY <1>3, <1>4 DEF Unreadable, Fails, Succeeds, At
<1>5. CASE Take(w)
    <2>1. Head(queue) \in Deploys /\ Born(Head(queue))
        <3>1. queue \in Seq(Deploys) /\ queue # << >>
            BY <1>5 DEF Take, Inv, StateOK, RecordsOK
        <3>2. 1 \in 1 .. Len(queue) /\ Head(queue) = queue[1]
            BY <3>1
        <3> QED
            BY <3>1, <3>2 DEF Inv, RecordsInv, QueueIsBorn
    <2>2. /\ \A r \in Requests : th'[r] = th[r]
          /\ UNCHANGED <<clock, stamp, lastUp, app, lastId, faults, file>>
        BY <1>1, <1>5 DEF Take, time, rows, disk
    <2>3. \/ deploy' = deploy
          \/ /\ ~deploy[Head(queue)].gone
             /\ deploy' = [deploy EXCEPT ![Head(queue)].status = "building"]
        BY <1>5 DEF Take
    <2> QED
        BY <1>1, <2>1, <2>2, <2>3 DEF Deploy, Born
<1>6. CASE Read(w)
    <2>1. /\ \A r \in Requests : th'[r] = th[r]
          /\ UNCHANGED <<clock, stamp, lastUp, app, lastId, faults, file>>
        BY <1>1, <1>6 DEF Read, GoOn, time, rows, disk
    <2>2. PICK u : deploy' = [deploy EXCEPT ![th[w].d].got = u]
        BY <1>6 DEF Read
    <2> QED
        BY <1>1, <2>1, <2>2 DEF Deploy, Born
<1>7. CASE Glob(w) \/ Prune(w)
    BY <1>1, <1>7 DEF Glob, Prune, GoOn, Born, time, rows, disk, records
<1> QED
    BY <1>4, <1>5, <1>6, <1>7 DEF Work

\* Which deploys are visible changes only with a record and a deletion.
LEMMA ListedMoves ==
    ASSUME Inv, NEW r \in Requests, Serve(r)
    PROVE  /\ ~Record(r) /\ ~DeleteRow(r) => UNCHANGED records
           /\ Record(r) /\ app # th[r].id => UNCHANGED records
           /\ Record(r) /\ app = th[r].id =>
                \E d \in Deploys : /\ ~Born(d) /\ Listed(d)'
                                   /\ deploy'[d].app = app /\ deploy'[d].from = th[r].u
                                   /\ deploy'[d].status = "queued"
                                   /\ \A e \in Deploys \ {d} : deploy'[e] = deploy[e]
           /\ DeleteRow(r) =>
                \A d \in Deploys :
                    /\ deploy'[d].app = deploy[d].app /\ deploy'[d].from = deploy[d].from
                    /\ deploy'[d].status = deploy[d].status
                    /\ deploy'[d].gone <=> deploy[d].gone \/ deploy[d].app = th[r].id
<1>0. deploy \in [Deploys -> Deploy]
    BY DEF Inv, StateOK, RecordsOK
<1>1. ~Record(r) /\ ~DeleteRow(r) => UNCHANGED records
    BY DEF Serve, Open, Write, TooLarge, DiskFull, LookUp, Rollback, Delete, DeleteFiles, records
<1>2. Record(r) /\ app # th[r].id => UNCHANGED records
    BY DEF Record
<1>3. Record(r) /\ app = th[r].id =>
                \E d \in Deploys : /\ ~Born(d) /\ Listed(d)'
                                   /\ deploy'[d].app = app /\ deploy'[d].from = th[r].u
                                   /\ deploy'[d].status = "queued"
                                   /\ \A e \in Deploys \ {d} : deploy'[e] = deploy[e]
    <2> SUFFICES ASSUME Record(r), app = th[r].id
                 PROVE  \E d \in Deploys : /\ ~Born(d) /\ Listed(d)'
                                           /\ deploy'[d].app = app /\ deploy'[d].from = th[r].u
                                           /\ deploy'[d].status = "queued"
                                           /\ \A e \in Deploys \ {d} : deploy'[e] = deploy[e]
        OBVIOUS
    <2>1. PICK d \in Deploys :
            /\ deploy[d].status = "unborn"
            /\ deploy' = [deploy EXCEPT ![d] = [NoDeploy EXCEPT
                            !.status = "queued", !.app = app, !.from = th[r].u]]
        BY DEF Record
    <2>2. /\ deploy'[d] = [NoDeploy EXCEPT !.status = "queued", !.app = app, !.from = th[r].u]
          /\ \A e \in Deploys \ {d} : deploy'[e] = deploy[e]
        BY <1>0, <2>1
    <2>3. /\ deploy'[d].status = "queued" /\ deploy'[d].app = app
          /\ deploy'[d].from = th[r].u /\ deploy'[d].gone = FALSE
        BY <2>2 DEF NoDeploy
    <2>4. ~Born(d) /\ Listed(d)'
        BY <2>1, <2>3 DEF Born, Listed
    <2> QED
        BY <2>2, <2>3, <2>4
<1>4. DeleteRow(r) =>
                \A d \in Deploys :
                    /\ deploy'[d].app = deploy[d].app /\ deploy'[d].from = deploy[d].from
                    /\ deploy'[d].status = deploy[d].status
                    /\ deploy'[d].gone <=> deploy[d].gone \/ deploy[d].app = th[r].id
    BY <1>0 DEF DeleteRow, Deploy
<1> QED
    BY <1>1, <1>2, <1>3, <1>4

\* Ids only grow.
LEMMA RowMoves ==
    ASSUME Inv, PlainInv, NEW r \in Requests, Serve(r)
    PROVE  /\ app' <= lastId' /\ lastId <= lastId' /\ lastId \in Nat /\ lastId' \in Nat
           /\ ~LookUp(r) /\ ~DeleteRow(r) => UNCHANGED rows
           /\ LookUp(r) => app' = app \/ (app = None /\ app' > lastId)
           /\ LookUp(r) => app' # None
           /\ DeleteRow(r) => app' \in {app, None} /\ app' # th[r].id
           /\ DeleteRow(r) => app' = None <=> app \in {None, th[r].id}
<1>1. lastId \in Nat /\ app \in Nat /\ app <= lastId
    BY DEF Inv, StateOK, RowsOK, PlainInv, RequestsInv
<1>2. ~LookUp(r) /\ ~DeleteRow(r) => UNCHANGED rows
    BY DEF Serve, Open, Write, TooLarge, DiskFull, Record, Rollback, Delete, DeleteFiles
<1>3. LookUp(r) => /\ app' <= lastId' /\ lastId <= lastId' /\ lastId' \in Nat /\ app' # None
                   /\ app' = app \/ (app = None /\ app' > lastId)
    BY <1>1 DEF LookUp
<1>4. DeleteRow(r) => th[r].id # None
    BY DEF DeleteRow, At, PlainInv, RequestsInv, Deletes
<1>5. DeleteRow(r) => /\ lastId' = lastId /\ app' \in {app, None} /\ app' # th[r].id
                      /\ app' = None <=> app \in {None, th[r].id}
    BY <1>4 DEF DeleteRow
<1> QED
    BY <1>1, <1>2, <1>3, <1>5 DEF rows

\* A request keeps what holds of rows and requests.
LEMMA ServeKeepsPlain ==
    ASSUME Inv, Inv', PlainInv, NEW r \in Requests, Serve(r) PROVE PlainInv'
<1>1. \A q \in Requests : q # r => th'[q] = th[q] /\ q \in Threads
    BY ServeMoves DEF Threads
<1>2. /\ app' <= lastId' /\ lastId <= lastId' /\ lastId \in Nat /\ lastId' \in Nat
      /\ app \in Nat /\ app' \in Nat /\ \A q \in Requests : th[q].id \in Nat /\ th'[q].id \in Nat
    BY RowMoves DEF Inv, StateOK, RowsOK, ThreadsOK, Threads, Thread
<1>3. \A q \in Requests : /\ th[q].id <= lastId
                          /\ th[q].u # None => th[q].at \in {"stream", "look_up", "record"}
                          /\ th[q].at = "record" \/ Deletes(q) => th[q].id # None
                          /\ th[q].at = "delete_files" => th[q].id # app
    BY DEF PlainInv, RequestsInv
<1>4. /\ th'[r].id <= lastId'
      /\ th'[r].u # None => th'[r].at \in {"stream", "look_up", "record"}
      /\ th'[r].at = "record" \/ Deletes(r)' => th'[r].id # None
      /\ th'[r].at = "delete_files" => th'[r].id # app'
    <2>1. CASE Open(r) \/ Rollback(r) \/ Delete(r)
        <3>1. UNCHANGED rows /\ app <= lastId
            BY <2>1 DEF Open, Rollback, Delete, PlainInv, RequestsInv
        <3> QED
            BY <1>2, <1>3, <2>1, <3>1, ServeMoves DEF Deletes, rows
    <2>2. CASE Write(r)
        BY <1>2, <1>3, <2>2, ServeMoves DEF Deletes
    <2>3. CASE TooLarge(r) \/ DiskFull(r) \/ Record(r) \/ DeleteFiles(r)
        BY <1>2, <2>3, ServeMoves DEF Deletes, Idle
    <2>4. CASE LookUp(r)
        BY <1>2, <1>3, <2>4, ServeMoves, RowMoves DEF Deletes
    <2>5. CASE DeleteRow(r)
        BY <1>2, <1>3, <2>5, ServeMoves, RowMoves DEF Deletes
    <2> QED
        BY <2>1, <2>2, <2>3, <2>4, <2>5 DEF Serve
<1>5. ASSUME NEW q \in Requests, q # r, th[q].at = "delete_files" PROVE th[q].id # app'
    BY <1>1, <1>2, <1>3, <1>5, RowMoves DEF Deletes, rows
<1>6. RequestsInv'
    BY <1>1, <1>2, <1>3, <1>4, <1>5 DEF RequestsInv, Deletes
<1>7. ListedIsOfRow'
    <2>1. \A d \in Deploys : Listed(d) => deploy[d].app = app /\ app # None
        BY DEF PlainInv, ListedIsOfRow
    <2>2. CASE Record(r) /\ app = th[r].id
        <3>1. app # None /\ app' = app
            BY <1>3, <2>2, RowMoves DEF Record, At, LookUp, DeleteRow, rows
        <3> QED
            BY <2>1, <2>2, <3>1, ListedMoves DEF ListedIsOfRow, Listed, Born
    <2>3. CASE DeleteRow(r)
        <3>1. \A d \in Deploys : Listed(d)' <=> Listed(d) /\ deploy[d].app # th[r].id
            BY <2>3, ListedMoves DEF Listed, Born
        <3> QED
            BY <2>1, <2>3, <3>1, ListedMoves, RowMoves DEF ListedIsOfRow
    <2>4. CASE ~DeleteRow(r) /\ ~(Record(r) /\ app = th[r].id)
        <3>1. UNCHANGED records
            BY <2>4, ListedMoves
        <3> QED
            BY <2>1, <2>4, <3>1, RowMoves DEF ListedIsOfRow, Listed, Born, records, rows
    <2> QED
        BY <2>2, <2>3, <2>4
<1> QED
    BY <1>6, <1>7 DEF PlainInv

\* So do the others.
LEMMA StepKeepsPlain ==
    ASSUME Inv, Inv', PlainInv, Step PROVE PlainInv'
<1>1. ASSUME NEW w \in Workers, Work(w) PROVE PlainInv'
    BY <1>1, WorkMoves DEF PlainInv, RequestsInv, ListedIsOfRow, Listed, Deletes
<1>2. CASE Tick
    BY <1>2 DEF Tick, PlainInv, RequestsInv, ListedIsOfRow, Listed, Deletes, Born, rows, records
<1>3. CASE Crash
    <2>1. \A r \in Requests : th'[r] = Idle
        BY <1>3 DEF Crash, Threads
    <2>2. app' = app /\ lastId' = lastId /\ lastId \in Nat
        BY <1>3 DEF Crash, rows, Inv, StateOK, RowsOK
    <2>3. \A d \in Deploys : Listed(d)' => Listed(d) /\ deploy'[d].app = deploy[d].app
        <3>1. \A d \in Deploys : \/ deploy'[d] = deploy[d]
                                 \/ Born(d) /\ deploy'[d] = [deploy[d] EXCEPT !.status = "failed"]
            BY <1>3 DEF Crash, Born
        <3> QED
            BY <3>1 DEF Listed, Born, Inv, StateOK, RecordsOK, Deploy
    <2> QED
        BY <2>1, <2>2, <2>3 DEF PlainInv, RequestsInv, ListedIsOfRow, Deletes, Idle
<1> QED
    BY <1>1, <1>2, <1>3, ServeKeepsPlain DEF Step

\* What somebody has in hand, or a visible record of, was so before, unless it
\* is new; and it is forgotten only where the code gives it up.
LEMMA ServeCares ==
    ASSUME Inv, PlainInv, NEW r \in Requests, Serve(r), NEW u \in 1 .. lastUp
    PROVE  /\ Cared(u)' => Cared(u)
           /\ Cared(u) /\ ~Cared(u)' =>
                \/ DeleteRow(r)
                \/ th[r].u = u /\ (TooLarge(r) \/ DiskFull(r) \/ (Record(r) /\ app # th[r].id))
<1>1. /\ \A q \in Requests : q # r => th'[q].u = th[q].u
      /\ u # None /\ u # lastUp + 1
    BY ServeMoves DEF Threads, Inv, StateOK, TimeOK
<1>2. CASE DeleteRow(r)
    <2>1. \A d \in Deploys : Listed(d)' => Listed(d) /\ deploy'[d].from = deploy[d].from
        BY <1>2, ListedMoves DEF Listed, Born
    <2>2. th'[r].u = th[r].u
        BY <1>2, ServeMoves
    <2> QED
        BY <1>1, <1>2, <2>1, <2>2 DEF Cared
<1>3. CASE Record(r) /\ app = th[r].id
    <2>1. PICK d \in Deploys : /\ ~Born(d) /\ Listed(d)' /\ deploy'[d].from = th[r].u
                               /\ \A e \in Deploys \ {d} : deploy'[e] = deploy[e]
        BY <1>3, ListedMoves
    <2>2. \A e \in Deploys : e # d => /\ Listed(e)' <=> Listed(e)
                                      /\ deploy'[e].from = deploy[e].from
        BY <2>1 DEF Listed, Born
    <2>3. ~Listed(d)
        BY <2>1 DEF Listed
    <2>4. th'[r].u = None
        BY <1>3, ServeMoves DEF Idle
    <2> QED
        BY <1>1, <2>1, <2>2, <2>3, <2>4 DEF Cared
<1>4. CASE ~DeleteRow(r) /\ ~(Record(r) /\ app = th[r].id)
    <2>1. \A d \in Deploys : (Listed(d)' <=> Listed(d)) /\ deploy'[d].from = deploy[d].from
        BY <1>4, ListedMoves DEF Listed, Born, records
    <2>2. CASE Write(r) \/ LookUp(r)
        BY <1>1, <2>1, <2>2, ServeMoves DEF Cared
    <2>3. CASE Rollback(r)
        <3>1. th[r].u = None
            BY <2>3, ServeMoves DEF PlainInv, RequestsInv
        <3>2. \E d \in Deploys : Listed(d) /\ th'[r].u = deploy[d].from
            BY <2>3, ServeMoves
        <3> QED
            BY <1>1, <2>1, <3>1, <3>2 DEF Cared
    <2>4. CASE Open(r) \/ Delete(r) \/ DeleteFiles(r)
        <3>1. th[r].u = None
            BY <2>4, ServeMoves DEF PlainInv, RequestsInv, DeleteFiles, At
        <3>2. th'[r].u \in {None, lastUp + 1}
            BY <2>4, ServeMoves DEF Idle
        <3> QED
            BY <1>1, <2>1, <3>1, <3>2 DEF Cared
    <2>5. CASE TooLarge(r) \/ DiskFull(r) \/ (Record(r) /\ app # th[r].id)
        <3>1. th'[r].u = None
            BY <2>5, ServeMoves DEF Idle
        <3> QED
            BY <1>1, <2>1, <2>5, <3>1 DEF Cared
    <2> QED
        BY <1>4, <2>2, <2>3, <2>4, <2>5 DEF Serve
<1> QED
    BY <1>2, <1>3, <1>4

\* A worker neither takes nor gives up anything of that kind.
LEMMA WorkCares ==
    ASSUME Inv, NEW w \in Workers, Work(w)
    PROVE  \A u : Cared(u)' <=> Cared(u)
<1>1. \A d \in Deploys : (Listed(d)' <=> Listed(d)) /\ deploy'[d].from = deploy[d].from
    BY WorkMoves DEF Listed
<1> QED
    BY <1>1, WorkMoves DEF Cared

\* A crash leaves the records, and the requests nothing.
LEMMA CrashMoves ==
    ASSUME Inv, Crash
    PROVE  /\ \A t \in Threads : th'[t] = Idle
           /\ faults' # faults
           /\ UNCHANGED <<clock, stamp, lastUp, file, app, lastId>>
           /\ \A d \in Deploys :
                /\ Listed(d)' <=> Listed(d)
                /\ deploy'[d].from = deploy[d].from /\ deploy'[d].app = deploy[d].app
                /\ deploy'[d].gone = deploy[d].gone
                /\ deploy'[d].status \in {"queued", "building"} =>
                      deploy[d].gone /\ deploy[d].status \in {"queued", "building"}
<1>1. \A d \in Deploys :
        \/ deploy'[d] = deploy[d] /\ (deploy[d].status \in {"queued", "building"} => deploy[d].gone)
        \/ /\ deploy[d].status \in {"queued", "building"}
           /\ deploy'[d] = [deploy[d] EXCEPT !.status = "failed"]
    BY DEF Crash, Inv, StateOK, RecordsOK, Deploy
<1>2. \A d \in Deploys : deploy[d] \in Deploy
    BY DEF Inv, StateOK, RecordsOK
<1>3. faults' # faults
    BY DEF Crash, Inv, StateOK
<1>4. \A t \in Threads : th'[t] = Idle
    BY DEF Crash
<1>5. UNCHANGED <<clock, stamp, lastUp, file, app, lastId>>
    BY DEF Crash, time, disk, rows
<1>6. ASSUME NEW d \in Deploys
      PROVE  /\ Listed(d)' <=> Listed(d)
             /\ deploy'[d].from = deploy[d].from /\ deploy'[d].app = deploy[d].app
             /\ deploy'[d].gone = deploy[d].gone
             /\ deploy'[d].status \in {"queued", "building"} =>
                   deploy[d].gone /\ deploy[d].status \in {"queued", "building"}
    <2>1. CASE deploy'[d] = deploy[d] /\ (deploy[d].status \in {"queued", "building"} => deploy[d].gone)
        BY <2>1 DEF Listed, Born
    <2>2. CASE /\ deploy[d].status \in {"queued", "building"}
               /\ deploy'[d] = [deploy[d] EXCEPT !.status = "failed"]
        <3>1. /\ deploy'[d].status = "failed" /\ deploy'[d].from = deploy[d].from
              /\ deploy'[d].app = deploy[d].app /\ deploy'[d].gone = deploy[d].gone
            BY <1>2, <2>2 DEF Deploy
        <3> QED
            BY <2>2, <3>1 DEF Listed, Born
    <2> QED
        BY <1>1, <2>1, <2>2
<1> QED
    BY <1>3, <1>4, <1>5, <1>6

\* The ghost forgets nothing, and remembers what is in flight in a deletion.
LEMMA GhostGrows ==
    ASSUME Remembers
    PROVE  /\ disturbed \subseteq disturbed'
           /\ Deleting' => InFlight' \ {None} \subseteq disturbed'
    BY DEF Remembers

\* What requests and records hold has begun, and is in flight.
Held ==
    /\ \A r \in Requests : th[r].at \in {"stream", "record"} =>
         th[r].u \in 1 .. lastUp /\ th[r].u # None /\ th[r].u \in InFlight
    /\ \A d \in Deploys : Born(d) => deploy[d].from \in 1 .. lastUp /\ deploy[d].from # None
    /\ \A d \in Deploys : deploy[d].status \in {"queued", "building"} => deploy[d].from \in InFlight

LEMMA HeldHasBegun == Inv => Held
<1> SUFFICES ASSUME Inv PROVE Held
    OBVIOUS
<1>1. \A r \in Requests : th[r].at \in {"stream", "record"} => th[r].u \in 1 .. lastUp
    BY DEF Inv, DiskInv, StreamsItsSecond, Streams, At, RecordsInv, RequestsHoldSent, Sent
<1>2. \A d \in Deploys : Born(d) => deploy[d].from \in 1 .. lastUp
    BY DEF Inv, RecordsInv, DeploysAreSent, Sent
<1>3. \A u \in 1 .. lastUp : u # None
    OBVIOUS
<1>4. /\ \A r \in Requests : th[r].u \in InFlight
      /\ \A d \in Deploys : deploy[d].status \in {"queued", "building"} =>
                deploy[d].from \in InFlight
    BY DEF InFlight
<1> QED
    BY <1>1, <1>2, <1>3, <1>4 DEF Held

\* A request under a deletion is disturbed, and so is one whose row has gone.
LEMMA ServeDisturbs ==
    ASSUME Inv, Held, Held', PlainInv, PlainInv', GhostInv,
           NEW r \in Requests, Serve(r), Remembers
    PROVE  NewRowIsDisturbed' /\ RefusedIsDisturbed' /\ GoneIsDisturbed'
<1>1. /\ \A q \in Requests : q # r => th'[q] = th[q]
      /\ \A u \in disturbed : u \in disturbed'
      /\ Deleting' => \A u \in InFlight' : u # None => u \in disturbed'
    BY ServeMoves, GhostGrows DEF Threads
<1>2. \A q \in Requests : Deletes(q)' => Deleting'
    BY DEF Deletes, Deleting
<1>3. NewRowIsDisturbed'
    <2> SUFFICES ASSUME NEW q \in Requests, NEW d \in Deploys,
                        Deletes(q)', Listed(d)', deploy'[d].app # th'[q].id
                 PROVE  deploy'[d].from \in disturbed'
        BY DEF NewRowIsDisturbed
    <2>1. ASSUME Listed(d), deploy'[d].app = deploy[d].app, deploy'[d].from = deploy[d].from
          PROVE  deploy'[d].from \in disturbed'
        <3>1. deploy[d].app = app
            BY <2>1 DEF PlainInv, ListedIsOfRow
        <3>2. CASE Delete(r) /\ q = r
            BY <2>1, <3>1, <3>2, ServeMoves
        <3>3. CASE ~(Delete(r) /\ q = r)
            <4>1. Deletes(q) /\ th'[q].id = th[q].id
                BY <1>1, <3>3, ServeMoves DEF Serve, Deletes, Idle
            <4> QED
                BY <1>1, <2>1, <4>1 DEF GhostInv, NewRowIsDisturbed
        <3> QED
            BY <3>2, <3>3
    <2>2. CASE Record(r) /\ app = th[r].id
        <3>1. PICK e \in Deploys : /\ deploy'[e].status = "queued"
                                   /\ \A f \in Deploys \ {e} : deploy'[f] = deploy[f]
            BY <2>2, ListedMoves
        <3>2. CASE d = e
            BY <1>1, <1>2, <3>1, <3>2 DEF Held, Listed
        <3>3. CASE d # e
            BY <2>1, <3>1, <3>3 DEF Listed, Born
        <3> QED
            BY <3>2, <3>3
    <2>3. CASE ~(Record(r) /\ app = th[r].id)
        BY <2>1, <2>3, ListedMoves DEF Listed, Born, records
    <2> QED
        BY <2>2, <2>3
<1>4. RefusedIsDisturbed'
    <2> SUFFICES ASSUME NEW q \in Requests, th'[q].at \in {"stream", "record"},
                        th'[q].id \notin {None, app'}
                 PROVE  th'[q].u \in disturbed'
        BY DEF RefusedIsDisturbed
    <2>1. CASE DeleteRow(r)
        <3>1. Deleting'
            BY <2>1, ServeMoves DEF Deleting
        <3> QED
            BY <1>1, <3>1 DEF Held
    <2>2. CASE LookUp(r)
        <3>1. q # r /\ th'[q] = th[q]
            BY <1>1, <2>2, ServeMoves
        <3>2. th[q].id \notin {None, app}
            BY <2>2, <3>1, RowMoves
        <3> QED
            BY <1>1, <3>1, <3>2 DEF GhostInv, RefusedIsDisturbed
    <2>3. CASE ~DeleteRow(r) /\ ~LookUp(r)
        <3>1. app' = app
            BY <2>3, RowMoves DEF rows
        <3>2. CASE q # r
            BY <1>1, <3>1, <3>2 DEF GhostInv, RefusedIsDisturbed
        <3>3. CASE q = r
            <4>1. Write(r)
                BY <2>3, <3>1, <3>3, ServeMoves DEF Serve, Idle
            <4>2. th[r].at = "stream" /\ th'[r].u = th[r].u /\ th'[r].id = th[r].id
                BY <4>1, ServeMoves
            <4> QED
                BY <1>1, <3>1, <3>3, <4>2 DEF GhostInv, RefusedIsDisturbed
        <3> QED
            BY <3>2, <3>3
    <2> QED
        BY <2>1, <2>2, <2>3
<1>5. GoneIsDisturbed'
    <2> SUFFICES ASSUME NEW d \in Deploys, deploy'[d].gone,
                        deploy'[d].status \in {"queued", "building"}
                 PROVE  deploy'[d].from \in disturbed'
        BY DEF GoneIsDisturbed
    <2>1. CASE DeleteRow(r)
        <3>1. Deleting'
            BY <2>1, ServeMoves DEF Deleting
        <3> QED
            BY <1>1, <3>1 DEF Held, Born
    <2>2. CASE ~DeleteRow(r)
        <3>1. deploy'[d] = deploy[d]
            <4>1. CASE Record(r) /\ app = th[r].id
                BY <4>1, ListedMoves DEF Listed
            <4>2. CASE ~(Record(r) /\ app = th[r].id)
                BY <2>2, <4>2, ListedMoves DEF records
            <4> QED
                BY <4>1, <4>2
        <3> QED
            BY <1>1, <3>1 DEF GhostInv, GoneIsDisturbed
    <2> QED
        BY <2>1, <2>2
<1> QED
    BY <1>3, <1>4, <1>5

\* A request leaves every file accounted for: what it gives up it unlinks, or
\* it is disturbed.
LEMMA ServeAccounts ==
    ASSUME Inv, Held, PlainInv, GhostInv, NEW r \in Requests, Serve(r), Remembers
    PROVE  Accounted'
<1>1. /\ r \in Threads /\ \A q \in Requests : q # r => th'[q] = th[q]
      /\ \A u \in disturbed : u \in disturbed'
    BY ServeMoves, GhostGrows DEF Threads
<1>2. CASE DeleteRow(r)
    BY <1>2, ServeMoves DEF Accounted
<1>3. CASE DeleteFiles(r)
    BY <1>3 DEF DeleteFiles, Accounted, Present
<1>4. CASE ~DeleteRow(r) /\ ~DeleteFiles(r)
    <2>1. CASE \E q \in Requests : th[q].at = "delete_files"
        <3>1. PICK q \in Requests : th[q].at = "delete_files"
            BY <2>1
        <3>2. q # r
            BY <1>4, <3>1 DEF Serve, Open, Write, TooLarge, DiskFull, LookUp, Record, Rollback,
                              Delete, DeleteRow, DeleteFiles, At
        <3> QED
            BY <1>1, <3>1, <3>2 DEF Accounted
    <2>2. CASE \A s \in Stamps : Present(s) =>
                    \E u \in 1 .. lastUp : stamp[u] = s /\ (Cared(u) \/ u \in disturbed)
        <3> SUFFICES ASSUME NEW s \in Stamps, Present(s)'
                     PROVE  \E u \in 1 .. lastUp' : stamp'[u] = s /\ (Cared(u)' \/ u \in disturbed')
            BY DEF Accounted
        <3>1. CASE Open(r)
            <4>1. /\ lastUp' = lastUp + 1 /\ lastUp \in Nat /\ clock \in Stamps
                  /\ stamp'[lastUp + 1] = clock
                  /\ \A u \in 1 .. lastUp : stamp'[u] = stamp[u]
                  /\ s # clock => file'[s] = file[s]
                BY <3>1 DEF Open, Inv, StateOK, TimeOK, DiskOK, Uploads
            <4>2. ASSUME NEW v, v = lastUp + 1 PROVE Cared(v)'
                BY <3>1, <4>2, ServeMoves DEF Cared
            <4>3. CASE s = clock
                <5>1. PICK v : v = lastUp + 1
                    OBVIOUS
                <5>2. v \in 1 .. lastUp' /\ stamp'[v] = s
                    BY <4>1, <4>3, <5>1
                <5> QED
                    BY <4>2, <5>1, <5>2
            <4>4. CASE s # clock
                <5>1. PICK u \in 1 .. lastUp : stamp[u] = s /\ (Cared(u) \/ u \in disturbed)
                    BY <2>2, <4>1, <4>4 DEF Present
                <5>2. Cared(u) => Cared(u)'
                    BY <3>1, <5>1, ServeCares, ServeMoves
                    DEF DeleteRow, TooLarge, DiskFull, Record, At
                <5> QED
                    BY <1>1, <4>1, <5>1, <5>2
            <4> QED
                BY <4>3, <4>4
        <3>2. CASE ~Open(r)
            <4>1. /\ UNCHANGED <<stamp, lastUp>> /\ Present(s)
                  /\ TooLarge(r) => s # stamp[th[r].u]
                <5>1. UNCHANGED <<stamp, lastUp>>
                    BY <1>4, <3>2 DEF Serve, Write, TooLarge, DiskFull, LookUp, Record, Rollback,
                                      Delete, time
                <5>2. TooLarge(r) => Present(s) /\ s # stamp[th[r].u]
                    BY DEF TooLarge, Present, Inv, StateOK, DiskOK
                <5>3. ~TooLarge(r) => Present(s)
                    BY <1>4, <3>2 DEF Serve, Write, DiskFull, LookUp, Record, Rollback,
                                      Delete, Present, disk
                <5> QED
                    BY <5>1, <5>2, <5>3
            <4>2. PICK u \in 1 .. lastUp : stamp[u] = s /\ (Cared(u) \/ u \in disturbed)
                BY <2>2, <4>1
            <4>3. ASSUME Cared(u), ~Cared(u)' PROVE u \in disturbed'
                <5>1. th[r].u = u /\ (DiskFull(r) \/ (Record(r) /\ app # th[r].id))
                    BY <1>4, <4>1, <4>2, <4>3, ServeCares
                <5>2. CASE DiskFull(r)
                    <6>1. u \in InFlight /\ u # None
                        BY <5>1, <5>2 DEF DiskFull, At, Held
                    <6>2. faults' # faults
                        BY <5>2 DEF DiskFull, Inv, StateOK
                    <6>3. \A q \in Requests : th'[q].u # u
                        BY <4>3 DEF Cared
                    <6>4. \A d \in Deploys : deploy[d].status \in {"queued", "building"} =>
                                                deploy[d].from # u
                        <7>1. ~Sent(u)
                            BY <5>1, <5>2 DEF DiskFull, Sent, Streams
                        <7> QED
                            BY <7>1 DEF Inv, RecordsInv, DeploysAreSent, Born
                    <6>5. u \notin InFlight'
                        BY <5>2, <6>3, <6>4 DEF InFlight, DiskFull, records
                    <6> QED
                        BY <6>1, <6>2, <6>5 DEF Remembers
                <5>3. CASE Record(r) /\ app # th[r].id
                    <6>1. th[r].at = "record" /\ th[r].id # None
                        BY <5>3 DEF Record, At, PlainInv, RequestsInv
                    <6> QED
                        BY <1>1, <5>1, <5>3, <6>1 DEF GhostInv, RefusedIsDisturbed
                <5> QED
                    BY <5>1, <5>2, <5>3
            <4> QED
                BY <1>1, <4>1, <4>2, <4>3
        <3> QED
            BY <3>1, <3>2
    <2> QED
        BY <2>1, <2>2 DEF GhostInv, Accounted
<1> QED
    BY <1>2, <1>3, <1>4

\* What is kept of the ghost is kept by every step.
LEMMA GhostIsKept ==
    ASSUME Inv, Inv', PlainInv, PlainInv', GhostInv, Step, Remembers PROVE GhostInv'
<1>1. Held /\ Held'
    <2>1. Held
        BY HeldHasBegun
    <2>2. Held'
        BY HeldHasBegun, PTL
    <2> QED
        BY <2>1, <2>2
<1>2. DeletionDisturbs'
    BY GhostGrows DEF DeletionDisturbs
<1>3. \A u \in disturbed : u \in disturbed'
    BY GhostGrows
<1>4. ASSUME NEW r \in Requests, Serve(r) PROVE GhostInv'
    BY <1>1, <1>2, <1>4, ServeDisturbs, ServeAccounts DEF GhostInv
<1>5. ASSUME NEW w \in Workers, Work(w) PROVE GhostInv'
    <2>1. \A r \in Requests : th'[r] = th[r]
        BY <1>5, WorkMoves
    <2>2. \A d \in Deploys : /\ Listed(d)' <=> Listed(d)
                             /\ deploy'[d].app = deploy[d].app
                             /\ deploy'[d].from = deploy[d].from
                             /\ deploy'[d].gone = deploy[d].gone
                             /\ deploy[d].gone => deploy'[d].status = deploy[d].status
        BY <1>5, WorkMoves DEF Listed
    <2>3. NewRowIsDisturbed' /\ GoneIsDisturbed'
        BY <1>3, <2>1, <2>2 DEF GhostInv, NewRowIsDisturbed, GoneIsDisturbed, Deletes
    <2>4. RefusedIsDisturbed'
        BY <1>3, <1>5, <2>1, WorkMoves DEF GhostInv, RefusedIsDisturbed
    <2>5. Accounted'
        <3>1. \A u : Cared(u)' <=> Cared(u)
            BY <1>5, WorkCares
        <3>2. \A s \in Stamps : Present(s)' => Present(s)
            BY <1>5, WorkIsCalm DEF Calm, Present, Inv
        <3>3. UNCHANGED <<stamp, lastUp>>
            BY <1>5, WorkMoves
        <3> QED
            BY <1>3, <2>1, <3>1, <3>2, <3>3 DEF GhostInv, Accounted
    <2> QED
        BY <1>2, <2>3, <2>4, <2>5 DEF GhostInv
<1>6. CASE Tick
    <2>1. UNCHANGED <<stamp, lastUp, file, app, deploy, th>>
        BY <1>6 DEF Tick, disk, rows, records
    <2> QED
        BY <1>2, <1>3, <2>1 DEF GhostInv, NewRowIsDisturbed, RefusedIsDisturbed, GoneIsDisturbed,
            Accounted, Deletes, Listed, Born, Cared, Present
<1>7. CASE Crash
    <2>1. \A r \in Requests : th'[r] = Idle
        BY <1>7, CrashMoves DEF Threads
    <2>2. GoneIsDisturbed'
        BY <1>3, <1>7, CrashMoves DEF GhostInv, GoneIsDisturbed
    <2>3. NewRowIsDisturbed' /\ RefusedIsDisturbed' /\ ~Deleting'
        BY <2>1 DEF NewRowIsDisturbed, RefusedIsDisturbed, Deletes, Deleting, Idle
    <2>4. Accounted'
        <3> SUFFICES ASSUME NEW s \in Stamps, Present(s)'
                     PROVE  \E u \in 1 .. lastUp' : stamp'[u] = s /\ (Cared(u)' \/ u \in disturbed')
            BY DEF Accounted
        <3>1. UNCHANGED <<stamp, lastUp, file>> /\ faults' # faults /\ Present(s)
            BY <1>7, CrashMoves DEF Present
        <3>2. CASE Deleting
            <4>1. 1 .. lastUp \subseteq disturbed'
                BY <2>3, <3>1, <3>2 DEF Remembers
            <4>2. file[s] \in 1 .. lastUp /\ stamp[file[s]] = s
                BY <3>1 DEF Inv, DiskInv, NamesTheirSecond, Present
            <4> QED
                BY <3>1, <4>1, <4>2
        <3>3. CASE ~Deleting
            <4>1. PICK u \in 1 .. lastUp : stamp[u] = s /\ (Cared(u) \/ u \in disturbed)
                BY <3>1, <3>3 DEF GhostInv, Accounted, Deleting
            <4>2. ASSUME NEW d \in Deploys, Listed(d), deploy[d].from = u PROVE Cared(u)'
                BY <1>7, <4>2, CrashMoves DEF Cared
            <4>3. ASSUME NEW r \in Requests, th[r].u = u PROVE u \in disturbed'
                <5>1. u \in InFlight /\ u # None
                    BY <4>3 DEF InFlight
                <5>2. CASE u \in InFlight'
                    <6>1. PICK d \in Deploys : /\ deploy'[d].status \in {"queued", "building"}
                                               /\ deploy'[d].from = u
                        BY <2>1, <5>1, <5>2 DEF InFlight, Idle
                    <6> QED
                        BY <1>3, <1>7, <6>1, CrashMoves DEF GhostInv, GoneIsDisturbed
                <5>3. CASE u \notin InFlight'
                    BY <3>1, <5>1, <5>3 DEF Remembers
                <5> QED
                    BY <5>2, <5>3
            <4> QED
                BY <1>3, <3>1, <4>1, <4>2, <4>3 DEF Cared
        <3> QED
            BY <3>2, <3>3
    <2> QED
        BY <1>2, <2>2, <2>3, <2>4 DEF GhostInv
<1> QED
    BY <1>4, <1>5, <1>6, <1>7 DEF Step

\* All of it together: who knows of which file.
KnownInv == Inv /\ PlainInv /\ GhostInv

LEMMA KnownIsInductive == KnownInv /\ [Next]_vars => KnownInv'
<1> SUFFICES ASSUME KnownInv, [Next]_vars PROVE KnownInv'
    OBVIOUS
<1>1. Inv'
    BY InvIsInductive DEF KnownInv
<1>2. CASE Next
    <2>1. Step /\ Remembers
        BY <1>2 DEF Next, Step
    <2>2. PlainInv'
        BY <1>1, <2>1, StepKeepsPlain DEF KnownInv
    <2> QED
        BY <1>1, <2>1, <2>2, GhostIsKept DEF KnownInv
<1>3. CASE UNCHANGED vars
    <2>1. UNCHANGED <<stamp, lastUp, file, app, lastId, deploy, th, disturbed>>
        BY <1>3 DEF vars, time, disk, rows, records
    <2>2. PlainInv'
        BY <2>1 DEF KnownInv, PlainInv, RequestsInv, ListedIsOfRow, Deletes, Listed, Born
    <2>3. GhostInv'
        BY <2>1 DEF KnownInv, GhostInv, DeletionDisturbs, Deleting, InFlight, NewRowIsDisturbed,
            RefusedIsDisturbed, GoneIsDisturbed, Accounted, Deletes, Listed, Born, Cared, Present
    <2> QED
        BY <1>1, <2>2, <2>3 DEF KnownInv
<1> QED
    BY <1>2, <1>3

LEMMA KnownAtFirst == Init => KnownInv
<1> SUFFICES ASSUME Init PROVE KnownInv
    OBVIOUS
<1>1. \A t \in Threads : th[t] = Idle
    BY DEF Init
<1>2. \A d \in Deploys : ~Born(d) /\ deploy[d].gone = FALSE
    BY DEF Init, NoDeploy, Born
<1>3. PlainInv
    BY <1>1, <1>2 DEF Init, PlainInv, RequestsInv, ListedIsOfRow, Listed, Deletes, Idle, Threads
<1>4. ~Deleting /\ \A s \in Stamps : ~Present(s)
    BY <1>1 DEF Init, Deleting, Idle, Threads, Present
<1>5. GhostInv
    BY <1>1, <1>2, <1>4 DEF GhostInv, DeletionDisturbs, NewRowIsDisturbed, RefusedIsDisturbed,
        GoneIsDisturbed, Accounted, Listed, Idle, Threads
<1> QED
    BY <1>3, <1>5, InvHoldsAtFirst DEF KnownInv

\* Between requests every file is of a version somebody can see, or of an upload
\* that met a full disk, a crash or a deletion, for every number of requests,
\* workers, uploads and faults: what is too large is unlinked, and what loses
\* its row on the way was in flight while that row was deleted (app.py:491,
\* app.py:1030).
THEOREM NothingStray == Spec => []NoStrayFiles
<1>1. KnownInv => NoStrayFiles
    <2> SUFFICES ASSUME KnownInv, Quiet, NEW s \in Stamps, Present(s)
                 PROVE  \/ \E d \in Deploys : /\ ~deploy[d].gone /\ deploy[d].from # None
                                              /\ stamp[deploy[d].from] = s
                        \/ \E u \in disturbed : stamp[u] = s
        BY DEF NoStrayFiles
    <2>1. \A r \in Requests : th[r].at = "idle" /\ th[r].u = None
        BY DEF Quiet, At, Threads, KnownInv, PlainInv, RequestsInv
    <2>2. PICK u \in 1 .. lastUp : stamp[u] = s /\ (Cared(u) \/ u \in disturbed)
        BY <2>1 DEF KnownInv, GhostInv, Accounted
    <2>3. u # None
        BY <2>2
    <2> QED
        BY <2>1, <2>2, <2>3 DEF Cared, Listed
<1> QED
    BY <1>1, KnownIsInductive, KnownAtFirst, PTL DEF Spec

\* Each name stands for an inode of its own second, so what a listing leaves
\* are as many uploads as names, all newer.
LEMMA ListingLeavesNewer ==
    ASSUME Inv, InOrder, NEW s \in Stamps, Present(s),
           Cardinality({q \in Stamps : q > s /\ Present(q)}) >= KEEP_VERSIONS
    PROVE  \E u \in 1 .. lastUp : stamp[u] = s /\ Outdated(u)
<1> DEFINE later == {q \in Stamps : q > s /\ Present(q)}
           u     == file[s]
           newer == (u + 1) .. lastUp
           of    == [q \in later |-> file[q]]
<1>1. \A q \in Stamps : Present(q) => file[q] \in 1 .. lastUp /\ stamp[file[q]] = q
    BY DEF Present, Inv, DiskInv, NamesTheirSecond
<1>2. lastUp \in Nat /\ u \in 1 .. lastUp /\ stamp[u] = s
    BY <1>1 DEF Inv, StateOK, TimeOK
<1>3. of \in [later -> newer]
    <2> SUFFICES ASSUME NEW q \in later PROVE file[q] \in newer
        OBVIOUS
    <2>1. q > s /\ file[q] \in 1 .. lastUp /\ stamp[file[q]] = q
        BY <1>1
    <2>2. q \in Int /\ s \in Int
        BY DEF Stamps
    <2>3. ~(file[q] < u) /\ file[q] # u
        BY <1>2, <2>1, <2>2 DEF InOrder
    <2> QED
        BY <1>2, <2>1, <2>3
<1>4. \A x, y \in later : of[x] = of[y] => x = y
    BY <1>1
<1>5. IsFiniteSet(later) /\ Cardinality(later) \in Nat
    <2>1. IsFiniteSet(Stamps)
        BY FS_Interval DEF Stamps
    <2>2. later \in SUBSET Stamps
        OBVIOUS
    <2> HIDE DEF later
    <2> QED
        BY <2>1, <2>2, FS_Subset, FS_CardinalityType
<1>6. IsFiniteSet(newer) /\ Cardinality(newer) = lastUp - u
    <2> HIDE DEF u
    <2>1. u + 1 \in Int /\ lastUp \in Int /\ u <= lastUp
        BY <1>2
    <2>2. /\ IsFiniteSet(newer)
          /\ Cardinality(newer) = IF u + 1 > lastUp THEN 0 ELSE lastUp - (u + 1) + 1
        BY <2>1, FS_Interval
    <2> QED
        BY <1>2, <2>1, <2>2
<1> HIDE DEF later, newer, of, u
<1>7. ~(Cardinality(newer) < Cardinality(later))
    BY <1>3, <1>4, <1>5, <1>6, FS_PigeonHole
<1>8. KEEP_VERSIONS <= Cardinality(later)
    BY <1>5 DEF later
<1> QED
    BY <1>2, <1>5, <1>6, <1>7, <1>8 DEF Outdated

\* Seconds once taken stay, and no upload is taken back.
LEMMA StampsStay ==
    ASSUME Inv, Step
    PROVE  /\ lastUp \in Nat /\ lastUp' \in Nat /\ lastUp <= lastUp'
           /\ \A u \in 1 .. lastUp : stamp'[u] = stamp[u] /\ (Outdated(u) => Outdated(u)')
<1>1. lastUp \in Nat
    BY DEF Inv, StateOK, TimeOK
<1>2. ASSUME NEW r \in Requests, Open(r)
      PROVE  lastUp' = lastUp + 1 /\ \A u \in 1 .. lastUp : stamp'[u] = stamp[u]
    BY <1>2 DEF Open, Inv, StateOK, TimeOK, Uploads
<1>3. ASSUME NEW r \in Requests, Serve(r), ~Open(r) PROVE UNCHANGED <<stamp, lastUp>>
    BY <1>3, ServeIsCalm DEF Write, time, Calm, Inv
<1>4. ASSUME NEW w \in Workers, Work(w) PROVE UNCHANGED <<stamp, lastUp>>
    BY <1>4, WorkMoves
<1>5. lastUp' \in Nat /\ lastUp <= lastUp' /\ \A u \in 1 .. lastUp : stamp'[u] = stamp[u]
    BY <1>1, <1>2, <1>3, <1>4 DEF Step, Tick, Crash, time
<1>6. \A u \in 1 .. lastUp : Outdated(u) => Outdated(u)'
    BY <1>1, <1>5 DEF Outdated
<1> QED
    BY <1>1, <1>5, <1>6

\* As long as the clock is not put back, uploads sort in the order they began in.
LEMMA OrderIsKept ==
    ASSUME ~FallsBack, Inv, InOrder, Step PROVE InOrder'
<1>1. lastUp \in Nat /\ clock \in Nat
    BY DEF Inv, StateOK, TimeOK, Stamps
<1>2. \A u \in 1 .. lastUp : stamp[u] \in Int
    BY DEF Inv, StateOK, TimeOK, Stamps, Uploads
<1>3. ASSUME NEW r \in Requests, Open(r) PROVE InOrder'
    <2>1. /\ lastUp' = lastUp + 1 /\ clock' = clock /\ stamp'[lastUp + 1] = clock
          /\ \A u \in 1 .. lastUp : stamp'[u] = stamp[u]
        BY <1>3 DEF Open, Inv, StateOK, TimeOK, Uploads
    <2> QED
        BY <1>1, <1>2, <2>1 DEF InOrder
<1>4. ASSUME NEW r \in Requests, Serve(r), ~Open(r) PROVE InOrder'
    <2>1. UNCHANGED <<clock, stamp, lastUp>>
        BY <1>4 DEF Serve, Write, TooLarge, DiskFull, LookUp, Record, Rollback, Delete,
                    DeleteRow, DeleteFiles, time
    <2> QED
        BY <2>1 DEF InOrder
<1>5. ASSUME NEW w \in Workers, Work(w) PROVE InOrder'
    BY <1>5, WorkMoves DEF InOrder
<1>6. CASE Tick
    BY <1>1, <1>2, <1>6 DEF Tick, InOrder
<1>7. CASE Crash
    BY <1>7, CrashMoves DEF InOrder
<1> QED
    BY <1>3, <1>4, <1>5, <1>6, <1>7 DEF Step

\* What a worker is about to unlink stays outdated.
LEMMA ListsStayOutdated ==
    ASSUME Inv, InOrder, ListsOutdated, Step PROVE ListsOutdated'
<1>1. ASSUME NEW w \in Workers, th'[w].list \subseteq th[w].list
      PROVE  \A s \in th'[w].list : \E u \in 1 .. lastUp' : stamp'[u] = s /\ Outdated(u)'
    <2> SUFFICES ASSUME NEW s \in th'[w].list
                 PROVE  \E u \in 1 .. lastUp' : stamp'[u] = s /\ Outdated(u)'
        OBVIOUS
    <2>1. PICK u \in 1 .. lastUp : stamp[u] = s /\ Outdated(u)
        BY <1>1 DEF ListsOutdated
    <2> QED
        BY <2>1, StampsStay
<1>2. ASSUME NEW r \in Requests, Serve(r) PROVE ListsOutdated'
    BY <1>1, <1>2, ServeMoves DEF ListsOutdated, Threads
<1>3. ASSUME NEW w \in Workers, Work(w) PROVE ListsOutdated'
    <2>1. /\ w \in Threads /\ th = [t \in Threads |-> th[t]] /\ th[w] \in Thread
          /\ \A v \in Workers : v # w => v \in Threads
        BY DEF Threads, Inv, StateOK, ThreadsOK
    <2>2. \A v \in Workers : v # w => th'[v] = th[v]
        BY <1>3, <2>1 DEF Work, Take, Unreadable, Read, Fails, Succeeds, Glob, Prune, Ends, GoOn
    <2>3. \A s \in th'[w].list : \E u \in 1 .. lastUp' : stamp'[u] = s /\ Outdated(u)'
        <3>1. CASE Glob(w)
            <4> DEFINE stale == {s \in Stamps : /\ Present(s)
                            /\ Cardinality({q \in Stamps : q > s /\ Present(q)}) >= KEEP_VERSIONS}
            <4>1. th' = [th EXCEPT ![w] = [th[w] EXCEPT !.at = "prune", !.list = stale]]
                BY <2>1, <3>1 DEF Glob, Thread
            <4>2. \A s \in stale : \E u \in 1 .. lastUp : stamp[u] = s /\ Outdated(u)
                BY ListingLeavesNewer
            <4> HIDE DEF stale
            <4>3. th'[w].list = stale
                BY <2>1, <4>1 DEF Thread
            <4> QED
                BY <4>2, <4>3, StampsStay
        <3>2. CASE ~Glob(w)
            <4>1. th'[w].list \subseteq th[w].list
                <5>1. \/ th'[w] = th[w] \/ th'[w].list = {}
                      \/ \E place : th'[w] = [th[w] EXCEPT !.at = place]
                    <6>1. CASE Take(w)
                        BY <2>1, <6>1 DEF Take, Idle
                    <6>2. CASE Unreadable(w) \/ Fails(w) \/ Succeeds(w) \/ Read(w) \/ Prune(w)
                        <7>1. PICK next : GoOn(w, next)
                            BY <6>2 DEF Unreadable, Fails, Succeeds, Read, Prune, Ends
                        <7>2. CASE next = "idle"
                            BY <2>1, <7>1, <7>2 DEF GoOn, Idle
                        <7>3. CASE next # "idle"
                            BY <2>1, <7>1, <7>3 DEF GoOn
                        <7> QED
                            BY <7>2, <7>3
                    <6> QED
                        BY <1>3, <3>2, <6>1, <6>2 DEF Work
                <5> QED
                    BY <2>1, <5>1 DEF Thread
            <4> QED
                BY <1>1, <4>1
        <3> QED
            BY <3>1, <3>2
    <2> QED
        BY <1>1, <2>2, <2>3 DEF ListsOutdated
<1>4. CASE Tick
    BY <1>1, <1>4 DEF Tick, ListsOutdated
<1>5. CASE Crash
    BY <1>5, CrashMoves DEF ListsOutdated, Idle, Threads
<1> QED
    BY <1>2, <1>3, <1>4, <1>5 DEF Step

\* A step that unlinks nothing loses nothing.
LEMMA NothingUnlinked ==
    ASSUME Inv, LostIsOutdated, Step, Remembers, UNCHANGED <<stamp, lastUp, file>>,
           \A u \in 1 .. lastUp : Cared(u)' => Cared(u)
    PROVE  LostIsOutdated'
BY GhostGrows DEF LostIsOutdated, Shared, Present, Outdated

\* What a request unlinks is its own, shares its second, or is being deleted.
LEMMA ServeLosesOutdated ==
    ASSUME KnownInv, LossInv, NEW r \in Requests, Serve(r), Step, Remembers PROVE LostIsOutdated'
<1>1. Inv /\ PlainInv /\ GhostInv
    BY DEF KnownInv
<1>2. /\ \A q \in Requests : q # r => th'[q] = th[q]
      /\ \A u \in disturbed : u \in disturbed'
      /\ \A u \in 1 .. lastUp : Cared(u)' => Cared(u)
    BY <1>1, ServeMoves, ServeCares, GhostGrows DEF Threads
<1>3. \A u \in 1 .. lastUp : u \in Uploads /\ stamp[u] \in Stamps /\ u # None
    <2>1. \A u \in 1 .. lastUp : u \in Uploads /\ u # None
        BY <1>1 DEF Inv, StateOK, TimeOK, Uploads
    <2> QED
        BY <1>1, <2>1 DEF Inv, DiskInv, StampedInOrder, StateOK, TimeOK
<1>4. CASE Open(r)
    <2> SUFFICES ASSUME NEW u \in 1 .. lastUp', Cared(u)', u \notin disturbed', ~Shared(u)',
                        ~Present(stamp[u])'
                 PROVE  Outdated(u)'
        BY DEF LostIsOutdated
    <2> DEFINE i == IF file[clock] = None THEN lastUp + 1 ELSE file[clock]
    <2>1. file' = [file EXCEPT ![clock] = i] /\ i # None
        BY <1>1, <1>4 DEF Open, Inv, StateOK, TimeOK
    <2> HIDE DEF i
    <2>2. /\ lastUp' = lastUp + 1 /\ lastUp \in Nat /\ clock \in Stamps
          /\ stamp'[lastUp + 1] = clock
        BY <1>1, <1>4 DEF Open, Inv, StateOK, TimeOK, Uploads
    <2>3. file'[clock] # None
        BY <1>1, <2>1, <2>2 DEF Inv, StateOK, DiskOK
    <2>4. u \in 1 .. lastUp
        BY <2>2, <2>3 DEF Present
    <2>5. stamp'[u] = stamp[u] /\ (Outdated(u) => Outdated(u)')
        BY <1>1, <2>4, StampsStay
    <2>6. ~Present(stamp[u])
        BY <1>1, <1>3, <2>1, <2>3, <2>4, <2>5 DEF Present, Inv, StateOK, DiskOK
    <2>7. ~Shared(u)
        BY <1>1, <2>4, SharedStays DEF Inv
    <2> QED
        BY <1>2, <2>4, <2>5, <2>6, <2>7 DEF LossInv, LostIsOutdated
<1>5. CASE TooLarge(r)
    <2>1. UNCHANGED <<stamp, lastUp>> /\ Streams(r)
        BY <1>5 DEF TooLarge, time, Streams
    <2> SUFFICES ASSUME NEW u \in 1 .. lastUp, Cared(u)', u \notin disturbed', ~Shared(u),
                        file'[stamp[u]] = None
                 PROVE  Outdated(u)
        BY <2>1 DEF LostIsOutdated, Present, Shared, Outdated
    <2>2. CASE file[stamp[u]] = None
        BY <1>2, <2>2 DEF LossInv, LostIsOutdated, Present
    <2>3. CASE file[stamp[u]] # None
        <3>1. stamp[u] = stamp[th[r].u]
            BY <1>1, <1>3, <1>5, <2>3 DEF TooLarge, Inv, StateOK, DiskOK
        <3>2. th[r].u \in 1 .. lastUp
            BY <1>1, <2>1 DEF Inv, DiskInv, StreamsItsSecond
        <3>3. th[r].u = u
            BY <1>3, <3>1, <3>2 DEF Shared
        <3>4. ~Sent(u)
            BY <2>1, <3>3 DEF Sent
        <3>5. \A d \in Deploys : Listed(d)' => Listed(d) /\ deploy'[d].from = deploy[d].from
            BY <1>5 DEF TooLarge, Listed, Born, records
        <3>6. \A d \in Deploys : Listed(d)' => deploy'[d].from # u
            BY <1>1, <3>4, <3>5 DEF Listed, Inv, RecordsInv, DeploysAreSent
        <3>7. PICK q \in Requests : th'[q].u = u
            BY <3>6 DEF Cared
        <3>8. q # r
            BY <1>1, <1>3, <1>5, <3>7, ServeMoves DEF Idle
        <3>9. th[q].u = u /\ th[q].at \in {"stream", "look_up", "record"}
            BY <1>1, <1>2, <1>3, <3>7, <3>8 DEF PlainInv, RequestsInv
        <3>10. th[q].at # "stream"
            BY <1>1, <2>1, <3>3, <3>8, <3>9 DEF Inv, DiskInv, OneWriterEach, Streams, At
        <3> QED
            BY <1>1, <3>4, <3>9, <3>10 DEF Inv, RecordsInv, RequestsHoldSent
    <2> QED
        BY <2>2, <2>3
<1>6. CASE DeleteFiles(r)
    <2> SUFFICES ASSUME NEW u \in 1 .. lastUp', Cared(u)' PROVE u \in disturbed'
        BY DEF LostIsOutdated
    <2>1. th[r].at = "delete_files" /\ UNCHANGED <<lastUp, deploy>>
        BY <1>6 DEF DeleteFiles, At, time, records
    <2>2. u # None
        BY <1>3, <2>1
    <2>3. ASSUME NEW q \in Requests, th'[q].u = u PROVE u \in disturbed
        <3>1. q # r
            BY <1>1, <1>6, <2>2, <2>3, ServeMoves DEF Idle
        <3>2. u \in InFlight
            BY <1>2, <2>3, <3>1 DEF InFlight
        <3> QED
            BY <1>1, <2>1, <2>2, <3>2 DEF GhostInv, DeletionDisturbs, Deleting
    <2>4. ASSUME NEW d \in Deploys, Listed(d), deploy[d].from = u PROVE u \in disturbed
        <3>1. deploy[d].app = app /\ th[r].id # app
            BY <1>1, <2>1, <2>4 DEF PlainInv, ListedIsOfRow, RequestsInv
        <3> QED
            BY <1>1, <2>1, <2>4, <3>1 DEF GhostInv, NewRowIsDisturbed, Deletes
    <2> QED
        BY <1>2, <2>1, <2>3, <2>4 DEF Cared, Listed, Born
<1>7. CASE ~Open(r) /\ ~TooLarge(r) /\ ~DeleteFiles(r)
    <2>1. UNCHANGED <<stamp, lastUp, file>>
        BY <1>7 DEF Serve, Write, DiskFull, LookUp, Record, Rollback, Delete, DeleteRow, time, disk
    <2> QED
        BY <1>1, <1>2, <2>1, NothingUnlinked DEF LossInv
<1> QED
    BY <1>4, <1>5, <1>6, <1>7

\* What a worker unlinks was listed.
LEMMA WorkLosesOutdated ==
    ASSUME KnownInv, LossInv, NEW w \in Workers, Work(w), Step, Remembers PROVE LostIsOutdated'
<1>1. Inv /\ UNCHANGED <<stamp, lastUp>> /\ \A u : Cared(u)' <=> Cared(u)
    BY WorkMoves, WorkCares DEF KnownInv
<1>2. \A u \in disturbed : u \in disturbed'
    BY GhostGrows
<1> SUFFICES ASSUME NEW u \in 1 .. lastUp, Cared(u), u \notin disturbed, ~Shared(u),
                    file'[stamp[u]] = None
             PROVE  Outdated(u)
    BY <1>1, <1>2 DEF LostIsOutdated, Present, Shared, Outdated
<1>3. u \in Uploads /\ stamp[u] \in Stamps
    <2>1. u \in Uploads
        BY <1>1 DEF Inv, StateOK, TimeOK, Uploads
    <2> QED
        BY <1>1, <2>1 DEF Inv, DiskInv, StampedInOrder, StateOK, TimeOK
<1>4. CASE file[stamp[u]] = None
    BY <1>4 DEF LossInv, LostIsOutdated, Present
<1>5. CASE file[stamp[u]] # None
    <2>1. stamp[u] \in th[w].list
        BY <1>1, <1>3, <1>5, WorkMoves
    <2>2. PICK v \in 1 .. lastUp : stamp[v] = stamp[u] /\ Outdated(v)
        BY <2>1 DEF LossInv, ListsOutdated
    <2>3. v \in Uploads
        BY <1>1 DEF Inv, StateOK, TimeOK, Uploads
    <2> QED
        BY <1>3, <2>2, <2>3 DEF Shared
<1> QED
    BY <1>4, <1>5

LEMMA LossIsInductive ==
    ASSUME ~FallsBack, KnownInv, LossInv, [Next]_vars PROVE LossInv'
<1>1. CASE Next
    <2>1. Step /\ Remembers /\ Inv
        BY <1>1 DEF Next, Step, KnownInv
    <2>2. InOrder' /\ ListsOutdated'
        BY <2>1, OrderIsKept, ListsStayOutdated DEF LossInv
    <2>3. LostIsOutdated'
        <3>1. CASE Tick
            <4>1. UNCHANGED <<stamp, lastUp, file>> /\ \A u : Cared(u)' <=> Cared(u)
                BY <3>1 DEF Tick, disk, Cared, Listed, Born, records
            <4> QED
                BY <2>1, <4>1, NothingUnlinked DEF LossInv
        <3>2. CASE Crash
            <4>1. UNCHANGED <<stamp, lastUp, file>>
                BY <2>1, <3>2, CrashMoves
            <4>2. \A u \in 1 .. lastUp : Cared(u)' => Cared(u)
                <5>1. \A u \in 1 .. lastUp : u # None
                    OBVIOUS
                <5> QED
                    BY <2>1, <3>2, <5>1, CrashMoves DEF Cared, Threads, Idle
            <4> QED
                BY <2>1, <4>1, <4>2, NothingUnlinked DEF LossInv
        <3> QED
            BY <2>1, <3>1, <3>2, ServeLosesOutdated, WorkLosesOutdated DEF Step
    <2> QED
        BY <2>2, <2>3 DEF LossInv
<1>2. CASE UNCHANGED vars
    BY <1>2 DEF vars, time, disk, rows, records, LossInv, InOrder, ListsOutdated, LostIsOutdated,
        Outdated, Cared, Listed, Born, Shared, Present
<1> QED
    BY <1>1, <1>2

\* A version that people can see, and that met no full disk, crash or deletion
\* and shared its second with none, is lost only when KEEP_VERSIONS newer ones
\* were sent, for every KEEP_VERSIONS and any number of requests and workers
\* pruning at once, as long as the clock is not put back (config.py:112,
\* deployer.py:448).
THEOREM OnlyNewerCost ==
    ASSUME ~FallsBack PROVE Spec => []LostOnlyToNewer
<1>1. Init => KnownInv /\ LossInv
    <2> SUFFICES ASSUME Init PROVE LossInv
        BY KnownAtFirst
    <2>1. \A w \in Workers : th[w].list = {}
        BY DEF Init, Idle, Threads
    <2>2. 1 .. lastUp = {}
        BY DEF Init
    <2> QED
        BY <2>1, <2>2 DEF LossInv, InOrder, ListsOutdated, LostIsOutdated
<1>2. KnownInv /\ LossInv /\ [Next]_vars => (KnownInv /\ LossInv)'
    BY KnownIsInductive, LossIsInductive
<1>3. KnownInv /\ LossInv => LostOnlyToNewer
    <2> SUFFICES ASSUME KnownInv, LossInv, NEW d \in Deploys, Listed(d),
                        deploy[d].from \notin disturbed, ~Shared(deploy[d].from),
                        ~Present(stamp[deploy[d].from])
                 PROVE  lastUp - deploy[d].from >= KEEP_VERSIONS
        BY DEF LostOnlyToNewer, Listed, Born
    <2>1. deploy[d].from \in 1 .. lastUp
        BY HeldHasBegun DEF KnownInv, Held, Listed
    <2>2. Cared(deploy[d].from)
        BY DEF Cared
    <2> QED
        BY <2>1, <2>2 DEF LossInv, LostIsOutdated, Outdated
<1> QED
    BY <1>1, <1>2, <1>3, PTL DEF Spec
=============================================================================
