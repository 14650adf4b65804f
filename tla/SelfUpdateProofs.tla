-------------------------- MODULE SelfUpdateProofs --------------------------
(***************************************************************************)
(* The launcher's own updates, for any versions, files, number of updates, *)
(* failures and power cuts: an update leaves something to go back to, and  *)
(* when it is over the launcher that runs is the one on disk, whole.  Two  *)
(* conditions are assumed (Orderly below): one update at a time, and a     *)
(* page whose address names the port.                                      *)
(***************************************************************************)
EXTENDS SelfUpdate, TLAPS

USE DEF None

-----------------------------------------------------------------------------
(* Types *)

Job    == [at : {"none", "back_up", "apply"}, by : {None} \cup Launchers,
           version : Versions \cup {Absent}, todo : SUBSET Files]
Assistant == [at : Over \cup {"wait", "start", "poll", "restore", "poll_old"},
              old : {None} \cup Launchers, new : {None} \cup Launchers,
              version : Versions \cup {Absent}, todo : SUBSET Files]
Process == [state : {"none", "starting", "up", "gone"}, tree : Trees]

\* The launcher that applies an update is up, and what it applies is a version.
AppliedByOneThatRuns == job.at # "none" => job.by \in Up /\ job.version \in Versions

LEMMA BlankRecords ==
    /\ Empty \in Trees
    /\ NoJob \in Job /\ NoHelper \in Assistant /\ NoLauncher \in Process
<1>1. Empty \in Trees
    BY DEF Empty, Trees
<1> QED
    BY <1>1 DEF NoJob, Job, NoHelper, Assistant, NoLauncher, Process, Over

LEMMA TypeParts ==
    TypeOK <=> /\ disk \in Trees /\ backup \in Trees
               /\ launcher \in [Launchers -> Process]
               /\ job \in Job
               /\ quitting \subseteq Up
               /\ helper \in [Updates -> Assistant]
               /\ overBad \in BOOLEAN
               /\ reboots \in 0 .. MaxReboots /\ failures \in 0 .. MaxFailures
    BY DEF TypeOK, Job, Assistant, Process

LEMMA TypePartsNext ==
    /\ disk' \in Trees /\ backup' \in Trees
    /\ launcher' \in [Launchers -> Process]
    /\ job' \in Job
    /\ quitting' \subseteq Up'
    /\ helper' \in [Updates -> Assistant]
    /\ overBad' \in BOOLEAN
    /\ reboots' \in 0 .. MaxReboots /\ failures' \in 0 .. MaxFailures
    => TypeOK'
    BY DEF TypeOK, Job, Assistant, Process

LEMMA InitiallyTyped == Init => TypeOK /\ AppliedByOneThatRuns
<1> SUFFICES ASSUME Init PROVE TypeOK /\ AppliedByOneThatRuns
    OBVIOUS
<1>1. Tree(Installed) \in Trees
    BY VersionsAssumption DEF Tree, Trees
<1>2. 1 \in Launchers
    BY BoundsAssumption DEF Launchers
<1>3. job \in Job /\ helper \in [Updates -> Assistant] /\ launcher \in [Launchers -> Process]
    BY <1>1, BlankRecords DEF Init, Process
<1>4. overBad \in BOOLEAN /\ quitting \subseteq Up /\ AppliedByOneThatRuns
    BY DEF Init, AppliedByOneThatRuns, NoJob
<1>5. disk \in Trees /\ backup \in Trees /\ reboots \in 0 .. MaxReboots /\ failures \in 0 .. MaxFailures
    BY <1>1, BlankRecords, BoundsAssumption DEF Init
<1> QED
    BY <1>3, <1>4, <1>5, TypeParts

\* What is known of the state besides the trees, after a launcher has ended.
LEMMA EndingKeepsTypes ==
    ASSUME TypeOK, AppliedByOneThatRuns, NEW l, Ends(l)
    PROVE  /\ launcher' \in [Launchers -> Process] /\ job' \in Job /\ quitting' \subseteq Up'
           /\ AppliedByOneThatRuns'
<1>1. /\ launcher \in [Launchers -> Process]
      /\ launcher' = [launcher EXCEPT ![l].state = "gone"]
    BY TypeParts DEF Ends
<1>2. launcher' \in [Launchers -> Process]
    BY <1>1 DEF Process
<1>3. \A k \in Launchers : k # l => launcher'[k] = launcher[k]
    BY <1>1
<1>4. job' \in Job
    BY TypeParts, BlankRecords DEF Ends
<1>5. \A k \in Up : k # l => k \in Up'
    BY <1>3 DEF Up
<1>6. quitting' \subseteq Up'
    BY <1>5, TypeParts DEF Ends
<1>7. AppliedByOneThatRuns'
    BY <1>5 DEF Ends, AppliedByOneThatRuns, NoJob
<1> QED
    BY <1>2, <1>4, <1>6, <1>7

LEMMA StartingKeepsTypes ==
    ASSUME TypeOK, AppliedByOneThatRuns, NEW l \in Launchers, NEW u \in Updates, NEW next,
           next \in {"poll", "poll_old"}, Started(l, next, u)
    PROVE  TypeOK' /\ AppliedByOneThatRuns'
<1>1. launcher \in [Launchers -> Process] /\ disk \in Trees /\ launcher[l] = NoLauncher
    BY TypeParts DEF Started
<1>2. launcher' = [launcher EXCEPT ![l] = [state |-> "starting", tree |-> disk]]
    BY DEF Started
<1>3. launcher' \in [Launchers -> Process]
    BY <1>1, <1>2 DEF Process
<1>4. Up' = Up
    BY <1>1, <1>2 DEF Up, NoLauncher
<1>5. helper' \in [Updates -> Assistant]
    BY TypeParts DEF Started, Assistant
<1> QED
    BY <1>3, <1>4, <1>5, TypeParts, TypePartsNext DEF Started, AppliedByOneThatRuns, faults

\* The record of an update that gets no helper, with what it had left to copy.
Unhelped(place) == [NoHelper EXCEPT !.at = place, !.todo = job.todo, !.version = job.version]

LEMMA AbandonedRecord ==
    ASSUME TypeOK, AppliedByOneThatRuns, job.at = "apply",
           NEW place \in {"abandoned", "killed"}
    PROVE  /\ Unhelped(place) \in Assistant
           /\ Unhelped(place).at = place /\ Unhelped(place).todo = job.todo
           /\ Unhelped(place).version = job.version
    BY TypeParts DEF Unhelped, NoHelper, Assistant, Over, Job, AppliedByOneThatRuns

LEMMA AbandoningKeepsTypes ==
    ASSUME TypeOK, AppliedByOneThatRuns, job.at = "apply", NEW u \in Updates, Abandons(u),
           disk' \in Trees
    PROVE  TypeOK' /\ AppliedByOneThatRuns'
<1>1. /\ helper' = [helper EXCEPT ![u] = Unhelped("abandoned")] /\ job' = NoJob
      /\ failures < MaxFailures /\ failures' = failures + 1
      /\ UNCHANGED <<backup, launcher, quitting, overBad, reboots>>
    BY DEF Abandons, Unhelped
<1>2. helper' \in [Updates -> Assistant]
    BY <1>1, AbandonedRecord, TypeParts
<1>3. failures' \in 0 .. MaxFailures
    BY <1>1, TypeParts, BoundsAssumption
<1> QED
    BY <1>1, <1>2, <1>3, BlankRecords, TypeParts, TypePartsNext
       DEF AppliedByOneThatRuns, NoJob, Up

LEMMA UpdateKeepsTypes ==
    ASSUME TypeOK, AppliedByOneThatRuns, Update
    PROVE  TypeOK' /\ AppliedByOneThatRuns'
<1> USE TypeParts, TypePartsNext
<1>1. CASE Begin
    <2>1. job' \in Job /\ job'.by \in Up /\ job'.version \in Versions /\ Up' = Up
        BY <1>1 DEF Begin, Job, Up
    <2> QED
        BY <1>1, <2>1, BlankRecords DEF Begin, faults, AppliedByOneThatRuns
<1>2. CASE BackUpFile
    <2>1. backup' \in Trees
        BY <1>2 DEF BackUpFile, Trees, Job
    <2>2. job' \in Job /\ job'.at = job.at /\ job'.by = job.by /\ job'.version = job.version
        BY <1>2 DEF BackUpFile, Job
    <2> QED
        BY <1>2, <2>1, <2>2 DEF BackUpFile, faults, AppliedByOneThatRuns, Up
<1>3. CASE BackedUp
    <2>1. job' \in Job /\ job'.by = job.by /\ job'.version = job.version
        <3>1. job.version \in Versions => Carries[job.version] \in SUBSET Files
            BY VersionsAssumption
        <3>2. job.version \in Versions
            BY <1>3 DEF BackedUp, AppliedByOneThatRuns
        <3> QED
            BY <1>3, <3>1, <3>2 DEF BackedUp, Job
    <2> QED
        BY <1>3, <2>1 DEF BackedUp, faults, AppliedByOneThatRuns, Up
<1>4. CASE ApplyFile
    <2>1. disk' \in Trees
        BY <1>4 DEF ApplyFile, Trees, Job
    <2>2. job' \in Job /\ job'.at = job.at /\ job'.by = job.by /\ job'.version = job.version
        BY <1>4 DEF ApplyFile, Job
    <2> QED
        BY <1>4, <2>1, <2>2 DEF ApplyFile, faults, AppliedByOneThatRuns, Up
<1>5. CASE BackUpFails
    <2>1. job' = NoJob /\ failures' \in 0 .. MaxFailures
        BY <1>5, BoundsAssumption DEF BackUpFails
    <2> QED
        BY <1>5, <2>1, BlankRecords DEF BackUpFails, AppliedByOneThatRuns, NoJob, Up
<1>8. CASE ApplyFails
    <2>1. PICK f \in job.todo, u \in Updates :
            job.at = "apply" /\ Abandons(u) /\ disk' \in {disk, [disk EXCEPT ![f] = Absent]}
        BY <1>8 DEF ApplyFails
    <2>2. disk' \in Trees
        BY <2>1 DEF Trees, Job
    <2> QED
        BY <2>1, <2>2, AbandoningKeepsTypes
<1>9. CASE HandOverFails
    BY <1>9, AbandoningKeepsTypes DEF HandOverFails
<1>6. CASE HandOver
    <2>1. PICK u \in Updates :
            /\ helper' = [helper EXCEPT ![u] = [NoHelper EXCEPT !.at = "wait", !.old = job.by,
                                                               !.version = job.version]]
            /\ job.at = "apply" /\ quitting' = quitting \cup {job.by} /\ job' = NoJob
            /\ UNCHANGED <<disk, backup, launcher, faults>>
        BY <1>6 DEF HandOver
    <2>2. helper' \in [Updates -> Assistant]
        BY <2>1 DEF Assistant, NoHelper, Job
    <2>3. quitting' \subseteq Up'
        BY <2>1 DEF AppliedByOneThatRuns, Up
    <2> QED
        BY <2>1, <2>2, <2>3, BlankRecords DEF faults, AppliedByOneThatRuns, NoJob
<1>7. CASE Quit
    BY <1>7, EndingKeepsTypes DEF Quit, faults
<1> QED
    BY <1>1, <1>2, <1>3, <1>4, <1>5, <1>6, <1>7, <1>8, <1>9 DEF Update, Handler

LEMMA HelperKeepsTypes ==
    ASSUME TypeOK, AppliedByOneThatRuns, NEW u \in Updates, Helper(u)
    PROVE  TypeOK' /\ AppliedByOneThatRuns'
<1> USE TypeParts, TypePartsNext
<1>1. ASSUME NEW place \in Over \cup {"start", "restore"}, Moves(u, place)
      PROVE  helper' \in [Updates -> Assistant]
    BY <1>1 DEF Moves, Assistant
<1>2. UNCHANGED launcher => Up' = Up
    BY DEF Up
<1>3. CASE SeesExit(u) \/ SeesNew(u) \/ SeesOld(u) \/ GivesUpOnOld(u)
    <2>1. helper' \in [Updates -> Assistant]
        BY <1>3, <1>1 DEF SeesExit, SeesNew, SeesOld, GivesUpOnOld, Over
    <2> QED
        BY <1>2, <1>3, <2>1 DEF SeesExit, SeesNew, SeesOld, GivesUpOnOld, faults, AppliedByOneThatRuns
<1>4. CASE KillsOld(u)
    <2>1. helper' \in [Updates -> Assistant]
        BY <1>4, <1>1 DEF KillsOld
    <2> QED
        BY <1>4, <2>1, EndingKeepsTypes DEF KillsOld, faults
<1>5. CASE StartsNew(u) \/ StartsOld(u)
    BY <1>5, StartingKeepsTypes DEF StartsNew, StartsOld
<1>6. CASE GivesUpOnNew(u)
    <2>1. helper' \in [Updates -> Assistant]
        BY <1>6 DEF GivesUpOnNew, Assistant
    <2> QED
        BY <1>2, <1>6, <2>1 DEF GivesUpOnNew, faults, AppliedByOneThatRuns
<1>7. CASE RestoresFile(u)
    <2>1. disk' \in Trees /\ helper' \in [Updates -> Assistant]
        BY <1>7 DEF RestoresFile, Assistant, Trees
    <2> QED
        BY <1>2, <1>7, <2>1 DEF RestoresFile, faults, AppliedByOneThatRuns
<1>8. CASE RestoreStops(u)
    <2>1. disk' \in Trees
        BY <1>8 DEF RestoreStops, Trees, Assistant
    <2>2. helper' \in [Updates -> Assistant]
        BY <1>1, <1>8 DEF RestoreStops, Over
    <2>3. failures' \in 0 .. MaxFailures
        BY <1>8, BoundsAssumption DEF RestoreStops
    <2> QED
        BY <1>2, <1>8, <2>1, <2>2, <2>3 DEF RestoreStops, AppliedByOneThatRuns
<1> QED
    BY <1>3, <1>4, <1>5, <1>6, <1>7, <1>8 DEF Helper

LEMMA OthersKeepTypes ==
    ASSUME TypeOK, AppliedByOneThatRuns, (\E l \in Launchers : ComesUp(l)) \/ Reboot
    PROVE  TypeOK' /\ AppliedByOneThatRuns'
<1> USE TypeParts, TypePartsNext
<1>1. CASE \E l \in Launchers : ComesUp(l)
    <2>1. PICK l \in Launchers : ComesUp(l)
        BY <1>1
    <2>2. PICK fate \in {"up", "gone"} : launcher' = [launcher EXCEPT ![l].state = fate]
        BY <2>1 DEF ComesUp, Fates
    <2>3. launcher' \in [Launchers -> Process]
        BY <2>2 DEF Process
    <2>4. Up \subseteq Up'
        BY <2>1, <2>2 DEF ComesUp, Up
    <2> QED
        BY <2>1, <2>3, <2>4 DEF ComesUp, faults, AppliedByOneThatRuns
<1>2. CASE Reboot
    <2>1. launcher' \in [Launchers -> Process]
        BY <1>2, BlankRecords DEF Reboot, Process
    <2>2. helper' \in [Updates -> Assistant]
        <3>1. \A u \in Updates : Ended(u) \in Assistant
            <4>1. SUFFICES ASSUME NEW u \in Updates PROVE Ended(u) \in Assistant
                OBVIOUS
            <4>2. CASE Ended(u) = helper[u]
                BY <4>2
            <4>3. CASE Ended(u) = [helper[u] EXCEPT !.at = "killed"]
                BY <4>3 DEF Assistant, Over
            <4>4. CASE job.at = "apply" /\ Ended(u) = Unhelped("killed")
                BY <4>4, AbandonedRecord
            <4> QED
                BY <4>2, <4>3, <4>4 DEF Ended, Unhelped, NoHelper
        <3> QED
            BY <1>2, <3>1 DEF Reboot
    <2>3. reboots' \in 0 .. MaxReboots
        BY <1>2, BoundsAssumption DEF Reboot
    <2> QED
        BY <1>2, <2>1, <2>2, <2>3, BlankRecords DEF Reboot, AppliedByOneThatRuns, NoJob, Up
<1> QED
    BY <1>1, <1>2

\* Trees, processes, the update under way and the helpers keep their types, and
\* an exit is due of launchers only that are up.
THEOREM TypeCorrect == Spec => []TypeOK
<1>1. Init => TypeOK /\ AppliedByOneThatRuns
    BY InitiallyTyped
<1>2. TypeOK /\ AppliedByOneThatRuns /\ [Next]_vars => TypeOK' /\ AppliedByOneThatRuns'
    <2>1. UNCHANGED vars /\ TypeOK /\ AppliedByOneThatRuns => TypeOK' /\ AppliedByOneThatRuns'
        BY TypeParts, TypePartsNext DEF vars, faults, AppliedByOneThatRuns, Up
    <2> QED
        BY <2>1, UpdateKeepsTypes, HelperKeepsTypes, OthersKeepTypes DEF Next
<1> QED
    BY <1>1, <1>2, PTL DEF Spec

-----------------------------------------------------------------------------
(* One update at a time                                                     *)

\* What the run assumes too: an update begins when the last one is over, and the
\* address of the page names the port.
Orderly == ~Overlap /\ PortInUrl

Is(tree, v) == \A f \in Carries[v] : tree[f] = v

Live    == {l \in Launchers : launcher[l].state \in {"starting", "up"}}
Busy(u) == helper[u].at \notin Over
Resting == job = NoJob /\ \A u \in Updates : ~Busy(u)
Slow(u) == Kind[helper[u].version] = "slow"

RolledBack(u) == helper[u].at \in {"restore", "poll_old", "rolled_back", "gave_up"}

\* A handler or a helper is at work, never two of them, and it is that of the last
\* update or of the one that comes next.
OneAtATime ==
    /\ job.at = "none" => job = NoJob
    /\ job # NoJob => Live = {job.by} /\ (\A u \in Updates : ~Busy(u)) /\ \E u \in Updates : IsNext(u)
    /\ \A u, w \in Updates : Busy(u) /\ Busy(w) => u = w
    /\ \A u \in Updates : Busy(u) => IsLast(u)
    /\ \A u \in Updates : helper[u].at # "none" => helper[u].version \in Versions
    /\ \A u, w \in Updates : helper[u].at = "none" /\ u <= w => helper[w].at = "none"

\* What may run while a helper is at work: the launcher it waits for, then the
\* one it has started, and from then on one that was too slow.
WhoRuns ==
    /\ \A k, l \in Up : k = l
    /\ \A l \in quitting : \E u \in Updates : helper[u].at = "wait" /\ helper[u].old = l
    /\ \A u \in Updates :
          LET h == helper[u] IN
          /\ h.at = "wait" => Live \subseteq {h.old}
          /\ h.at = "start" => Live = {}
          /\ h.at = "poll" => /\ h.new \in Launchers /\ Live \subseteq {h.new}
                              /\ launcher[h.new].tree = disk
                              /\ launcher[h.new].state # "none"
                              /\ launcher[h.new].state = "gone" => Kind[h.version] = "broken"
                              /\ launcher[h.new].state = "up" => Kind[h.version] # "broken"
          /\ h.at = "restore" => Live = {} \/ Slow(u)
          /\ h.at = "poll_old" => Slow(u) \/ \A l \in Live : l = h.new /\ launcher[l].tree = disk
          /\ RolledBack(u) => Kind[h.version] # "good"

\* What is on disk when the helper starts it is the whole of what was uploaded.
DiskIsNew ==
    /\ job.at = "apply" => \A f \in Carries[job.version] \ job.todo : disk[f] = job.version
    /\ \A u \in Updates : helper[u].at \in {"wait", "start", "poll"} => Is(disk, helper[u].version)

\* While the files of one tree are written, the other is whole and works; at
\* rest one of the two is.
OneTreeWorks ==
    /\ job.at = "back_up" => Works(disk) /\ \A f \in Files \ job.todo : backup[f] = disk[f]
    /\ job.at = "apply" => Works(backup)
    /\ \A u \in Updates :
          /\ helper[u].at \in {"wait", "start", "poll", "restore"} => Works(backup)
          /\ helper[u].at = "restore" =>
                \A f \in Files \ helper[u].todo : backup[f] # Absent => disk[f] = backup[f]
          /\ helper[u].at = "poll_old" => Works(disk)
    /\ Resting => Works(disk) \/ Works(backup)

\* At rest the files on disk are those of one version, or the last update was cut
\* short.
WholeUnlessCut == Resting => VersionOf(disk) # Mixed \/ CutShort

\* At rest a launcher runs what is on disk.
RunsTheDisk == Resting \/ job.at = "back_up" => \A l \in Live : launcher[l].tree = disk

Inv == /\ OneAtATime /\ WhoRuns /\ DiskIsNew
       /\ overBad \/ (OneTreeWorks /\ WholeUnlessCut)
       /\ TooSlow \/ Abandoned \/ RunsTheDisk

Known == TypeOK /\ AppliedByOneThatRuns /\ Inv

-----------------------------------------------------------------------------
(* Trees and the versions they are copies of                                *)

\* Every version has the files the launcher requires, so a tree is a copy of
\* one version at most.
LEMMA CopyOfOne ==
    ASSUME NEW v \in Versions, NEW tree, Is(tree, v)
    PROVE  VersionOf(tree) = v /\ VersionOf(tree) # Mixed
<1>1. ASSUME NEW w \in Versions, Is(tree, w) PROVE w = v
    <2>1. PICK f \in Files : \A x \in Versions : f \in Carries[x]
        BY VersionsAssumption
    <2> QED
        BY <1>1, <2>1 DEF Is
<1>2. VersionOf(tree) = v
    BY <1>1 DEF VersionOf, Is
<1> QED
    BY <1>2, VersionsAssumption

LEMMA WholeIsACopy ==
    ASSUME NEW tree, VersionOf(tree) # Mixed
    PROVE  VersionOf(tree) \in Versions /\ Is(tree, VersionOf(tree))
<1>1. \E v \in Versions : Is(tree, v)
    BY DEF VersionOf, Is
<1> QED
    BY <1>1 DEF VersionOf, Is

\* Copied over another tree, a whole one is whole again.
LEMMA CopiedOver ==
    ASSUME NEW from \in Trees, NEW to \in Trees, Works(from),
           \A f \in Files : from[f] # Absent => to[f] = from[f]
    PROVE  Works(to)
<1>1. VersionOf(from) \in Versions /\ Is(from, VersionOf(from))
    BY WholeIsACopy DEF Works
<1>2. Is(to, VersionOf(from))
    BY <1>1, VersionsAssumption DEF Is
<1> QED
    BY <1>1, <1>2, CopyOfOne DEF Works

\* What a process that starts may come to.
LEMMA FateOf ==
    ASSUME NEW tree
    PROVE  /\ Fates(tree) \subseteq {"up", "gone"}
           /\ VersionOf(tree) # Mixed /\ "up" \in Fates(tree) => Kind[VersionOf(tree)] # "broken"
           /\ VersionOf(tree) # Mixed /\ "gone" \in Fates(tree) => Kind[VersionOf(tree)] = "broken"
    BY DEF Fates

-----------------------------------------------------------------------------
(* Processes that start and end                                             *)

LEMMA StartAddsOne ==
    ASSUME TypeOK, NEW l \in Launchers, NEW u, NEW next, Started(l, next, u)
    PROVE  /\ Live' = Live \cup {l} /\ l \notin Live
           /\ launcher'[l] = [state |-> "starting", tree |-> disk]
           /\ \A k \in Launchers : k # l => launcher'[k] = launcher[k]
           /\ Up' = Up
<1>1. /\ launcher \in [Launchers -> Process] /\ launcher[l] = NoLauncher
      /\ launcher' = [launcher EXCEPT ![l] = [state |-> "starting", tree |-> disk]]
    BY TypeParts DEF Started
<1> QED
    BY <1>1 DEF Live, Up, NoLauncher

LEMMA EndTakesOne ==
    ASSUME TypeOK, NEW l, Ends(l)
    PROVE  /\ Live' = Live \ {l} /\ Up' = Up \ {l}
           /\ \A k \in Launchers : k # l => launcher'[k] = launcher[k]
           /\ l \in Launchers => launcher'[l] = [launcher[l] EXCEPT !.state = "gone"]
<1>1. launcher \in [Launchers -> Process] /\ launcher' = [launcher EXCEPT ![l].state = "gone"]
    BY TypeParts DEF Ends
<1>2. /\ \A k \in Launchers : k # l => launcher'[k] = launcher[k]
      /\ l \in Launchers => launcher'[l] = [launcher[l] EXCEPT !.state = "gone"]
    BY <1>1
<1>3. l \in Launchers => launcher'[l].state = "gone"
    BY <1>1, <1>2 DEF Process
<1> QED
    BY <1>2, <1>3 DEF Live, Up

LEMMA SameProcesses == UNCHANGED launcher => Live' = Live /\ Up' = Up
    BY DEF Live, Up

-----------------------------------------------------------------------------
(* Every step keeps the invariant                                           *)

LEMMA InitiallyKnown == Init => Inv
<1> SUFFICES ASSUME Init PROVE Inv
    OBVIOUS
<1>1. Works(disk)
    <2>1. Is(Tree(Installed), Installed)
        BY VersionsAssumption DEF Is, Tree
    <2> QED
        BY <2>1, CopyOfOne, VersionsAssumption DEF Init, Works
<1>2. Live = {1} /\ Up = {1} /\ launcher[1].tree = disk /\ 1 \in Launchers
    BY BoundsAssumption DEF Init, Live, Up, NoLauncher, Launchers
<1>3. \A u \in Updates : helper[u] = NoHelper
    BY DEF Init
<1>4. \A u \in Updates : helper[u].at = "none" /\ ~Busy(u) /\ ~RolledBack(u)
    BY <1>3 DEF NoHelper, Busy, Over, RolledBack
<1>5. job = NoJob /\ job.at = "none" /\ quitting = {}
    BY DEF Init, NoJob
<1>6. OneAtATime
    BY <1>4, <1>5 DEF OneAtATime
<1>7. WhoRuns
    BY <1>1, <1>2, <1>4, <1>5 DEF WhoRuns
<1>8. DiskIsNew /\ OneTreeWorks /\ WholeUnlessCut /\ RunsTheDisk
    BY <1>1, <1>2, <1>4, <1>5 DEF DiskIsNew, OneTreeWorks, WholeUnlessCut, RunsTheDisk, Works
<1> QED
    BY <1>6, <1>7, <1>8 DEF Inv

LEMMA BeginKeeps == ASSUME Orderly, Known, Begin PROVE Inv'
<1>1. PICK l \in Up, v \in Versions :
        /\ job = NoJob /\ AtRest /\ \E u \in Updates : IsNext(u)
        /\ job' = [at |-> "back_up", by |-> l, version |-> v, todo |-> {f \in Files : disk[f] # Absent}]
        /\ backup' = Empty
        /\ overBad' = ~Works(disk)
        /\ UNCHANGED <<disk, launcher, quitting, helper, reboots, failures>>
    BY DEF Begin, Orderly
<1>2. Live' = Live /\ Up' = Up /\ Live = Up
    BY <1>1, SameProcesses DEF AtRest, Live, Up
<1>3. Live = {l}
    BY <1>2 DEF Known, Inv, WhoRuns
<1>4. Resting
    BY <1>1 DEF Resting, AtRest, Busy
<1>5. \A u \in Updates : helper[u].at \in Over /\ ~Busy(u) /\ ~Busy(u)'
    BY <1>1 DEF AtRest, Busy
<1>6. OneAtATime'
    BY <1>1, <1>2, <1>3, <1>5 DEF Known, Inv, OneAtATime, NoJob, IsNext, IsLast
<1>7. WhoRuns'
    BY <1>1, <1>2 DEF Known, Inv, WhoRuns, Slow, RolledBack
<1>8. DiskIsNew'
    BY <1>1, <1>5 DEF DiskIsNew, Over
<1>9. job' # NoJob /\ job'.at = "back_up" /\ ~Resting'
    BY <1>1 DEF NoJob, Resting
<1>10. ASSUME Works(disk) PROVE OneTreeWorks' /\ WholeUnlessCut'
    <2>1. \A f \in Files \ job'.todo : backup'[f] = disk'[f]
        BY <1>1 DEF Empty
    <2>2. Works(disk')
        BY <1>1, <1>10
    <2> QED
        BY <1>1, <1>5, <1>9, <2>1, <2>2 DEF OneTreeWorks, Over, WholeUnlessCut
<1>11. ASSUME RunsTheDisk PROVE RunsTheDisk'
    BY <1>1, <1>2, <1>4, <1>11 DEF RunsTheDisk
<1> QED
    BY <1>1, <1>6, <1>7, <1>8, <1>10, <1>11 DEF Known, Inv, TooSlow, Abandoned, Slow, IsLast

LEMMA BackingUpKeeps ==
    ASSUME Orderly, Known, BackUpFile \/ BackedUp
    PROVE  Inv'
<1>1. /\ job.at = "back_up" /\ job # NoJob /\ job' # NoJob /\ job'.by = job.by
      /\ job'.at \in {"back_up", "apply"} /\ job'.version = job.version
      /\ UNCHANGED <<disk, launcher, quitting, helper, overBad>>
    <2>1. job.at = "back_up" /\ UNCHANGED <<disk, launcher, quitting, helper, overBad>>
        BY DEF BackUpFile, BackedUp, faults
    <2>2. /\ job'.by = job.by /\ job'.version = job.version
          /\ job'.at \in {"back_up", "apply"}
        BY <2>1, TypeParts DEF BackUpFile, BackedUp, Known, Job
    <2> QED
        BY <2>1, <2>2 DEF NoJob
<1>2. Live' = Live /\ Up' = Up
    BY <1>1, SameProcesses
<1>3. \A u \in Updates : helper[u].at \in Over /\ ~Busy(u) /\ ~Busy(u)'
    BY <1>1 DEF Known, Inv, OneAtATime, Busy
<1>4. OneAtATime'
    BY <1>1, <1>2, <1>3 DEF Known, Inv, OneAtATime, IsNext
<1>5. WhoRuns'
    BY <1>1, <1>2 DEF Known, Inv, WhoRuns, Slow, RolledBack
<1>6. DiskIsNew'
    <2>1. job'.at = "apply" => job'.todo = Carries[job'.version]
        BY <1>1, TypeParts DEF BackUpFile, BackedUp, Known, Job
    <2> QED
        BY <1>1, <1>3, <2>1 DEF DiskIsNew, Over
<1>7. ASSUME OneTreeWorks PROVE OneTreeWorks'
    <2>1. Works(disk) /\ \A f \in Files \ job.todo : backup[f] = disk[f]
        BY <1>1, <1>7 DEF OneTreeWorks
    <2>2. CASE BackUpFile
        <3>1. \A f \in Files \ job'.todo : backup'[f] = disk'[f]
            BY <2>1, <2>2, TypeParts DEF BackUpFile, Known, Job, Trees
        <3> QED
            BY <1>1, <1>3, <2>1, <2>2, <3>1 DEF OneTreeWorks, Over, Resting, BackUpFile
    <2>3. CASE BackedUp
        <3>1. \A f \in Files : backup[f] = disk[f]
            BY <2>1, <2>3 DEF BackedUp
        <3>2. Works(backup)
            BY <2>1, <3>1, CopiedOver, TypeParts DEF Known
        <3>3. job'.at = "apply" /\ backup' = backup
            BY <2>3, TypeParts DEF BackedUp, Known, Job
        <3> QED
            BY <1>1, <1>3, <3>2, <3>3 DEF OneTreeWorks, Over, Resting
    <2> QED
        BY <2>2, <2>3
<1>8. WholeUnlessCut'
    BY <1>1 DEF WholeUnlessCut, Resting
<1>9. ASSUME RunsTheDisk PROVE RunsTheDisk'
    BY <1>1, <1>2, <1>9 DEF RunsTheDisk, Resting
<1> QED
    BY <1>1, <1>4, <1>5, <1>6, <1>7, <1>8, <1>9 DEF Known, Inv, TooSlow, Abandoned, Slow, IsLast

LEMMA ApplyingKeeps == ASSUME Orderly, Known, ApplyFile PROVE Inv'
<1>1. PICK f \in job.todo :
        /\ job.at = "apply"
        /\ disk' = [disk EXCEPT ![f] = job.version]
        /\ job' = [job EXCEPT !.todo = @ \ {f}]
        /\ UNCHANGED <<backup, launcher, quitting, helper, overBad>>
    BY DEF ApplyFile, faults
<1>2. /\ job # NoJob /\ job' # NoJob /\ job'.by = job.by /\ job'.at = "apply"
      /\ job'.version = job.version /\ job'.todo = job.todo \ {f} /\ f \in Files
    BY <1>1, TypeParts DEF Known, NoJob, Job
<1>3. Live' = Live /\ Up' = Up
    BY <1>1, SameProcesses
<1>4. \A u \in Updates : helper[u].at \in Over /\ ~Busy(u) /\ ~Busy(u)'
    BY <1>1, <1>2 DEF Known, Inv, OneAtATime, Busy
<1>5. OneAtATime'
    BY <1>1, <1>2, <1>3, <1>4 DEF Known, Inv, OneAtATime, IsNext
<1>6. WhoRuns'
    <2>1. \A u \in Updates : helper[u].at \notin {"wait", "start", "poll", "restore", "poll_old"}
        BY <1>4 DEF Over
    <2> QED
        BY <1>1, <1>3, <2>1 DEF Known, Inv, WhoRuns, Slow, RolledBack
<1>7. DiskIsNew'
    <2>1. \A g \in Carries[job.version] \ job.todo : disk[g] = job.version
        BY <1>1 DEF Known, Inv, DiskIsNew
    <2>2. Carries[job.version] \subseteq Files
        BY <1>1, VersionsAssumption DEF Known, AppliedByOneThatRuns
    <2>3. \A g \in Carries[job.version] \ job'.todo : disk'[g] = job.version
        BY <1>1, <1>2, <2>1, <2>2, TypeParts DEF Known, Trees
    <2> QED
        BY <1>1, <1>2, <1>4, <2>3 DEF DiskIsNew, Over
<1>8. ASSUME OneTreeWorks PROVE OneTreeWorks'
    BY <1>1, <1>2, <1>4, <1>8 DEF OneTreeWorks, Over, Resting
<1>9. WholeUnlessCut' /\ RunsTheDisk'
    BY <1>2 DEF RunsTheDisk, WholeUnlessCut, Resting
<1> QED
    BY <1>1, <1>5, <1>6, <1>7, <1>8, <1>9 DEF Known, Inv

LEMMA FailedBackUpKeeps == ASSUME Orderly, Known, BackUpFails PROVE Inv'
<1>1. /\ job.at = "back_up" /\ job # NoJob /\ job' = NoJob /\ job'.at = "none"
      /\ UNCHANGED <<disk, backup, launcher, quitting, helper, overBad, reboots>>
    BY DEF BackUpFails, NoJob
<1>2. Live' = Live /\ Up' = Up
    BY <1>1, SameProcesses
<1>3. \A u \in Updates : helper[u].at \in Over /\ ~Busy(u) /\ ~Busy(u)'
    BY <1>1 DEF Known, Inv, OneAtATime, Busy
<1>4. OneAtATime'
    BY <1>1, <1>2, <1>3 DEF Known, Inv, OneAtATime
<1>5. WhoRuns'
    BY <1>1, <1>2 DEF Known, Inv, WhoRuns, Slow, RolledBack
<1>6. DiskIsNew'
    BY <1>1, <1>3 DEF DiskIsNew, Over
<1>7. ASSUME OneTreeWorks PROVE OneTreeWorks' /\ WholeUnlessCut'
    BY <1>1, <1>3, <1>7 DEF OneTreeWorks, Over, WholeUnlessCut, Works
<1>8. ASSUME RunsTheDisk PROVE RunsTheDisk'
    BY <1>1, <1>2, <1>8 DEF RunsTheDisk
<1> QED
    BY <1>1, <1>4, <1>5, <1>6, <1>7, <1>8 DEF Known, Inv, TooSlow, Abandoned, Slow, IsLast

\* The next update gets its record and is the last one from then on.
LEMMA NextBecomesLast ==
    ASSUME Known, NEW u \in Updates, IsNext(u), helper'[u].at # "none",
           \A w \in Updates : w # u => helper'[w] = helper[w]
    PROVE  /\ IsLast(u)'
           /\ \A x, w \in Updates : helper'[x].at = "none" /\ x <= w => helper'[w].at = "none"
<1>1. \A w \in Updates : helper[w].at = "none" => u <= w
    BY DEF IsNext
<1>2. \A x, w \in Updates : helper[x].at = "none" /\ x <= w => helper[w].at = "none"
    BY DEF Known, Inv, OneAtATime
<1>3. Updates \subseteq Int
    BY BoundsAssumption DEF Updates
<1>4. \A w \in Updates : w > u => helper'[w].at = "none"
    BY <1>2, <1>3 DEF IsNext
<1> QED
    BY <1>1, <1>2, <1>3, <1>4 DEF IsLast

\* An update that is abandoned leaves a whole new version if every file was
\* replaced, and is cut short if not; a copy that works is set aside.
LEMMA AbandoningKeeps ==
    ASSUME Orderly, Known, job.at = "apply", NEW u \in Updates, Abandons(u), TypeOK',
           job.todo = {} => disk' = disk
    PROVE  Inv'
<1>1. /\ IsNext(u) /\ helper' = [helper EXCEPT ![u] = Unhelped("abandoned")]
      /\ job' = NoJob /\ job'.at = "none" /\ job # NoJob
      /\ UNCHANGED <<backup, launcher, quitting, overBad, reboots>>
    BY DEF Abandons, Unhelped, NoJob
<1>2. /\ helper'[u].at = "abandoned" /\ helper'[u].todo = job.todo
      /\ helper'[u].version = job.version /\ job.version \in Versions
      /\ \A w \in Updates : w # u => helper'[w] = helper[w]
    BY <1>1, AbandonedRecord, TypeParts DEF Known, AppliedByOneThatRuns
<1>3. Live' = Live /\ Up' = Up
    BY <1>1, SameProcesses
<1>4. \A w \in Updates : helper[w].at \in Over /\ helper'[w].at \in Over /\ ~Busy(w)'
    BY <1>1, <1>2 DEF Known, Inv, OneAtATime, Busy, Over
<1>5. /\ IsLast(u)'
      /\ \A x, w \in Updates : helper'[x].at = "none" /\ x <= w => helper'[w].at = "none"
    BY <1>1, <1>2, NextBecomesLast
<1>6. OneAtATime'
    BY <1>1, <1>2, <1>4, <1>5 DEF Known, Inv, OneAtATime
<1>7. WhoRuns'
    <2>1. \A l \in quitting : FALSE
        BY <1>4 DEF Known, Inv, WhoRuns, Over
    <2>2. \A w \in Updates : helper'[w].at \notin {"wait", "start", "poll", "restore", "poll_old"}
        BY <1>4 DEF Over
    <2>3. \A w \in Updates : RolledBack(w)' => Kind[helper'[w].version] # "good"
        BY <1>2 DEF Known, Inv, WhoRuns, RolledBack
    <2> QED
        BY <1>1, <1>3, <2>1, <2>2, <2>3 DEF Known, Inv, WhoRuns
<1>8. DiskIsNew'
    BY <1>1, <1>4 DEF DiskIsNew, Over
<1>9. ASSUME OneTreeWorks PROVE OneTreeWorks'
    <2>1. Works(backup')
        BY <1>1, <1>9 DEF OneTreeWorks
    <2> QED
        BY <1>1, <1>4, <2>1 DEF OneTreeWorks, Over
<1>10. WholeUnlessCut'
    <2>1. CASE job.todo = {}
        <3>1. Is(disk, job.version)
            BY <2>1 DEF Known, Inv, DiskIsNew, Is
        <3>2. VersionOf(disk) # Mixed
            BY <1>2, <3>1, CopyOfOne
        <3> QED
            BY <2>1, <3>2 DEF WholeUnlessCut
    <2>2. CASE job.todo # {}
        BY <1>2, <1>5, <2>2 DEF WholeUnlessCut, CutShort
    <2> QED
        BY <2>1, <2>2
<1>11. Abandoned'
    BY <1>2, <1>5 DEF Abandoned
<1> QED
    BY <1>1, <1>6, <1>7, <1>8, <1>9, <1>10, <1>11 DEF Known, Inv

LEMMA AbandonedKeeps == ASSUME Orderly, Known, ApplyFails \/ HandOverFails, TypeOK' PROVE Inv'
<1>1. CASE ApplyFails
    <2>1. PICK f \in job.todo, u \in Updates : job.at = "apply" /\ Abandons(u)
        BY <1>1 DEF ApplyFails
    <2> QED
        BY <2>1, AbandoningKeeps
<1>2. CASE HandOverFails
    BY <1>2, AbandoningKeeps DEF HandOverFails
<1> QED
    BY <1>1, <1>2

LEMMA HandOverKeeps == ASSUME Orderly, Known, HandOver PROVE Inv'
<1>1. PICK u \in Updates :
        /\ IsNext(u) /\ helper[u].at = "none" /\ job.at = "apply" /\ job.todo = {}
        /\ helper' = [helper EXCEPT ![u] = [NoHelper EXCEPT !.at = "wait", !.old = job.by,
                                                            !.version = job.version]]
        /\ quitting' = quitting \cup {job.by} /\ job' = NoJob
        /\ UNCHANGED <<disk, backup, launcher, overBad>>
    BY DEF HandOver, IsNext, faults
<1>2. /\ helper'[u].at = "wait" /\ helper'[u].old = job.by /\ helper'[u].version = job.version
      /\ \A w \in Updates : w # u => helper'[w] = helper[w]
    BY <1>1, TypeParts DEF Known, NoHelper
<1>3. Live' = Live /\ Up' = Up
    BY <1>1, SameProcesses
<1>4. job # NoJob /\ job.version \in Versions /\ job'.at = "none"
    BY <1>1 DEF Known, AppliedByOneThatRuns, NoJob
<1>5. \A w \in Updates : helper[w].at \in Over
    BY <1>4 DEF Known, Inv, OneAtATime, Busy
<1>6. Live = {job.by}
    BY <1>4 DEF Known, Inv, OneAtATime
<1>7. \A w \in Updates : w # u => helper'[w].at \in Over
    BY <1>2, <1>5
<1>8. OneAtATime'
    <2>1. /\ IsLast(u)'
          /\ \A x, w \in Updates : helper'[x].at = "none" /\ x <= w => helper'[w].at = "none"
        BY <1>1, <1>2, NextBecomesLast
    <2>2. \A w \in Updates : w # u => ~Busy(w)'
        BY <1>7 DEF Busy
    <2> QED
        BY <1>1, <1>2, <1>4, <2>1, <2>2 DEF Known, Inv, OneAtATime
<1>9. WhoRuns'
    <2>1. \A l \in quitting' : \E w \in Updates : helper'[w].at = "wait" /\ helper'[w].old = l
        <3>1. \A l \in quitting : FALSE
            BY <1>5 DEF Known, Inv, WhoRuns, Over
        <3> QED
            BY <1>1, <1>2, <3>1
    <2>2. \A w \in Updates : w # u => ~(helper'[w].at \in {"wait", "start", "poll", "restore", "poll_old"})
        BY <1>7 DEF Over
    <2>3. \A w \in Updates : RolledBack(w)' => Kind[helper'[w].version] # "good"
        BY <1>2 DEF Known, Inv, WhoRuns, RolledBack
    <2> QED
        BY <1>1, <1>2, <1>3, <1>6, <2>1, <2>2, <2>3 DEF Known, Inv, WhoRuns
<1>10. DiskIsNew'
    <2>1. Is(disk, job.version)
        BY <1>1 DEF Known, Inv, DiskIsNew, Is
    <2>2. Is(disk', helper'[u].version)
        BY <1>1, <1>2, <2>1
    <2> QED
        BY <1>4, <1>7, <2>2 DEF DiskIsNew, Over
<1>11. ASSUME OneTreeWorks PROVE OneTreeWorks'
    <2>1. ~Resting'
        BY <1>2 DEF Resting, Busy, Over
    <2> QED
        BY <1>1, <1>2, <1>4, <1>7, <1>11, <2>1 DEF OneTreeWorks, Over
<1>12. RunsTheDisk' /\ WholeUnlessCut'
    BY <1>2, <1>4 DEF RunsTheDisk, WholeUnlessCut, Resting, Busy, Over
<1> QED
    BY <1>1, <1>8, <1>9, <1>10, <1>11, <1>12 DEF Known, Inv

\* The launcher that is waited for exits by itself.
LEMMA QuitKeeps == ASSUME Orderly, Known, Quit PROVE Inv'
<1>1. PICK l \in quitting : Ends(l) /\ UNCHANGED <<disk, backup, helper, faults>>
    BY DEF Quit
<1>2. /\ Live' = Live \ {l} /\ Up' = Up \ {l} /\ quitting' = quitting \ {l} /\ l \in Up
      /\ \A k \in Launchers : k # l => launcher'[k] = launcher[k]
    BY <1>1, EndTakesOne, TypeParts DEF Known, Ends
<1>3. PICK u \in Updates : helper[u].at = "wait" /\ helper[u].old = l
    BY DEF Known, Inv, WhoRuns
<1>4. Busy(u) /\ \A w \in Updates : w # u => helper[w].at \in Over
    BY <1>3 DEF Known, Inv, OneAtATime, Busy, Over
<1>5. job = NoJob /\ job' = NoJob /\ ~Resting /\ ~Resting' /\ job.at = "none"
    <2>1. job = NoJob /\ job' = NoJob
        BY <1>1, <1>4 DEF Known, Inv, OneAtATime, Ends
    <2> QED
        BY <1>1, <1>4, <2>1 DEF Resting, Busy, NoJob
<1>6. OneAtATime'
    BY <1>1, <1>5 DEF Known, Inv, OneAtATime, Busy, IsLast
<1>7. WhoRuns'
    <2>1. \A w \in Updates : ~(helper[w].at \in {"poll", "restore", "poll_old"})
        BY <1>3, <1>4 DEF Over
    <2> QED
        BY <1>1, <1>2, <2>1 DEF Known, Inv, WhoRuns, Slow, RolledBack, Up
<1>8. DiskIsNew'
    BY <1>1, <1>5 DEF Known, Inv, DiskIsNew
<1>9. ASSUME OneTreeWorks PROVE OneTreeWorks'
    BY <1>1, <1>5, <1>9 DEF OneTreeWorks
<1>10. RunsTheDisk' /\ WholeUnlessCut'
    BY <1>5 DEF RunsTheDisk, WholeUnlessCut
<1> QED
    BY <1>1, <1>6, <1>7, <1>8, <1>9, <1>10 DEF Known, Inv, faults

-----------------------------------------------------------------------------
(* A step of the helper of u                                                *)

\* The helper that takes a step is the only one at work; the others stay as they
\* are, and so does what was said of them.
LEMMA TheOthersAreOver ==
    ASSUME Known, NEW u \in Updates, Busy(u)
    PROVE  /\ job = NoJob /\ job.at = "none"
           /\ \A w \in Updates : w # u => helper[w].at \in Over
           /\ \A w \in Updates : w # u => helper[w].at \notin {"wait", "start", "poll", "restore", "poll_old"}
    BY DEF Known, Inv, OneAtATime, NoJob, Busy, Over

LEMMA ItMoves ==
    ASSUME Known, NEW u \in Updates, NEW place, Moves(u, place)
    PROVE  /\ helper'[u].at = place /\ helper'[u].new = helper[u].new
           /\ helper'[u].todo = helper[u].todo
           /\ helper'[u].old = helper[u].old /\ helper'[u].version = helper[u].version
           /\ \A w \in Updates : w # u => helper'[w] = helper[w]
    BY TypeParts DEF Known, Assistant, Moves

LEMMA OneAtATimeStays ==
    ASSUME Known, NEW u \in Updates, Busy(u), helper'[u].at # "none",
           helper'[u].version = helper[u].version,
           \A w \in Updates : w # u => helper'[w] = helper[w], job' = NoJob
    PROVE  OneAtATime' /\ IsLast(u)' /\ Slow(u)' = Slow(u)
<1>1. helper[u].at # "none" /\ job'.at = "none"
    BY DEF Busy, Over, NoJob
<1>2. IsLast(u) /\ \A w \in Updates : w # u => ~Busy(w)
    BY DEF Known, Inv, OneAtATime
<1>3. IsLast(u)'
    BY <1>2, BoundsAssumption DEF IsLast, Updates
<1>4. \A w \in Updates : w # u => ~Busy(w)'
    BY <1>2 DEF Busy
<1>5. \A x, w \in Updates : helper'[x].at = "none" /\ x <= w => helper'[w].at = "none"
    BY <1>1 DEF Known, Inv, OneAtATime
<1> QED
    BY <1>1, <1>3, <1>4, <1>5 DEF Known, Inv, OneAtATime, Slow

LEMMA ExitSeenKeeps ==
    ASSUME Orderly, Known, NEW u \in Updates, SeesExit(u) \/ KillsOld(u)
    PROVE  Inv'
<1>1. /\ helper[u].at = "wait" /\ Busy(u) /\ Moves(u, "start")
      /\ UNCHANGED <<disk, backup, faults>>
      /\ (UNCHANGED <<launcher, job, quitting>> /\ launcher[helper[u].old].state = "gone")
         \/ Ends(helper[u].old)
    BY DEF SeesExit, KillsOld, HelperAt, Busy, Over
<1>2. /\ helper'[u].at = "start" /\ helper'[u].version = helper[u].version
      /\ \A w \in Updates : w # u => helper'[w] = helper[w]
    BY <1>1, ItMoves
<1>3. /\ job = NoJob /\ job.at = "none"
      /\ \A w \in Updates : w # u => helper[w].at \notin {"wait", "start", "poll", "restore", "poll_old"}
    BY <1>1, TheOthersAreOver
<1>4. job' = NoJob /\ ~Resting' /\ job'.at = "none"
    BY <1>1, <1>2, <1>3 DEF Ends, Resting, Busy, Over, NoJob
<1>5. Live \subseteq {helper[u].old}
    BY <1>1 DEF Known, Inv, WhoRuns
<1>6. Live' = {} /\ Up' = {}
    <2>1. CASE UNCHANGED launcher /\ launcher[helper[u].old].state = "gone"
        <3>1. helper[u].old \notin Live
            BY <2>1 DEF Live
        <3> QED
            BY <1>5, <2>1, <3>1, SameProcesses DEF Live, Up
    <2>2. CASE Ends(helper[u].old)
        BY <1>5, <2>2, EndTakesOne DEF Known, Live, Up
    <2> QED
        BY <1>1, <2>1, <2>2
<1>7. quitting' = {}
    <2>1. quitting' \subseteq Up'
        BY <1>1, EndingKeepsTypes, SameProcesses, TypeParts DEF Known
    <2> QED
        BY <1>6, <2>1
<1>8. OneAtATime'
    BY <1>1, <1>2, <1>4, OneAtATimeStays
<1>9. WhoRuns'
    <2>1. \A w \in Updates : RolledBack(w)' => w # u /\ RolledBack(w)
        BY <1>2 DEF RolledBack
    <2> QED
        BY <1>2, <1>3, <1>6, <1>7, <2>1 DEF Known, Inv, WhoRuns
<1>10. DiskIsNew'
    BY <1>1, <1>2, <1>4 DEF Known, Inv, DiskIsNew
<1>11. ASSUME OneTreeWorks PROVE OneTreeWorks'
    BY <1>1, <1>2, <1>3, <1>4, <1>11 DEF OneTreeWorks
<1>12. RunsTheDisk' /\ WholeUnlessCut'
    BY <1>4 DEF RunsTheDisk, WholeUnlessCut
<1> QED
    BY <1>1, <1>8, <1>9, <1>10, <1>11, <1>12 DEF Known, Inv, faults

\* A launcher that the helper starts runs what is on disk, and is the only one
\* but for one that was too slow.
LEMMA StartedRecord ==
    ASSUME Known, NEW u \in Updates, NEW l \in Launchers, NEW next, Started(l, next, u)
    PROVE  /\ helper'[u].at = next /\ helper'[u].new = l /\ helper'[u].version = helper[u].version
           /\ \A w \in Updates : w # u => helper'[w] = helper[w]
           /\ UNCHANGED <<disk, backup, job, quitting, faults>>
    BY TypeParts DEF Known, Assistant, Started

LEMMA NewStartKeeps == ASSUME Orderly, Known, NEW u \in Updates, StartsNew(u) PROVE Inv'
<1>1. PICK l \in Launchers : Started(l, "poll", u)
    BY DEF StartsNew
<1>2. helper[u].at = "start" /\ Busy(u)
    BY DEF StartsNew, HelperAt, Busy, Over
<1>3. /\ helper'[u].at = "poll" /\ helper'[u].new = l /\ helper'[u].version = helper[u].version
      /\ \A w \in Updates : w # u => helper'[w] = helper[w]
      /\ UNCHANGED <<disk, backup, job, quitting, faults>>
    BY <1>1, StartedRecord
<1>4. /\ job = NoJob /\ job.at = "none"
      /\ \A w \in Updates : w # u => helper[w].at \notin {"wait", "start", "poll", "restore", "poll_old"}
    BY <1>2, TheOthersAreOver
<1>5. /\ Live' = Live \cup {l} /\ Up' = Up /\ launcher'[l].state = "starting" /\ launcher'[l].tree = disk
      /\ \A k \in Launchers : k # l => launcher'[k] = launcher[k]
    BY <1>1, StartAddsOne DEF Known
<1>6. Live = {} /\ Up = {}
    BY <1>2 DEF Known, Inv, WhoRuns, Live, Up
<1>7. quitting = {}
    BY <1>6, TypeParts DEF Known
<1>8. ~Resting'
    BY <1>3 DEF Resting, Busy, Over
<1>9. OneAtATime'
    BY <1>2, <1>3, <1>4, OneAtATimeStays
<1>10. WhoRuns'
    <2>1. \A w \in Updates : RolledBack(w)' => w # u /\ RolledBack(w)
        BY <1>3 DEF RolledBack
    <2> QED
        BY <1>3, <1>4, <1>5, <1>6, <1>7, <2>1 DEF Known, Inv, WhoRuns
<1>11. DiskIsNew'
    BY <1>2, <1>3, <1>4 DEF Known, Inv, DiskIsNew
<1>12. ASSUME OneTreeWorks PROVE OneTreeWorks'
    BY <1>2, <1>3, <1>4, <1>8, <1>12 DEF OneTreeWorks
<1>13. RunsTheDisk' /\ WholeUnlessCut'
    BY <1>3, <1>4, <1>8 DEF RunsTheDisk, WholeUnlessCut
<1> QED
    BY <1>3, <1>9, <1>10, <1>11, <1>12, <1>13 DEF Known, Inv, faults

\* Whoever answers while the helper waits for an answer is what it started.
LEMMA NewAnswerKeeps == ASSUME Orderly, Known, NEW u \in Updates, SeesNew(u) PROVE Inv'
<1>1. /\ helper[u].at = "poll" /\ Busy(u) /\ Up # {} /\ Moves(u, "complete")
      /\ UNCHANGED <<disk, backup, launcher, job, quitting, faults>>
    BY DEF SeesNew, HelperAt, Answers, Busy, Over
<1>2. /\ helper'[u].at = "complete" /\ helper'[u].version = helper[u].version
      /\ \A w \in Updates : w # u => helper'[w] = helper[w]
    BY <1>1, ItMoves
<1>3. /\ job = NoJob /\ job.at = "none"
      /\ \A w \in Updates : w # u => helper[w].at \notin {"wait", "start", "poll", "restore", "poll_old"}
      /\ \A w \in Updates : w # u => helper[w].at \in Over
    BY <1>1, TheOthersAreOver
<1>4. Live' = Live /\ Up' = Up /\ Up \subseteq Live
    BY <1>1, SameProcesses DEF Live, Up
<1>5. /\ Live \subseteq {helper[u].new} /\ helper[u].new \in Launchers
      /\ launcher[helper[u].new].tree = disk
    BY <1>1 DEF Known, Inv, WhoRuns
<1>6. Works(disk)
    <2>1. Is(disk, helper[u].version) /\ helper[u].version \in Versions
        BY <1>1 DEF Known, Inv, DiskIsNew, OneAtATime
    <2>2. launcher[helper[u].new].state = "up"
        BY <1>1, <1>4, <1>5 DEF Up
    <2>3. Kind[helper[u].version] # "broken"
        BY <1>1, <2>2 DEF Known, Inv, WhoRuns
    <2> QED
        BY <2>1, <2>3, CopyOfOne DEF Works
<1>7. OneAtATime'
    BY <1>1, <1>2, <1>3, OneAtATimeStays
<1>8. WhoRuns'
    <2>1. \A w \in Updates : RolledBack(w)' => w # u /\ RolledBack(w)
        BY <1>2 DEF RolledBack
    <2>2. quitting = {}
        BY <1>1, <1>3 DEF Known, Inv, WhoRuns
    <2> QED
        BY <1>1, <1>2, <1>3, <1>4, <2>1, <2>2 DEF Known, Inv, WhoRuns
<1>9. DiskIsNew'
    BY <1>1, <1>2, <1>3 DEF Known, Inv, DiskIsNew
<1>10. OneTreeWorks' /\ WholeUnlessCut'
    BY <1>1, <1>2, <1>3, <1>6 DEF OneTreeWorks, WholeUnlessCut, Works
<1>11. RunsTheDisk'
    BY <1>1, <1>3, <1>4, <1>5 DEF RunsTheDisk
<1> QED
    BY <1>7, <1>8, <1>9, <1>10, <1>11 DEF Inv

\* A version that is given up does not work, or was too slow.
LEMMA NewGivenUpKeeps == ASSUME Orderly, Known, NEW u \in Updates, GivesUpOnNew(u) PROVE Inv'
<1>1. /\ helper[u].at = "poll" /\ Busy(u) /\ Up = {} /\ NoAnswer(u)
      /\ helper' = [helper EXCEPT ![u].at = "restore",
                                  ![u].todo = {f \in Files : backup[f] # Absent}]
      /\ UNCHANGED <<disk, backup, launcher, job, quitting, faults>>
    BY DEF GivesUpOnNew, HelperAt, NoAnswer, Answers, Busy, Over, Orderly
<1>2. /\ helper'[u].at = "restore" /\ helper'[u].version = helper[u].version
      /\ helper'[u].todo = {f \in Files : backup[f] # Absent}
      /\ \A w \in Updates : w # u => helper'[w] = helper[w]
    BY <1>1, TypeParts DEF Known, Assistant
<1>3. /\ job = NoJob /\ job.at = "none"
      /\ \A w \in Updates : w # u => helper[w].at \notin {"wait", "start", "poll", "restore", "poll_old"}
    BY <1>1, TheOthersAreOver
<1>4. Live' = Live /\ Up' = Up
    BY <1>1, SameProcesses
<1>5. /\ Live \subseteq {helper[u].new} /\ helper[u].new \in Launchers
      /\ launcher[helper[u].new].tree = disk
      /\ launcher[helper[u].new].state = "gone" => Kind[helper[u].version] = "broken"
    BY <1>1 DEF Known, Inv, WhoRuns
<1>6. VersionOf(disk) = helper[u].version
    <2>1. Is(disk, helper[u].version) /\ helper[u].version \in Versions
        BY <1>1 DEF Known, Inv, DiskIsNew, OneAtATime
    <2> QED
        BY <2>1, CopyOfOne
<1>7. Slow(u) \/ (Kind[helper[u].version] = "broken" /\ Live = {})
    <2>1. CASE launcher[helper[u].new].state = "gone"
        BY <1>5, <2>1 DEF Live
    <2>2. CASE launcher[helper[u].new].state # "gone"
        <3>1. Kind[VersionOf(launcher[helper[u].new].tree)] = "slow"
            BY <1>1, <2>2 DEF NoAnswer, Orderly
        <3> QED
            BY <1>5, <1>6, <3>1 DEF Slow
    <2> QED
        BY <2>1, <2>2
<1>9. ~Resting'
    BY <1>2 DEF Resting, Busy, Over
<1>10. OneAtATime' /\ Slow(u)' = Slow(u)
    BY <1>1, <1>2, <1>3, OneAtATimeStays
<1>11. WhoRuns'
    <2>1. quitting = {}
        BY <1>1, <1>3 DEF Known, Inv, WhoRuns
    <2>2. \A w \in Updates : RolledBack(w)' => Kind[helper'[w].version] # "good"
        BY <1>2, <1>7 DEF Known, Inv, WhoRuns, RolledBack, Slow
    <2>3. Live' = {} \/ Slow(u)'
        BY <1>4, <1>7, <1>10
    <2>4. \A w \in Updates : helper'[w].at \notin {"wait", "start", "poll", "poll_old"}
        BY <1>2, <1>3
    <2>5. \A w \in Updates : helper'[w].at = "restore" => w = u
        BY <1>2, <1>3
    <2> QED
        BY <1>1, <1>4, <2>1, <2>2, <2>3, <2>4, <2>5 DEF Known, Inv, WhoRuns
<1>12. DiskIsNew'
    BY <1>1, <1>2, <1>3 DEF Known, Inv, DiskIsNew
<1>13. ASSUME OneTreeWorks PROVE OneTreeWorks'
    BY <1>1, <1>2, <1>3, <1>9, <1>13 DEF OneTreeWorks
<1>14. RunsTheDisk' /\ WholeUnlessCut'
    BY <1>1, <1>3, <1>9 DEF RunsTheDisk, WholeUnlessCut
<1> QED
    BY <1>1, <1>10, <1>11, <1>12, <1>13, <1>14 DEF Known, Inv, faults

LEMMA RestoringKeeps == ASSUME Orderly, Known, NEW u \in Updates, RestoresFile(u) PROVE Inv'
<1>1. PICK f \in helper[u].todo :
        /\ helper[u].at = "restore"
        /\ disk' = [disk EXCEPT ![f] = backup[f]]
        /\ helper' = [helper EXCEPT ![u].todo = @ \ {f}]
        /\ UNCHANGED <<backup, launcher, job, quitting, faults>>
    BY DEF RestoresFile, HelperAt
<1>2. /\ helper'[u].at = "restore" /\ helper'[u].version = helper[u].version
      /\ helper'[u].todo = helper[u].todo \ {f} /\ f \in Files
      /\ \A w \in Updates : w # u => helper'[w] = helper[w]
    BY <1>1, TypeParts DEF Known, Assistant
<1>3. Busy(u)
    BY <1>1 DEF Busy, Over
<1>4. /\ job = NoJob /\ job.at = "none"
      /\ \A w \in Updates : w # u => helper[w].at \notin {"wait", "start", "poll", "restore", "poll_old"}
    BY <1>3, TheOthersAreOver
<1>5. Live' = Live /\ Up' = Up
    BY <1>1, SameProcesses
<1>7. ~Resting'
    BY <1>2 DEF Resting, Busy, Over
<1>8. OneAtATime' /\ Slow(u)' = Slow(u)
    BY <1>1, <1>2, <1>3, <1>4, OneAtATimeStays
<1>9. WhoRuns'
    <2>1. \A w \in Updates : RolledBack(w)' => Kind[helper'[w].version] # "good"
        BY <1>1, <1>2 DEF Known, Inv, WhoRuns, RolledBack
    <2>2. quitting = {}
        BY <1>1, <1>4 DEF Known, Inv, WhoRuns
    <2> QED
        BY <1>1, <1>2, <1>4, <1>5, <1>8, <2>1, <2>2 DEF Known, Inv, WhoRuns
<1>10. DiskIsNew'
    BY <1>1, <1>2, <1>4 DEF DiskIsNew
<1>11. ASSUME OneTreeWorks PROVE OneTreeWorks'
    <2>1. Works(backup) /\ \A g \in Files \ helper[u].todo : backup[g] # Absent => disk[g] = backup[g]
        BY <1>1, <1>11 DEF OneTreeWorks
    <2>2. \A g \in Files \ helper'[u].todo : backup'[g] # Absent => disk'[g] = backup'[g]
        BY <1>1, <1>2, <2>1, TypeParts DEF Known, Trees
    <2> QED
        BY <1>1, <1>2, <1>4, <1>7, <2>1, <2>2 DEF OneTreeWorks
<1>12. RunsTheDisk' /\ WholeUnlessCut'
    BY <1>1, <1>4, <1>7 DEF RunsTheDisk, WholeUnlessCut
<1> QED
    BY <1>1, <1>8, <1>9, <1>10, <1>11, <1>12 DEF Known, Inv, faults

LEMMA StoppedRestoreKeeps == ASSUME Orderly, Known, NEW u \in Updates, RestoreStops(u) PROVE Inv'
<1>1. /\ helper[u].at = "restore" /\ Busy(u) /\ helper[u].todo # {} /\ Moves(u, "gave_up")
      /\ UNCHANGED <<backup, launcher, job, quitting, overBad, reboots>>
    BY DEF RestoreStops, HelperAt, Busy, Over
<1>2. /\ helper'[u].at = "gave_up" /\ helper'[u].version = helper[u].version
      /\ helper'[u].todo = helper[u].todo
      /\ \A w \in Updates : w # u => helper'[w] = helper[w]
    BY <1>1, ItMoves
<1>3. /\ job = NoJob /\ job.at = "none"
      /\ \A w \in Updates : w # u => helper[w].at \notin {"wait", "start", "poll", "restore", "poll_old"}
    BY <1>1, TheOthersAreOver
<1>4. Live' = Live /\ Up' = Up /\ Up \subseteq Live
    BY <1>1, SameProcesses DEF Live, Up
<1>8. OneAtATime' /\ IsLast(u)' /\ Slow(u)' = Slow(u)
    BY <1>1, <1>2, <1>3, OneAtATimeStays
<1>6. Slow(u) => TooSlow'
    BY <1>2, <1>8 DEF TooSlow, Slow
<1>7. ~Slow(u) => Live = {}
    BY <1>1 DEF Known, Inv, WhoRuns
<1>9. WhoRuns'
    <2>1. \A w \in Updates : RolledBack(w)' => Kind[helper'[w].version] # "good"
        BY <1>1, <1>2 DEF Known, Inv, WhoRuns, RolledBack
    <2>2. quitting = {}
        BY <1>1, <1>3 DEF Known, Inv, WhoRuns
    <2> QED
        BY <1>1, <1>2, <1>3, <1>4, <2>1, <2>2 DEF Known, Inv, WhoRuns
<1>10. DiskIsNew'
    BY <1>1, <1>2, <1>3 DEF DiskIsNew
<1>11. ASSUME OneTreeWorks PROVE OneTreeWorks'
    <2>1. Works(backup)
        BY <1>1, <1>11 DEF OneTreeWorks
    <2> QED
        BY <1>1, <1>2, <1>3, <2>1 DEF OneTreeWorks
<1>12. WholeUnlessCut'
    BY <1>1, <1>2, <1>8 DEF WholeUnlessCut, CutShort
<1>13. ~Slow(u) => RunsTheDisk'
    BY <1>4, <1>7 DEF RunsTheDisk
<1> QED
    BY <1>1, <1>6, <1>8, <1>9, <1>10, <1>11, <1>12, <1>13 DEF Known, Inv

\* The backup is back, file for file, when the launcher is started again.
LEMMA OldStartKeeps == ASSUME Orderly, Known, NEW u \in Updates, StartsOld(u) PROVE Inv'
<1>1. PICK l \in Launchers : Started(l, "poll_old", u)
    BY DEF StartsOld
<1>2. helper[u].at = "restore" /\ Busy(u) /\ helper[u].todo = {}
    BY DEF StartsOld, HelperAt, Busy, Over
<1>3. /\ helper'[u].at = "poll_old" /\ helper'[u].new = l /\ helper'[u].version = helper[u].version
      /\ \A w \in Updates : w # u => helper'[w] = helper[w]
      /\ UNCHANGED <<disk, backup, job, quitting, faults>>
    BY <1>1, StartedRecord
<1>4. /\ job = NoJob /\ job.at = "none"
      /\ \A w \in Updates : w # u => helper[w].at \notin {"wait", "start", "poll", "restore", "poll_old"}
    BY <1>2, TheOthersAreOver
<1>5. /\ Live' = Live \cup {l} /\ Up' = Up /\ launcher'[l].state = "starting" /\ launcher'[l].tree = disk
      /\ \A k \in Launchers : k # l => launcher'[k] = launcher[k]
    BY <1>1, StartAddsOne DEF Known
<1>7. Live = {} \/ Slow(u)
    BY <1>2 DEF Known, Inv, WhoRuns
<1>8. ~Resting'
    BY <1>3 DEF Resting, Busy, Over
<1>9. OneAtATime' /\ Slow(u)' = Slow(u)
    BY <1>2, <1>3, <1>4, OneAtATimeStays
<1>10. WhoRuns'
    <2>1. \A w \in Updates : RolledBack(w)' => Kind[helper'[w].version] # "good"
        BY <1>2, <1>3 DEF Known, Inv, WhoRuns, RolledBack
    <2>2. quitting = {}
        BY <1>2, <1>4 DEF Known, Inv, WhoRuns
    <2>3. \A k \in Up' : k \in Up /\ launcher'[k] = launcher[k]
        BY <1>5 DEF Up
    <2> QED
        BY <1>3, <1>4, <1>5, <1>7, <1>9, <2>1, <2>2, <2>3 DEF Known, Inv, WhoRuns
<1>11. DiskIsNew'
    BY <1>3, <1>4 DEF DiskIsNew
<1>12. ASSUME OneTreeWorks PROVE OneTreeWorks'
    <2>1. Works(backup) /\ \A f \in Files : backup[f] # Absent => disk[f] = backup[f]
        BY <1>2, <1>12 DEF OneTreeWorks
    <2>2. Works(disk)
        BY <2>1, CopiedOver, TypeParts DEF Known
    <2> QED
        BY <1>3, <1>4, <1>8, <1>12, <2>2 DEF OneTreeWorks
<1>13. RunsTheDisk' /\ WholeUnlessCut'
    BY <1>3, <1>4, <1>8 DEF RunsTheDisk, WholeUnlessCut
<1> QED
    BY <1>3, <1>9, <1>10, <1>11, <1>12, <1>13 DEF Known, Inv, faults

LEMMA RolledBackKeeps ==
    ASSUME Orderly, Known, NEW u \in Updates, SeesOld(u) \/ GivesUpOnOld(u)
    PROVE  Inv'
<1>1. PICK place \in {"rolled_back", "gave_up"} : Moves(u, place)
    BY DEF SeesOld, GivesUpOnOld
<1>2. /\ helper[u].at = "poll_old" /\ Busy(u)
      /\ UNCHANGED <<disk, backup, launcher, job, quitting, faults>>
    BY DEF SeesOld, GivesUpOnOld, HelperAt, Busy, Over
<1>3. /\ helper'[u].at \in {"rolled_back", "gave_up"} /\ helper'[u].version = helper[u].version
      /\ \A w \in Updates : w # u => helper'[w] = helper[w]
    BY <1>1, ItMoves
<1>4. /\ job = NoJob /\ job.at = "none"
      /\ \A w \in Updates : w # u => helper[w].at \notin {"wait", "start", "poll", "restore", "poll_old"}
    BY <1>2, TheOthersAreOver
<1>5. Live' = Live /\ Up' = Up
    BY <1>2, SameProcesses
<1>8. OneAtATime' /\ IsLast(u)'
    BY <1>2, <1>3, <1>4, OneAtATimeStays
<1>6. Slow(u) => TooSlow'
    BY <1>3, <1>8 DEF TooSlow, Slow
<1>9. WhoRuns'
    <2>1. \A w \in Updates : RolledBack(w)' => Kind[helper'[w].version] # "good"
        BY <1>2, <1>3 DEF Known, Inv, WhoRuns, RolledBack
    <2>2. quitting = {}
        BY <1>2, <1>4 DEF Known, Inv, WhoRuns
    <2> QED
        BY <1>2, <1>3, <1>4, <1>5, <2>1, <2>2 DEF Known, Inv, WhoRuns
<1>10. DiskIsNew'
    BY <1>2, <1>3, <1>4 DEF DiskIsNew
<1>11. ASSUME OneTreeWorks PROVE OneTreeWorks' /\ WholeUnlessCut'
    BY <1>2, <1>3, <1>4, <1>11 DEF OneTreeWorks, WholeUnlessCut, Works
<1>12. ~Slow(u) => RunsTheDisk'
    BY <1>2, <1>5 DEF Known, Inv, WhoRuns, RunsTheDisk
<1> QED
    BY <1>2, <1>6, <1>8, <1>9, <1>10, <1>11, <1>12 DEF Known, Inv, faults

-----------------------------------------------------------------------------
(* Launchers come up, and the machine goes down                             *)

LEMMA ComingUpKeeps == ASSUME Orderly, Known, NEW l \in Launchers, ComesUp(l) PROVE Inv'
<1>1. /\ launcher[l].state = "starting" /\ l \in Live /\ l \notin Up
      /\ UNCHANGED <<disk, backup, job, quitting, helper, faults>>
    BY DEF ComesUp, Live, Up
<1>2. PICK fate \in Fates(launcher[l].tree) :
        launcher' = [launcher EXCEPT ![l].state = IF Up = {} THEN fate ELSE "gone"]
    BY DEF ComesUp
<1>3. /\ \A k \in Launchers : k # l => launcher'[k] = launcher[k]
      /\ launcher'[l].tree = launcher[l].tree
      /\ launcher'[l].state = IF Up = {} THEN fate ELSE "gone"
    BY <1>2, TypeParts DEF Known, Process
<1>4. /\ fate \in {"up", "gone"}
      /\ VersionOf(launcher[l].tree) # Mixed =>
             (fate = "gone" <=> Kind[VersionOf(launcher[l].tree)] = "broken")
    BY <1>2, FateOf
<1>5. /\ Live' \subseteq Live
      /\ Up' = Up \/ (Up = {} /\ Up' = {l})
      /\ \A k \in Live' : launcher'[k].tree = launcher[k].tree
    BY <1>1, <1>3, <1>4 DEF Live, Up
<1>6. job = NoJob
    BY <1>1 DEF Known, Inv, OneAtATime, AppliedByOneThatRuns
<1>7. OneAtATime'
    BY <1>1, <1>6 DEF Known, Inv, OneAtATime, Busy, IsLast
<1>8. WhoRuns'
    <2>2. \A j, k \in Up' : j = k
        BY <1>5 DEF Known, Inv, WhoRuns
    <2>3. \A u \in Updates : helper[u].at = "poll" =>
              /\ launcher'[helper[u].new].tree = disk
              /\ launcher'[helper[u].new].state # "none"
              /\ launcher'[helper[u].new].state = "gone" => Kind[helper[u].version] = "broken"
              /\ launcher'[helper[u].new].state = "up" => Kind[helper[u].version] # "broken"
        <3>1. SUFFICES ASSUME NEW u \in Updates, helper[u].at = "poll"
                       PROVE  /\ launcher'[helper[u].new].tree = disk
                              /\ launcher'[helper[u].new].state # "none"
                              /\ launcher'[helper[u].new].state = "gone" =>
                                     Kind[helper[u].version] = "broken"
                              /\ launcher'[helper[u].new].state = "up" =>
                                     Kind[helper[u].version] # "broken"
            OBVIOUS
        <3>2. /\ helper[u].new = l /\ launcher[l].tree = disk /\ Up = {}
            BY <1>1, <3>1 DEF Known, Inv, WhoRuns, Live, Up
        <3>3. VersionOf(disk) = helper[u].version /\ VersionOf(disk) # Mixed
            BY <3>1, CopyOfOne DEF Known, Inv, DiskIsNew, OneAtATime
        <3> QED
            BY <1>3, <1>4, <3>2, <3>3
    <2> QED
        BY <1>1, <1>5, <2>2, <2>3 DEF Known, Inv, WhoRuns, Slow, RolledBack
<1>9. DiskIsNew'
    BY <1>1 DEF Known, Inv, DiskIsNew
<1>10. /\ OneTreeWorks => OneTreeWorks'
       /\ WholeUnlessCut => WholeUnlessCut'
    BY <1>1 DEF OneTreeWorks, WholeUnlessCut, Resting, Busy, CutShort, IsLast
<1>11. ASSUME RunsTheDisk PROVE RunsTheDisk'
    BY <1>1, <1>5, <1>11 DEF RunsTheDisk, Resting, Busy
<1> QED
    BY <1>1, <1>7, <1>8, <1>9, <1>10, <1>11
       DEF Known, Inv, TooSlow, Abandoned, Slow, IsLast, faults

\* Whatever goes on, one of the two trees is a whole copy that works.
LEMMA OneOfThemWorks == ASSUME Known, OneTreeWorks PROVE Works(disk) \/ Works(backup)
<1>1. CASE Resting
    BY <1>1 DEF OneTreeWorks
<1>2. CASE job # NoJob
    <2>1. job.at \in {"back_up", "apply"}
        BY <1>2, TypeParts DEF Known, Inv, OneAtATime, Job
    <2> QED
        BY <2>1 DEF OneTreeWorks
<1>3. CASE \E u \in Updates : Busy(u)
    <2>1. PICK u \in Updates : helper[u].at \in {"wait", "start", "poll", "restore", "poll_old"}
        BY <1>3, TypeParts DEF Known, Assistant, Busy
    <2> QED
        BY <2>1 DEF OneTreeWorks
<1> QED
    BY <1>1, <1>2, <1>3 DEF Resting

\* What a reboot makes of the record of an update.
LEMMA EndedRecord ==
    ASSUME Known, NEW u \in Updates
    PROVE  /\ Ended(u).at \in Over /\ Ended(u).at # "abandoned"
           /\ \/ Ended(u) = helper[u]
              \/ /\ Ended(u).at = "killed" /\ helper[u].at # "none"
                 /\ Ended(u).version = helper[u].version /\ Ended(u).todo = helper[u].todo
                 /\ helper[u].at \in {"abandoned", "wait", "start", "poll", "restore", "poll_old"}
              \/ /\ Ended(u).at = "killed" /\ IsNext(u) /\ job.at = "apply"
                 /\ Ended(u).version = job.version /\ Ended(u).todo = job.todo
           /\ Ended(u).at = "none" <=> helper[u].at = "none" /\ ~(job.at = "apply" /\ IsNext(u))
<1>1. CASE helper[u].at \in Over \ {"none", "abandoned"}
    BY <1>1 DEF Ended
<1>2. CASE helper[u].at \in {"abandoned", "wait", "start", "poll", "restore", "poll_old"}
    <2>1. Ended(u) = [helper[u] EXCEPT !.at = "killed"]
        BY <1>2 DEF Ended, Over
    <2> QED
        BY <1>2, <2>1, TypeParts DEF Known, Assistant, Over, IsNext
<1>3. CASE helper[u].at = "none" /\ job.at = "apply" /\ IsNext(u)
    <2>1. Ended(u) = Unhelped("killed")
        BY <1>3 DEF Ended, Over, Unhelped
    <2> QED
        BY <1>3, <2>1, AbandonedRecord DEF Known, Over
<1>4. CASE helper[u].at = "none" /\ ~(job.at = "apply" /\ IsNext(u))
    BY <1>4 DEF Ended, Over
<1> QED
    BY <1>1, <1>2, <1>3, <1>4, TypeParts DEF Known, Assistant, Over

\* A power cut leaves a mixture only if files were left to be copied.
LEMMA CutIsShort ==
    ASSUME Known, OneTreeWorks, WholeUnlessCut, job.at # "apply"
    PROVE  \/ VersionOf(disk) # Mixed
           \/ CutShort
           \/ \E u \in Updates : IsLast(u) /\ helper[u].at = "restore" /\ helper[u].todo # {}
<1>1. CASE Resting
    BY <1>1 DEF WholeUnlessCut
<1>2. CASE job # NoJob
    <2>1. job.at = "back_up"
        BY <1>2, TypeParts DEF Known, Inv, OneAtATime, Job
    <2> QED
        BY <2>1 DEF OneTreeWorks, Works
<1>3. CASE \E u \in Updates : Busy(u)
    <2>1. PICK u \in Updates : Busy(u)
        BY <1>3
    <2>2. helper[u].at \in {"wait", "start", "poll", "restore", "poll_old"} /\ IsLast(u)
        BY <2>1, TypeParts DEF Known, Assistant, Busy, Inv, OneAtATime
    <2>3. CASE helper[u].at \in {"wait", "start", "poll"}
        <3>1. Is(disk, helper[u].version) /\ helper[u].version \in Versions
            BY <2>3 DEF Known, Inv, DiskIsNew, OneAtATime
        <3> QED
            BY <3>1, CopyOfOne
    <2>4. CASE helper[u].at = "restore" /\ helper[u].todo = {}
        <3>1. Works(backup) /\ \A f \in Files : backup[f] # Absent => disk[f] = backup[f]
            BY <2>4 DEF OneTreeWorks
        <3> QED
            BY <3>1, CopiedOver, TypeParts DEF Known, Works
    <2>5. CASE helper[u].at = "poll_old"
        BY <2>5 DEF OneTreeWorks, Works
    <2> QED
        BY <2>2, <2>3, <2>4, <2>5
<1> QED
    BY <1>1, <1>2, <1>3 DEF Resting

LEMMA RebootKeeps == ASSUME Orderly, Known, Reboot PROVE Inv'
<1>1. PICK l \in Launchers :
        /\ reboots' = reboots + 1 /\ launcher[l] = NoLauncher
        /\ launcher' = [k \in Launchers |->
                          IF k = l THEN [state |-> "starting", tree |-> disk]
                          ELSE IF launcher[k] = NoLauncher THEN NoLauncher
                          ELSE [launcher[k] EXCEPT !.state = "gone"]]
        /\ job' = NoJob /\ quitting' = {}
        /\ helper' = [u \in Updates |-> Ended(u)]
        /\ UNCHANGED <<disk, backup, overBad, failures>>
    BY DEF Reboot
<1>2. \A u \in Updates : helper'[u] = Ended(u) /\ helper'[u].at \in Over /\ ~Busy(u)'
    BY <1>1, EndedRecord DEF Busy
<1>3. Live' = {l} /\ Up' = {} /\ launcher'[l].tree = disk
    <2>1. \A k \in Launchers : k # l => launcher'[k].state \in {"none", "gone"}
        BY <1>1, TypeParts DEF Known, Process, NoLauncher
    <2>2. launcher'[l] = [state |-> "starting", tree |-> disk]
        BY <1>1
    <2> QED
        BY <2>1, <2>2 DEF Live, Up
<1>4. Resting' /\ job'.at = "none"
    BY <1>1, <1>2 DEF Resting, NoJob
<1>5. \A u, w \in Updates : helper'[u].at = "none" /\ u <= w => helper'[w].at = "none"
    <2>1. \A u, w \in Updates : helper[u].at = "none" /\ u <= w => helper[w].at = "none"
        BY DEF Known, Inv, OneAtATime
    <2>2. \A u, w \in Updates : IsNext(w) /\ helper[u].at = "none" => w <= u
        BY DEF IsNext
    <2> QED
        BY <1>2, <2>1, <2>2, EndedRecord, BoundsAssumption DEF Updates
<1>6. OneAtATime'
    <2>1. \A u \in Updates : helper'[u].at # "none" => helper'[u].version \in Versions
        BY <1>2, EndedRecord DEF Known, Inv, OneAtATime, AppliedByOneThatRuns
    <2> QED
        BY <1>1, <1>2, <1>4, <1>5, <2>1 DEF OneAtATime
<1>7. WhoRuns'
    <2>1. \A u \in Updates : RolledBack(u)' => RolledBack(u) /\ helper'[u] = helper[u]
        BY <1>2, EndedRecord DEF RolledBack
    <2>2. \A u \in Updates : helper'[u].at \notin {"wait", "start", "poll", "restore", "poll_old"}
        BY <1>2 DEF Over
    <2> QED
        BY <1>1, <1>2, <1>3, <2>1, <2>2 DEF Known, Inv, WhoRuns
<1>8. DiskIsNew'
    BY <1>2, <1>4 DEF DiskIsNew, Over
<1>9. ASSUME OneTreeWorks PROVE OneTreeWorks'
    <2>1. Works(disk) \/ Works(backup)
        BY <1>9, OneOfThemWorks
    <2> QED
        BY <1>1, <1>2, <1>4, <2>1 DEF OneTreeWorks, Over
<1>10. ASSUME NEW u \in Updates, helper'[u].at = "killed", IsLast(u)', helper'[u].todo # {}
       PROVE  CutShort'
    BY <1>10 DEF CutShort
<1>11. ASSUME OneTreeWorks, WholeUnlessCut PROVE WholeUnlessCut'
    <2>1. CASE job.at = "apply"
        <3>1. PICK u \in Updates : IsNext(u)
            BY <2>1 DEF Known, Inv, OneAtATime, NoJob
        <3>2. helper'[u].at = "killed" /\ helper'[u].todo = job.todo
            BY <1>2, <2>1, <3>1, EndedRecord DEF IsNext
        <3>3. IsLast(u)'
            <4>1. \A w \in Updates : w > u => helper[w].at = "none" /\ ~IsNext(w)
                BY <3>1, BoundsAssumption DEF Known, Inv, OneAtATime, IsNext, Updates
            <4> QED
                BY <1>2, <3>2, <4>1, EndedRecord DEF IsLast
        <3>4. CASE job.todo = {}
            <4>1. Is(disk, job.version) /\ job.version \in Versions
                BY <2>1, <3>4 DEF Known, Inv, DiskIsNew, Is, AppliedByOneThatRuns
            <4> QED
                BY <1>1, <4>1, CopyOfOne DEF WholeUnlessCut
        <3> QED
            BY <1>10, <3>2, <3>3, <3>4 DEF WholeUnlessCut
    <2>2. CASE job.at # "apply"
        <3>1. \A u \in Updates : IsLast(u) => IsLast(u)' /\ helper'[u].todo = helper[u].todo
            BY <1>2, <2>2, EndedRecord DEF IsLast
        <3>2. \A u \in Updates : /\ helper[u].at \in {"killed", "gave_up"} => helper'[u].at = helper[u].at
                                 /\ helper[u].at \in {"abandoned", "restore"} => helper'[u].at = "killed"
            BY <1>2, EndedRecord DEF Over, IsNext
        <3>3. CASE CutShort
            BY <3>1, <3>2, <3>3 DEF WholeUnlessCut, CutShort
        <3>4. CASE \E u \in Updates : IsLast(u) /\ helper[u].at = "restore" /\ helper[u].todo # {}
            BY <1>10, <3>1, <3>2, <3>4 DEF WholeUnlessCut
        <3> QED
            BY <1>1, <1>11, <2>2, <3>3, <3>4, CutIsShort DEF WholeUnlessCut
    <2> QED
        BY <2>1, <2>2
<1>12. RunsTheDisk'
    BY <1>1, <1>3 DEF RunsTheDisk
<1> QED
    BY <1>1, <1>6, <1>7, <1>8, <1>9, <1>11, <1>12 DEF Known, Inv

LEMMA Inductive == ASSUME Orderly, Known, [Next]_vars PROVE Known'
<1>1. CASE UNCHANGED vars
    BY <1>1, TypeParts, TypePartsNext
       DEF vars, faults, Known, AppliedByOneThatRuns, Up, Inv, OneAtATime, WhoRuns, DiskIsNew,
           OneTreeWorks, WholeUnlessCut, CutShort, TooSlow, Abandoned, RunsTheDisk, Live, Busy,
           Resting, Slow, RolledBack, IsLast, IsNext
<1>2. CASE Update
    BY <1>2, UpdateKeepsTypes, BeginKeeps, BackingUpKeeps, ApplyingKeeps, FailedBackUpKeeps,
       AbandonedKeeps, HandOverKeeps, QuitKeeps DEF Known, Update, Handler
<1>3. ASSUME NEW u \in Updates, Helper(u) PROVE Known'
    BY <1>3, HelperKeepsTypes, ExitSeenKeeps, NewStartKeeps, NewAnswerKeeps, NewGivenUpKeeps,
       RestoringKeeps, StoppedRestoreKeeps, OldStartKeeps, RolledBackKeeps DEF Known, Helper
<1>4. CASE (\E l \in Launchers : ComesUp(l)) \/ Reboot
    BY <1>4, OthersKeepTypes, ComingUpKeeps, RebootKeeps DEF Known
<1> QED
    BY <1>1, <1>2, <1>3, <1>4 DEF Next

LEMMA AlwaysKnown == ASSUME Orderly PROVE Spec => []Known
<1>1. Init => Known
    BY InitiallyTyped, InitiallyKnown DEF Known
<1>2. Known /\ [Next]_vars => Known'
    BY Inductive
<1> QED
    BY <1>1, <1>2, PTL DEF Spec

LEMMA RestIsResting == AtRest => Resting
    BY DEF AtRest, Resting, Busy

-----------------------------------------------------------------------------
(* What an update leaves                                                    *)

\* At every moment a whole copy of a version that works is on disk or set aside,
\* through power cuts, files that cannot be written and updates that get no helper,
\* until an update begins over what does not work (selfupdate.py:197).
THEOREM WorkingCopy == ASSUME Orderly PROVE Spec => []WorkingCopyKept
<1>1. Known => WorkingCopyKept
    BY OneOfThemWorks DEF Known, Inv, WorkingCopyKept
<1> QED
    BY <1>1, AlwaysKnown, PTL

\* With nothing in progress, the files on disk are those of one version, unless
\* the last update was cut short or had begun over what did not work
\* (selfupdate.py:211, update_helper.py:132).
THEOREM Whole == ASSUME Orderly PROVE Spec => []InstallIsWhole
<1>1. Known => InstallIsWhole
    BY RestIsResting DEF Known, Inv, InstallIsWhole, WholeUnlessCut
<1> QED
    BY <1>1, AlwaysKnown, PTL

\* A version that works is never rolled back.
THEOREM GoodStays == ASSUME Orderly PROVE Spec => []GoodUpdateStays
<1>1. Known => GoodUpdateStays
    BY DEF Known, Inv, WhoRuns, RolledBack, GoodUpdateStays
<1> QED
    BY <1>1, AlwaysKnown, PTL

\* With nothing in progress, whoever is up runs the version on disk, unless the last
\* update was abandoned before the hand-over or was too slow and may have come up
\* after its roll back (selfupdate.py:12).
THEOREM RunsInstalled == ASSUME Orderly PROVE Spec => []RunsWhatIsInstalled
<1>1. Known => RunsWhatIsInstalled
    BY RestIsResting DEF Known, Inv, RunsTheDisk, RunsWhatIsInstalled, Live, Up
<1> QED
    BY <1>1, AlwaysKnown, PTL

\* A helper that was not spawned has started nothing.
Unspawned == \A u \in Updates : helper[u].at = "none" => helper[u].new = None

LEMMA AbandonedUnspawned ==
    ASSUME TypeOK, Unspawned, ApplyFails \/ HandOverFails
    PROVE  \A w \in Updates : helper'[w].new = helper[w].new
<1>1. PICK u \in Updates : Abandons(u)
    BY DEF ApplyFails, HandOverFails
<1>2. helper' = [helper EXCEPT ![u] = Unhelped("abandoned")] /\ helper[u].new = None
    BY <1>1 DEF Abandons, Unhelped, IsNext, Unspawned
<1>3. Unhelped("abandoned").new = None
    BY DEF Unhelped, NoHelper
<1> QED
    BY <1>2, <1>3, TypeParts

LEMMA EndedUnspawned ==
    ASSUME TypeOK, Unspawned, Reboot
    PROVE  \A w \in Updates : helper'[w].new = helper[w].new
<1>1. ASSUME NEW u \in Updates PROVE Ended(u).new = helper[u].new
    <2>1. CASE Ended(u) = helper[u]
        BY <2>1
    <2>2. CASE Ended(u) = [helper[u] EXCEPT !.at = "killed"]
        BY <2>2, TypeParts DEF Assistant
    <2>3. CASE helper[u].at = "none" /\ Ended(u) = Unhelped("killed")
        BY <2>3 DEF Unhelped, NoHelper, Unspawned
    <2> QED
        BY <2>1, <2>2, <2>3 DEF Ended, Unhelped, IsNext
<1> QED
    BY <1>1 DEF Reboot

LEMMA UnspawnedStays == ASSUME TypeOK, Unspawned, [Next]_vars PROVE Unspawned'
<1>1. CASE UNCHANGED helper
    BY <1>1 DEF Unspawned
<1>2. CASE HandOver
    BY <1>2, TypeParts DEF HandOver, Unspawned
<1>3. ASSUME NEW u \in Updates, Helper(u) PROVE Unspawned'
    <2>1. helper'[u].at # "none" /\ \A w \in Updates : w # u => helper'[w] = helper[w]
        BY <1>3, TypeParts
           DEF Helper, SeesExit, KillsOld, StartsNew, SeesNew, GivesUpOnNew, RestoresFile, RestoreStops,
               StartsOld, SeesOld, GivesUpOnOld, Started, Moves, HelperAt, Assistant
    <2> QED
        BY <2>1 DEF Unspawned
<1>4. CASE ApplyFails \/ HandOverFails
    <2>1. \A w \in Updates : helper'[w].at = "none" => helper[w].at = "none"
        BY <1>4, TypeParts DEF ApplyFails, HandOverFails, Abandons, IsNext
    <2> QED
        BY <1>4, <2>1, AbandonedUnspawned DEF Unspawned
<1>5. CASE Reboot
    <2>1. \A w \in Updates : helper'[w].at = "none" => helper[w].at = "none"
        BY <1>5, TypeParts DEF Reboot, Ended, Assistant
    <2> QED
        BY <1>5, <2>1, EndedUnspawned DEF Unspawned
<1> QED
    BY <1>1, <1>2, <1>3, <1>4, <1>5
       DEF Next, vars, Update, Begin, BackUpFile, BackedUp, ApplyFile, BackUpFails,
           Handler, Quit, ComesUp

\* The helper starts the whole of one version only, the new one or the one before
\* it, unless the update had begun over what did not work (update_helper.py:173).
THEOREM StartsWhole == ASSUME Orderly PROVE Spec => HelperStartsWhole
<1> DEFINE StartOf(u) == helper'[u].new # helper[u].new /\ ~overBad =>
                             VersionOf(launcher'[helper'[u].new].tree) # Mixed
<1>1. ASSUME Known, NEW l \in Launchers, NEW u \in Updates, NEW next, Started(l, next, u),
             VersionOf(disk) # Mixed
      PROVE  \A w \in Updates : StartOf(w)
    <2>1. launcher'[l].tree = disk
        BY <1>1, StartAddsOne DEF Known
    <2>2. helper'[u].new = l /\ \A w \in Updates : w # u => helper'[w] = helper[w]
        BY <1>1, TypeParts DEF Started, Known, Assistant
    <2> QED
        BY <1>1, <2>1, <2>2
<1>2. ASSUME Known, NEW u \in Updates, StartsNew(u) PROVE \A w \in Updates : StartOf(w)
    <2>1. helper[u].at = "start" /\ helper[u].version \in Versions
        BY <1>2 DEF StartsNew, HelperAt, Known, Inv, OneAtATime
    <2>2. VersionOf(disk) # Mixed
        BY <1>2, <2>1, CopyOfOne DEF Known, Inv, DiskIsNew
    <2> QED
        BY <1>1, <1>2, <2>2 DEF StartsNew
<1>3. ASSUME Known, NEW u \in Updates, StartsOld(u) PROVE \A w \in Updates : StartOf(w)
    <2>1. CASE overBad
        BY <2>1
    <2>2. CASE ~overBad
        <3>1. Works(backup) /\ \A f \in Files : backup[f] # Absent => disk[f] = backup[f]
            BY <1>3, <2>2 DEF StartsOld, HelperAt, Known, Inv, OneTreeWorks
        <3>2. VersionOf(disk) # Mixed
            BY <1>3, <3>1, CopiedOver, TypeParts DEF Known, Works
        <3> QED
            BY <1>1, <1>3, <3>2 DEF StartsOld
    <2> QED
        BY <2>1, <2>2
<1>4. ASSUME Known, Unspawned, [Next]_vars PROVE \A w \in Updates : StartOf(w)
    <2>1. CASE UNCHANGED helper
        BY <2>1
    <2>2. CASE HandOver
        <3>1. \A w \in Updates : helper'[w].new = helper[w].new
            BY <1>4, <2>2, TypeParts DEF HandOver, IsNext, Unspawned, Known, NoHelper
        <3> QED
            BY <3>1
    <2>3. ASSUME NEW u \in Updates, Helper(u) PROVE \A w \in Updates : StartOf(w)
        <3>1. CASE StartsNew(u) \/ StartsOld(u)
            BY <1>2, <1>3, <1>4, <3>1
        <3>2. CASE ~(StartsNew(u) \/ StartsOld(u))
            <4>1. \A w \in Updates : helper'[w].new = helper[w].new
                BY <1>4, <2>3, <3>2, TypeParts
                   DEF Known, Helper, SeesExit, KillsOld, SeesNew, GivesUpOnNew, RestoresFile,
                       RestoreStops, SeesOld, GivesUpOnOld, Moves, Assistant
            <4> QED
                BY <4>1
        <3> QED
            BY <3>1, <3>2
    <2>4. CASE Reboot \/ ApplyFails \/ HandOverFails
        <3>1. \A w \in Updates : helper'[w].new = helper[w].new
            BY <1>4, <2>4, EndedUnspawned, AbandonedUnspawned DEF Known
        <3> QED
            BY <3>1
    <2> QED
        BY <1>4, <2>1, <2>2, <2>3, <2>4
           DEF Next, vars, Update, Begin, BackUpFile, BackedUp, ApplyFile, BackUpFails,
           Handler, Quit, ComesUp
<1>5. Init => Unspawned
    BY DEF Init, Unspawned, NoHelper
<1>6. Known /\ Unspawned /\ [Next]_vars => Unspawned'
    BY UnspawnedStays DEF Known
<1>7. Known /\ Unspawned /\ [Next]_vars =>
          [\A u \in Updates : helper'[u].new # helper[u].new /\ ~overBad =>
              VersionOf(launcher'[helper'[u].new].tree) # Mixed]_vars
    BY <1>4
<1> QED
    BY <1>5, <1>6, <1>7, AlwaysKnown, PTL DEF Spec, HelperStartsWhole
=============================================================================
