----------------------------- MODULE SelfUpdate -----------------------------
(***************************************************************************)
(* The launcher replaces itself (launcher/selfupdate.py, the handler of    *)
(* /admin/update in launcher/app.py) and a helper process restarts it      *)
(* (scripts/update_helper.py):                                             *)
(*                                                                         *)
(*   stage, back up, copy the new files over, spawn the helper, exit;      *)
(*   the helper waits for the exit, starts the launcher, asks /healthz,    *)
(*   and if nothing answers restores the backup and starts that.           *)
(*                                                                         *)
(* Files are copied one by one.  The handler never awaits between staging  *)
(* and answering, so one launcher applies one update at a time; but the    *)
(* timer that makes it exit runs in a thread of its own, and the machine   *)
(* may go down at any moment.  Nobody catches what goes wrong between the  *)
(* first file and the hand-over: a file that cannot be written, pip that   *)
(* takes more than its 15 minutes, a helper that cannot be spawned end the *)
(* handler, and the launcher goes on as it was.  A launcher runs what was  *)
(* on disk when it was started.  A ZIP that stage() rejects changes        *)
(* nothing and is left out.                                                *)
(***************************************************************************)
EXTENDS Integers, FiniteSets

CONSTANTS Versions,     \* what people upload, and Installed
          Installed,    \* the version on disk in the beginning
          Files,        \* numbers, in the order apply() sorts them
          Carries,      \* the files of each version
          Kind,         \* "good", "broken" (exits at once), "slow" (answers late)
          MaxUpdates,   \* bound: updates that begin
          MaxReboots,   \* bound: times the machine goes down
          MaxFailures,  \* bound: steps that fail
          FailsAt,      \* which: a subset of MayFail
          Overlap,      \* may an update begin before the last one is over?
          PortInUrl,    \* does the address of the page name the port?
          MixtureStarts \* may a mixture of two versions come up?

Absent == "absent"
Mixed  == "mixed"
None   == 0

Updates   == 1 .. MaxUpdates
Launchers == 1 .. 1 + 2 * MaxUpdates + MaxReboots

MayFail   == {"back_up", "apply", "hand_over", "restore"}

ASSUME VersionsAssumption ==
    /\ Installed \in Versions /\ Absent \notin Versions /\ Mixed \notin Versions
    /\ Files \subseteq Nat
    /\ Carries \in [Versions -> SUBSET Files]
    /\ \E f \in Files : \A v \in Versions : f \in Carries[v]   \* REQUIRED
    /\ Kind \in [Versions -> {"good", "broken", "slow"}]
    /\ Kind[Installed] = "good"
ASSUME BoundsAssumption ==
    /\ {MaxUpdates, MaxReboots, MaxFailures} \subseteq Nat
    /\ FailsAt \subseteq MayFail
    /\ {Overlap, PortInUrl, MixtureStarts} \subseteq BOOLEAN

VARIABLES
    disk,      \* INSTALL_DIR: whose file each file is
    backup,    \* DATA_DIR/updates/previous
    launcher,  \* each launcher process: "none", "starting", "up" or "gone", and its tree
    job,       \* the update a launcher is applying, and what it has left to copy
    quitting,  \* launchers whose exit is due (stop_self)
    helper,    \* each update, once the handler is through with it: its helper process
    overBad,   \* history: what was installed did not work when the last update began
    reboots,
    failures   \* steps that failed

faults == <<overBad, reboots, failures>>
vars   == <<disk, backup, launcher, job, quitting, helper, faults>>

Empty   == [f \in Files |-> Absent]
Tree(v) == [f \in Files |-> IF f \in Carries[v] THEN v ELSE Absent]

\* The version a tree is a whole copy of; files left over from another do not
\* matter to it.
VersionOf(tree) ==
    IF \E v \in Versions : \A f \in Carries[v] : tree[f] = v
    THEN CHOOSE v \in Versions : \A f \in Carries[v] : tree[f] = v
    ELSE Mixed

Works(tree) == VersionOf(tree) # Mixed /\ Kind[VersionOf(tree)] # "broken"

NoLauncher == [state |-> "none", tree |-> Empty]
NoJob      == [at |-> "none", by |-> None, version |-> Absent, todo |-> {}]
NoHelper   == [at |-> "none", old |-> None, new |-> None, version |-> Absent, todo |-> {}]

Up     == {l \in Launchers : launcher[l].state = "up"}
Over   == {"none", "abandoned", "complete", "rolled_back", "gave_up", "killed"}
AtRest == /\ job = NoJob
          /\ quitting = {}
          /\ \A u \in Updates : helper[u].at \in Over
          /\ \A l \in Launchers : launcher[l].state # "starting"

Init == /\ disk = Tree(Installed)
        /\ backup = Empty
        /\ launcher = [l \in Launchers |->
                          IF l = 1 THEN [state |-> "up", tree |-> Tree(Installed)] ELSE NoLauncher]
        /\ job = NoJob
        /\ quitting = {}
        /\ helper = [u \in Updates |-> NoHelper]
        /\ overBad = FALSE
        /\ reboots = 0
        /\ failures = 0

-----------------------------------------------------------------------------
(* The handler of /admin/update                                             *)

\* The next helper there will be.
IsNext(u) == /\ helper[u].at = "none"
             /\ \A w \in Updates : helper[w].at = "none" => u <= w

\* The ZIP is staged and back_up() has removed the last backup.
Begin == \E l \in Up, v \in Versions :
    /\ job = NoJob
    /\ Overlap \/ AtRest
    /\ \E u \in Updates : IsNext(u)
    /\ job' = [at |-> "back_up", by |-> l, version |-> v,
               todo |-> {f \in Files : disk[f] # Absent}]
    /\ backup' = Empty
    /\ overBad' = ~Works(disk)
    /\ UNCHANGED <<disk, launcher, quitting, helper, reboots, failures>>

\* copytree and copy2, in whatever order the directory is listed.
BackUpFile == \E f \in job.todo :
    /\ job.at = "back_up"
    /\ backup' = [backup EXCEPT ![f] = disk[f]]
    /\ job' = [job EXCEPT !.todo = @ \ {f}]
    /\ UNCHANGED <<disk, launcher, quitting, helper, faults>>

\* Mutant: the copy is not waited for.
BackedUpPartly ==
    /\ job.at = "back_up"
    /\ job' = [job EXCEPT !.at = "apply", !.todo = Carries[job.version]]
    /\ UNCHANGED <<disk, backup, launcher, quitting, helper, faults>>

BackedUp ==
    /\ job.at = "back_up" /\ job.todo = {}
    /\ job' = [job EXCEPT !.at = "apply", !.todo = Carries[job.version]]
    /\ UNCHANGED <<disk, backup, launcher, quitting, helper, faults>>

\* apply(): in sorted order over what is there, leaving other files alone.
ApplyFile == \E f \in job.todo :
    /\ job.at = "apply"
    /\ \A g \in job.todo : f <= g
    /\ disk' = [disk EXCEPT ![f] = job.version]
    /\ job' = [job EXCEPT !.todo = @ \ {f}]
    /\ UNCHANGED <<backup, launcher, quitting, helper, faults>>

\* The handler ends by an exception; the update it was applying gets no helper.
Abandons(u) ==
    /\ IsNext(u)
    /\ failures < MaxFailures
    /\ helper' = [helper EXCEPT ![u] = [NoHelper EXCEPT !.at = "abandoned", !.todo = job.todo,
                                                        !.version = job.version]]
    /\ failures' = failures + 1
    /\ job' = NoJob
    /\ UNCHANGED <<backup, launcher, quitting, overBad, reboots>>

\* A file in use, or a disk that is full, while the backup is made: nothing was
\* replaced.
BackUpFails ==
    /\ job.at = "back_up" /\ job.todo # {}
    /\ "back_up" \in FailsAt /\ failures < MaxFailures
    /\ failures' = failures + 1
    /\ job' = NoJob
    /\ UNCHANGED <<disk, backup, launcher, quitting, helper, overBad, reboots>>

\* The same while files are replaced: the one that could not be written is as it
\* was or torn, those after it are still the old ones.
ApplyFails == \E f \in job.todo, u \in Updates :
    /\ job.at = "apply" /\ "apply" \in FailsAt
    /\ \A g \in job.todo : f <= g
    /\ disk' \in {disk, [disk EXCEPT ![f] = Absent]}
    /\ Abandons(u)

\* Every file is replaced, and then pip is not through in time or the helper
\* cannot be spawned.
HandOverFails == \E u \in Updates :
    /\ job.at = "apply" /\ job.todo = {} /\ "hand_over" \in FailsAt
    /\ Abandons(u)
    /\ UNCHANGED disk

\* restart() spawns the helper and stop_self() starts the timer.
HandOver == \E u \in Updates :
    /\ IsNext(u)
    /\ job.at = "apply" /\ job.todo = {}
    /\ helper' = [helper EXCEPT ![u] = [NoHelper EXCEPT !.at = "wait", !.old = job.by,
                                                        !.version = job.version]]
    /\ quitting' = quitting \cup {job.by}
    /\ job' = NoJob
    /\ UNCHANGED <<disk, backup, launcher, faults>>

\* Mutant: the timer is still there afterwards.
EndsDue(l) == /\ launcher' = [launcher EXCEPT ![l].state = "gone"]
              /\ job' = IF job.by = l THEN NoJob ELSE job
              /\ UNCHANGED quitting

\* The process l is no more, and with it whatever its handler was doing.
Ends(l) == /\ launcher' = [launcher EXCEPT ![l].state = "gone"]
           /\ quitting' = quitting \ {l}
           /\ job' = IF job.by = l THEN NoJob ELSE job

\* os._exit(0), after the delay.
Quit == \E l \in quitting : Ends(l) /\ UNCHANGED <<disk, backup, helper, faults>>

\* What a handler that has begun does, one way or the other.
Handler == \/ BackUpFile \/ BackedUp \/ BackUpFails
           \/ ApplyFile \/ ApplyFails
           \/ HandOver \/ HandOverFails

Update == Begin \/ Handler \/ Quit

-----------------------------------------------------------------------------
(* update_helper.py                                                         *)

HelperAt(u, place) == helper[u].at = place

Moves(u, place) == helper' = [helper EXCEPT ![u].at = place]

\* Mutant: the helper starts the new version at once.
DoesNotWait(u) ==
    /\ HelperAt(u, "wait")
    /\ Moves(u, "start")
    /\ UNCHANGED <<disk, backup, launcher, job, quitting, faults>>

\* wait_for_exit: it is gone ...
SeesExit(u) ==
    /\ HelperAt(u, "wait")
    /\ launcher[helper[u].old].state = "gone"
    /\ Moves(u, "start")
    /\ UNCHANGED <<disk, backup, launcher, job, quitting, faults>>

\* ... or is made to go.
KillsOld(u) ==
    /\ HelperAt(u, "wait")
    /\ launcher[helper[u].old].state # "gone"
    /\ Ends(helper[u].old)
    /\ Moves(u, "start")
    /\ UNCHANGED <<disk, backup, faults>>

\* start_launcher with the command that was recorded.
Started(l, next, u) ==
    /\ launcher[l] = NoLauncher
    /\ \A k \in Launchers : launcher[k] = NoLauncher => l <= k
    /\ launcher' = [launcher EXCEPT ![l] = [state |-> "starting", tree |-> disk]]
    /\ helper' = [helper EXCEPT ![u].at = next, ![u].new = l]
    /\ UNCHANGED <<disk, backup, job, quitting, faults>>

StartsNew(u) == HelperAt(u, "start") /\ \E l \in Launchers : Started(l, "poll", u)

\* Whoever answers on the port is taken for the launcher that was started; on
\* port 8080 if the address of the page did not name one.
Answers == PortInUrl /\ Up # {}

\* Mutant: a version that is still starting counts as one that does not answer.
Impatient(u) == ~Answers /\ launcher[helper[u].new].state \in {"starting", "gone"}

\* The process has exited, or 75 seconds have passed without an answer.
NoAnswer(u) ==
    LET l == helper[u].new IN
    /\ ~Answers
    /\ \/ launcher[l].state = "gone"
       \/ launcher[l].state = "starting" /\ VersionOf(launcher[l].tree) # Mixed
            /\ Kind[VersionOf(launcher[l].tree)] = "slow"
       \/ ~PortInUrl

SeesNew(u) ==
    /\ HelperAt(u, "poll")
    /\ Answers
    /\ Moves(u, "complete")
    /\ UNCHANGED <<disk, backup, launcher, job, quitting, faults>>

\* Mutant: a version that exits at once is waited for, for ever.
WaitsOn(u) ==
    /\ HelperAt(u, "poll")
    /\ NoAnswer(u)
    /\ UNCHANGED vars

\* Mutant: the backup is not put back before the launcher is started again.
GivesUpEmptyHanded(u) ==
    /\ HelperAt(u, "poll")
    /\ NoAnswer(u)
    /\ Moves(u, "restore")
    /\ UNCHANGED <<disk, backup, launcher, job, quitting, faults>>

GivesUpOnNew(u) ==
    /\ HelperAt(u, "poll")
    /\ NoAnswer(u)
    /\ helper' = [helper EXCEPT ![u].at = "restore",
                                ![u].todo = {f \in Files : backup[f] # Absent}]
    /\ UNCHANGED <<disk, backup, launcher, job, quitting, faults>>

\* roll_back: the backup's files over what is there.
RestoresFile(u) == \E f \in helper[u].todo :
    /\ HelperAt(u, "restore")
    /\ disk' = [disk EXCEPT ![f] = backup[f]]
    /\ helper' = [helper EXCEPT ![u].todo = @ \ {f}]
    /\ UNCHANGED <<backup, launcher, job, quitting, faults>>

\* It stops at a file it cannot write, and the helper with it.
RestoreStops(u) == \E f \in helper[u].todo :
    /\ HelperAt(u, "restore") /\ "restore" \in FailsAt /\ failures < MaxFailures
    /\ failures' = failures + 1
    /\ disk' \in {disk, [disk EXCEPT ![f] = Absent]}
    /\ Moves(u, "gave_up")
    /\ UNCHANGED <<backup, launcher, job, quitting, overBad, reboots>>

\* Mutant: the launcher is started though roll_back stopped at a file.
StartsOldAnyway(u) == /\ HelperAt(u, "restore") /\ Cardinality(helper[u].todo) <= 1
                      /\ \E l \in Launchers : Started(l, "poll_old", u)

StartsOld(u) == /\ HelperAt(u, "restore") /\ helper[u].todo = {}
                /\ \E l \in Launchers : Started(l, "poll_old", u)

\* "The previous version is running again."
SeesOld(u) ==
    /\ HelperAt(u, "poll_old")
    /\ Answers
    /\ Moves(u, "rolled_back")
    /\ UNCHANGED <<disk, backup, launcher, job, quitting, faults>>

GivesUpOnOld(u) ==
    /\ HelperAt(u, "poll_old")
    /\ NoAnswer(u)
    /\ Moves(u, "gave_up")
    /\ UNCHANGED <<disk, backup, launcher, job, quitting, faults>>

Helper(u) == \/ SeesExit(u) \/ KillsOld(u) \/ StartsNew(u) \/ SeesNew(u) \/ GivesUpOnNew(u)
             \/ RestoresFile(u) \/ RestoreStops(u) \/ StartsOld(u) \/ SeesOld(u) \/ GivesUpOnOld(u)

-----------------------------------------------------------------------------
(* The launchers that were started, and the machine                         *)

\* What a process that starts with this tree may turn into: nobody knows what
\* becomes of a mixture of two versions.
Fates(tree) == CASE VersionOf(tree) = Mixed -> IF MixtureStarts THEN {"up", "gone"} ELSE {"gone"}
                 [] VersionOf(tree) # Mixed ->
                      IF Kind[VersionOf(tree)] = "broken" THEN {"gone"} ELSE {"up"}

\* It listens, or exits while starting; it exits too if somebody else listens
\* on the port already.
ComesUp(l) ==
    /\ launcher[l].state = "starting"
    /\ \E fate \in Fates(launcher[l].tree) :
          launcher' = [launcher EXCEPT ![l].state = IF Up = {} THEN fate ELSE "gone"]
    /\ UNCHANGED <<disk, backup, job, quitting, helper, faults>>

\* The machine goes down and comes up again; the shortcut in the Startup
\* folder starts one launcher.  The update that was being applied, the helpers at
\* work, and a launcher that went on after an update it had abandoned end with it.
Ended(u) ==
    IF helper[u].at \in Over \ {"none", "abandoned"} THEN helper[u]
    ELSE IF helper[u].at # "none" THEN [helper[u] EXCEPT !.at = "killed"]
    ELSE IF job.at = "apply" /\ IsNext(u)
         THEN [NoHelper EXCEPT !.at = "killed", !.version = job.version, !.todo = job.todo]
    ELSE helper[u]

Reboot == \E l \in Launchers :
    /\ reboots < MaxReboots
    /\ reboots' = reboots + 1
    /\ launcher[l] = NoLauncher
    /\ \A k \in Launchers : launcher[k] = NoLauncher => l <= k
    /\ launcher' = [k \in Launchers |->
                      IF k = l THEN [state |-> "starting", tree |-> disk]
                      ELSE IF launcher[k] = NoLauncher THEN NoLauncher
                      ELSE [launcher[k] EXCEPT !.state = "gone"]]
    /\ job' = NoJob
    /\ quitting' = {}
    /\ helper' = [u \in Updates |-> Ended(u)]
    /\ UNCHANGED <<disk, backup, overBad, failures>>

-----------------------------------------------------------------------------
Next == \/ Update
        \/ \E u \in Updates : Helper(u)
        \/ \E l \in Launchers : ComesUp(l)
        \/ Reboot

Spec == Init /\ [][Next]_vars

\* A handler that runs goes on, an exit that is due happens, a helper goes on,
\* and a process that was started comes up or exits.  Nobody has to upload.
Fairness == /\ WF_vars(Handler)
            /\ WF_vars(Quit)
            /\ \A u \in Updates : WF_vars(Helper(u))
            /\ \A l \in Launchers : WF_vars(ComesUp(l))

FairSpec == Spec /\ Fairness

-----------------------------------------------------------------------------
(* Properties *)

Trees == [Files -> Versions \cup {Absent}]

\* Type invariant.
TypeOK ==
    /\ disk \in Trees /\ backup \in Trees
    /\ launcher \in [Launchers -> [state : {"none", "starting", "up", "gone"}, tree : Trees]]
    /\ job \in [at : {"none", "back_up", "apply"}, by : {None} \cup Launchers,
                version : Versions \cup {Absent}, todo : SUBSET Files]
    /\ quitting \subseteq Up
    /\ helper \in [Updates -> [at : Over \cup {"wait", "start", "poll", "restore", "poll_old"},
                               old : {None} \cup Launchers, new : {None} \cup Launchers,
                               version : Versions \cup {Absent}, todo : SUBSET Files]]
    /\ overBad \in BOOLEAN
    /\ reboots \in 0 .. MaxReboots /\ failures \in 0 .. MaxFailures

\* What the last update came to.  It was cut short if a file could not be written
\* or the machine went down before the last file was copied, there or back.
IsLast(u) == helper[u].at # "none" /\ \A w \in Updates : w > u => helper[w].at = "none"

CutShort  == \E u \in Updates : /\ IsLast(u) /\ helper[u].todo # {}
                                /\ helper[u].at \in {"abandoned", "killed", "gave_up"}
Abandoned == \E u \in Updates : IsLast(u) /\ helper[u].at = "abandoned"
TooSlow   == \E u \in Updates : /\ IsLast(u) /\ Kind[helper[u].version] = "slow"
                                /\ helper[u].at \in {"restore", "poll_old", "rolled_back", "gave_up"}

\* "Roll back failed.  The launcher must be started at the machine."
RollBackFailed == \E u \in Updates : helper[u].at = "gave_up" /\ helper[u].todo # {}

\* A mixture of two versions is installed only if the last update was cut short,
\* by a file that could not be written or a power cut, or had begun over what did
\* not work: the next one that goes through puts it right.  Whatever was uploaded
\* and however often something failed, what is left otherwise is the whole of one
\* version (selfupdate.py:211, update_helper.py:132), if updates do not overlap.
InstallIsWhole == AtRest => VersionOf(disk) # Mixed \/ CutShort \/ overBad

\* At every moment, through power cuts, files that cannot be copied, and updates
\* that are abandoned after their files were replaced, a whole copy of a version
\* that works is left to go back to, installed or set aside (selfupdate.py:197, "so
\* a bad update can be undone"), until an update begins over what does not work:
\* it replaces the good backup by that.
WorkingCopyKept == Works(disk) \/ Works(backup) \/ overBad

\* What selfupdate.py:197 promises, without the exception.  An update that fails
\* after its first file, or that pip holds up, followed by another one breaks it.
BadUpdateCanBeUndone == Works(disk) \/ Works(backup)

\* The helper never starts a mixture, whatever the copying ran into: what it
\* starts is the whole of the new version or the whole of the one before
\* (update_helper.py:173, "if not roll_back"), unless it rolls back to what did not
\* work when the update began.
HelperStartsWhole ==
    [][\A u \in Updates : helper'[u].new # helper[u].new /\ ~overBad =>
          VersionOf(launcher'[helper'[u].new].tree) # Mixed]_vars

\* What people use is what is on disk: after an update the new version, after a
\* roll back the old one (selfupdate.py:12, "puts the backup back and starts
\* that instead").  The exceptions are the last update being one that was abandoned
\* before the hand-over, which leaves the old version running over the new files,
\* and one that was too slow: the roll back does not stop it, and it may yet get
\* the port.
RunsWhatIsInstalled ==
    AtRest /\ ~TooSlow /\ ~Abandoned => \A l \in Up : launcher[l].tree = disk

\* A version that works is not rolled back: the helper tells a launcher that
\* answers from one that does not (README.md:237, "The helper waits for it to
\* answer.  If it does not, the copy from step 2 is restored").
GoodUpdateStays ==
    \A u \in Updates :
        helper[u].at \in {"restore", "poll_old", "rolled_back", "gave_up"}
            => Kind[helper[u].version] # "good"

\* What the helper writes in the log when it has rolled back is so: "The
\* previous version is running again" (update_helper.py:179).
RolledBackRunsPrevious ==
    [][\A u \in Updates :
          helper[u].at = "poll_old" /\ helper'[u].at = "rolled_back" =>
              \A l \in Up : VersionOf(launcher[l].tree) # helper[u].version]_vars

\* The launcher comes back, whatever was uploaded and whatever failed
\* (selfupdate.py:13, "a minute rather than a trip to the machine"), but for a roll
\* back that cannot write what it restores, a power cut over files that do not
\* work, and an update that began over such files.
LauncherComesBack ==
    []<>(Up # {} \/ RollBackFailed \/ overBad \/ (reboots > 0 /\ ~Works(disk)))

\* A version that does not start does not stay: "If the new version does not
\* answer after restarting, the helper puts the backup back" (selfupdate.py:12).  The
\* exceptions are those above and an update that gets no helper.
Installs(kind) == VersionOf(disk) # Mixed /\ Kind[VersionOf(disk)] = kind

BadUploadIsUndone == Installs("broken") ~>
    ~Installs("broken") \/ Abandoned \/ RollBackFailed \/ overBad \/ reboots > 0
=============================================================================
