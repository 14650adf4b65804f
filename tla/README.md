# Verification of the deployment handler

This directory holds a TLA+ development of the launcher in `src/`: a service on
one Windows machine to which people upload ZIPs of web apps, and which builds,
runs, supervises, counts and restarts them. The code, read with its tests and
documents, is the reference; every definition that models code names the lines
it stands for in `PROJECT.json` (`map`).

Contents: [the system](#1-the-system), [the plan](#2-the-plan),
[the modules](#3-the-modules-and-the-code), [the runs](#4-the-runs),
[where the code departs from what it says](#5-where-the-code-departs-from-what-it-says),
[the proofs](#6-the-proofs), [limits](#7-limits).

## 1. The system

### Components, their state and their operations

| Component | Code | State it keeps | Operations that change it |
|---|---|---|---|
| Port registry | `launcher/ports.py`, table `ports` in `launcher/db.py` | one row per (app, role) | `allocate`, `release`; cascade on deleting an app |
| Deploy pipeline | `launcher/deployer.py` | `deploys`, the app's row, ZIPs, source tree, executor queue | `enqueue`, `run_deploy`, `_prune_old_versions` |
| Uploaded ZIPs | `_store_upload`, `rollback`, `delete_app` in `launcher/app.py`, pruning in `launcher/deployer.py` | one directory of time-stamped files per app name | upload in chunks, reject, roll back, prune, delete |
| Supervisor | `launcher/supervisor.py` | `_restarts`, `_strikes`, `_last_prune`, one lock | `launch`, `stop`, `check_once`, `restart_all`, `recover_interrupted_deploys`, `restore_on_startup` |
| App actions | handlers in `launcher/app.py` | none of their own | upload, replace, rollback, stop, start, delete, settings, restart-all |
| Process control | `launcher/native.py`, `launcher/runtime.py` | processes; pids in the app's row | `start`, `stop`, `_kill_tree`, `is_running`, `prepare` |
| Database | `launcher/db.py` | SQLite, autocommit: one statement, one transaction | every helper that writes |
| Settings of an app | `launcher/settings.py` | declared names, stored values | declare on unpacking, save, remove |
| Self-update | `launcher/selfupdate.py`, `POST /admin/update` | installed tree, backup | stage, back up, apply, hand over, exit |
| Update helper | `scripts/update_helper.py` | a process that outlives the launcher | wait, kill, start, poll, roll back |
| Visits | `launcher/visits.py`, `launcher/appserver.py`, two statements of `db.py` | counts in memory, daily tallies, last open | record, flush, prune |
| Front server | `launcher/appserver.py` | none but its counter | serve or proxy |
| Saved files | `launcher/appdata.py`, `launcher/files.py` | an app's data directory, links into it | attach, detach, remove_tree |
| ZIPs and detection | `launcher/archive.py`, `launcher/detect.py`, `launcher/naming.py` | none | extract, detect, name |
| Docker runtime | `launcher/runtime.py`, the docker branches of `deployer.py` and `app.py` | containers by name, images, the id in the app's row | build, run, stop, remove, start, restart policy |
| Metrics, pages, charts, pictures | `metrics.py`, `charts.py`, `thumbs.py`, `imagegen.py`, `hostinfo.py`, templates | caches | read and draw |
| Login | `launcher/auth.py` | none: a signed cookie | - |
| Installation | `deploy/`, `scripts/selftest.py` | - | - |

### How they interact

Several threads of one process share the database, the file system and the
processes of the operating system:

* *Build workers*, a pool of `MAX_CONCURRENT_BUILDS` threads, run `run_deploy`.
  A worker reads the app's row once, at the beginning, and works from that
  copy for minutes.
* *Request threads* run the handlers of buttons. Upload, replace and rollback
  write a deploy record and put it into the executor's queue; the others act
  on the app at once.
* *The supervisor thread* walks over the live apps every few seconds.
  `restart_all` does the same from a request. Both hold one lock; **nothing
  else takes it**, so a pass overlaps deploys, stops and deletions of the very
  apps it walks over.
* *Startup* resolves what the last launcher left half done, then starts the
  live apps again, before the supervisor thread exists.
* *App processes* (a front server and a backend) die or grow by themselves, and
  survive a launcher that dies.
* *The update helper* is a process beside two launchers, the old and the new,
  and shares only files, a pid and a port with them.
* *Front servers* write their counts into the launcher's database.
* *The Docker daemon*, under the second runtime, takes the supervisor's place: it
  restarts what exits, and the launcher neither watches nor recovers anything
  (`app.py:39`). Container names are the one thing the two share that both
  can take.

### What is hard about it

Rows that were read minutes before they are used; three places that start an
app (deploy, supervisor, buttons) with no common lock; a launcher that can die
between any two statements; pids that the operating system hands out again;
files that Windows will not remove while they are open; a helper that judges a
new version by whether *somebody* answers on a port; counts that are taken in
one statement and time stamps in another; ZIPs known by the second they began
in, which roll backs, prunings and deletions look up by name; containers that
outlive the launcher that has not yet written down their id. `PROJECT.json` lists the hazards, each
at its line, with the properties aimed at it.

### What makes each component correct

* **Ports.** An (app, role) has one port and a port one owner, whoever
  allocates at the same time; the answer is the registered one and stays so;
  "no port available" is said only of a range that was found taken; a call
  returns.
* **Deploys.** A record moves only forward and exactly one worker owns it;
  every one ends, whatever hangs or dies; what is called live is the version
  that was started; a failed upload leaves people what they had.
* **Supervisor.** What shows as live runs or is started again; what was
  stopped stays stopped; never two copies; the counters count what they claim
  to; one broken app does not starve the others.
* **Settings.** No app runs without a setting it requires.
* **Saved files.** What an app has saved survives every redeploy, whatever fails
  in it; every file a ZIP brings is there unless the app has one of that name;
  `data/` leads to the place that survives.
* **Uploaded ZIPs.** A deploy unpacks what was sent for it; a version can be
  rolled back to until enough newer ones were sent; nothing stays on disk that
  nobody can see.
* **Containers.** The name is free when a container is started; none is
  forgotten; what shows as live has its container, what was stopped stays
  down through restarts of the daemon.
* **ZIPs and detection.** How the folder was zipped does not decide what the
  project is taken for.
* **Processes.** Nothing started by the launcher is forgotten.
* **Self-update.** Whatever is uploaded, whatever fails and wherever the machine
  goes down, a version that works is left; afterwards something answers; a good
  version is kept and a bad one undone; what runs is what is installed.
* **Visits.** Each open ends in one place.

## 2. The plan

Modules in the order they are written (done up to 17):

1. `PortRegistry` (abstract) and `Ports` (detailed, implements it).
2. `PortsProofs`: type, matching, stability, refinement.
3. `Lifecycle`: deploy pipeline, supervisor, buttons, settings, processes and
   crashes composed around **one** app, because the hazards are between them.
   Ports are left to module 1: an app's two ports are fixed for its life.
4. `DeployRecord` (abstract), implemented by `Lifecycle`.
5. `Supervisor`: the same supervisor around **many** apps, with a launch as
   one step, for what one app does to another and for the counters.
6. `SupervisorProofs`.
7. `SelfUpdate`: launcher, files and helper.
8. `Visits`.
9. `Project` (pure: what is unpacked and what it is taken for) and `SavedFiles`,
   which uploads through it.
10. `SavedFilesProofs`.
11. `Uploads`: the directory of ZIPs, which `Lifecycle` takes as one file per
    upload, and `UploadsProofs`.
12. `Containers`: the second runtime around one app, and `ContainersProofs`.
13. `SelfUpdate` again: files that cannot be copied.
14. `SelfUpdateProofs`, `LifecycleProofs` and `VisitsProofs`; the rest of the safety
    properties in the other proof modules.
15. What the supervisor's lock keeps (`OneCopyUnderLock`).
16. Errors nobody catches: pip and the helper in `SelfUpdate`, docker commands that
    pass their timeout in `Containers`, builds that hang in `Lifecycle`.
17. `SeedsArrive` and its proof, in `SavedFiles`.
18. *Next:* `naming` (slugs and their collisions), the validation of setting
    values, and an installation that is only ever one whole version, as the
    abstract specification of `SelfUpdate`.

Abstract specifications worth stating: the port registry as one atomic answer
(done), the life of a deploy record (done), an installation that is only ever
one whole version (next). Runs and their bounds are in section 4, theorems in
section 6.

## 3. The modules and the code

### Ports, PortRegistry, MCPorts, PortsProofs

`Ports` has `allocate` at the granularity of its SQL statements and socket
probes: `LookupFinds`/`LookupMisses` (the first `allocated_port`), `ProbeBusy`/
`ProbeFree` (`_is_bindable`), `Insert`/`InsertRefused` (the INSERT against the
primary key, the unique index and the foreign key), `RecheckFinds`/
`RecheckMisses` (after an `IntegrityError`), `Exhausted`. The walk starts at any
offset and wraps. Others create, release and delete apps and bind ports at any
moment. `seen` and `disturbed` are history variables: the ports a call met in
the hands of others, and whether its app lost its rows meanwhile.

`PortRegistry` is what callers rely on: ask, and get in one step the key's port,
or a free one, or a refusal. `ImplementsRegistry` instantiates it with the
claims read off the table and the requests read off the calls.

### Lifecycle, DeployRecord, MCLifecycle, LifecycleProofs

State: the app's row (`app`), the `deploys` table (`deploy`), what each ZIP turns
out to be (`kind`), the ZIPs on disk, the source tree (`src`), the processes by
pid (`proc`), the executor's queue, and per thread where it is and the row it
read (`th`). An app's front server and its backend are one entry of `proc`:
`starting`, `up`, or `half` when the backend is gone and the front still runs
(`is_running` looks at both, `launch` at the front). A front lost on its own is
not told apart from both being lost.

| Actions | Code |
|---|---|
| `Upload`, `ReplaceStop`, `Rollback` | the handlers that enqueue. An upload is one step: the handler is `async` and never awaits between creating the app and the deploy |
| `Take` ... `FailApp` (`RunDeploy`) | `run_deploy`: mark, clear the source, unpack, declare settings, build, check settings or hold, stop the previous, spawn, record the pid, verify, finish, prune, and the failing ends |
| `Launch*` | `supervisor.launch`, shared by Start, settings, restart-all, the check and startup, with what each caller does when it refuses or raises |
| `Stop` ... `DeleteFiles` (`Press`, `Serve`) | the buttons; the status is written before the kill, as in the code |
| `Look`, `Check*`, `GiveUp*` | `check_once` on one app: the row as it was at the beginning of the pass, then the process it named |
| `Crash`, `Boot`, `RecoverDeploy`, `RecoverApp`, `Restore`, `Ready` | death of the launcher between any two steps, `recover_interrupted_deploys`, `restore_on_startup` |
| `ComesUp`, `Dies`, `Reused`, `StrangerExits` | the operating system: start-up, death, pids handed out again |

The kinds of uploads stand for the stages at which a deploy can fail: `garbled`
(no readable ZIP), `empty` (nothing detected in it), `unbuildable`, `dies` (exits
when started), and `wants` (runs, but requires a setting). `Stops(t, ...)` kills
the pid the thread *remembers* and forgets it in the row. A rollback to a ZIP
that has been pruned meanwhile fails after the source was wiped, as in the code.
The localhost scan is part of the build step; the picture is left out. A build
ends as built or failed, or never: its timeout counts from the end of its output
(`native.py:113`, `runtime.py:40`), so the step is not fair. When the tree of a
running version cannot be removed, what is left of it is the whole, the sources
without what was built, or nothing (`Leftovers`).

`DeployRecord` is the life of a record: unborn, queued, building, one of three
ends; only a record that waits for settings moves again, and, where open files
cannot be removed, a live one whose clean-up fails (`run_deploy` writes "failed"
over "live" when the pruning behind it raises).

### Supervisor, MCSupervisor, SupervisorProofs

Many apps with a launch as one step: it starts the app, refuses before stopping
anything, or raises after stopping it. `check_once` visits the rows it read at
the beginning in order; an exception drops the rest of the pass (`Abandoned`);
`restart_all` goes on after one. People stop apps, deploys replace them and
they die at any moment, without the lock. `heavy` and `lost` are history
variables: what the two counters claim to count.

### SelfUpdate, MCSelfUpdate, SelfUpdateProofs

`disk` and `backup` say of each file whose version it is. The handler backs up,
applies (in sorted order, over what is there), hands over and schedules its own
exit; the helper waits or kills, starts, polls, restores file by file, starts
and polls again.

Four steps may fail, those that `FailsAt` names, `MaxFailures` times. `BackUpFails`: a
file cannot be copied aside, and nothing was replaced. `ApplyFails`: a file cannot
be replaced and is as it was or torn; those before it are new. `HandOverFails`:
every file is new, and then pip runs into its `timeout=900` or the helper cannot be
spawned. None of the three is caught: the handler ends, the launcher goes on with
what it had loaded, and an update that had begun to replace files is `abandoned`. `RestoreStops`: the
helper cannot write a file, gives up and starts nothing. With `MixtureStarts` a tree
that is of no one version may come up or exit; otherwise it exits.

The helper polls the *port*, not the process it started, so any
launcher that is up answers it. A launcher runs the tree that was on disk when
it was started. The machine may go down at any step. File 3 exists in the
installed version only, file 4 in the uploaded ones only: files that an update
leaves behind are part of the model. A ZIP that `stage` rejects changes nothing
and is left out; the exit code of pip is ignored by the code, so a version whose
packages are missing is one that is `broken`. `overBad` is a history variable: the
installed files did not work when the last update began.

### Visits, MCVisits, VisitsProofs

The counter of one app's front server, with `record`, the unlocked look at
`_last_flush`, `flush`, and the two statements of `record_opens`, each of which
may fail and is then swallowed. `Launched` gives the front server a counter
(`supervisor.launch`), `Deployed` does not (`run_deploy`). One tick is the flush
interval's order of magnitude and a day has two, so that midnight falls between
any two steps. The server handles requests in one thread, the class is written
for several ("any thread"), so there are two. The share of opens that came
from the dashboard is a second number that moves with the first and is left out.
So is the deletion of an app: its front server is stopped first and its rows
cascade.

### Uploads, MCUploads, UploadsProofs

`data/uploads/<name>/`: for each second a name (`file`), behind it an inode, and
of each inode which upload each of its two chunks came from (`data`). That an
open file goes on being written when its name is gone, and that two writers of
one name share an inode, is why the two are apart.

| Actions | Code |
|---|---|
| `Open`, `Write`, `TooLarge`, `DiskFull` | `_store_upload`: the stamp is taken, the file opened and emptied; the handler awaits each chunk, so others run in between; `UploadTooLarge` unlinks the name, any other exception leaves it |
| `LookUp`, `Record` | `upload`/`replace_app` after the stream: the row is looked up (a replacement had it before), the record made and queued, or refused if the app has gone |
| `Rollback` | the name of an earlier deploy's ZIP is looked up, and `Record` follows |
| `Take`, `Unreadable`, `Read`, `Fails`, `Succeeds` | `run_deploy`, as far as the ZIP goes: `archive.extract` opens what has the name then |
| `Glob`, `Prune` | `_prune_old_versions`: the listing, and then the unlinking of what it named |
| `Delete`, `DeleteRow`, `DeleteFiles` | `delete_app` |
| `Tick`, `Crash` | the clock (it may be put back with `FallsBack`); the death of the launcher, with the recovery at its next start |

`disturbed` is a history variable: the uploads that met a full disk, a crash or a
deletion under way. Half a ZIP, or half of each of two, is an `ArchiveError`: its
directory is at its end.

### Containers, MCContainers, ContainersProofs

One app under `LAUNCHER_RUNTIME=docker`. `box` is the container of the app's name
(there is one at most), known by the deploy it was started for, and `created`,
`running`, `stopped` or `dead` (exited, and due to be restarted by Docker); `app` is
the row with the container and the image it names; `images` are those on the
machine. Each docker command is a step; without a daemon, or for a container
that has gone, it fails and changes nothing, which the code ignores except
where the model says otherwise.

| Actions | Code |
|---|---|
| `Take` ... `FailApp` (`RunDeploy`) | `run_deploy`'s docker half: clear the source tree, build the image, check the settings, stop and remove the container the row named, remove what has the name, `docker run`, record, verify, finish, and the failing ends |
| `Clear`, `FreeStops`, `FreeRemoves` | `_clear_source_dir`: if a file is in use, stop and remove the container of the row, and try again |
| `ClearsTooLate`, `RunsTooLate`, `ServesTooLate` | a command passes its timeout (`runtime.py:55`). It is no `DockerError`, so nobody ignores it: the deploy fails, the button ends where it was. The daemon may have done it all the same |
| `Replace*`, `Stop*`, `Start*`, `Delete*` | the buttons; unlike under the native runtime Replace does stop, Start does not ask for settings, and Delete removes the container and the last image |
| `SaveSetting`, `RemoveSetting`, `Apply`, `Withdraw*`, `Restart`, `Settle` | `_apply_settings_change`, which restarts the container as it is, and `_settle_held_deploy` |
| `Exits`, `Revived`, `DaemonDown`, `DaemonUp` | `start.sh` ends when either half of the app does; `--restart unless-stopped`; the daemon or the machine goes down and comes back |
| `Crash` | the launcher dies; under this runtime nothing is recovered at its next start |

The kinds are `good`, `wants` (needs a setting), `dies`, `unbuildable` and `refused`:
built, but its `docker run` fails after the container was created. `met` is a
history variable: two threads were busy with the app at the same time, the
launcher died in the middle of a button, or `docker run` or a button's command
passed its timeout (`Loses`). What the daemon does for a client that has given up is
taken as done at once, and `docker inspect` answers in time.

### Project, SavedFiles, MCSavedFiles, SavedFilesProofs

`Project` has no state. It says which members of a ZIP are unpacked and what
rejects it (`archive.extract`), how one wrapper folder is taken away, where the
two halves of a project are found, what `launcher.yaml` may say and which settings
it then asks for (`detect.detect`). A file is its folder, its name and what its
text amounts to ("app" for Python that creates or runs one, "build" for a
package.json with a build command); every member is one unit of size. Between
two folders that are equally good the code takes the first in the alphabet: the
model has no alphabet and `Detect` returns every such outcome.

`SavedFiles` uploads such ZIPs to one app's name.

| State | Code |
|---|---|
| `store` | `appdata.data_dir`: for each name, absent, as a ZIP brought it, or as the app saved it |
| `tree`, `links`, `built` | the source tree, the folders in it with a link `data/`, and whether it was built |
| `running` | the backend: in which folder, and is that folder still there (`home`)? |
| `worker`, `handler` | where the deploy and the deletion under way are |
| `written` | history: what the app has saved since there is a row |

| Actions | Code |
|---|---|
| `DetachOld`, `Clear`, `ClearHeld`, `ClearFails` | `appdata.detach` and `_clear_source_dir`. On Windows what is held stays at the first attempt and goes when the app has been stopped, or the deploy fails |
| `Unpack`, `DetectApp` | `archive.extract`, `detect.detect` |
| `LookAtSeed`, `MoveSeed`, `Attach` | `appdata.attach`: for each file the look at the store and the move are two steps, then the rest of `data/` goes and the link is made, if the machine can make links |
| `Build`, `StopOld`, `StartNew`, `Verify` | the rest of `run_deploy`, with every early end |
| `DeleteRow`, `DeleteDetach`, `DeleteTree`, `DeleteStore` | `delete_app`: row, link, tree, store |
| `WriteStore`, `WriteTree`, `Dies`, `Launch`, `Crash` | the app saving through the environment variable, or through `data/` where that is a plain folder; its death; `supervisor.launch`; the launcher's death |

`FollowsLinks` asks what would happen if removing a tree went through the links
in it. `appdata.py:121` says that on Windows it can; the `rmtree` of today's
Python does not. The run checks the deploy with the worse assumption, the proof
takes the better one. Simplified: `data/` holds files, not folders; a removal that
fails leaves one file; nobody presses Start or Stop during a deploy (`Lifecycle`
does that); whether links can be made is settled when the model starts.

### Conventions

Definitions whose comment begins with *Mutant* are not part of any
specification: each is a plausible mistake in the operator it precedes, and
putting it in that operator's place makes TLC report the property it is paired
with in `PROJECT.json`. Every property of a passing run has one.

## 4. The runs

`tlc -config <cfg> <module>`; sizes are distinct states.

| Run | States | The question |
|---|---|---|
| `ports` | 55 thousand | Two callers on two keys whose ranges overlap, while strangers take ports and the app comes and goes: stable answers, honest refusals, refinement, termination |
| `builds` | 398 thousand | Two build workers, a request thread with upload, replace and delete, one crash, on Windows, where a ZIP that another worker is unpacking cannot be pruned: does every record keep its promise and have exactly one owner? |
| `serial` | 1.1 million | All buttons, all kinds of ZIP, apps that die, Windows' file rules, three deploys, one thing at a time: what does a person see when nothing overlaps? |
| `recovers` | 4.5 thousand | Crash, deaths, growth, builds that may hang, pids handed out again, with fairness: every deploy ends if builds do, what is dead is noticed, and up to the crash never two copies |
| `supervisor` | 186 thousand | Two apps, two retries, two strikes: are the counters right, does everybody get a turn? |
| `self_update` | 326 thousand | Two updates among a good, a crashing and a slow version, two power cuts, two failures among the four steps that may fail, mixtures that may start: is there a version to go back to, does the helper start a mixture, is a launcher left at the end? |
| `visits` | 1.1 million | Two threads, three opens, two starts, two midnights, failing writes: do the shown days add up? |
| `saved_files` | 43 thousand | Three uploads among six ZIPs, one crash, Windows, a deletion and a new app of the same name: is what was saved kept, does what a ZIP brings arrive, where does `data/` lead, and does it matter how the folder was zipped? |
| `containers` | 3.9 million | Every button and a build worker under Docker, every kind of version, files in use, commands that pass their timeout, containers that exit, one restart of the daemon, one crash of the launcher at any step: is the name free, is the container of what shows as live there, does what is stopped stay down? |
| `uploads` | 1.5 million | Two requests and a worker on one directory, two uploads, three deploys, a full disk or a crash: does a deploy unpack its own ZIP, what can be lost, what can be left behind? |
| `interrupted`, `held_in_docker` | small | two statements of the code that do not hold (section 5) |

**Bounds and why they are enough.** *Ports:* one app whose two roles have
overlapping ranges contends as two apps would; two callers are the two sides of
every race in `allocate`; a range of two ports fills, wraps and is walked to its
end. The theorems cover any number. *Builds:* two deploys are what two workers
can fight over, and with `KEEP_VERSIONS = 1` the older one's ZIP is pruned under it.
*Serial:* three deploys are a live version, a newer one in whatever
state, and a rollback or a third; `KEEP_VERSIONS = 1` makes pruning bite at the
second; two app ids allow a name to be deleted and used again. *Recovers:* four
pids, so that a process can always be started and the bound never stands in for
a deadlock. *Supervisor:* limits of two tell "at the limit" from "on the first",
two apps tell an app from the one behind it. *SelfUpdate:* the second update
can overwrite the backup of the first; a second power cut can hit the recovery
from the first, and a second failure the update after an abandoned one. *Visits:* two midnights put a day out of the window that is
kept. *SavedFiles:* two names tell "the store has this file" from "the store is
empty"; three uploads are a version that seeds, one that seeds again and one
after a deletion; the six ZIPs are a backend alone, both halves in a wrapper
with junk and a link, a page, nothing, no ZIP, and a manifest that asks for a
setting. *Containers:* two deploys are the container that is there and the one
that takes its name; two app ids let the name be used again. *Uploads:* two chunks
make half a ZIP; two uploads with `KEEP_VERSIONS = 1` are one that is kept and
one that goes; a third deploy is a roll back to either. Every bound is a named
constant that guards an action.

`MCUploads` with three uploads in three seconds (`MaxUploads = MaxTime = 3`, no
faults; 17 million states, five minutes) holds too.

**Type invariants.** The runs of `Ports`, `Supervisor`, `Uploads` and `Containers` do
not repeat `TypeOK`, nor `ports` `RegistryIsMatching`: the theorems of section 6 say
it for every instance.

**Deadlock.** `Lifecycle`, `SelfUpdate`, `Visits`, `SavedFiles`, `Containers` and `Uploads` are
checked without the
deadlock check: deploys, updates and time are bounded, and when they are used up
and nobody is busy the system rests. `Ports` and `Supervisor` are checked with it.

**Fairness.** A thread inside `allocate` runs code and is weakly fair
(`Ports`). In `Lifecycle` workers, handlers that have begun, the supervisor and
startup go on (the polling of a new version has a deadline), whatever starts the
launcher starts it again, and a process that was started comes up or exits. A
worker that builds is the exception: the build's timeout is not looked at while
its output stays open, so nothing makes a build end. `DeployEnds` has as its condition
that every build does (`BuildsEnd`), and `DeadIsNoticed` holds whether or not. In `Supervisor` the thread goes on; a pass always ends,
so the lock is always released. In `SelfUpdate` a handler that runs goes on, the
exit timer fires, the helper goes on and a started process comes up or exits.
`Containers` and `Uploads` promise nothing that needs fairness.
Nobody is ever obliged to press a button, to upload, or to fail.

**Conditions in the properties.** `AtMostOneCopy` is stated for behaviours
without a crash: a process whose pid was not yet written when the launcher died
is unknown to the next one. `serial` asks about one thing at a time; section 5
says what overlapping does to its properties. `StoppedIsDown` allows a stopped app
that runs while the deploy that Replace queued for it waits.

`self_update` lets an update begin only when the last one is over, and the page's
address names the port. Everything else that can go wrong is in the run, and the
properties name what they except: an update *cut short* by a file that could not be
written or by the machine (`CutShort`, in `InstallIsWhole`); one that *began over what
did not work* (`overBad`, in all but `RunsWhatIsInstalled` and `GoodUpdateStays`): the second
of two updates, of which the first had been abandoned, cut short or could not be
rolled back; one that was *abandoned* before its hand-over, which leaves the old
version running over the new files (`Abandoned`, in `RunsWhatIsInstalled` and
`BadUploadIsUndone`); a version that answers *too late* (`TooSlow`, in
`RunsWhatIsInstalled`); a *roll back that stopped* (`RollBackFailed`) or a power cut, in
`LauncherComesBack` and `BadUploadIsUndone`.

`DataLeadsToStore` holds outside the moment between removing the link and
removing the tree, and until the first crash. `SameAppHoweverZipped` leaves out contents
that are themselves a single folder: only one wrapper is taken away, so zipped in
another folder they are a different tree. In `Containers` every property but
`NameIsFree` and `TypeOK` is about quiet moments of behaviours in
which no two threads were busy with the app at once, no crash fell into a
button and neither `docker run` nor a button's command passed its timeout (`met`); and nobody needs the daemon while it is away (`OutageAnyTime =
FALSE`): section 5 says what happens otherwise. `ReadsItsOwnUpload` and
`LostOnlyToNewer` make an exception for uploads of one second (`Shared`);
`LostOnlyToNewer` and `NoStrayFiles` for what met a full disk, a crash or a
deletion (`disturbed`), and the clock of the run does not go back.

## 5. Where the code departs from what it says

Each of these was met while modelling. The first two are runs of their own
(`expect: violation`); the others have a configuration that shows them and is
run by hand, or are visible from the model without one.

| What is said | What happens | Shown by |
|---|---|---|
| An interrupted build is "marked failed on the next start, rather than being left as building forever" (`PIPELINE.md:178`) | a crash between the deploy's last status and the app's leaves an app that shows building for ever | `MCLifecycle_interrupted` |
| "this starts the new version rather than merely restarting the old" (`app.py:962`) | under Docker a change of settings restarts the container the row names, and calls the held deploy live | `MCContainers_held` |
| "A stopped app stays stopped" (`supervisor.py:110`) | `restart_all` starts every row it read as live, also one that was stopped since | `MCLifecycle_stop_sticks` |
| "a broken upload cannot take a working dashboard offline" (`README.md:37`) | the previous version is stopped before the new one is started, on the same ports | `MCLifecycle_broken_upload` |
| an app that "dies again straight away" is given up (`config.py:80`) | the start that is being counted clears the counter | `MCLifecycle_gives_up` |
| "Prove it actually serves traffic" (`deployer.py:308`) | with two deploys of one app, one takes the answer of the other for its own | `MCLifecycle_verified` |
| ticking "stop" when replacing "takes it down first" (`app.py:569`, `README.md:43`) | the status is written; under the native runtime nothing is stopped before the deploy comes to it (`app.py:581`) | `MCLifecycle_replaced` |
| a build has a timeout (`config.py:62`) | it is looked at only when the build has closed its output (`native.py:113`, `runtime.py:40`): one that hangs with its output open holds its worker for ever | `BuildsEnd` in `DeployEnds` |
| "never running in a half-configured state" (`README.md:299`) | a setting can be removed between the check and the spawn | `MCLifecycle_half_configured` |
| removing a setting stops the app that needs it (`app.py:923`) | what is declared is what the *last unpacked* ZIP declared, also when that upload failed | `MCLifecycle_setting_lost` |
| "Every port in the configured range is taken" (`ports.py:24`) | also raised when the app was deleted while its port was being sought | `disturbed` in `ExhaustionIsReal` |
| consecutive checks over the limit (`config.py:76`) | strikes of the replaced version are counted on for the new one | `StrikesAreEarned` in `Supervisor`, as the invariant of `MCSupervisor` |
| setting the status first stops the supervisor from restarting the app (`app.py:986`) | not when the pass had read the row before | `MCLifecycle_stop_sticks` |
| "The previous version is running again" (`update_helper.py:179`) | a version that was too slow is not stopped and may be what answers | `MCSelfUpdate_slow` |
| the helper waits for the new version to answer (`README.md:237`) | on port 8080, if the address of the page names none | `GoodUpdateStays` with `PortInUrl = FALSE` |
| "so a bad update can be undone" (`selfupdate.py:197`) | not if a second update begins before the first is over: it backs up the unproven version, and the exit of the first can cut it short | `MCSelfUpdate_twice`, `MCSelfUpdate_overlap` |
| the same | an update that stops at a file it cannot write, or that pip holds up for 15 minutes after all were replaced, ends in an error page: its files stay, no helper looks after them, and the next update backs them up | `MCSelfUpdate_half_applied` |
| what does not answer is rolled back (`selfupdate.py:12`) | not if pip passed its timeout or the helper could not be spawned (`selfupdate.py:226`, `selfupdate.py:253`): a version that does not start stays installed, behind the old one that still runs | `Abandoned` in `BadUploadIsUndone` |
| an open is counted by the app's front server (`visits.py:3`) | not if a deploy started it: it is given no app id | `MCVisits_counted` |
| "written every 30 seconds" (`README.md:456`) | written by the first open half a minute later; the last counts of an evening stay in memory | `MCVisits_held` |
| "never allowed to overwrite what the running app has since collected" (`README.md:341`) | on POSIX the old backend runs on while `attach` looks and then moves, and what it saves in between is overwritten | `MCSavedFiles_seed_race` |
| "Remove any data link before the source directory is wiped" (`appdata.py:119`) | `detach` looks at the root and one folder down; a backend two folders deep keeps its link (harmless as long as removing a tree does not follow links) | `DetachLooksAt` in `SavedFiles` |
| "Deleting an app deletes its data" (`README.md:342`) | `appdata.remove` ignores what it cannot remove, and the next app of that name finds it | `MCSavedFiles_leftovers` |
| the same | a deletion during a deploy: the deploy goes on and attaches the store again | `MCSavedFiles_overlap` |
| one ZIP for each upload: named after the second (`app.py:535`) | two uploads of one name in the same second write into one file; the first deploy unpacks the second's ZIP, or neither can be read | `MCUploads_same_second` |
| "the team's undo button" (`app.py:1012`) | a roll back prunes its own ZIP if newer ones are there, so what is live cannot be rolled back to afterwards | `LiveCanBeRedone` in `Uploads` |
| "pruning the oldest" (`config.py:112`) | newest by name, that is by the local clock: when it is put back, new uploads sort before old ones and are pruned | `LostOnlyToNewer` with `FallsBack = TRUE` |
| a deletion takes what belongs to the app (`app.py:1052`) | the directory goes by the name: a deletion under way takes the ZIP of a new app of that name | `MCUploads_eaten` |
| "unless-stopped" (`runtime.py:97`) | a docker stop that fails is ignored, so an app stopped while the daemon was away comes back with it | `MCContainers_outage` |

Seen without a configuration: between removing the link and the tree (or for
good, after a crash there) the running app's `data/` is a folder of the tree and
what it saves goes with it; pruned ZIPs against "Every upload is retained"
(`README.md:30`, `deployer.py:448`); a deletion that overlaps a deploy, or a
Start that overlaps a restart, leaves a process nobody knows (nothing but the
two passes takes the lock); a power cut kills the helper, and a version that
does not start then stays (`selfupdate.py:12`).

Of the Docker runtime: a version that waits for settings is never started when they arrive,
though its image is built (`app.py:928`, against `README.md:299` "Filling the last
one starts it"); Start does not ask for them; what is set never reaches the
container, which is given `APP_DATA_DIR` only (`runtime.py:70`); a `docker run` that passes
its timeout may leave a container the row is never told of (`RunsTooLate`); a version that
does not answer fails its deploy and goes on running; a deploy that was
interrupted stays "building" (recovery is not run, `app.py:39`); each deploy leaves an image, a
deletion removes the last, and nothing calls `prune_images`; with two build
workers one can remove the container the other has just started, or find the name taken.

## 6. The proofs

`tlapm` on `PortsProofs`, `LifecycleProofs`, `SupervisorProofs`, `SelfUpdateProofs`,
`VisitsProofs`, `SavedFilesProofs`, `UploadsProofs` and `ContainersProofs`. Every
invariant and every action property that a run checks, and both refinements, are
theorems. They hold for every value of the constants that satisfies the named
assumptions, each of which TLC evaluates in every run of its module:

* `RangeAssumption` (`Ports`): the ranges are functions from roles to naturals; they
  may overlap or be empty.
* `AppsAssumption` and `LimitsAssumption` (`Supervisor`): apps are numbers, whose order
  is that of the list; limits are naturals, and a restart takes at least one strike.
* `ConstantsOK` (`Lifecycle`, `Uploads`, `Containers`): bounds are naturals, the clock
  shows some time, no thread is two things at once.
* `VersionsAssumption` and `BoundsAssumption` (`SelfUpdate`): the installed version is one
  that starts, and there are files every version has (`stage` rejects a ZIP without them).
* `VisitsAssumption` (`Visits`): a finite set of threads, and lengths that are not zero.
* `ProjectConstants`, `ManifestsAssumption` and `ZipsAssumption` (`Project`, `SavedFiles`): a
  ZIP is a set of well-formed members and a manifest names folders.

Some theorems have a hypothesis beside these. It is part of the statement
(`ASSUME ... PROVE`), and it is what the run of the same property has in its
configuration. Without it TLC finds a counterexample: those are the rows of
section 5, and the one under *One lock* below.

**Ports.**

* `TypeCorrect`: `Spec => []TypeOK`. `TypeOK` alone is not inductive: a call that
  walks computes its candidate modulo the length of the range, so `Walking` (a
  call past its lookup has a range that is not empty) is carried along, and
  `CandidateInRange` shows that the walk stays in the range.
* `Matching`: `Spec => []RegistryIsMatching`. Inductive with `TypeOK`, from what
  the INSERT checks and what the cascade removes.
* `AnswersStay`: `Spec => []AnswerIsStable`. Needs the history of disturbances:
  a row goes only in steps that mark the calls of its app.
* `Refinement`: `Spec => ImplementsRegistry`. Every step of `allocate` is either
  silent (`SearchIsSilent`) or one of the abstract answers, refusals and releases;
  each has a lemma of its own.
* `NothingSkipped`: `Spec => []ExhaustionIsReal`. The invariant `Thorough`: after `i`
  steps a call has met the ports of the first `i` places of its walk, or its app
  was disturbed. That `Span` steps are all ports of the range is arithmetic modulo
  `Span` (`WalkMeetsAll`).

**Deploy records.** For any number of workers, requests, uploads and crashes, with
no other condition:

* `TypeCorrect`: with it, that nobody is restarted beyond the limit (`Tries`).
* `Owners`: `Spec => []UnfinishedHasOwner`. The property says nothing of the places a
  thread is at, so it is not inductive. `Owned` has five parts: what the record of
  a worker may say at each place, and that no two workers have one record
  (`InHand`, by `Word`), that the queue holds a record once (`Queued`), what a deletion
  knows (`Deleting`), what startup has resolved before anybody else runs
  (`Starting`), and that each unfinished record is in the queue or in hand (`Kept`).
* `KeepsPromise`: `Spec => ImplementsRecord`. With `Owned`, a step of each kind is a step
  of the abstract record or a stutter (`StepsOfRecord`). It is where a worker must
  know that the record it ends is still its own, also after a deletion.

**One thing at a time.** Under `Serial` (nobody begins anything while somebody is
busy) and, but for the first, `MaxCrashes = 0`: `OneCopy` (`AtMostOneCopy`), `NoneForgotten`
(`NothingForgotten`), `StoppedDown` (`StoppedIsDown`, Replace included), `ServesNewest` (`NewestServes`),
`Configures` (`NeverHalfConfigured`) and `LiveOwn` (`LiveIsItsOwn`). All six follow from one
invariant, `Calm`: only one thread is at work, and what it knows at its place
(`Knows`: the app is the one it read, the pid it remembers is the only process or
is gone, the settings were looked at, its deploy is the newest one begun) is
true; when nobody is at work the row, the process, the tree and the newest record
agree. Each button has a lemma that carries `Calm` over each of its steps.

**One lock.** `OneCopyUnderLock` states `AtMostOneCopy` without `Serial`, under the condition
of the run `recovers`: one deploy, and besides it health checks and "Restart all"
from any number of threads at any moment (`OnePass`), with apps that die or grow,
pids that are used again, any ZIP, both systems, and crashes of the launcher. It
is what the lock in `supervisor.py` is for. The invariant, `Locked`, holds until the
first crash: a thread that passes has the lock, so there is one, and its copy of
the row is the row (`IfPassing`); a worker that has not finished has the app for
itself, since nobody passes over an app that is not live (`IfMaking`); nothing runs
but what the row names, or what the thread that is about to name it has started
(`Copies`). A second deploy breaks it, since a worker does not take the lock: with
`MaxDeploys = 2` in `MCLifecycle_recovers.cfg` TLC finds a worker and a health check
that have both stopped the app and both start it.

**Supervisor.**

* `TypeCorrect`: includes that no retry is counted beyond the limit.
* `StrikesEarned`: `Spec => []UnreplacedStrikesAreEarned`, and `GivenUpLast`: `Spec =>
  GivenUpAfterRetries`. Both follow from the invariant `Counts`: for an app that
  nobody replaced, the retries counted are exactly the launches in a row that
  did not start it, and the strikes are at most the checks that found it heavy.

**Self-update.** `TypeCorrect` holds without a condition. `WorkingCopy` (`WorkingCopyKept`),
`Whole` (`InstallIsWhole`), `GoodStays` (`GoodUpdateStays`), `RunsInstalled` (`RunsWhatIsInstalled`)
and `StartsWhole` (`HelperStartsWhole`) hold under `Orderly`: one update at a time, and a
port in the page's address. Section 5 says what happens without either. Any
of the four steps may fail, any number of times, the machine may go down at
any step, and a mixture may start; what that excepts is said in the properties
themselves (section 4). One invariant, `Inv`, carries all five.
Its core is `OneTreeWorks`: while the files of one tree are being written
the other tree is a whole version that works, and at each place of the handler
and of the helper it says which of the two that is, and which files of the other
are already equal to it. `OneAtATime` and `WhoRuns` say who is at work and who runs
meanwhile, `DiskIsNew` what the helper has on disk when it starts the new version.
What the properties except runs through it as disjuncts: files that did not work when the update
began (`overBad`), under which nothing is known of the two trees; an update cut short
(`CutShort`), of which only the backup is known; and an update that was abandoned or too
slow, after which who runs need not be who is installed (`Abandoned`, `TooSlow`). That a tree is a copy of one version at most (`CopyOfOne`) is what the
assumption about files every version has is for.

**Visits.** `TypeCorrect` (`TypeOK`, so that no count exceeds the opens there were) and
`AddsUp` (`ShownDaysAddUp`), without a condition. The property is about shown days only
and is not inductive. `Accounts` adds that for every day the places together hold
at most the opens of that day (`Balanced`: the clean-up takes days that are not
shown, and time only moves the window forward), and what a thread has in hand at
each place (`InHand`). A step of one thread moves opens from one place to another
(`OneThreadMoves`), a new front server drops what the old one held
(`ReplacedAccounts`), and whatever happens elsewhere leaves the threads alone
(`ThreadsStay`). What is in flight is a sum over the threads, and the library has
no theorems on the folds of the community modules: `SumUnfolded` to `SumOfZeros` prove
from the definition that such a sum exists, is unique (by a least set of threads
for which it would not be, since an induction over sets cannot be instantiated
here), and changes by what one term changes.

**Saved files.** For any ZIPs, any names, any number of uploads and crashes:

* `WrittenStays`: `Spec => []WrittenIsKept`, on Windows, if removing a tree does not
  follow links and no deletion overlaps a deploy (`Conditions`). Not inductive:
  the move of a file could hit what the app saved after the look. The invariant
  `Saved` adds that from the clearing of the tree to the build nothing runs that
  could save (`Silent`: Windows cannot clear the folder of a running backend, so
  the deploy stops it), hence that the place is still free (`PlaceIsFree`), and
  that a deletion has the row gone and no deploy beside it (`Apart`). On POSIX
  `Silent` is what fails.
* `BroughtArrives`: `Spec => []SeedsArrive`, if no deletion overlaps a deploy, also on
  POSIX, and also if removing a tree follows links. The property is about a place
  after `attach`, the files of the ZIP are moved before it, one by one. The invariant `Arriving`
  follows them: no deletion works beside the deploy (`Unmixed`), and each data file of the ZIP
  is still in the tree or has got to the store (`Carried`).
* `TypeCorrect`: `Spec => []TypeOK`. A tree is a set of files from the alphabet of the
  ZIPs, also after folders were unwrapped and files moved out of it.
* `SameApp`: `Spec => []SameAppHoweverZipped`. A theorem about `Project` for any ZIP: when
  everything is in one folder, with or without what a Mac adds, unwrapping gives
  the same files, so the same halves are found. It holds of every ZIP an upload
  can have unpacked, hence always.
* `DataLeads`: `Spec => []DataLeadsToStore`, if no deletion overlaps a deploy and for no
  ZIP the alphabet decides where the backend is (`Alike`). The invariant `Leading`
  says from which ZIP the tree was made and that only files of `data/` have gone
  from it (`Making`), and that a tree that is ready has its link where its backend
  would be found (`LinkIsThere`). The lemma under it is `BackendStays`: taking data
  files out of a tree does not change where detection finds the backend, so that
  the launch, which detects again, looks where `attach` linked.

**Uploads.**

* `TypeCorrect`: `Spec => []TypeOK`, by groups of variables.
* `OwnUpload`: `Spec => []ReadsItsOwnUpload`, also when the clock falls back. The
  property is far from inductive. `DiskInv` says who writes into which inode: an
  inode is of the second its name says, a request streams into an inode of its
  own upload's second, and no two stream one upload. Then what has arrived
  (`Sent`: nobody streams it any more and, if it has its second to itself, all of
  it is there) is left alone by every step: `Calm` covers the steps that write
  into nothing, `OpenKeepsDisk` and `WriteKeepsDisk` the two that do not.
  `RecordsInv` adds that records, and requests on the way to one, are of uploads
  that have arrived.
* `NothingStray`: `Spec => []NoStrayFiles`, without a condition. `Accounted`: every file is
  in somebody's hands, listed, or disturbed. That is inductive with what makes an
  upload disturbed (`GhostInv`: a deletion disturbs what is in flight, and a request
  that is refused lost its row to one).
* `OnlyNewerCost`: `Spec => []LostOnlyToNewer`, unless the clock is put back (`~FallsBack`),
  for every `KEEP_VERSIONS`. `InOrder` says that stamps grow with uploads, so what a
  listing leaves behind has `KEEP_VERSIONS` names before it, which are as many later
  uploads (a pigeonhole argument on the cardinality of the listing); a worker that
  listed earlier only has older names in hand (`ListsOutdated`).

**Containers.**

* `TypeCorrect`: `Spec => []TypeOK`, which is inductive only with the fact that
  whoever builds has a deploy to build.
* `NameFree`: `Spec => []NameIsFree`, if there is one build worker and nobody needs the daemon
  while it is away. No docker command but `docker run` takes the name
  (`CommandsLeaveNameFree`, `OthersLeaveNameFree`), and the worker comes to it
  from the removal of what had the name. With two workers, or without
  the second condition, the statement is false.
* `OnlyCrashesForget` (`OnlyACrashForgets`), `LiveHasIts` (`LiveHasContainer`) and `StoppedIsLeft`
  (`StoppedStaysDown`), if nobody needs the daemon while it is away. The invariant is
  `Undisturbed`: two threads have met or a command was lost (`met`), or `Calm` holds, which says what the one
  thread at work knows at each of its places (`Builds`, `Presses`: whose the container
  is, what the row says of it, whether it may run) and that at rest row and
  container agree.

**Only model-checked:** every liveness property (`CallReturns`, `EveryAppHasItsTurn`,
`DeployEnds`, `DeadIsNoticed`, `LauncherComesBack` and `BadUploadIsUndone`), since liveness
under fairness is out of the prover's reach.

## 7. Limits

* Of what section 1 asks, some is one definition that can be read and no property of
  a run: the time of the last open keeps the later of two (`WriteLast`), a pid
  that somebody else wears is told by its marker (`Ours`), and what exits under
  Docker comes back by Docker's restart policy (`Revived`).
* Overlapping updates are in no run: `self_update` and the theorems let one begin when
  the last is over (`Overlap = FALSE`), which the code does not see to. With them
  most of what is promised fails (section 5). Nor is a deletion that overlaps a deploy in
  `saved_files`, nor buttons pressed while the daemon is away in `containers`.
* That a deleted app's files are gone is no property of a run: the code ignores
  what it cannot remove.
* One app in `Lifecycle` and in `Containers`; what apps do to each other is in
  `Ports` and `Supervisor`.
* `Lifecycle` gives each upload a ZIP of its own that is there at once; chunks,
  names and seconds are in `Uploads`, which knows of a deploy only what it does
  with its ZIP.
* Of failing writes: files that are open on Windows (`Lifecycle`, `SavedFiles`),
  a full disk during an upload (`Uploads`), files that cannot be copied
  (`SelfUpdate`). An unreadable launch record is not modelled. The exit code of pip
  is ignored by the code, and neither it nor the environment is rolled back.
* In `Containers` a docker command that passes its timeout has its effect at once or
  not at all, not later; `docker inspect` passing it is left out.
* `Containers` has the recipe that `imagegen.py` writes only as what its
  `start.sh` does when a half of the app ends. Container logs, limits and the
  bind mount of the data directory are left out.
* Not modelled at all: pages, charts, pictures, metrics (but for the memory
  limit), the login, installation scripts, and group membership (which is one
  form, one table and a filter; `config.py:130` says an app keeps a group that
  is dropped from the list, and the next use of its form takes it away,
  `app.py:168`). They keep no state that the modelled parts decide on.
* `Lifecycle` takes the outcome of unpacking and detection from the kind of the
  upload; `SavedFiles` computes it. The start command that is guessed, the
  front-end tool and the name that is proposed are left out.
* A link that cannot be unhooked, and the rotation and tailing of log files
  (`files.py`), are not modelled.
