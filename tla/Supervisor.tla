----------------------------- MODULE Supervisor -----------------------------
(***************************************************************************)
(* How the supervisor tends many apps (launcher/supervisor.py): the pass   *)
(* of check_once and the batch of restart_all, both under one lock, and    *)
(* the counters that decide when an app is restarted and when it is given  *)
(* up.  Lifecycle has one app and everything that happens to it; here a    *)
(* launch is one step that starts the app, refuses or raises, and what     *)
(* matters is what becomes of the other apps and of the counters.          *)
(***************************************************************************)
EXTENDS Integers

CONSTANTS Apps,         \* in the order of list_apps: a set of numbers
          RESTARTS_BEFORE_GIVING_UP,
          MEMORY_STRIKES_BEFORE_RESTART,
          MaxDeploys    \* bound: new versions of each app during a behaviour

ASSUME AppsAssumption == Apps \subseteq Nat
ASSUME LimitsAssumption == /\ RESTARTS_BEFORE_GIVING_UP \in Nat
                           /\ MEMORY_STRIKES_BEFORE_RESTART \in Nat \ {0}
                           /\ MaxDeploys \in Nat

VARIABLES
    status,    \* apps.status of each app
    running,   \* apps whose processes run
    restarts,  \* _restarts, 0 for an app that has no entry
    strikes,   \* _strikes, 0 for an app that has no entry
    doing,     \* who holds the lock: "nothing", "check" or "restart_all"
    todo,      \* the rows read at the beginning that are still to be visited
    deploys,   \* how many new versions of each app have gone live
    heavy,     \* history: checks that found this version over its limit in a row
    lost       \* history: launches in a row that did not start this version

vars == <<status, running, restarts, strikes, doing, todo, deploys, heavy, lost>>

Statuses == {"live", "stopped", "failed", "needs_setup"}
Live     == {a \in Apps : status[a] = "live"}

Init == /\ status \in [Apps -> {"live", "stopped"}]
        /\ running = Live
        /\ restarts = [a \in Apps |-> 0]
        /\ strikes = [a \in Apps |-> 0]
        /\ doing = "nothing"
        /\ todo = {}
        /\ deploys = [a \in Apps |-> 0]
        /\ heavy = [a \in Apps |-> 0]
        /\ lost = [a \in Apps |-> 0]

-----------------------------------------------------------------------------
(* launch                                                                   *)

Set(f, a, value) == [f EXCEPT ![a] = value]

\* It started: live, and both counters forget the app.
Started(a) ==
    /\ status' = Set(status, a, "live")
    /\ running' = running \cup {a}
    /\ restarts' = Set(restarts, a, 0)
    /\ strikes' = Set(strikes, a, 0)
    /\ heavy' = Set(heavy, a, 0)
    /\ lost' = Set(lost, a, 0)

\* It was refused before anything was stopped: no files, or settings missing.
Refused(a) ==
    /\ \E s \in {"failed", "needs_setup"} : status' = Set(status, a, s)
    /\ UNCHANGED <<running, strikes, heavy>>

\* It raised after the old processes were stopped; whoever called launch says
\* what the app shows then.
Raised(a, shown) ==
    /\ status' = Set(status, a, shown)
    /\ running' = running \ {a}
    /\ UNCHANGED <<strikes, heavy>>

-----------------------------------------------------------------------------
(* check_once: one pass under the lock, over the rows as they were read     *)

Begin(job) ==
    /\ doing = "nothing"
    /\ doing' = job
    /\ todo' = Live
    /\ UNCHANGED <<status, running, restarts, strikes, deploys, heavy, lost>>

BeginCheck == Begin("check")

\* The next row of the job.
IsTurn(job, a) == /\ doing = job
                  /\ a \in todo
                  /\ \A b \in todo : a <= b

Visited(a) == todo' = todo \ {a} /\ UNCHANGED <<doing, deploys>>

\* An exception leaves check_once, and _loop drops the rest of the pass.
Abandoned == todo' = {} /\ UNCHANGED <<doing, deploys>>

Attempts(a) == restarts[a] + 1

\* A launch that starts the app again.
Revive(a) ==
    /\ IsTurn("check", a)
    /\ a \notin running
    /\ Attempts(a) <= RESTARTS_BEFORE_GIVING_UP
    /\ Started(a)
    /\ Visited(a)

ReviveRefused(a) ==
    /\ IsTurn("check", a)
    /\ a \notin running
    /\ Attempts(a) <= RESTARTS_BEFORE_GIVING_UP
    /\ Refused(a)
    /\ restarts' = Set(restarts, a, Attempts(a))
    /\ lost' = Set(lost, a, lost[a] + 1)
    /\ Visited(a)

\* Mutant: the attempt is counted when launch has come back.
ReviveUncounted(a) ==
    /\ IsTurn("check", a)
    /\ a \notin running
    /\ Attempts(a) <= RESTARTS_BEFORE_GIVING_UP
    /\ Raised(a, status[a])
    /\ UNCHANGED <<restarts, lost>>
    /\ Abandoned

ReviveRaises(a) ==
    /\ IsTurn("check", a)
    /\ a \notin running
    /\ Attempts(a) <= RESTARTS_BEFORE_GIVING_UP
    /\ Raised(a, status[a])
    /\ restarts' = Set(restarts, a, Attempts(a))
    /\ lost' = Set(lost, a, lost[a] + 1)
    /\ Abandoned

\* Mutant: the last of the attempts is not made.
GiveUpEarly(a) ==
    /\ IsTurn("check", a)
    /\ a \notin running
    /\ Attempts(a) >= RESTARTS_BEFORE_GIVING_UP
    /\ status' = Set(status, a, "failed")
    /\ restarts' = Set(restarts, a, 0)
    /\ lost' = Set(lost, a, 0)
    /\ Visited(a)
    /\ UNCHANGED <<running, strikes, heavy>>

\* Tried often enough: stop what is left of it and say that it failed.
GiveUp(a) ==
    /\ IsTurn("check", a)
    /\ a \notin running
    /\ Attempts(a) > RESTARTS_BEFORE_GIVING_UP
    /\ status' = Set(status, a, "failed")
    /\ restarts' = Set(restarts, a, 0)
    /\ lost' = Set(lost, a, 0)
    /\ Visited(a)
    /\ UNCHANGED <<running, strikes, heavy>>

\* Mutant: a check within the limit leaves the strikes as they are.
KeepStrikes(a) ==
    /\ IsTurn("check", a)
    /\ a \in running
    /\ restarts' = Set(restarts, a, 0)
    /\ heavy' = Set(heavy, a, 0)
    /\ lost' = Set(lost, a, 0)
    /\ Visited(a)
    /\ UNCHANGED <<status, running, strikes>>

\* It is up and within its memory limit.
WithinLimit(a) ==
    /\ IsTurn("check", a)
    /\ a \in running
    /\ restarts' = Set(restarts, a, 0)
    /\ strikes' = Set(strikes, a, 0)
    /\ heavy' = Set(heavy, a, 0)
    /\ lost' = Set(lost, a, 0)
    /\ Visited(a)
    /\ UNCHANGED <<status, running>>

\* It is up and over the limit, but not for long enough.
Strike(a) ==
    /\ IsTurn("check", a)
    /\ a \in running
    /\ strikes[a] + 1 < MEMORY_STRIKES_BEFORE_RESTART
    /\ restarts' = Set(restarts, a, 0)
    /\ strikes' = Set(strikes, a, strikes[a] + 1)
    /\ heavy' = Set(heavy, a, heavy[a] + 1)
    /\ lost' = Set(lost, a, 0)
    /\ Visited(a)
    /\ UNCHANGED <<status, running>>

\* The last strike: launch stops it and starts it again.
OverLimit(a) == /\ IsTurn("check", a)
                /\ a \in running
                /\ strikes[a] + 1 >= MEMORY_STRIKES_BEFORE_RESTART

Bounce(a) == OverLimit(a) /\ Started(a) /\ Visited(a)

\* The counters as they are when a launch for memory does not succeed.
LastStrike(a) == /\ restarts' = Set(restarts, a, 0)
                 /\ strikes' = Set(strikes, a, strikes[a] + 1)
                 /\ heavy' = Set(heavy, a, heavy[a] + 1)
                 /\ lost' = Set(lost, a, 0)

BounceRefused(a) ==
    /\ OverLimit(a)
    /\ \E s \in {"failed", "needs_setup"} : status' = Set(status, a, s)
    /\ LastStrike(a)
    /\ Visited(a)
    /\ UNCHANGED running

BounceRaises(a) ==
    /\ OverLimit(a)
    /\ running' = running \ {a}
    /\ LastStrike(a)
    /\ Abandoned
    /\ UNCHANGED status

Check(a) == \/ Revive(a) \/ ReviveRefused(a) \/ ReviveRaises(a) \/ GiveUp(a)
            \/ WithinLimit(a) \/ Strike(a)
            \/ Bounce(a) \/ BounceRefused(a) \/ BounceRaises(a)

-----------------------------------------------------------------------------
(* restart_all: every live app in turn, whatever becomes of each            *)

BeginRestartAll == Begin("restart_all")

Restart(a) == IsTurn("restart_all", a) /\ Started(a) /\ Visited(a)

RestartRefused(a) ==
    /\ IsTurn("restart_all", a)
    /\ Refused(a)
    /\ Visited(a)
    /\ UNCHANGED <<restarts, lost>>

\* One app that raises is marked, and the batch goes on.
RestartRaises(a) ==
    /\ IsTurn("restart_all", a)
    /\ Raised(a, "failed")
    /\ Visited(a)
    /\ UNCHANGED <<restarts, lost>>

RestartAll(a) == Restart(a) \/ RestartRefused(a) \/ RestartRaises(a)

\* Every row has been visited: the lock is released.
Finish ==
    /\ doing # "nothing"
    /\ todo = {}
    /\ doing' = "nothing"
    /\ UNCHANGED <<status, running, restarts, strikes, todo, deploys, heavy, lost>>

-----------------------------------------------------------------------------
(* What others do to an app meanwhile: none of them takes the lock          *)

\* stop_app
Stop(a) ==
    /\ status' = Set(status, a, "stopped")
    /\ running' = running \ {a}
    /\ UNCHANGED <<restarts, strikes, doing, todo, deploys, heavy, lost>>

\* run_deploy puts a new version live; it does not know the counters.
Deploy(a) ==
    /\ deploys[a] < MaxDeploys
    /\ deploys' = Set(deploys, a, deploys[a] + 1)
    /\ status' = Set(status, a, "live")
    /\ running' = running \cup {a}
    /\ heavy' = Set(heavy, a, 0)
    /\ lost' = Set(lost, a, 0)
    /\ UNCHANGED <<restarts, strikes, doing, todo>>

\* A running app dies.
Die(a) ==
    /\ a \in running
    /\ running' = running \ {a}
    /\ UNCHANGED <<status, restarts, strikes, doing, todo, deploys, heavy, lost>>

-----------------------------------------------------------------------------
Supervise == BeginCheck \/ (\E a \in Apps : Check(a) \/ RestartAll(a)) \/ Finish

Next == \/ Supervise
        \/ BeginRestartAll
        \/ \E a \in Apps : Stop(a) \/ Deploy(a) \/ Die(a)

Spec == Init /\ [][Next]_vars

\* The supervisor's thread goes on, and no pass waits for ever in the lock.
FairSpec == Spec /\ WF_vars(Supervise)

-----------------------------------------------------------------------------
(* Properties *)

\* Type invariant; the retries that are counted never exceed the limit.
TypeOK == /\ status \in [Apps -> Statuses]
          /\ running \subseteq Apps
          /\ restarts \in [Apps -> 0 .. RESTARTS_BEFORE_GIVING_UP]
          /\ strikes \in [Apps -> Nat]
          /\ doing \in {"nothing", "check", "restart_all"}
          /\ todo \subseteq Apps
          /\ deploys \in [Apps -> 0 .. MaxDeploys]
          /\ heavy \in [Apps -> Nat]
          /\ lost \in [Apps -> Nat]

Unreplaced == {a \in Apps : deploys[a] = 0}

\* An app that nobody replaced is given up only after that many launches in a
\* row have failed, with no healthy check and no start among them, whatever
\* stops it, restarts it or ends the passes early (config.py:80).
GivenUpTooEarly(a) ==
    /\ doing = "check" /\ a \in todo \ (todo' \cup running)
    /\ status[a] # "failed" /\ status'[a] = "failed" /\ lost'[a] = 0
    /\ ~(lost[a] >= RESTARTS_BEFORE_GIVING_UP)

GivenUpAfterRetries == [][\A a \in Unreplaced : ~GivenUpTooEarly(a)]_vars

\* Every strike counts a check that found the running version over its limit:
\* "An app has to exceed its memory limit on this many consecutive checks"
\* (config.py:76), and a version that has just replaced another on none.
StrikesAreEarned == \A a \in Apps : strikes[a] <= heavy[a]

\* That much holds for an app that nobody replaced.
UnreplacedStrikesAreEarned == \A a \in Unreplaced : strikes[a] <= heavy[a]

\* One app whose launch keeps raising ends every pass before the apps behind it
\* are looked at, but only until it is given up, and then they have their turn.
EveryAppHasItsTurn ==
    \A a \in Apps :
        status[a] = "live" /\ a \notin running ~> status[a] # "live" \/ a \in running
=============================================================================
