------------------------------- MODULE Visits -------------------------------
(***************************************************************************)
(* Counting how often one app is opened: the Counter in its front server   *)
(* (launcher/visits.py, the CountOpens middleware of launcher/appserver.py *)
(* and who gives that server a counter), the tallies in the database       *)
(* (record_opens and prune_visits of launcher/db.py) and the daily         *)
(* clean-up (prune_old_usage of launcher/supervisor.py).                   *)
(*                                                                         *)
(* An open is taken in memory under a lock, and the thread that finds the  *)
(* last write half a minute old writes what there is: per day, the tally   *)
(* and then the time of the last open, each committed on its own.          *)
(* Which requests are opens is left out, and so is the share that came     *)
(* from the dashboard, a second number that moves with the first.          *)
(***************************************************************************)
EXTENDS Integers, FiniteSetsExt

CONSTANTS Threads,      \* threads handling requests; the server runs one
          FlushAfter,   \* FLUSH_SECONDS, in ticks
          DayLength,    \* ticks in a day
          KeepDays,     \* USAGE_DAYS
          MayFail,      \* may the database refuse a write?
          MaxTime,      \* bound: ticks
          MaxOpens,     \* bound: opens
          MaxStarts     \* bound: times the front server starts

ASSUME VisitsAssumption ==
    /\ Threads # {} /\ IsFiniteSet(Threads)
    /\ {FlushAfter, DayLength, KeepDays, MaxTime} \subseteq Nat \ {0}
    /\ {MaxOpens, MaxStarts} \subseteq Nat
    /\ MayFail \in BOOLEAN

VARIABLES
    time,
    front,      \* the front server: "none", "deaf" (no --app-id) or "counting"
    starts,
    counter,    \* Counter: _pending, _last_flush and _last_open
    thread,     \* each thread: where it is in record() and flush()
    tally,      \* app_visits: opens of each day
    lastOpenAt, \* apps.last_open_at
    lastPrune,  \* _last_prune of the launcher
    opened, unheard, lost   \* ghosts: opens there were, that no counter saw, that were dropped

vars == <<time, front, starts, counter, thread, tally, lastOpenAt, lastPrune,
          opened, unheard, lost>>
ghosts == <<opened, unheard, lost>>

Day(t)   == t \div DayLength
Days     == 0 .. Day(MaxTime)
NoOpens  == [d \in Days |-> 0]
One(d)     == [e \in Days |-> IF e = d THEN 1 ELSE 0]
Larger(a, b) == IF a >= b THEN a ELSE b

NewCounter == [pending |-> NoOpens, lastFlush |-> time, lastOpen |-> 0]
Idle  == [at |-> "idle", now |-> 0, batch |-> NoOpens, when |-> 0]

\* Opens some thread has taken and not yet written, by day.
InFlight(d) == SumFunction([t \in Threads |-> thread[t].batch[d]])

Init == /\ time = 1
        /\ front = "none"
        /\ starts = 0
        /\ counter = NewCounter
        /\ thread = [t \in Threads |-> Idle]
        /\ tally = NoOpens
        /\ lastOpenAt = 0
        /\ lastPrune = -DayLength
        /\ opened = NoOpens /\ unheard = NoOpens /\ lost = NoOpens

Tick == /\ time < MaxTime
        /\ time' = time + 1
        /\ UNCHANGED <<front, starts, counter, thread, tally, lastOpenAt, lastPrune, ghosts>>

-----------------------------------------------------------------------------
(* The front server comes and goes                                          *)

\* What the process held in memory goes with it.
Replaced(with) ==
    /\ front' = with
    /\ counter' = NewCounter
    /\ thread' = [t \in Threads |-> Idle]
    /\ lost' = [d \in Days |-> lost[d] + counter.pending[d] + InFlight(d)]
    /\ UNCHANGED <<time, tally, lastOpenAt, lastPrune, opened, unheard>>

\* supervisor.launch passes the app's id.
Launched == /\ starts < MaxStarts
            /\ starts' = starts + 1
            /\ Replaced("counting")

\* deployer.run_deploy does not.
Deployed == /\ starts < MaxStarts
            /\ starts' = starts + 1
            /\ Replaced("deaf")

Stopped == /\ front # "none"
           /\ UNCHANGED starts
           /\ Replaced("none")

-----------------------------------------------------------------------------
(* Somebody opens the app                                                   *)

AnOpen == /\ SumFunction(opened) < MaxOpens
          /\ opened' = [opened EXCEPT ![Day(time)] = @ + 1]

\* No counter: the page is served and nothing is kept.
Unheard == /\ front = "deaf"
           /\ AnOpen
           /\ unheard' = [unheard EXCEPT ![Day(time)] = @ + 1]
           /\ UNCHANGED <<time, front, starts, counter, thread, tally, lastOpenAt,
                          lastPrune, lost>>

\* record() reads the clock; the open is not in the tally yet.
Arrive(t) ==
    /\ front = "counting"
    /\ thread[t].at = "idle"
    /\ AnOpen
    /\ thread' = [thread EXCEPT ![t] = [at |-> "arrived", now |-> time,
                                        batch |-> One(Day(time)), when |-> 0]]
    /\ UNCHANGED <<time, front, starts, counter, tally, lastOpenAt, lastPrune,
                   unheard, lost>>

\* Mutant: counted on the day the lock was free.
RecordToday(t) ==
    /\ thread[t].at = "arrived"
    /\ counter' = [counter EXCEPT
           !.pending[Day(time)] = @ + 1,
           !.lastOpen = thread[t].now]
    /\ thread' = [thread EXCEPT ![t].at = "recorded", ![t].batch = NoOpens]
    /\ UNCHANGED <<time, front, starts, tally, lastOpenAt, lastPrune, ghosts>>

\* Under the lock.
Record(t) ==
    /\ thread[t].at = "arrived"
    /\ counter' = [counter EXCEPT
           !.pending[Day(thread[t].now)] = @ + 1,
           !.lastOpen = thread[t].now]
    /\ thread' = [thread EXCEPT ![t].at = "recorded", ![t].batch = NoOpens]
    /\ UNCHANGED <<time, front, starts, tally, lastOpenAt, lastPrune, ghosts>>

\* _last_flush is read with the lock released.
Decide(t) ==
    /\ thread[t].at = "recorded"
    /\ thread' = IF thread[t].now - counter.lastFlush >= FlushAfter
                 THEN [thread EXCEPT ![t].at = "due"]
                 ELSE [thread EXCEPT ![t] = Idle]
    /\ UNCHANGED <<time, front, starts, counter, tally, lastOpenAt, lastPrune, ghosts>>

Writing(batch) == IF batch = NoOpens THEN "idle" ELSE "writing"

\* flush() takes everything, under the lock.
Take(t) ==
    /\ thread[t].at = "due"
    /\ counter' = [counter EXCEPT !.pending = NoOpens, !.lastFlush = time]
    /\ thread' = [thread EXCEPT ![t] =
           [at |-> Writing(counter.pending), now |-> 0, batch |-> counter.pending,
            when |-> counter.lastOpen]]
    /\ UNCHANGED <<time, front, starts, tally, lastOpenAt, lastPrune, ghosts>>

\* The days of a batch are written in order.
NextDay(t) == Min({d \in Days : thread[t].batch[d] > 0})

\* record_opens, first statement: added to the day's row.
WriteTally(t) ==
    /\ thread[t].at = "writing"
    /\ LET d == NextDay(t) IN
       /\ tally' = [tally EXCEPT ![d] = @ + thread[t].batch[d]]
       /\ thread' = [thread EXCEPT ![t].at = "tallied", ![t].batch[d] = 0]
    /\ UNCHANGED <<time, front, starts, counter, lastOpenAt, lastPrune, opened, unheard, lost>>

\* The first statement fails: the exception is swallowed and the day is gone.
TallyFails(t) ==
    /\ MayFail
    /\ thread[t].at = "writing"
    /\ LET d == NextDay(t)
           rest == [thread[t].batch EXCEPT ![d] = 0] IN
       /\ lost' = [lost EXCEPT ![d] = @ + thread[t].batch[d]]
       /\ thread' = [thread EXCEPT ![t].at = Writing(rest), ![t].batch = rest]
    /\ UNCHANGED <<time, front, starts, counter, tally, lastOpenAt, lastPrune,
                   opened, unheard>>

\* Second statement: the later of the two times is kept.
WriteLast(t) ==
    /\ thread[t].at = "tallied"
    /\ lastOpenAt' = Larger(lastOpenAt, thread[t].when)
    /\ thread' = [thread EXCEPT ![t].at = Writing(thread[t].batch)]
    /\ UNCHANGED <<time, front, starts, counter, tally, lastPrune, ghosts>>

LastFails(t) ==
    /\ MayFail
    /\ thread[t].at = "tallied"
    /\ thread' = [thread EXCEPT ![t].at = Writing(thread[t].batch)]
    /\ UNCHANGED <<time, front, starts, counter, tally, lastOpenAt, lastPrune, ghosts>>

-----------------------------------------------------------------------------
(* The supervisor's daily clean-up                                          *)

\* Mutant: the next clean-up is counted from the coming midnight.
PruneFromMidnight ==
    /\ time - lastPrune >= DayLength
    /\ lastPrune' = (Day(time) + 1) * DayLength
    /\ tally' = [d \in Days |-> IF d < Day(time) - KeepDays THEN 0 ELSE tally[d]]
    /\ UNCHANGED <<time, front, starts, counter, thread, lastOpenAt, ghosts>>

\* The day is used up whether the DELETE worked or not.
Prune == /\ time - lastPrune >= DayLength
         /\ lastPrune' = time
         /\ \/ tally' = [d \in Days |-> IF d < Day(time) - KeepDays THEN 0 ELSE tally[d]]
            \/ MayFail /\ UNCHANGED tally
         /\ UNCHANGED <<time, front, starts, counter, thread, lastOpenAt, ghosts>>

\* The launcher restarted, and _last_prune with it.
LauncherRestarts == /\ lastPrune # -DayLength
                    /\ lastPrune' = -DayLength
                    /\ UNCHANGED <<time, front, starts, counter, thread, tally, lastOpenAt, ghosts>>

Step(t) == Record(t) \/ Decide(t) \/ Take(t) \/ WriteTally(t) \/ TallyFails(t)
           \/ WriteLast(t) \/ LastFails(t)

Next == \/ Tick \/ Launched \/ Deployed \/ Stopped \/ Unheard
        \/ Prune \/ LauncherRestarts
        \/ \E t \in Threads : Arrive(t) \/ Step(t)

Spec == Init /\ [][Next]_vars

\* Time passes and a thread goes on; nobody has to open the app.
FairSpec == Spec /\ WF_vars(Tick) /\ \A t \in Threads : WF_vars(Step(t))

-----------------------------------------------------------------------------
(* Properties                                                               *)

Counts == [Days -> 0 .. MaxOpens]

TypeOK ==
    /\ time \in 1 .. MaxTime
    /\ front \in {"none", "deaf", "counting"}
    /\ starts \in 0 .. MaxStarts
    /\ counter \in [pending : Counts, lastFlush : 0 .. MaxTime,
                    lastOpen : 0 .. MaxTime]
    /\ thread \in [Threads ->
           [at : {"idle", "arrived", "recorded", "due", "writing", "tallied"},
            now : 0 .. MaxTime, batch : Counts, when : 0 .. MaxTime]]
    /\ {tally, opened, unheard, lost} \subseteq Counts
    /\ lastOpenAt \in 0 .. MaxTime
    /\ lastPrune \in {-DayLength} \cup 0 .. MaxTime

\* Every day the Stats tab shows adds up: each open of that day is in its row,
\* in memory, on its way to the database, dropped with a process or a failed
\* write, or was made while no counter was there - and is in one of them only,
\* whatever day it is by the time it is written and however the threads,
\* restarts and the clean-up fall.
ShownDaysAddUp ==
    \A d \in Days : d > Day(time) - KeepDays =>
        opened[d] = unheard[d] + lost[d] + tally[d] + counter.pending[d] + InFlight(d)

\* An open made while the front server runs is seen by its counter.
EveryOpenIsCounted == unheard = NoOpens

\* What was counted does not stay in memory.
HeldCountsAreWritten ==
    \A d \in Days : counter.pending[d] > 0 ~> counter.pending[d] = 0
=============================================================================
