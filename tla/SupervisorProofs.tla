-------------------------- MODULE SupervisorProofs --------------------------
(***************************************************************************)
(* What the counters of the supervisor mean, for any number of apps and    *)
(* any limits.                                                             *)
(***************************************************************************)
EXTENDS Supervisor, TLAPS

USE DEF Statuses

\* Every table keeps its type and no retry is counted beyond the limit.
LEMMA TypeOKIsInductive == TypeOK /\ [Next]_vars => TypeOK'
<1> SUFFICES ASSUME TypeOK, [Next]_vars PROVE TypeOK'
    OBVIOUS
<1> USE AppsAssumption, LimitsAssumption DEF TypeOK
<1>1. CASE BeginCheck
    BY <1>1 DEF BeginCheck, Begin, Live
<1>2. CASE BeginRestartAll
    BY <1>2 DEF BeginRestartAll, Begin, Live
<1>3. CASE Finish
    BY <1>3 DEF Finish
<1>4. ASSUME NEW a \in Apps, Check(a) PROVE TypeOK'
    <2>1. CASE Revive(a)
        BY <2>1 DEF Revive, Started, Visited, Set
    <2>2. CASE ReviveRefused(a)
        BY <2>2 DEF ReviveRefused, Refused, Visited, Attempts, Set
    <2>3. CASE ReviveRaises(a)
        BY <2>3 DEF ReviveRaises, Raised, Abandoned, Attempts, Set
    <2>4. CASE GiveUp(a)
        BY <2>4 DEF GiveUp, Visited, Set
    <2>5. CASE WithinLimit(a)
        BY <2>5 DEF WithinLimit, Visited, Set
    <2>6. CASE Strike(a)
        BY <2>6 DEF Strike, Visited, Set
    <2>7. CASE Bounce(a)
        BY <2>7 DEF Bounce, Started, Visited, Set
    <2>8. CASE BounceRefused(a)
        BY <2>8 DEF BounceRefused, LastStrike, Visited, Set
    <2>9. CASE BounceRaises(a)
        BY <2>9 DEF BounceRaises, LastStrike, Abandoned, Set
    <2> QED
        BY <1>4, <2>1, <2>2, <2>3, <2>4, <2>5, <2>6, <2>7, <2>8, <2>9 DEF Check
<1>5. ASSUME NEW a \in Apps, RestartAll(a) PROVE TypeOK'
    <2>1. CASE Restart(a)
        BY <2>1 DEF Restart, Started, Visited, Set
    <2>2. CASE RestartRefused(a)
        BY <2>2 DEF RestartRefused, Refused, Visited, Set
    <2>3. CASE RestartRaises(a)
        BY <2>3 DEF RestartRaises, Raised, Visited, Set
    <2> QED
        BY <1>5, <2>1, <2>2, <2>3 DEF RestartAll
<1>6. ASSUME NEW a \in Apps, Stop(a) \/ Deploy(a) \/ Die(a) PROVE TypeOK'
    <2>1. CASE Stop(a)
        BY <2>1 DEF Stop, Set
    <2>2. CASE Deploy(a)
        BY <2>2 DEF Deploy, Set
    <2>3. CASE Die(a)
        BY <2>3 DEF Die
    <2> QED
        BY <1>6, <2>1, <2>2, <2>3
<1>7. CASE UNCHANGED vars
    BY <1>7 DEF vars
<1> QED
    BY <1>1, <1>2, <1>3, <1>4, <1>5, <1>6, <1>7 DEF Next, Supervise

\* The tables of the database and of the supervisor keep their types, and an
\* app is never retried more often in a row than the limit says.
THEOREM TypeCorrect == Spec => []TypeOK
<1>1. Init => TypeOK
    BY AppsAssumption, LimitsAssumption DEF Init, TypeOK, Live
<1> QED
    BY <1>1, TypeOKIsInductive, PTL DEF Spec

\* For an app that nobody replaced the two dictionaries and what they stand for
\* move together; it stays unreplaced only while its count of deploys is zero.
Counts == \A a \in Unreplaced : strikes[a] <= heavy[a] /\ lost[a] = restarts[a]

LEMMA CountsAreInductive == TypeOK /\ Counts /\ [Next]_vars => Counts'
<1> SUFFICES ASSUME TypeOK, Counts, [Next]_vars,
                    NEW b \in Apps, deploys'[b] = 0
             PROVE  strikes'[b] <= heavy'[b] /\ lost'[b] = restarts'[b]
    BY DEF Counts, Unreplaced
<1>0. deploys[b] = 0 => strikes[b] <= heavy[b] /\ lost[b] = restarts[b]
    BY DEF Counts, Unreplaced
<1> USE LimitsAssumption DEF TypeOK
<1>1. CASE BeginCheck \/ BeginRestartAll \/ Finish \/ UNCHANGED vars
    BY <1>0, <1>1 DEF BeginCheck, BeginRestartAll, Begin, Finish, vars
<1>2. ASSUME NEW a \in Apps, Check(a) PROVE strikes'[b] <= heavy'[b] /\ lost'[b] = restarts'[b]
    <2>1. CASE Revive(a)
        BY <1>0, <2>1 DEF Revive, Started, Visited, Set
    <2>2. CASE ReviveRefused(a) \/ ReviveRaises(a)
        BY <1>0, <2>2 DEF ReviveRefused, ReviveRaises, Refused, Raised, Visited, Abandoned,
                          Attempts, Set
    <2>3. CASE GiveUp(a)
        BY <1>0, <2>3 DEF GiveUp, Visited, Set
    <2>4. CASE WithinLimit(a)
        BY <1>0, <2>4 DEF WithinLimit, Visited, Set
    <2>5. CASE Strike(a)
        BY <1>0, <2>5 DEF Strike, Visited, Set
    <2>6. CASE Bounce(a)
        BY <1>0, <2>6 DEF Bounce, Started, Visited, Set
    <2>7. CASE BounceRefused(a) \/ BounceRaises(a)
        BY <1>0, <2>7 DEF BounceRefused, BounceRaises, LastStrike, Visited, Abandoned, Set
    <2> QED
        BY <1>2, <2>1, <2>2, <2>3, <2>4, <2>5, <2>6, <2>7 DEF Check
<1>3. ASSUME NEW a \in Apps, RestartAll(a)
      PROVE  strikes'[b] <= heavy'[b] /\ lost'[b] = restarts'[b]
    <2>1. CASE Restart(a)
        BY <1>0, <2>1 DEF Restart, Started, Visited, Set
    <2>2. CASE RestartRefused(a) \/ RestartRaises(a)
        BY <1>0, <2>2 DEF RestartRefused, RestartRaises, Refused, Raised, Visited
    <2> QED
        BY <1>3, <2>1, <2>2 DEF RestartAll
<1>4. ASSUME NEW a \in Apps, Stop(a) \/ Deploy(a) \/ Die(a)
      PROVE  strikes'[b] <= heavy'[b] /\ lost'[b] = restarts'[b]
    <2>1. CASE Stop(a) \/ Die(a)
        BY <1>0, <2>1 DEF Stop, Die
    <2>2. CASE Deploy(a)
        \* The app that is replaced is not b, whose count would not be zero.
        <3>1. a # b
            BY <2>2 DEF Deploy, Set
        <3> QED
            BY <1>0, <2>2, <3>1 DEF Deploy, Set
    <2> QED
        BY <1>4, <2>1, <2>2
<1> QED
    BY <1>1, <1>2, <1>3, <1>4 DEF Next, Supervise

LEMMA CountsHold == Spec => [](TypeOK /\ Counts)
<1>1. Init => Counts
    <2> SUFFICES ASSUME Init, NEW a \in Apps PROVE strikes[a] <= heavy[a] /\ lost[a] = restarts[a]
        BY DEF Counts, Unreplaced
    <2> QED
        BY DEF Init
<1> QED
    BY <1>1, TypeCorrect, CountsAreInductive, PTL DEF Spec

\* An app that nobody replaced is never restarted for its memory on strikes that
\* no check has found: each one is a check of the version that runs.
THEOREM StrikesEarned == Spec => []UnreplacedStrikesAreEarned
<1>1. TypeOK /\ Counts => UnreplacedStrikesAreEarned
    BY DEF Counts, UnreplacedStrikesAreEarned
<1> QED
    BY <1>1, CountsHold, PTL

\* An app that nobody replaced is given up only after as many launches in a row
\* have failed as the limit says, and no healthy check came between them.
THEOREM GivenUpLast == Spec => GivenUpAfterRetries
<1>1. TypeOK /\ Counts /\ [Next]_vars => [\A a \in Unreplaced : ~GivenUpTooEarly(a)]_vars
    <2> SUFFICES ASSUME TypeOK, Counts, Next, NEW b \in Unreplaced, GivenUpTooEarly(b)
                 PROVE  FALSE
        BY DEF vars
    <2> USE LimitsAssumption DEF TypeOK, Unreplaced, GivenUpTooEarly
    <2>0. lost[b] = restarts[b]
        BY DEF Counts
    <2>1. ASSUME NEW a \in Apps, Check(a) PROVE FALSE
        <3>1. CASE Revive(a) \/ Bounce(a)
            BY <3>1 DEF Revive, Bounce, OverLimit, Started, Visited, Set
        <3>2. CASE ReviveRefused(a)
            BY <3>2 DEF ReviveRefused, Refused, Visited, Attempts, Set
        <3>3. CASE ReviveRaises(a)
            BY <3>3 DEF ReviveRaises, Raised, Abandoned, Attempts, Set
        <3>4. CASE GiveUp(a)
            BY <2>0, <3>4 DEF GiveUp, Visited, Attempts, Set
        <3>5. CASE WithinLimit(a) \/ Strike(a) \/ BounceRaises(a)
            BY <3>5 DEF WithinLimit, Strike, BounceRaises
        <3>6. CASE BounceRefused(a)
            BY <3>6 DEF BounceRefused, OverLimit, Visited, Set
        <3> QED
            BY <2>1, <3>1, <3>2, <3>3, <3>4, <3>5, <3>6 DEF Check
    <2>2. ASSUME NEW a \in Apps, RestartAll(a) PROVE FALSE
        BY <2>2 DEF RestartAll, Restart, RestartRefused, RestartRaises, IsTurn
    <2>3. CASE BeginCheck \/ BeginRestartAll
        BY <2>3 DEF BeginCheck, BeginRestartAll, Begin
    <2>4. CASE Finish
        BY <2>4 DEF Finish
    <2>5. ASSUME NEW a \in Apps, Stop(a) \/ Deploy(a) \/ Die(a) PROVE FALSE
        BY <2>5 DEF Stop, Deploy, Die
    <2> QED
        BY <2>1, <2>2, <2>3, <2>4, <2>5 DEF Next, Supervise
<1> QED
    BY <1>1, CountsHold, PTL DEF Spec, GivenUpAfterRetries
=============================================================================
