----------------------------- MODULE PortsProofs -----------------------------
(***************************************************************************)
(* The port registry, for any number of callers, apps and ports: it stays  *)
(* a matching, its answers stay true, a call that gives up has met every   *)
(* port of its range taken, and it implements PortRegistry.                *)
(***************************************************************************)
EXTENDS Ports, TLAPS

USE DEF PUBLIC, BACKEND, Roles, NoPortsAvailable, Unset

\* Ports are numbers, so none of them is one of the two special values.
LEMMA PortsAreNaturals == AllPorts \subseteq Nat
BY RangeAssumption DEF AllPorts, RangeFor

\* The walk never leaves the range of the role it was called with.
LEMMA CandidateInRange ==
    ASSUME TypeOK, NEW c \in Callers, Span(call[c].role) > 0
    PROVE  Candidate(c) \in RangeFor(call[c].role) /\ Candidate(c) \in AllPorts
<1> DEFINE first == RangeStart[call[c].role]
           span  == Span(call[c].role)
           k     == call[c].offset + call[c].i
<1>1. call[c].role \in Roles /\ k \in Nat
    BY DEF TypeOK, CallRecord
<1>2. first \in Nat /\ RangeEnd[call[c].role] \in Nat /\ span \in Nat \ {0}
    BY <1>1, RangeAssumption DEF Span
<1>3. k % span \in 0 .. (span - 1)
    BY <1>1, <1>2
<1>4. Candidate(c) = first + (k % span)
    BY DEF Candidate
<1>5. span = RangeEnd[call[c].role] - first + 1
    BY DEF Span
<1>6. Candidate(c) \in first .. RangeEnd[call[c].role]
    BY <1>2, <1>3, <1>4, <1>5
<1> QED
    BY <1>1, <1>6 DEF RangeFor, AllPorts

\* A call that is past its lookup walks a range that is not empty.
Walking == \A c \in Callers :
    call[c].at \in {"walk", "insert", "recheck"} => Span(call[c].role) > 0

\* What giving one caller a new record does to the table of calls.
Moved(c, record) == /\ call' \in [Callers -> CallRecord]
                    /\ call'[c] = record
                    /\ \A d \in Callers \ {c} : call'[d] = call[d]

LEMMA BecomesMoves ==
    ASSUME TypeOK, NEW c \in Callers, NEW record \in CallRecord, Becomes(c, record)
    PROVE  Moved(c, record)
BY DEF TypeOK, Moved, Becomes

LEMMA GotoMoves ==
    ASSUME TypeOK, NEW c \in Callers, NEW place \in Places, Goto(c, place)
    PROVE  Moved(c, [call[c] EXCEPT !.at = place])
<1>1. [call[c] EXCEPT !.at = place] \in CallRecord
    BY DEF TypeOK, CallRecord
<1> QED
    BY <1>1, BecomesMoves DEF Goto

LEMMA ContinueMoves ==
    ASSUME TypeOK, NEW c \in Callers, Continue(c)
    PROVE  Moved(c, [call[c] EXCEPT !.at = "walk", !.i = call[c].i + 1])
<1>1. call[c].i + 1 \in Nat
    BY DEF TypeOK, CallRecord
<1>2. [call[c] EXCEPT !.at = "walk", !.i = call[c].i + 1] \in CallRecord
    BY <1>1 DEF TypeOK, CallRecord, Places
<1> QED
    BY <1>2, BecomesMoves DEF Continue

Returned(c, port) == [call[c] EXCEPT !.at = "returned", !.port = port, !.offset = 0, !.i = 0]

LEMMA ReturnMoves ==
    ASSUME TypeOK, NEW c \in Callers, NEW port \in AllPorts \cup {NoPortsAvailable},
           Return(c, port)
    PROVE  Moved(c, Returned(c, port))
<1>1. Returned(c, port) \in CallRecord
    BY DEF Returned, TypeOK, CallRecord, Places
<1> QED
    BY <1>1, BecomesMoves DEF Return, Returned

\* A step of one caller that leaves the role alone, or that is not yet walking,
\* keeps every walk in a range that is not empty.
LEMMA MovedKeepsWalking ==
    ASSUME Walking, NEW c \in Callers, NEW record, Moved(c, record),
           record.at \in {"walk", "insert", "recheck"} => Span(record.role) > 0
    PROVE  Walking'
BY DEF Walking, Moved, Span

\* The tables and the locals keep their types, and a walk its range.
LEMMA TypesAreInductive == TypeOK /\ Walking /\ [Next]_vars => TypeOK' /\ Walking'
<1> SUFFICES ASSUME TypeOK, Walking, [Next]_vars PROVE TypeOK' /\ Walking'
    OBVIOUS
<1>1. ASSUME NEW c \in Callers, Call(c) PROVE TypeOK' /\ Walking'
    <2>1. PICK a \in AppIds, role \in Roles :
              Becomes(c, [IdleCall EXCEPT !.at = "lookup", !.app = a, !.role = role])
        BY <1>1 DEF Call
    <2> DEFINE record == [IdleCall EXCEPT !.at = "lookup", !.app = a, !.role = role]
    <2>2. record \in CallRecord
        BY DEF IdleCall, CallRecord, Places
    <2>3. Moved(c, record)
        BY <2>1, <2>2, BecomesMoves
    <2>4. Walking'
        BY <2>3, MovedKeepsWalking DEF IdleCall
    <2> QED
        BY <1>1, <2>3, <2>4 DEF Call, TypeOK, Moved
<1>2. ASSUME NEW c \in Callers, Step(c) PROVE TypeOK' /\ Walking'
    <2>0. call[c] \in CallRecord
        BY DEF TypeOK
    <2>1. CASE LookupFinds(c) \/ RecheckFinds(c)
        <3>1. PICK r \in HeldBy(call[c].app, call[c].role) : Return(c, r.port)
            BY <2>1 DEF LookupFinds, RecheckFinds
        <3>2. r.port \in AllPorts
            BY DEF HeldBy, TypeOK, Row
        <3>3. Moved(c, Returned(c, r.port))
            BY <3>1, <3>2, ReturnMoves
        <3>4. Walking'
            BY <3>3, MovedKeepsWalking, <2>0 DEF Returned, CallRecord
        <3> QED
            BY <2>1, <3>3, <3>4 DEF LookupFinds, RecheckFinds, TypeOK, Moved
    <2>2. CASE (LookupMisses(c) /\ Return(c, NoPortsAvailable)) \/ Exhausted(c)
        <3>1. Moved(c, Returned(c, NoPortsAvailable))
            BY <2>2, ReturnMoves DEF Exhausted
        <3>2. Walking'
            BY <3>1, MovedKeepsWalking, <2>0 DEF Returned, CallRecord
        <3> QED
            BY <2>2, <3>1, <3>2 DEF LookupMisses, Exhausted, TypeOK, Moved
    <2>3. CASE LookupMisses(c) /\ ~Return(c, NoPortsAvailable)
        <3>1. PICK offset \in 0 .. (Span(call[c].role) - 1) :
                  Becomes(c, [call[c] EXCEPT !.at = "walk", !.offset = offset, !.i = 0])
            BY <2>3 DEF LookupMisses
        <3>2. Span(call[c].role) > 0
            BY <2>3 DEF LookupMisses
        <3> DEFINE record == [call[c] EXCEPT !.at = "walk", !.offset = offset, !.i = 0]
        <3>0. offset \in Nat
            BY <2>0, RangeAssumption DEF Span, CallRecord
        <3>3. record \in CallRecord /\ record.role = call[c].role
            BY <2>0, <3>0 DEF CallRecord, Places
        <3>4. Moved(c, record)
            BY <3>1, <3>3, BecomesMoves
        <3>5. Walking'
            BY <3>2, <3>3, <3>4, MovedKeepsWalking
        <3>6. UNCHANGED <<apps, rows, bound, seen, disturbed>>
            BY <2>3 DEF LookupMisses
        <3> HIDE DEF record
        <3> QED
            BY <3>4, <3>5, <3>6 DEF TypeOK, Moved
    <2>4. CASE ProbeBusy(c) \/ RecheckMisses(c)
        <3>1. Moved(c, [call[c] EXCEPT !.at = "walk", !.i = call[c].i + 1])
            BY <2>4, ContinueMoves DEF ProbeBusy, RecheckMisses
        <3>2. Span(call[c].role) > 0
            BY <2>4 DEF ProbeBusy, RecheckMisses, Walking
        <3>3. Walking'
            BY <3>1, <3>2, MovedKeepsWalking, <2>0 DEF CallRecord
        <3>4. CASE ProbeBusy(c)
            <4>1. Candidate(c) \in AllPorts
                BY <3>2, CandidateInRange
            <4> QED
                BY <3>1, <3>3, <3>4, <4>1 DEF ProbeBusy, TypeOK, Moved
        <3>5. CASE RecheckMisses(c)
            BY <3>1, <3>3, <3>5 DEF RecheckMisses, TypeOK, Moved
        <3> QED
            BY <2>4, <3>4, <3>5
    <2>5. CASE ProbeFree(c)
        <3>1. Moved(c, [call[c] EXCEPT !.at = "insert"])
            BY <2>5, GotoMoves DEF ProbeFree, Places
        <3>2. Walking'
            BY <2>5, <3>1, MovedKeepsWalking, <2>0 DEF ProbeFree, Walking, CallRecord
        <3> QED
            BY <2>5, <3>1, <3>2 DEF ProbeFree, TypeOK, Moved
    <2>6. CASE Insert(c)
        <3>1. Candidate(c) \in AllPorts
            BY <2>6, CandidateInRange DEF Insert, Walking
        <3>2. Moved(c, Returned(c, Candidate(c)))
            BY <2>6, <3>1, ReturnMoves DEF Insert
        <3>3. Walking'
            BY <3>2, MovedKeepsWalking, <2>0 DEF Returned, CallRecord
        <3>4. [port |-> Candidate(c), app |-> call[c].app, role |-> call[c].role] \in Row
            BY <2>0, <2>6, <3>1 DEF Insert, InsertAccepted, ForeignKeyHolds, Present, Row, CallRecord
        <3> QED
            BY <2>6, <3>2, <3>3, <3>4 DEF Insert, TypeOK, Moved
    <2>7. CASE InsertRefused(c)
        <3>1. Candidate(c) \in AllPorts
            BY <2>7, CandidateInRange DEF InsertRefused, Walking
        <3>2. Moved(c, [call[c] EXCEPT !.at = "recheck"])
            BY <2>7, GotoMoves DEF InsertRefused, Places
        <3>3. Walking'
            BY <2>7, <3>2, MovedKeepsWalking, <2>0 DEF InsertRefused, Walking, CallRecord
        <3> QED
            BY <2>7, <3>1, <3>2, <3>3 DEF InsertRefused, TypeOK, Moved
    <2> QED
        BY <1>2, <2>1, <2>2, <2>3, <2>4, <2>5, <2>6, <2>7 DEF Step
<1>3. ASSUME NEW a \in AppIds, CreateApp(a) \/ Release(a) \/ DeleteApp(a)
      PROVE  TypeOK' /\ Walking'
    BY <1>3 DEF CreateApp, Release, DeleteApp, DropRowsOf, TypeOK, Walking, Span
<1>4. ASSUME NEW p \in AllPorts, Listen(p) \/ StopListening(p) PROVE TypeOK' /\ Walking'
    BY <1>4 DEF Listen, StopListening, TypeOK, Walking, Span
<1>5. CASE UNCHANGED vars
    BY <1>5 DEF vars, TypeOK, Walking, Span
<1> QED
    BY <1>1, <1>2, <1>3, <1>4, <1>5 DEF Next

LEMMA TypesHold == Spec => [](TypeOK /\ Walking)
<1>1. Init => TypeOK /\ Walking
    BY DEF Init, TypeOK, Walking, IdleCall, CallRecord, Places
<1> QED
    BY <1>1, TypesAreInductive, PTL DEF Spec

\* Every table and every local of allocate() keeps its type.
THEOREM TypeCorrect == Spec => []TypeOK
BY TypesHold, PTL

-----------------------------------------------------------------------------
\* A step that leaves the tables alone leaves the matching alone.
LEMMA MatchingIsInductive == TypeOK /\ RegistryIsMatching /\ [Next]_vars => RegistryIsMatching'
<1> SUFFICES ASSUME TypeOK, RegistryIsMatching, [Next]_vars PROVE RegistryIsMatching'
    OBVIOUS
<1> USE DEF RegistryIsMatching
<1>1. CASE UNCHANGED <<apps, rows>>
    BY <1>1
<1>2. ASSUME NEW c \in Callers, Insert(c) PROVE RegistryIsMatching'
    BY <1>2 DEF Insert, InsertAccepted, PrimaryKeyFree, AppRoleFree, ForeignKeyHolds, Present
<1>3. ASSUME NEW a \in AppIds, CreateApp(a) PROVE RegistryIsMatching'
    <2>1. \A r \in rows : apps'[r.app] = "present"
        BY <1>3 DEF CreateApp, TypeOK, Row
    <2>2. rows' = rows
        BY <1>3 DEF CreateApp
    <2>3. /\ \A r, s \in rows : r.port = s.port => r = s
          /\ \A r, s \in rows : r.app = s.app /\ r.role = s.role => r = s
        OBVIOUS
    <2> HIDE DEF RegistryIsMatching
    <2> QED
        BY <2>1, <2>2, <2>3 DEF RegistryIsMatching
<1>4. ASSUME NEW a \in AppIds, Release(a) \/ DeleteApp(a) PROVE RegistryIsMatching'
    <2>1. rows' = {r \in rows : r.app # a}
        BY <1>4 DEF Release, DeleteApp, DropRowsOf
    <2>2. \A r \in rows' : r.app \in AppIds /\ apps'[r.app] = apps[r.app]
        BY <1>4, <2>1 DEF Release, DeleteApp, TypeOK, Row
    <2> QED
        BY <2>1, <2>2
<1>5. ASSUME NEW c \in Callers, Call(c) \/ (Step(c) /\ ~Insert(c)) PROVE UNCHANGED <<apps, rows>>
    BY <1>5 DEF Call, Step, LookupFinds, LookupMisses, ProbeBusy, ProbeFree, Exhausted,
                InsertRefused, RecheckFinds, RecheckMisses
<1>6. ASSUME NEW p \in AllPorts, Listen(p) \/ StopListening(p) PROVE UNCHANGED <<apps, rows>>
    BY <1>6 DEF Listen, StopListening
<1> QED
    BY <1>1, <1>2, <1>3, <1>4, <1>5, <1>6 DEF Next, vars

\* However many deploys allocate at the same time, a port belongs to one app and
\* role, an app and role to one port, and a deleted app holds none.
THEOREM Matching == Spec => []RegistryIsMatching
<1>1. Init => RegistryIsMatching
    BY DEF Init, RegistryIsMatching
<1> QED
    BY <1>1, TypeCorrect, MatchingIsInductive, PTL DEF Spec

-----------------------------------------------------------------------------
Answer(c) == [port |-> call[c].port, app |-> call[c].app, role |-> call[c].role]

\* The claim of AnswerIsStable about one caller.
Stable(c) == call[c].at = "returned" /\ call[c].port # NoPortsAvailable /\ ~disturbed[c]
                 => Answer(c) \in rows

LEMMA Placed ==
    ASSUME NEW record \in CallRecord, NEW place \in Places, NEW n, NEW m
    PROVE  /\ [record EXCEPT !.at = place].at = place
           /\ [record EXCEPT !.at = place, !.i = n].at = place
           /\ [record EXCEPT !.at = place, !.offset = m, !.i = n].at = place
BY DEF CallRecord

LEMMA StableIsInductive == TypeOK /\ Walking /\ AnswerIsStable /\ [Next]_vars => AnswerIsStable'
<1> SUFFICES ASSUME TypeOK, Walking, AnswerIsStable, [Next]_vars, NEW d \in Callers
             PROVE  Stable(d)'
    BY DEF AnswerIsStable, Stable, Answer
<1>0. Stable(d)
    BY DEF AnswerIsStable, Stable, Answer
<1>1. ASSUME NEW c \in Callers, Call(c) PROVE Stable(d)'
    <2>1. PICK a \in AppIds, role \in Roles :
              Becomes(c, [IdleCall EXCEPT !.at = "lookup", !.app = a, !.role = role])
        BY <1>1 DEF Call
    <2>2. CASE d = c
        BY <2>1, <2>2 DEF Becomes, IdleCall, Stable, TypeOK
    <2>3. CASE d # c
        BY <1>0, <1>1, <2>1, <2>3 DEF Call, Becomes, Stable, Answer, TypeOK
    <2> QED
        BY <2>2, <2>3
<1>2. ASSUME NEW c \in Callers, Step(c) PROVE Stable(d)'
    <2>0. /\ rows \subseteq rows' /\ disturbed' = disturbed
          /\ d # c => call'[d] = call[d]
        BY <1>2 DEF Step, LookupFinds, LookupMisses, ProbeBusy, ProbeFree, Exhausted, Insert,
                    InsertRefused, RecheckFinds, RecheckMisses, Return, Goto, Continue, Becomes,
                    TypeOK
    <2>1. CASE d # c
        BY <1>0, <2>0, <2>1 DEF Stable, Answer
    <2>2. CASE d = c /\ (LookupFinds(c) \/ RecheckFinds(c))
        <3>1. PICK r \in HeldBy(call[c].app, call[c].role) : Return(c, r.port)
            BY <2>2 DEF LookupFinds, RecheckFinds
        <3>2. r \in rows /\ r = Answer(c)' /\ r.port \in AllPorts
            <4>1. r \in Row /\ r.app = call[c].app /\ r.role = call[c].role /\ r \in rows
                BY DEF HeldBy, TypeOK
            <4>2. r.port \in AllPorts
                BY <4>1 DEF Row
            <4>3. call'[c] = Returned(c, r.port) /\ call[c] \in CallRecord
                BY <3>1, <4>2, ReturnMoves DEF Moved, TypeOK
            <4>4. call'[c].port = r.port /\ call'[c].app = r.app /\ call'[c].role = r.role
                BY <4>1, <4>3 DEF Returned, CallRecord
            <4>5. r = [port |-> r.port, app |-> r.app, role |-> r.role]
                BY <4>1 DEF Row
            <4> QED
                BY <4>1, <4>2, <4>4, <4>5 DEF Answer
        <3> QED
            BY <2>0, <2>2, <3>2 DEF Stable
    <2>3. CASE d = c /\ Insert(c)
        <3>1. Candidate(c) \in AllPorts
            BY <2>3, CandidateInRange DEF Insert, Walking
        <3>2. call'[c] = Returned(c, Candidate(c)) /\ call[c] \in CallRecord
            BY <2>3, <3>1, ReturnMoves DEF Insert, Moved, TypeOK
        <3>3. /\ call'[c].port = Candidate(c)
              /\ call'[c].app = call[c].app /\ call'[c].role = call[c].role
            BY <3>2 DEF Returned, CallRecord
        <3> QED
            BY <2>3, <3>3 DEF Insert, Stable, Answer
    <2>4. CASE d = c /\ ((LookupMisses(c) /\ Return(c, NoPortsAvailable)) \/ Exhausted(c))
        <3>1. call'[c] = Returned(c, NoPortsAvailable) /\ call[c] \in CallRecord
            BY <2>4, ReturnMoves DEF Exhausted, Moved, TypeOK
        <3> QED
            BY <2>4, <3>1 DEF Stable, Returned, CallRecord
    <2>5. CASE d = c /\ \/ LookupMisses(c) /\ ~Return(c, NoPortsAvailable)
                        \/ ProbeBusy(c) \/ ProbeFree(c) \/ InsertRefused(c) \/ RecheckMisses(c)
        <3>0. call[c] \in CallRecord
            BY DEF TypeOK
        <3>5. d = c
            BY <2>5
        <3>1. CASE LookupMisses(c)
            <4>1. PICK offset \in 0 .. (Span(call[c].role) - 1) :
                      Becomes(c, [call[c] EXCEPT !.at = "walk", !.offset = offset, !.i = 0])
                BY <2>5, <3>1 DEF LookupMisses, RecheckMisses, ProbeBusy, ProbeFree, InsertRefused
            <4> DEFINE record == [call[c] EXCEPT !.at = "walk", !.offset = offset, !.i = 0]
            <4>2. call'[c] = record
                <5>1. call' = [call EXCEPT ![c] = record]
                    BY <4>1 DEF Becomes
                <5> HIDE DEF record
                <5> QED
                    BY <5>1 DEF TypeOK
            <4>3. call'[c].at = "walk"
                BY <3>0, <4>2, Placed DEF Places
            <4> QED
                BY <3>5, <4>3 DEF Stable
        <3>2. CASE ProbeBusy(c) \/ RecheckMisses(c)
            <4>1. call'[c] = [call[c] EXCEPT !.at = "walk", !.i = call[c].i + 1]
                BY <3>2, ContinueMoves DEF ProbeBusy, RecheckMisses, Moved
            <4>3. call'[c].at = "walk"
                BY <3>0, <4>1, Placed DEF Places
            <4> QED
                BY <3>5, <4>3 DEF Stable
        <3>3. CASE ProbeFree(c)
            <4>1. call'[c] = [call[c] EXCEPT !.at = "insert"]
                BY <3>3, GotoMoves DEF ProbeFree, Places, Moved
            <4>3. call'[c].at = "insert"
                BY <3>0, <4>1, Placed DEF Places
            <4> QED
                BY <3>5, <4>3 DEF Stable
        <3>4. CASE InsertRefused(c)
            <4>1. call'[c] = [call[c] EXCEPT !.at = "recheck"]
                BY <3>4, GotoMoves DEF InsertRefused, Places, Moved
            <4>3. call'[c].at = "recheck"
                BY <3>0, <4>1, Placed DEF Places
            <4> QED
                BY <3>5, <4>3 DEF Stable
        <3> QED
            BY <2>5, <3>1, <3>2, <3>3, <3>4
    <2> QED
        BY <1>2, <2>1, <2>2, <2>3, <2>4, <2>5 DEF Step
<1>3. ASSUME NEW a \in AppIds, Release(a) \/ DeleteApp(a) PROVE Stable(d)'
    <2>1. rows' = {r \in rows : r.app # a} /\ call' = call
          /\ disturbed'[d] = (disturbed[d] \/ call[d].app = a)
        BY <1>3 DEF Release, DeleteApp, DropRowsOf
    <2> QED
        BY <1>0, <2>1 DEF Stable, Answer
<1>4. ASSUME NEW a \in AppIds, CreateApp(a) PROVE Stable(d)'
    BY <1>0, <1>4 DEF CreateApp, Stable, Answer
<1>5. ASSUME NEW p \in AllPorts, Listen(p) \/ StopListening(p) PROVE Stable(d)'
    BY <1>0, <1>5 DEF Listen, StopListening, Stable, Answer
<1>6. CASE UNCHANGED vars
    BY <1>0, <1>6 DEF vars, Stable, Answer
<1> QED
    BY <1>1, <1>2, <1>3, <1>4, <1>5, <1>6 DEF Next

\* A port that was handed out stays registered for the app and role it was
\* handed out for until somebody releases that app.
THEOREM AnswersStay == Spec => []AnswerIsStable
<1>1. Init => AnswerIsStable
    BY DEF Init, IdleCall, AnswerIsStable
<1> QED
    BY <1>1, TypesHold, StableIsInductive, PTL DEF Spec

-----------------------------------------------------------------------------
(* allocate() implements the abstract registry *)

Requests == [c \in Callers |-> Request(c)]

\* What a caller's record says it is doing.
LEMMA RequestSays ==
    ASSUME NEW c \in Callers
    PROVE  /\ call[c].at = "idle" => Request(c) = [state |-> "idle"]
           /\ call[c].at = "returned" /\ call[c].port = NoPortsAvailable
                => Request(c) = [state |-> "refused"]
           /\ call[c].at = "returned" /\ call[c].port # NoPortsAvailable
                => Request(c) = [state |-> "answered", port |-> call[c].port]
           /\ call[c].at \in {"lookup", "walk", "insert", "recheck"}
                => Request(c) = [state |-> "pending", key |-> <<call[c].app, call[c].role>>]
BY DEF Request

LEMMA RequestSaysNext ==
    ASSUME NEW c \in Callers
    PROVE  /\ call'[c].at = "idle" => Request(c)' = [state |-> "idle"]
           /\ call'[c].at = "returned" /\ call'[c].port = NoPortsAvailable
                => Request(c)' = [state |-> "refused"]
           /\ call'[c].at = "returned" /\ call'[c].port # NoPortsAvailable
                => Request(c)' = [state |-> "answered", port |-> call'[c].port]
           /\ call'[c].at \in {"lookup", "walk", "insert", "recheck"}
                => Request(c)' = [state |-> "pending", key |-> <<call'[c].app, call'[c].role>>]
BY DEF Request

\* One caller moving changes one request.
LEMMA OneRequestMoves ==
    ASSUME NEW c \in Callers, NEW record, Moved(c, record)
    PROVE  Requests' = [Requests EXCEPT ![c] = Request(c)']
<1>1. ASSUME NEW d \in Callers, d # c PROVE Request(d)' = Request(d)
    BY <1>1 DEF Moved, Request
<1> QED
    BY <1>1 DEF Requests

\* The fields of a record that was put somewhere else.
LEMMA StillAsking ==
    ASSUME NEW record \in CallRecord, NEW place \in Places, NEW n, NEW m
    PROVE  /\ [record EXCEPT !.at = place].app = record.app
           /\ [record EXCEPT !.at = place].role = record.role
           /\ [record EXCEPT !.at = place, !.i = n].app = record.app
           /\ [record EXCEPT !.at = place, !.i = n].role = record.role
           /\ [record EXCEPT !.at = place, !.offset = m, !.i = n].app = record.app
           /\ [record EXCEPT !.at = place, !.offset = m, !.i = n].role = record.role
BY DEF CallRecord

\* A caller that goes on searching for the same key still asks for that key.
LEMMA SearchIsSilent ==
    ASSUME TypeOK, NEW c \in Callers, NEW record, Moved(c, record),
           call[c].at \in {"lookup", "walk", "insert", "recheck"},
           record.at \in {"lookup", "walk", "insert", "recheck"},
           record.app = call[c].app, record.role = call[c].role
    PROVE  Requests' = Requests
<1>1. Request(c)' = Request(c)
    BY RequestSays, RequestSaysNext DEF Moved
<1>2. \A d \in Callers : Request(d)' = Request(d)
    BY <1>1 DEF Moved, Request
<1> QED
    BY <1>2 DEF Requests

\* The six ways the implementation moves, in terms of the abstract registry.
LEMMA CallAsks ==
    ASSUME TypeOK, NEW c \in Callers, Call(c)
    PROVE  Registry!Ask(c)
<1>1. PICK a \in AppIds, role \in Roles :
          Becomes(c, [IdleCall EXCEPT !.at = "lookup", !.app = a, !.role = role])
    BY DEF Call
<1> DEFINE record == [IdleCall EXCEPT !.at = "lookup", !.app = a, !.role = role]
<1>2. record \in CallRecord /\ record.at = "lookup" /\ record.app = a /\ record.role = role
    BY DEF IdleCall, CallRecord, Places
<1> HIDE DEF record
<1>3. Moved(c, record)
    BY <1>1, <1>2, BecomesMoves DEF record
<1>4. Request(c)' = [state |-> "pending", key |-> <<a, role>>]
    BY <1>2, <1>3, RequestSaysNext DEF Moved
<1>5. Requests' = [Requests EXCEPT ![c] = [state |-> "pending", key |-> <<a, role>>]]
    BY <1>3, <1>4, OneRequestMoves
<1>6. Requests[c].state # "pending"
    <2>1. call[c].at \in {"idle", "returned"}
        BY DEF Call
    <2>2. \/ Request(c) = [state |-> "idle"]
          \/ Request(c) = [state |-> "refused"]
          \/ Request(c) = [state |-> "answered", port |-> call[c].port]
        BY <2>1, RequestSays
    <2> QED
        BY <2>2 DEF Requests
<1>7. Claims' = Claims
    BY DEF Call, Claims
<1>8. <<a, role>> \in Keys
    BY DEF Keys
<1> QED
    BY <1>5, <1>6, <1>7, <1>8 DEF Registry!Ask, Registry!Pending, Requests

LEMMA FoundIsAnswered ==
    ASSUME TypeOK, NEW c \in Callers, LookupFinds(c) \/ RecheckFinds(c)
    PROVE  Registry!AnswerHeld(c)
<1>1. PICK r \in HeldBy(call[c].app, call[c].role) : Return(c, r.port)
    BY DEF LookupFinds, RecheckFinds
<1>2. r \in Row /\ r \in rows /\ r.app = call[c].app /\ r.role = call[c].role
    BY DEF HeldBy, TypeOK
<1>3. r.port \in AllPorts /\ r.app \in AppIds /\ r.role \in Roles /\ call[c] \in CallRecord
    BY <1>2 DEF Row, TypeOK
<1> DEFINE k == <<r.app, r.role>>
<1>4. k \in Keys /\ <<r.port, k>> \in Claims
    BY <1>2, <1>3 DEF Keys, Claims
<1>5. r.port \in Registry!AnyPort
    <2>1. PICK role \in Roles : r.port \in RangeFor(role)
        BY <1>3 DEF AllPorts
    <2>2. <<r.app, role>> \in Keys /\ <<r.app, role>>[2] = role
        BY <1>3 DEF Keys
    <2> QED
        BY <2>1, <2>2 DEF Registry!AnyPort
<1>6. Moved(c, Returned(c, r.port))
    BY <1>1, <1>3, ReturnMoves
<1>7. call'[c].at = "returned" /\ call'[c].port = r.port
    BY <1>3, <1>6 DEF Moved, Returned, CallRecord
<1>8. r.port # NoPortsAvailable
    BY <1>3, PortsAreNaturals
<1>9. Requests' = [Requests EXCEPT ![c] = [state |-> "answered", port |-> r.port]]
    BY <1>6, <1>7, <1>8, OneRequestMoves, RequestSaysNext
<1>10. Requests[c] = [state |-> "pending", key |-> k]
    BY <1>2, RequestSays DEF LookupFinds, RecheckFinds, Requests
<1>11. Claims' = Claims
    BY DEF LookupFinds, RecheckFinds, Claims
<1> QED
    BY <1>4, <1>5, <1>9, <1>10, <1>11
       DEF Registry!AnswerHeld, Registry!Pending, Registry!Answer, Requests

LEMMA InsertedIsAnswered ==
    ASSUME TypeOK, Walking, NEW c \in Callers, Insert(c)
    PROVE  Registry!AnswerNew(c)
<1> DEFINE p == Candidate(c)
           k == <<call[c].app, call[c].role>>
           row == [port |-> p, app |-> call[c].app, role |-> call[c].role]
<1>1. p \in AllPorts /\ p \in RangeFor(call[c].role)
    BY CandidateInRange DEF Insert, Walking
<1>2. call[c].app \in AppIds /\ call[c].role \in Roles /\ call[c] \in CallRecord
    BY DEF Insert, InsertAccepted, ForeignKeyHolds, Present, TypeOK, CallRecord
<1>3. k \in Keys /\ k[2] = call[c].role
    BY <1>2 DEF Keys
<1>4. Moved(c, Returned(c, p))
    BY <1>1, ReturnMoves DEF Insert
<1>5. call'[c].at = "returned" /\ call'[c].port = p /\ p # NoPortsAvailable
    BY <1>1, <1>2, <1>4, PortsAreNaturals DEF Moved, Returned, CallRecord
<1>6. Requests' = [Requests EXCEPT ![c] = [state |-> "answered", port |-> p]]
    BY <1>4, <1>5, OneRequestMoves, RequestSaysNext
<1>7. Requests[c] = [state |-> "pending", key |-> k]
    BY RequestSays DEF Insert, Requests
<1>8. \A claim \in Claims : claim[1] # p /\ claim[2] # k
    BY DEF Insert, InsertAccepted, PrimaryKeyFree, AppRoleFree, Claims
<1>9. Claims' = Claims \cup {<<p, k>>}
    <2>1. rows' = rows \cup {row}
        BY DEF Insert
    <2>2. row.port = p /\ <<row.app, row.role>> = k
        OBVIOUS
    <2> HIDE DEF row, p, k
    <2> QED
        BY <2>1, <2>2 DEF Claims
<1>10. p \in [key \in Keys |-> RangeFor(key[2])][k]
    BY <1>1, <1>3
<1> HIDE DEF p, k
<1> QED
    BY <1>3, <1>6, <1>7, <1>8, <1>9, <1>10
       DEF Registry!AnswerNew, Registry!Pending, Registry!Answer, Requests

LEMMA RaisedIsRefused ==
    ASSUME TypeOK, NEW c \in Callers,
           (LookupMisses(c) /\ Return(c, NoPortsAvailable)) \/ Exhausted(c)
    PROVE  Registry!Refuse(c)
<1>1. Moved(c, Returned(c, NoPortsAvailable)) /\ call[c] \in CallRecord
    BY ReturnMoves DEF Exhausted, TypeOK
<1>2. call'[c].at = "returned" /\ call'[c].port = NoPortsAvailable
    BY <1>1 DEF Moved, Returned, CallRecord
<1>3. Requests' = [Requests EXCEPT ![c] = [state |-> "refused"]]
    BY <1>1, <1>2, OneRequestMoves, RequestSaysNext
<1>4. Requests[c] = [state |-> "pending", key |-> <<call[c].app, call[c].role>>]
    BY RequestSays DEF LookupMisses, Exhausted, Requests
<1>5. Claims' = Claims
    BY DEF LookupMisses, Exhausted, Claims
<1> QED
    BY <1>3, <1>4, <1>5 DEF Registry!Refuse, Registry!Refusal, Requests

LEMMA DroppedIsGivenUp ==
    ASSUME TypeOK, NEW a \in AppIds, Release(a) \/ DeleteApp(a)
    PROVE  Registry!GiveUp
<1> DEFINE gone == {a} \X Roles
<1>1. rows' = {r \in rows : r.app # a} /\ call' = call
    BY DEF Release, DeleteApp, DropRowsOf
<1>2. Requests' = Requests
    BY <1>1 DEF Requests, Request
<1>3. gone \in SUBSET Keys
    BY DEF Keys
<1>4. Claims' = {claim \in Claims : claim[2] \notin gone}
    <2>1. \A r \in rows : <<r.app, r.role>> \in gone <=> r.app = a
        BY DEF TypeOK, Row
    <2>2. Claims' = {<<r.port, <<r.app, r.role>>>> : r \in {q \in rows : q.app # a}}
        BY <1>1 DEF Claims
    <2> HIDE DEF gone
    <2> QED
        BY <2>1, <2>2 DEF Claims
<1> HIDE DEF gone
<1> QED
    BY <1>2, <1>3, <1>4 DEF Registry!GiveUp, Requests

\* Everything else happens inside a call, or has nothing to do with ports.
LEMMA SearchingIsSilent ==
    ASSUME TypeOK, NEW c \in Callers,
           \/ LookupMisses(c) /\ ~Return(c, NoPortsAvailable)
           \/ ProbeBusy(c) \/ ProbeFree(c) \/ InsertRefused(c) \/ RecheckMisses(c)
    PROVE  Requests' = Requests /\ Claims' = Claims
<1>0. call[c] \in CallRecord
    BY DEF TypeOK
<1>1. CASE LookupMisses(c) /\ ~Return(c, NoPortsAvailable)
    <2>1. PICK offset \in 0 .. (Span(call[c].role) - 1) :
              Becomes(c, [call[c] EXCEPT !.at = "walk", !.offset = offset, !.i = 0])
        BY <1>1 DEF LookupMisses
    <2> DEFINE record == [call[c] EXCEPT !.at = "walk", !.offset = offset, !.i = 0]
    <2>2. offset \in Nat
        BY <1>0, RangeAssumption DEF Span, CallRecord
    <2>3. record \in CallRecord
        BY <1>0, <2>2 DEF CallRecord, Places
    <2>4. record.at = "walk" /\ record.app = call[c].app /\ record.role = call[c].role
        BY <1>0, Placed, StillAsking DEF Places
    <2> HIDE DEF record
    <2>5. Moved(c, record)
        BY <2>1, <2>3, BecomesMoves DEF record
    <2>6. call[c].at = "lookup" /\ UNCHANGED rows
        BY <1>1 DEF LookupMisses
    <2> QED
        BY <2>4, <2>5, <2>6, SearchIsSilent DEF Claims
<1>2. CASE ProbeBusy(c) \/ RecheckMisses(c)
    <2> DEFINE record == [call[c] EXCEPT !.at = "walk", !.i = call[c].i + 1]
    <2>1. Moved(c, record)
        BY <1>2, ContinueMoves DEF ProbeBusy, RecheckMisses
    <2>2. record.at = "walk" /\ record.app = call[c].app /\ record.role = call[c].role
        BY <1>0, Placed, StillAsking DEF Places
    <2> HIDE DEF record
    <2>3. call[c].at \in {"walk", "recheck"} /\ UNCHANGED rows
        BY <1>2 DEF ProbeBusy, RecheckMisses
    <2> QED
        BY <2>1, <2>2, <2>3, SearchIsSilent DEF Claims
<1>3. CASE ProbeFree(c)
    <2> DEFINE record == [call[c] EXCEPT !.at = "insert"]
    <2>1. Moved(c, record)
        BY <1>3, GotoMoves DEF ProbeFree, Places
    <2>2. record.at = "insert" /\ record.app = call[c].app /\ record.role = call[c].role
        BY <1>0, Placed, StillAsking DEF Places
    <2> HIDE DEF record
    <2>3. call[c].at = "walk" /\ UNCHANGED rows
        BY <1>3 DEF ProbeFree
    <2> QED
        BY <2>1, <2>2, <2>3, SearchIsSilent DEF Claims
<1>4. CASE InsertRefused(c)
    <2> DEFINE record == [call[c] EXCEPT !.at = "recheck"]
    <2>1. Moved(c, record)
        BY <1>4, GotoMoves DEF InsertRefused, Places
    <2>2. record.at = "recheck" /\ record.app = call[c].app /\ record.role = call[c].role
        BY <1>0, Placed, StillAsking DEF Places
    <2> HIDE DEF record
    <2>3. call[c].at = "insert" /\ UNCHANGED rows
        BY <1>4 DEF InsertRefused
    <2> QED
        BY <2>1, <2>2, <2>3, SearchIsSilent DEF Claims
<1> QED
    BY <1>1, <1>2, <1>3, <1>4

\* Every step of the registry is a step of the abstract one, or none at all.
LEMMA StepsRefine == TypeOK /\ Walking /\ [Next]_vars => [Registry!Next]_(Registry!vars)
<1> SUFFICES ASSUME TypeOK, Walking, [Next]_vars
             PROVE  Registry!Next \/ (Requests' = Requests /\ Claims' = Claims)
    BY DEF Registry!vars, Requests
<1>1. ASSUME NEW c \in Callers, Call(c) PROVE Registry!Next
    BY <1>1, CallAsks DEF Registry!Next
<1>2. ASSUME NEW c \in Callers, Step(c)
      PROVE  Registry!Next \/ (Requests' = Requests /\ Claims' = Claims)
    <2>1. CASE LookupFinds(c) \/ RecheckFinds(c)
        BY <2>1, FoundIsAnswered DEF Registry!Next
    <2>2. CASE Insert(c)
        BY <2>2, InsertedIsAnswered DEF Registry!Next
    <2>3. CASE (LookupMisses(c) /\ Return(c, NoPortsAvailable)) \/ Exhausted(c)
        BY <2>3, RaisedIsRefused DEF Registry!Next
    <2>4. CASE \/ LookupMisses(c) /\ ~Return(c, NoPortsAvailable)
               \/ ProbeBusy(c) \/ ProbeFree(c) \/ InsertRefused(c) \/ RecheckMisses(c)
        BY <2>4, SearchingIsSilent
    <2> QED
        BY <1>2, <2>1, <2>2, <2>3, <2>4 DEF Step
<1>3. ASSUME NEW a \in AppIds, Release(a) \/ DeleteApp(a) PROVE Registry!Next
    BY <1>3, DroppedIsGivenUp DEF Registry!Next
<1>4. ASSUME UNCHANGED <<rows, call>> PROVE Requests' = Requests /\ Claims' = Claims
    BY <1>4 DEF Requests, Request, Claims
<1>5. ASSUME NEW a \in AppIds, CreateApp(a) PROVE UNCHANGED <<rows, call>>
    BY <1>5 DEF CreateApp
<1>6. ASSUME NEW p \in AllPorts, Listen(p) \/ StopListening(p) PROVE UNCHANGED <<rows, call>>
    BY <1>6 DEF Listen, StopListening
<1>7. CASE UNCHANGED vars
    BY <1>4, <1>7 DEF vars
<1> QED
    BY <1>1, <1>2, <1>3, <1>4, <1>5, <1>6, <1>7 DEF Next

\* allocate(), with its probe, its INSERT and its second look, is for its callers
\* one atomic answer of the abstract registry.
THEOREM Refinement == Spec => ImplementsRegistry
<1>1. Init => Registry!Init
    <2> SUFFICES ASSUME Init PROVE Registry!Init
        OBVIOUS
    <2>1. \A c \in Callers : Request(c) = [state |-> "idle"]
        BY RequestSays DEF Init, IdleCall
    <2>2. Claims = {}
        BY DEF Init, Claims
    <2> QED
        BY <2>1, <2>2 DEF Registry!Init, Registry!Idle
<1>2. QED
    BY <1>1, TypesHold, StepsRefine, PTL DEF Spec, ImplementsRegistry, Registry!Spec

-----------------------------------------------------------------------------
(* The walk misses no port *)

\* The port the walk of a caller's role looks at j steps after its first.
Visited(record, j) == RangeStart[record.role] + ((record.offset + j) % Span(record.role))

Searching(c) == call[c].at \in {"walk", "insert", "recheck"}

\* What a call has learnt that nobody has interfered with.  Its app is there; the
\* ports it has passed were all taken; and after a refused INSERT the port was
\* taken, or the app has its port already and the second look will find it.
Learnt(c) ==
    /\ call[c].at \notin {"idle", "returned"} => call[c].app \in Present
    /\ Searching(c) => \A j \in Nat : j < call[c].i => Visited(call[c], j) \in seen[c]
    /\ call[c].at = "recheck" =>
          \/ Visited(call[c], call[c].i) \in seen[c]
          \/ HeldBy(call[c].app, call[c].role) # {}
    /\ call[c].at = "returned" /\ call[c].port = NoPortsAvailable
          => seen[c] = RangeFor(call[c].role)

\* The invariant of one call: it counts only ports of its own range, it starts
\* inside it, and what it learnt is true unless its app lost its rows.
Thorough(c) == /\ seen[c] \subseteq RangeFor(call[c].role)
               /\ call[c].at = "lookup" => seen[c] = {}
               /\ Searching(c) => call[c].offset < Span(call[c].role)
               /\ ~disturbed[c] => Learnt(c)

\* A walk of the whole range from any port of it, wrapping at the end, meets
\* every port.
LEMMA WalkMeetsAll ==
    ASSUME NEW record \in CallRecord, Span(record.role) > 0,
           record.offset < Span(record.role), NEW p \in RangeFor(record.role)
    PROVE  \E j \in Nat : j < Span(record.role) /\ Visited(record, j) = p
<1> DEFINE first == RangeStart[record.role]
           span  == Span(record.role)
           start == record.offset
           d     == p - first
<1>1. first \in Nat /\ span \in Nat \ {0} /\ start \in 0 .. (span - 1) /\ d \in 0 .. (span - 1)
    BY RangeAssumption DEF CallRecord, Span, RangeFor
<1>2. p = first + d
    BY <1>1 DEF RangeFor
<1> HIDE DEF first, span, start, d
<1>3. CASE start <= d
    <2>1. (d - start) \in Nat /\ d - start < span /\ (start + (d - start)) = d
        BY <1>1, <1>3
    <2>2. d % span = d
        BY <1>1
    <2> QED
        BY <1>2, <2>1, <2>2 DEF Visited, first, span, start
<1>4. CASE d < start
    <2>1. (d - start) + span \in Nat /\ (d - start) + span < span
          /\ start + ((d - start) + span) = d + span
        BY <1>1, <1>4
    <2>2. (d + span) % span = d
        BY <1>1
    <2> QED
        BY <1>2, <2>1, <2>2 DEF Visited, first, span, start
<1> QED
    BY <1>1, <1>3, <1>4

\* The candidate is the port the walk has come to.
LEMMA CandidateIsVisited ==
    ASSUME NEW c \in Callers
    PROVE  Candidate(c) = Visited(call[c], call[c].i)
BY DEF Candidate, Visited

\* A walk that has come to the end of its range has met all of it.
LEMMA EndOfWalk ==
    ASSUME TypeOK, Walking, NEW c \in Callers, Thorough(c), ~disturbed[c], Searching(c),
           call[c].i >= Span(call[c].role)
    PROVE  seen[c] = RangeFor(call[c].role)
<1>1. call[c] \in CallRecord /\ Span(call[c].role) > 0
    BY DEF TypeOK, Walking, Searching
<1>2. call[c].i \in Nat /\ Span(call[c].role) \in Int
    BY <1>1, RangeAssumption DEF CallRecord, Span
<1>3. ASSUME NEW p \in RangeFor(call[c].role) PROVE p \in seen[c]
    <2>1. PICK j \in Nat : j < Span(call[c].role) /\ Visited(call[c], j) = p
        BY <1>1, WalkMeetsAll DEF Thorough
    <2>2. j < call[c].i
        BY <1>2, <2>1
    <2> QED
        BY <2>1, <2>2 DEF Thorough, Learnt
<1> QED
    BY <1>3 DEF Thorough

\* The fields of the records a step gives its caller.
LEMMA Fields ==
    ASSUME NEW record \in CallRecord, NEW place \in Places, NEW n \in Nat, NEW m \in Nat
    PROVE  /\ [record EXCEPT !.at = place].offset = record.offset
           /\ [record EXCEPT !.at = place].i = record.i
           /\ [record EXCEPT !.at = place, !.i = n].offset = record.offset
           /\ [record EXCEPT !.at = place, !.i = n].i = n
           /\ [record EXCEPT !.at = place, !.offset = m, !.i = n].offset = m
           /\ [record EXCEPT !.at = place, !.offset = m, !.i = n].i = n
BY DEF CallRecord

\* Where a walk has been depends on its range and its start alone.
LEMMA SameWalk ==
    ASSUME NEW record, NEW other, record.role = other.role, record.offset = other.offset, NEW j
    PROVE  Visited(record, j) = Visited(other, j)
BY DEF Visited

\* Going one port further, when the port it stood at was taken.
LEMMA FurtherIsThorough ==
    ASSUME TypeOK, Walking, NEW c \in Callers, Thorough(c), Searching(c), Continue(c),
           UNCHANGED <<apps, rows, disturbed>>,
           seen[c] \subseteq seen'[c], seen'[c] \subseteq RangeFor(call[c].role),
           ~disturbed[c] => Visited(call[c], call[c].i) \in seen'[c]
    PROVE  Thorough(c)'
<1> DEFINE record == [call[c] EXCEPT !.at = "walk", !.i = call[c].i + 1]
<1>0. call[c] \in CallRecord /\ call[c].i \in Nat
    BY DEF TypeOK, CallRecord
<1>1. call'[c] = record
    BY ContinueMoves DEF Moved
<1>2. /\ record.at = "walk" /\ record.i = call[c].i + 1 /\ record.offset = call[c].offset
      /\ record.app = call[c].app /\ record.role = call[c].role
    BY <1>0, Placed, Fields, StillAsking DEF Places
<1> HIDE DEF record
<1>3. ASSUME ~disturbed[c], NEW j \in Nat, j < record.i PROVE Visited(record, j) \in seen'[c]
    <2>1. Visited(record, j) = Visited(call[c], j)
        BY <1>2, SameWalk
    <2>2. CASE j < call[c].i
        BY <1>3, <2>1, <2>2 DEF Thorough, Learnt
    <2>3. CASE j = call[c].i
        BY <1>3, <2>1, <2>3
    <2> QED
        BY <1>0, <1>2, <1>3, <2>2, <2>3
<1>4. ~disturbed[c] => call[c].app \in Present
    BY DEF Thorough, Learnt, Searching
<1>5. Searching(c)' /\ call'[c].at = "walk"
    BY <1>1, <1>2 DEF Searching
<1>6. ~disturbed[c] => Learnt(c)'
    <2> SUFFICES ASSUME ~disturbed[c] PROVE Learnt(c)'
        OBVIOUS
    <2>1. call'[c].app \in Present'
        BY <1>1, <1>2, <1>4 DEF Present
    <2>2. (\A j \in Nat : j < call[c].i => Visited(call[c], j) \in seen[c])'
        BY <1>1, <1>3 DEF Visited, Span
    <2> QED
        BY <1>5, <2>1, <2>2 DEF Learnt
<1>7. call'[c].offset < Span(call'[c].role) /\ seen'[c] \subseteq RangeFor(call'[c].role)
    BY <1>1, <1>2 DEF Thorough
<1> QED
    BY <1>5, <1>6, <1>7 DEF Thorough, Span, RangeFor

\* A step that changes nothing a call has learnt leaves it learnt.
LEMMA OthersAreThorough ==
    ASSUME TypeOK, NEW c \in Callers, Thorough(c), call'[c] = call[c], seen'[c] = seen[c],
           disturbed[c] => disturbed'[c],
           ~disturbed'[c] => /\ call[c].app \in Present => call[c].app \in Present'
                             /\ \A r \in rows : r.app = call[c].app => r \in rows'
    PROVE  Thorough(c)'
<1>1. ASSUME ~disturbed'[c] PROVE Learnt(c)'
    <2>1. Learnt(c)
        BY <1>1 DEF Thorough
    <2>2. HeldBy(call[c].app, call[c].role) # {} => HeldBy(call[c].app, call[c].role)' # {}
        BY <1>1 DEF HeldBy
    <2> QED
        BY <1>1, <2>1, <2>2 DEF Learnt, Searching, Visited, Span, RangeFor
<1> QED
    BY <1>1 DEF Thorough, Searching, Span, RangeFor

LEMMA ThoroughIsInductive ==
    ASSUME TypeOK, Walking, [Next]_vars, NEW d \in Callers, Thorough(d)
    PROVE  Thorough(d)'
<1>1. ASSUME NEW c \in Callers, Call(c) PROVE Thorough(d)'
    <2>1. PICK a \in AppIds, role \in Roles :
              /\ Becomes(c, [IdleCall EXCEPT !.at = "lookup", !.app = a, !.role = role])
              /\ disturbed' = [disturbed EXCEPT ![c] = a \notin Present]
        BY <1>1 DEF Call
    <2> DEFINE record == [IdleCall EXCEPT !.at = "lookup", !.app = a, !.role = role]
    <2>2. record \in CallRecord /\ record.at = "lookup" /\ record.app = a
        BY DEF IdleCall, CallRecord, Places
    <2> HIDE DEF record
    <2>3. Moved(c, record)
        BY <2>1, <2>2, BecomesMoves DEF record
    <2>4. CASE d = c
        <3>1. seen'[c] = {} /\ disturbed'[c] = (a \notin Present) /\ Present' = Present
            BY <1>1, <2>1 DEF Call, TypeOK, Present
        <3> QED
            BY <2>2, <2>3, <2>4, <3>1 DEF Moved, Thorough, Learnt, Searching
    <2>5. CASE d # c
        BY <1>1, <2>1, <2>3, <2>5, OthersAreThorough DEF Call, Moved, Present, TypeOK
    <2> QED
        BY <2>4, <2>5
<1>2. ASSUME NEW c \in Callers, Step(c) PROVE Thorough(d)'
    <2>0. /\ rows \subseteq rows' /\ disturbed' = disturbed /\ apps' = apps
          /\ d # c => call'[d] = call[d] /\ seen'[d] = seen[d]
          /\ call[c] \in CallRecord
        BY <1>2 DEF Step, LookupFinds, LookupMisses, ProbeBusy, ProbeFree, Exhausted, Insert,
                    InsertRefused, RecheckFinds, RecheckMisses, Return, Goto, Continue, Becomes,
                    TypeOK
    <2>1. CASE d # c
        BY <2>0, <2>1, OthersAreThorough DEF Present
    <2>2. CASE d = c /\ (LookupFinds(c) \/ RecheckFinds(c))
        <3>1. PICK r \in HeldBy(call[c].app, call[c].role) : Return(c, r.port)
            BY <2>2 DEF LookupFinds, RecheckFinds
        <3>2. r.port \in AllPorts /\ r.port # NoPortsAvailable
            BY PortsAreNaturals DEF HeldBy, TypeOK, Row
        <3>3. call'[c] = Returned(c, r.port)
            BY <3>1, <3>2, ReturnMoves DEF Moved
        <3>4. call'[c].port = r.port /\ call'[c].at = "returned" /\ call'[c].role = call[c].role
            BY <2>0, <3>3 DEF Returned, CallRecord
        <3>5. seen' = seen
            BY <2>2 DEF LookupFinds, RecheckFinds
        <3> QED
            BY <2>2, <3>2, <3>4, <3>5 DEF Thorough, Learnt, Searching, Span, RangeFor
    <2>3. CASE d = c /\ Insert(c)
        <3>1. Candidate(c) \in AllPorts /\ Candidate(c) # NoPortsAvailable
            BY <2>3, CandidateInRange, PortsAreNaturals DEF Insert, Walking
        <3>2. call'[c] = Returned(c, Candidate(c))
            BY <2>3, <3>1, ReturnMoves DEF Insert, Moved
        <3>3. /\ call'[c].port = Candidate(c) /\ call'[c].at = "returned"
              /\ call'[c].role = call[c].role
            BY <2>0, <3>2 DEF Returned, CallRecord
        <3>4. seen' = seen
            BY <2>3 DEF Insert
        <3> QED
            BY <2>3, <3>1, <3>3, <3>4 DEF Thorough, Learnt, Searching, Span, RangeFor
    <2>4. CASE d = c /\ ((LookupMisses(c) /\ Return(c, NoPortsAvailable)) \/ Exhausted(c))
        <3>1. call'[c] = Returned(c, NoPortsAvailable)
            BY <2>4, ReturnMoves DEF Exhausted, Moved
        <3>2. call'[c].at = "returned" /\ call'[c].role = call[c].role
            BY <2>0, <3>1 DEF Returned, CallRecord
        <3>3. seen' = seen
            BY <2>4 DEF LookupMisses, Exhausted
        <3>4. ~disturbed[c] => seen[c] = RangeFor(call[c].role)
            <4>1. CASE Exhausted(c)
                BY <2>4, <4>1, EndOfWalk DEF Exhausted, Searching
            <4>2. CASE LookupMisses(c) /\ Return(c, NoPortsAvailable)
                <5>1. ~ Span(call[c].role) > 0
                    <6> SUFFICES ASSUME Span(call[c].role) > 0 PROVE FALSE
                        OBVIOUS
                    <6>1. ~(Span(call[c].role) <= 0)
                        BY <2>0, RangeAssumption DEF CallRecord, Span
                    <6>2. PICK offset \in 0 .. (Span(call[c].role) - 1) :
                              Becomes(c, [call[c] EXCEPT !.at = "walk", !.offset = offset, !.i = 0])
                        BY <4>2, <6>1 DEF LookupMisses
                    <6>3. call'[c].at = "walk"
                        BY <2>0, <6>2, Placed DEF Becomes, TypeOK, Places
                    <6> QED
                        BY <3>2, <6>3
                <5>2. RangeFor(call[c].role) = {}
                    BY <2>0, <5>1, RangeAssumption DEF RangeFor, Span, CallRecord
                <5> QED
                    BY <2>4, <4>2, <5>2 DEF Thorough, LookupMisses
            <4> QED
                BY <2>4, <4>1, <4>2
        <3> QED
            BY <2>0, <2>4, <3>2, <3>3, <3>4 DEF Thorough, Learnt, Searching, Span, RangeFor
    <2>5. CASE d = c /\ LookupMisses(c) /\ ~Return(c, NoPortsAvailable)
        <3>1. PICK offset \in 0 .. (Span(call[c].role) - 1) :
                  Becomes(c, [call[c] EXCEPT !.at = "walk", !.offset = offset, !.i = 0])
            BY <2>5 DEF LookupMisses
        <3>2. offset \in Nat /\ offset < Span(call[c].role)
            BY <2>0, RangeAssumption DEF Span, CallRecord
        <3> DEFINE record == [call[c] EXCEPT !.at = "walk", !.offset = offset, !.i = 0]
        <3>3. /\ record.at = "walk" /\ record.offset = offset /\ record.i = 0
              /\ record.app = call[c].app /\ record.role = call[c].role
            BY <2>0, <3>2, Placed, Fields, StillAsking DEF Places
        <3>4. call'[c] = record
            BY <3>1 DEF Becomes, TypeOK
        <3> HIDE DEF record
        <3>5. /\ call'[c].at = "walk" /\ call'[c].offset < Span(call'[c].role)
              /\ call'[c].i = 0 /\ call'[c].app = call[c].app /\ call'[c].role = call[c].role
            BY <3>2, <3>3, <3>4
        <3>6. seen' = seen /\ call[c].at = "lookup" /\ Present' = Present
            BY <2>5, <2>0 DEF LookupMisses, Present
        <3>7. \A j \in Nat : ~(j < 0)
            OBVIOUS
        <3>8. ~disturbed[c] => Learnt(c)'
            BY <2>5, <3>5, <3>6, <3>7 DEF Thorough, Learnt
        <3> QED
            BY <2>0, <2>5, <3>5, <3>6, <3>8 DEF Thorough, Span, RangeFor
    <2>6. CASE d = c /\ ProbeBusy(c)
        <3>1. Candidate(c) \in RangeFor(call[c].role)
            BY <2>6, CandidateInRange DEF ProbeBusy, Walking
        <3>2. seen'[c] = seen[c] \cup {Visited(call[c], call[c].i)}
            BY <2>6, CandidateIsVisited DEF ProbeBusy, TypeOK
        <3> QED
            BY <2>0, <2>6, <3>1, <3>2, CandidateIsVisited, FurtherIsThorough
               DEF ProbeBusy, Searching, Thorough
    <2>7. CASE d = c /\ RecheckMisses(c)
        <3>1. ~disturbed[c] => Visited(call[c], call[c].i) \in seen[c]
            BY <2>7 DEF RecheckMisses, Thorough, Learnt
        <3> QED
            BY <2>0, <2>7, <3>1, FurtherIsThorough DEF RecheckMisses, Searching, Thorough
    <2>8. CASE d = c /\ ProbeFree(c)
        <3>1. call'[c] = [call[c] EXCEPT !.at = "insert"]
            BY <2>8, GotoMoves DEF ProbeFree, Moved, Places
        <3>2. /\ call'[c].at = "insert" /\ call'[c].app = call[c].app
              /\ call'[c].role = call[c].role /\ call'[c].offset = call[c].offset
              /\ call'[c].i = call[c].i
            BY <2>0, <3>1, Placed, Fields, StillAsking DEF Places
        <3>3. seen' = seen /\ call[c].at = "walk" /\ Present' = Present
            BY <2>8, <2>0 DEF ProbeFree, Present
        <3>4. ~disturbed[c] => Learnt(c)'
            BY <2>8, <3>2, <3>3 DEF Thorough, Learnt, Searching, Visited, Span
        <3> QED
            BY <2>0, <2>8, <3>2, <3>3, <3>4 DEF Thorough, Searching, Span, RangeFor
    <2>9. CASE d = c /\ InsertRefused(c)
        <3>1. call'[c] = [call[c] EXCEPT !.at = "recheck"]
            BY <2>9, GotoMoves DEF InsertRefused, Moved, Places
        <3>2. /\ call'[c].at = "recheck" /\ call'[c].app = call[c].app
              /\ call'[c].role = call[c].role /\ call'[c].offset = call[c].offset
              /\ call'[c].i = call[c].i
            BY <2>0, <3>1, Placed, Fields, StillAsking DEF Places
        <3>3. Visited(call[c], call[c].i) \in RangeFor(call[c].role)
            BY <2>9, CandidateInRange, CandidateIsVisited DEF InsertRefused, Walking
        <3>4. /\ seen[c] \subseteq seen'[c] /\ seen'[c] \subseteq RangeFor(call[c].role)
              /\ ~PrimaryKeyFree(Candidate(c)) => Visited(call[c], call[c].i) \in seen'[c]
            BY <2>9, <3>3, CandidateIsVisited DEF InsertRefused, TypeOK, Thorough
        <3>5. Present' = Present /\ call[c].at = "insert" /\ rows' = rows
            BY <2>9, <2>0 DEF InsertRefused, Present
        <3>6. ASSUME ~disturbed[c]
              PROVE  \/ Visited(call[c], call[c].i) \in seen'[c]
                     \/ HeldBy(call[c].app, call[c].role) # {}
            <4>1. call[c].app \in Present
                BY <2>9, <3>5, <3>6 DEF Thorough, Learnt
            <4>2. ~PrimaryKeyFree(Candidate(c)) \/ ~AppRoleFree(call[c].app, call[c].role)
                BY <2>9, <4>1 DEF InsertRefused, InsertAccepted, ForeignKeyHolds
            <4> QED
                BY <3>4, <4>2 DEF AppRoleFree, HeldBy
        <3>7. ~disturbed[c] => Learnt(c)'
            BY <2>9, <3>2, <3>4, <3>5, <3>6 DEF Thorough, Learnt, Searching, Visited, Span, HeldBy
        <3> QED
            BY <2>0, <2>9, <3>2, <3>4, <3>5, <3>7 DEF Thorough, Searching, Span, RangeFor
    <2> QED
        BY <1>2, <2>1, <2>2, <2>3, <2>4, <2>5, <2>6, <2>7, <2>8, <2>9 DEF Step
<1>3. ASSUME NEW a \in AppIds, Release(a) \/ DeleteApp(a) PROVE Thorough(d)'
    <2>1. /\ rows' = {r \in rows : r.app # a} /\ call' = call /\ seen' = seen
          /\ disturbed'[d] = (disturbed[d] \/ call[d].app = a)
        BY <1>3 DEF Release, DeleteApp, DropRowsOf
    <2>2. \A b \in Present : b # a => b \in Present'
        BY <1>3 DEF Release, DeleteApp, Present, TypeOK
    <2> QED
        BY <2>1, <2>2, OthersAreThorough
<1>4. ASSUME NEW a \in AppIds, CreateApp(a) PROVE Thorough(d)'
    <2>1. Present \subseteq Present'
        BY <1>4 DEF CreateApp, Present, TypeOK
    <2> QED
        BY <1>4, <2>1, OthersAreThorough DEF CreateApp
<1>5. ASSUME NEW p \in AllPorts, Listen(p) \/ StopListening(p) PROVE Thorough(d)'
    BY <1>5, OthersAreThorough DEF Listen, StopListening, Present
<1>6. CASE UNCHANGED vars
    BY <1>6, OthersAreThorough DEF vars, Present
<1> QED
    BY <1>1, <1>2, <1>3, <1>4, <1>5, <1>6 DEF Next

\* A call that raises NoPortsAvailable, and whose app was not released meanwhile,
\* has met every port of its range in somebody's hands.
THEOREM NothingSkipped == Spec => []ExhaustionIsReal
<1> DEFINE Inv == \A c \in Callers : Thorough(c)
<1>1. Init => Inv
    <2>1. \A c \in Callers : Init => call[c].at = "idle" /\ seen[c] = {}
        BY DEF Init, IdleCall
    <2> QED
        BY <2>1 DEF Thorough, Learnt, Searching
<1>2. TypeOK /\ Walking /\ Inv /\ [Next]_vars => Inv'
    BY ThoroughIsInductive
<1>3. Inv => ExhaustionIsReal
    BY DEF Thorough, Learnt, ExhaustionIsReal
<1> HIDE DEF Inv
<1> QED
    BY <1>1, <1>2, <1>3, TypesHold, PTL DEF Spec
=============================================================================
