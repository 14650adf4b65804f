------------------------------- MODULE Ports -------------------------------
(***************************************************************************)
(* The port registry of launcher/ports.py, with the table it keeps in      *)
(* SQLite (launcher/db.py).  Every connection is in autocommit mode, so    *)
(* each SQL statement is one step and anything may happen between two of   *)
(* them: another deploy allocating, the app being deleted, a program that  *)
(* has nothing to do with the launcher taking a port.                      *)
(***************************************************************************)
EXTENDS Integers

CONSTANTS Callers,      \* threads inside allocate(): build workers, requests
          AppIds,       \* ids the apps table hands out (AUTOINCREMENT)
          RangeStart,   \* first port of each role's range
          RangeEnd      \* last port of each role's range

PUBLIC  == "public"
BACKEND == "backend"
Roles   == {PUBLIC, BACKEND}

ASSUME RangeAssumption == /\ RangeStart \in [Roles -> Nat]
                          /\ RangeEnd \in [Roles -> Nat]

\* Every port of a role's range, and how many the walk of allocate() visits.
RangeFor(role) == RangeStart[role] .. RangeEnd[role]
Span(role)     == RangeEnd[role] - RangeStart[role] + 1
AllPorts       == UNION {RangeFor(role) : role \in Roles}

Row == [port : AllPorts, app : AppIds, role : Roles]

\* What allocate() ends with when it raises NoPortsAvailable, and the value
\* of a local that has not been assigned yet.
NoPortsAvailable == -1
Unset            == -2

VARIABLES
    apps,       \* life of each id: "unborn", "present" or "deleted"
    rows,       \* the rows of the ports table
    bound,      \* ports some process is listening on
    call,       \* per caller: where it is in allocate() and its locals
    seen,       \* history: ports the current call found taken
    disturbed   \* history: the call's app lost its rows since the call began

vars == <<apps, rows, bound, call, seen, disturbed>>

Present == {a \in AppIds : apps[a] = "present"}

IdleCall == [at |-> "idle", app |-> Unset, role |-> PUBLIC,
             offset |-> 0, i |-> 0, port |-> Unset]

Init == /\ apps = [a \in AppIds |-> "unborn"]
        /\ rows = {}
        /\ bound = {}
        /\ call = [c \in Callers |-> IdleCall]
        /\ seen = [c \in Callers |-> {}]
        /\ disturbed = [c \in Callers |-> FALSE]

-----------------------------------------------------------------------------
(* allocated_port() and the constraints of the ports table *)

HeldBy(a, role) == {r \in rows : r.app = a /\ r.role = role}

PrimaryKeyFree(p)      == \A r \in rows : r.port # p
AppRoleFree(a, role)   == \A r \in rows : r.app # a \/ r.role # role
ForeignKeyHolds(a)     == a \in Present

\* The candidate the walk looks at: it starts at a random offset and wraps.
Candidate(c) ==
    RangeStart[call[c].role] + ((call[c].offset + call[c].i) % Span(call[c].role))

Becomes(c, record) == call' = [call EXCEPT ![c] = record]

Goto(c, place) == Becomes(c, [call[c] EXCEPT !.at = place])
Return(c, p)   == Becomes(c, [call[c] EXCEPT !.at = "returned", !.port = p,
                                             !.offset = 0, !.i = 0])
\* Mutant: the same port is tried again, in the hope that it gets free.
TrySamePort(c) == Goto(c, "walk")

Continue(c)    == Becomes(c, [call[c] EXCEPT !.at = "walk", !.i = call[c].i + 1])

-----------------------------------------------------------------------------
(* allocate(), one action per statement that touches something shared *)

\* A deploy, a launch or a rollback holds the app's row and asks for a port.
\* The row may have been read before the app was deleted.
Call(c) == \E a \in AppIds, role \in Roles :
    /\ call[c].at \in {"idle", "returned"}
    /\ apps[a] # "unborn"
    /\ Becomes(c, [IdleCall EXCEPT !.at = "lookup", !.app = a, !.role = role])
    /\ seen' = [seen EXCEPT ![c] = {}]
    /\ disturbed' = [disturbed EXCEPT ![c] = a \notin Present]
    /\ UNCHANGED <<apps, rows, bound>>

\* existing = allocated_port(...): an app keeps the port it has.
LookupFinds(c) ==
    /\ call[c].at = "lookup"
    /\ \E r \in HeldBy(call[c].app, call[c].role) : Return(c, r.port)
    /\ UNCHANGED <<apps, rows, bound, seen, disturbed>>

\* Nothing registered: start the walk, or give up if the range is empty.
LookupMisses(c) ==
    /\ call[c].at = "lookup"
    /\ HeldBy(call[c].app, call[c].role) = {}
    /\ \/ /\ Span(call[c].role) <= 0
          /\ Return(c, NoPortsAvailable)
       \/ /\ Span(call[c].role) > 0
          /\ \E offset \in 0 .. (Span(call[c].role) - 1) :
                Becomes(c, [call[c] EXCEPT !.at = "walk", !.offset = offset, !.i = 0])
    /\ UNCHANGED <<apps, rows, bound, seen, disturbed>>

\* _is_bindable(port) says somebody is listening: on to the next port.
ProbeBusy(c) ==
    /\ call[c].at = "walk"
    /\ call[c].i < Span(call[c].role)
    /\ Candidate(c) \in bound
    /\ Continue(c)
    /\ seen' = [seen EXCEPT ![c] = @ \cup {Candidate(c)}]
    /\ UNCHANGED <<apps, rows, bound, disturbed>>

\* The port could be bound a moment ago; the socket is closed again.
ProbeFree(c) ==
    /\ call[c].at = "walk"
    /\ call[c].i < Span(call[c].role)
    /\ Candidate(c) \notin bound
    /\ Goto(c, "insert")
    /\ UNCHANGED <<apps, rows, bound, seen, disturbed>>

\* Mutant: the last port of the walk is never looked at.
ExhaustedEarly(c) ==
    /\ call[c].at = "walk"
    /\ call[c].i >= Span(call[c].role) - 1
    /\ Return(c, NoPortsAvailable)
    /\ UNCHANGED <<apps, rows, bound, seen, disturbed>>

\* The range has been walked to its end.
Exhausted(c) ==
    /\ call[c].at = "walk"
    /\ call[c].i >= Span(call[c].role)
    /\ Return(c, NoPortsAvailable)
    /\ UNCHANGED <<apps, rows, bound, seen, disturbed>>

\* Mutant: a schema whose ports.port is an ordinary column.
NoPrimaryKey(c) ==
    /\ AppRoleFree(call[c].app, call[c].role)
    /\ ForeignKeyHolds(call[c].app)

\* The INSERT is accepted by the primary key, by idx_ports_app_role and by
\* the foreign key to apps.
InsertAccepted(c) ==
    /\ PrimaryKeyFree(Candidate(c))
    /\ AppRoleFree(call[c].app, call[c].role)
    /\ ForeignKeyHolds(call[c].app)

Insert(c) ==
    /\ call[c].at = "insert"
    /\ InsertAccepted(c)
    /\ rows' = rows \cup {[port |-> Candidate(c), app |-> call[c].app, role |-> call[c].role]}
    /\ Return(c, Candidate(c))
    /\ UNCHANGED <<apps, bound, seen, disturbed>>

\* Mutant: INSERT OR IGNORE, which looks like success.
IgnoreRefusal(c) ==
    /\ call[c].at = "insert"
    /\ ~InsertAccepted(c)
    /\ Return(c, Candidate(c))
    /\ UNCHANGED <<apps, rows, bound, seen, disturbed>>

\* sqlite3.IntegrityError, whichever constraint raised it.
InsertRefused(c) ==
    /\ call[c].at = "insert"
    /\ ~InsertAccepted(c)
    /\ Goto(c, "recheck")
    /\ seen' = IF PrimaryKeyFree(Candidate(c)) THEN seen
               ELSE [seen EXCEPT ![c] = @ \cup {Candidate(c)}]
    /\ UNCHANGED <<apps, rows, bound, disturbed>>

\* concurrent = allocated_port(...): another thread got this app its port.
RecheckFinds(c) ==
    /\ call[c].at = "recheck"
    /\ \E r \in HeldBy(call[c].app, call[c].role) : Return(c, r.port)
    /\ UNCHANGED <<apps, rows, bound, seen, disturbed>>

RecheckMisses(c) ==
    /\ call[c].at = "recheck"
    /\ HeldBy(call[c].app, call[c].role) = {}
    /\ Continue(c)
    /\ UNCHANGED <<apps, rows, bound, seen, disturbed>>

-----------------------------------------------------------------------------
(* The rest of the system, as the registry sees it *)

\* db.create_app; the id is new.
CreateApp(a) ==
    /\ apps[a] = "unborn"
    /\ apps' = [apps EXCEPT ![a] = "present"]
    /\ UNCHANGED <<rows, bound, call, seen, disturbed>>

DropRowsOf(a) ==
    /\ rows' = {r \in rows : r.app # a}
    /\ disturbed' = [c \in Callers |-> disturbed[c] \/ call[c].app = a]

\* ports.release, the first half of delete_app; the app may be deleted already
\* when two people press Delete.
Release(a) ==
    /\ apps[a] # "unborn"
    /\ DropRowsOf(a)
    /\ UNCHANGED <<apps, bound, call, seen>>

\* db.delete_app: the row goes, and ON DELETE CASCADE takes its ports along.
DeleteApp(a) ==
    /\ apps[a] = "present"
    /\ apps' = [apps EXCEPT ![a] = "deleted"]
    /\ DropRowsOf(a)
    /\ UNCHANGED <<bound, call, seen>>

\* Some process, an app's or a stranger's, starts or stops listening.
Listen(p) ==
    /\ p \notin bound
    /\ bound' = bound \cup {p}
    /\ UNCHANGED <<apps, rows, call, seen, disturbed>>

StopListening(p) ==
    /\ p \in bound
    /\ bound' = bound \ {p}
    /\ UNCHANGED <<apps, rows, call, seen, disturbed>>

-----------------------------------------------------------------------------
Step(c) == \/ LookupFinds(c) \/ LookupMisses(c)
           \/ ProbeBusy(c) \/ ProbeFree(c) \/ Exhausted(c)
           \/ Insert(c) \/ InsertRefused(c)
           \/ RecheckFinds(c) \/ RecheckMisses(c)

Next == \/ \E c \in Callers : Call(c) \/ Step(c)
        \/ \E a \in AppIds : CreateApp(a) \/ Release(a) \/ DeleteApp(a)
        \/ \E p \in AllPorts : Listen(p) \/ StopListening(p)

Spec == Init /\ [][Next]_vars

\* A thread inside allocate() is running code: it is never parked for good.
FairSpec == Spec /\ \A c \in Callers : WF_vars(Step(c))

-----------------------------------------------------------------------------
(* Properties *)

Places == {"idle", "lookup", "walk", "insert", "recheck", "returned"}

CallRecord == [at : Places, app : AppIds \cup {Unset}, role : Roles,
               offset : Nat, i : Nat,
               port : AllPorts \cup {NoPortsAvailable, Unset}]

\* Type invariant: every table and every local of allocate() keeps its type.
TypeOK == /\ apps \in [AppIds -> {"unborn", "present", "deleted"}]
          /\ rows \subseteq Row
          /\ bound \subseteq AllPorts
          /\ call \in [Callers -> CallRecord]
          /\ seen \in [Callers -> SUBSET AllPorts]
          /\ disturbed \in [Callers -> BOOLEAN]

\* The registry is a matching: a port belongs to one (app, role) and an
\* (app, role) to one port, however many deploys allocate at the same time,
\* and a deleted app holds none (the schema comment at db.py:54).
RegistryIsMatching ==
    /\ \A r, s \in rows : r.port = s.port => r = s
    /\ \A r, s \in rows : r.app = s.app /\ r.role = s.role => r = s
    /\ \A r \in rows : apps[r.app] = "present"

\* A port allocate() returned is, for as long as nobody releases the app, the
\* one registered for it: a restart reuses it and two callers that asked for
\* the same key agree ("Return this app's stable port", ports.py:62).
AnswerIsStable ==
    \A c \in Callers :
        call[c].at = "returned" /\ call[c].port # NoPortsAvailable /\ ~disturbed[c]
            => [port |-> call[c].port, app |-> call[c].app, role |-> call[c].role] \in rows

\* The wrapped walk skips nothing: when allocate() raises NoPortsAvailable and
\* the app was not released meanwhile, the call met every single port of the
\* range in the hands of somebody (ports.py:72-76).
ExhaustionIsReal ==
    \A c \in Callers :
        call[c].at = "returned" /\ call[c].port = NoPortsAvailable /\ ~disturbed[c]
            => seen[c] = RangeFor(call[c].role)

\* A call that was made comes back, with a port or with the exception, no
\* matter how other threads move ports around while it walks.
CallReturns ==
    \A c \in Callers : call[c].at = "lookup" ~> call[c].at = "returned"

-----------------------------------------------------------------------------
(* The abstract registry *)

Keys == AppIds \X Roles

Claims == {<<r.port, <<r.app, r.role>>>> : r \in rows}

Request(c) ==
    CASE call[c].at = "idle" -> [state |-> "idle"]
      [] call[c].at = "returned" /\ call[c].port = NoPortsAvailable -> [state |-> "refused"]
      [] call[c].at = "returned" /\ call[c].port # NoPortsAvailable ->
            [state |-> "answered", port |-> call[c].port]
      [] OTHER -> [state |-> "pending", key |-> <<call[c].app, call[c].role>>]

Registry == INSTANCE PortRegistry
              WITH PortsFor <- [k \in Keys |-> RangeFor(k[2])],
                   claims   <- Claims,
                   request  <- [c \in Callers |-> Request(c)]

\* allocate() with all its steps is one atomic answer of the abstract
\* registry: the port it returns is the key's at the moment it returns, or is
\* claimed in that very step, and was nobody's.
ImplementsRegistry == Registry!Spec
=============================================================================
