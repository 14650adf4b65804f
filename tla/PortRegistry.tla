---------------------------- MODULE PortRegistry ----------------------------
(***************************************************************************)
(* What launcher/ports.py promises its callers, with the search for a port *)
(* left out: a caller asks for the port of an (app, role) key and gets, in *)
(* one step, either the port the key already holds, or a port nobody held  *)
(* and that the key holds from then on, or a refusal.  Ports.tla is shown  *)
(* to implement it.                                                        *)
(***************************************************************************)
CONSTANTS Callers,   \* threads that allocate
          Keys,      \* (app, role) pairs
          PortsFor   \* the ports a key may be given: a function of the key

VARIABLES claims,    \* set of <<port, key>>: who holds what
          request    \* what each caller is doing

vars == <<claims, request>>

AnyPort == UNION {PortsFor[k] : k \in Keys}

Idle       == [state |-> "idle"]
Pending(k) == [state |-> "pending", key |-> k]
Answer(p)  == [state |-> "answered", port |-> p]
Refusal    == [state |-> "refused"]

Init == /\ claims = {}
        /\ request = [c \in Callers |-> Idle]

\* A caller that is not waiting asks for the port of a key.
Ask(c) == \E k \in Keys :
    /\ request[c].state # "pending"
    /\ request' = [request EXCEPT ![c] = Pending(k)]
    /\ UNCHANGED claims

\* The key has a port: that one, and no other, is the answer.
AnswerHeld(c) == \E k \in Keys, p \in AnyPort :
    /\ request[c] = Pending(k)
    /\ <<p, k>> \in claims
    /\ request' = [request EXCEPT ![c] = Answer(p)]
    /\ UNCHANGED claims

\* The key has none: it is given a port that nobody holds.
AnswerNew(c) == \E k \in Keys : \E p \in PortsFor[k] :
    /\ request[c] = Pending(k)
    /\ \A claim \in claims : claim[1] # p /\ claim[2] # k
    /\ claims' = claims \cup {<<p, k>>}
    /\ request' = [request EXCEPT ![c] = Answer(p)]

Refuse(c) ==
    /\ request[c].state = "pending"
    /\ request' = [request EXCEPT ![c] = Refusal]
    /\ UNCHANGED claims

\* Some keys give their ports up: an app is released or deleted.
GiveUp == \E gone \in SUBSET Keys :
    /\ claims' = {claim \in claims : claim[2] \notin gone}
    /\ UNCHANGED request

Next == \/ GiveUp
        \/ \E c \in Callers : Ask(c) \/ AnswerHeld(c) \/ AnswerNew(c) \/ Refuse(c)

Spec == Init /\ [][Next]_vars
=============================================================================
