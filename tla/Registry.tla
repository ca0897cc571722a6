------------------------------ MODULE Registry ------------------------------
(***************************************************************************)
(* What the web API promises of the CMTSs it is connected to, as if every  *)
(* request were served in one step: there is one session for a CMTS, a     *)
(* request is given the session of the CMTS it names, and keeps it: nobody *)
(* closes a session that a request still uses, and one that was closed is  *)
(* not seen again.  LocalConnectionManager implements it when /clear is    *)
(* called on its own and connects to one CMTS do not overlap.              *)
(***************************************************************************)
CONSTANTS
    Handlers,   \* those who serve requests
    Addresses,  \* of the CMTSs
    Sessions,
    None

VARIABLES
    registry,   \* the sessions of each address
    held,       \* the session that each request uses
    closed      \* the sessions that are closed

vars == <<registry, held, closed>>

Open == UNION {registry[a] : a \in Addresses}

Init ==
    /\ registry = [a \in Addresses |-> {}]
    /\ held = [h \in Handlers |-> None]
    /\ closed = {}

\* A connect that is answered with ok.
Insert(a, s) ==
    /\ registry[a] = {}
    /\ s \notin Open \cup closed
    /\ registry' = [registry EXCEPT ![a] = {s}]
    /\ UNCHANGED <<held, closed>>

\* One that is not, after its session was made.
Fail(s) ==
    /\ s \notin Open \cup closed
    /\ closed' = closed \cup {s}
    /\ UNCHANGED <<registry, held>>

\* A gate request finds its session, and is done with it.
Find(h, a) ==
    /\ held[h] = None
    /\ \E s \in registry[a] : held' = [held EXCEPT ![h] = s]
    /\ UNCHANGED <<registry, closed>>

Drop(h) ==
    /\ held[h] # None
    /\ held' = [held EXCEPT ![h] = None]
    /\ UNCHANGED <<registry, closed>>

\* /clear closes one session after the other.
Close(a) ==
    /\ registry[a] # {}
    /\ \A h \in Handlers : held[h] \notin registry[a]
    /\ registry' = [registry EXCEPT ![a] = {}]
    /\ closed' = closed \cup registry[a]
    /\ UNCHANGED held

Next ==
    \/ \E a \in Addresses : Close(a) \/ \E s \in Sessions : Insert(a, s)
    \/ \E s \in Sessions : Fail(s)
    \/ \E h \in Handlers : Drop(h) \/ \E a \in Addresses : Find(h, a)

Spec == Init /\ [][Next]_vars
=============================================================================
