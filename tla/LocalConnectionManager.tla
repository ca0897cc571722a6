------------------------ MODULE LocalConnectionManager ------------------------
(***************************************************************************)
(* The local connection manager (LCM) of the policy server: the table of   *)
(* connected CMTSs that every API request goes through.                    *)
(*                                                                         *)
(* Each API request is a thread of the web framework ("handler").          *)
(*   POST /connect         gctl_connect      (also the preflight connects) *)
(*   gate set/info/delete  gctl_04, gctl_request: find the session, use it *)
(*   POST /clear           gctl_lcm_reset                                  *)
(* A successful connect boots one session thread, ps_statemachine.         *)
(*                                                                         *)
(* Two mutexes guard the table.  lcm_getps, lcm_alloc_ok and lcm_set take  *)
(* lcm_internal_lock; gctl_lock_tid and gctl_lcm_reset take lcm_lock.      *)
(* Nothing takes both, so /clear excludes another /clear and the writes of *)
(* threads[], but none of the accesses that lcm.c makes.                   *)
(*                                                                         *)
(* An action is the code between two points where another thread can tell  *)
(* the difference.  A session object has an identity of its own for ever:  *)
(* memory that malloc hands out again is a new object, so a stale pointer  *)
(* is always seen as one.  What follows the first access to freed memory,  *)
(* or the join of a thread id that was never stored, is undefined: the     *)
(* model records which access it was in `fault` and takes no step further. *)
(***************************************************************************)
EXTENDS Naturals, FiniteSets

CONSTANTS
    Handlers,   \* threads that serve API requests, the preflight included
    Addresses,  \* CMTS addresses (`cmts_ip`)
    Sessions,   \* objects ps_new may return: the bound on connects
    MaxPep,     \* `max_pep`, the configured number of connections
    MaxRoom,    \* MAXROOM, the length of clients[] and threads[]
    None        \* a null pointer, a free mutex, an unset thread id

\* There is at least one handler, there are finitely many.
ASSUME HandlersAssumption ==
    IsFiniteSet(Handlers) /\ Handlers # {}

\* The limit is a size_t.  lcm_init refuses one above MAXROOM, but not a negative
\* one, which becomes a very large one; so nothing is assumed of its size.
ASSUME LimitAssumption == MaxPep \in Nat /\ MaxRoom \in Nat

\* A null pointer is no object and a free mutex has no owner.
ASSUME NoneAssumption ==
    None \notin Handlers /\ None \notin Sessions /\ None \notin Addresses

VARIABLES
    count,              \* lcm->count
    clients,            \* lcm->clients[]
    threads,            \* threads[] of routes.h; a thread is named by its session
    lcm_internal_lock,  \* the owner of lcm.c's mutex
    lcm_lock,           \* the owner of routes.h's mutex
    heap,               \* what each session object is: unused, allocated, freed
    cmts_addr,          \* the object's address
    die,                \* the object's stop flag
    thread,             \* where the session's thread is in ps_statemachine
    pc,                 \* where each handler is
    op,                 \* what it serves: a connect or a gate request
    ip,                 \* its argument `cmts_ip`
    ps,                 \* its pointer to a session
    pos,                \* its position in the table: i of a loop, or lcm_set's
    fault               \* the first undefined access, or "none"

table    == <<count, clients, threads>>
locks    == <<lcm_internal_lock, lcm_lock>>
objects  == <<heap, cmts_addr, die, thread>>
handlers == <<pc, op, ip, ps, pos>>
vars     == <<count, clients, threads, lcm_internal_lock, lcm_lock, heap,
              cmts_addr, die, thread, pc, op, ip, ps, pos, fault>>

(***************************************************************************)
(* Positions.  The ones from MaxRoom on lie outside the arrays: lcm_set    *)
(* does not test for them.  InBounds says how far a write can go.          *)
(***************************************************************************)
Slots == 0 .. MaxPep + Cardinality(Handlers) - 1

Faults == {"none", "lookup", "proxy", "reply", "clear", "join"}

Labels == {"idle", "lookup", "scan", "alloc", "create", "admit", "boot",
           "set", "store", "bump", "tid", "reply", "proxy",
           "clear", "sweep", "join", "free", "zero"}

\* A handler that passed lcm_alloc_ok and has not yet raised the count.
Passed == {"create", "admit", "boot", "set", "store", "bump"}

\* A handler inside gctl_lcm_reset, and one that holds lcm_lock there.
Clearing == {"clear", "sweep", "join", "free", "zero"}
Sweeping == {"sweep", "join", "free", "zero"}

\* A handler that holds lcm_internal_lock.
InLcm == {"scan", "store", "bump"}

At(labels) == {h \in Handlers : pc[h] \in labels}

Live == {s \in Sessions : thread[s] \in {"loop", "reconnect"}}

Registered == {clients[i] : i \in {j \in Slots : j < count}}

TypeOK ==
    /\ count \in Nat
    /\ clients \in [Slots -> Sessions \cup {None}]
    /\ threads \in [Slots -> Sessions \cup {None}]
    /\ lcm_internal_lock \in Handlers \cup {None}
    /\ lcm_lock \in Handlers \cup {None}
    /\ heap \in [Sessions -> {"unused", "allocated", "freed"}]
    /\ cmts_addr \in [Sessions -> Addresses \cup {None}]
    /\ die \in [Sessions -> BOOLEAN]
    /\ thread \in [Sessions -> {"none", "loop", "reconnect", "exited"}]
    /\ pc \in [Handlers -> Labels]
    /\ op \in [Handlers -> {"none", "connect", "request", "clear"}]
    /\ ip \in [Handlers -> Addresses \cup {None}]
    /\ ps \in [Handlers -> Sessions \cup {None}]
    /\ pos \in [Handlers -> Nat]
    /\ fault \in Faults

(***************************************************************************)
(* lcm_init and gctl_webapi_init: an empty table, both mutexes free.       *)
(***************************************************************************)
Init ==
    /\ count = 0
    /\ clients = [i \in Slots |-> None]
    /\ threads = [i \in Slots |-> None]
    /\ lcm_internal_lock = None
    /\ lcm_lock = None
    /\ heap = [s \in Sessions |-> "unused"]
    /\ cmts_addr = [s \in Sessions |-> None]
    /\ die = [s \in Sessions |-> FALSE]
    /\ thread = [s \in Sessions |-> "none"]
    /\ pc = [h \in Handlers |-> "idle"]
    /\ op = [h \in Handlers |-> "none"]
    /\ ip = [h \in Handlers |-> None]
    /\ ps = [h \in Handlers |-> None]
    /\ pos = [h \in Handlers |-> 0]
    /\ fault = "none"

-----------------------------------------------------------------------------
(* Helpers for the handlers.                                               *)

GoTo(h, label) == pc' = [pc EXCEPT ![h] = label]

\* The handler answers its request; its locals are gone.
Answer(h) ==
    /\ GoTo(h, "idle")
    /\ op' = [op EXCEPT ![h] = "none"]
    /\ ip' = [ip EXCEPT ![h] = None]
    /\ ps' = [ps EXCEPT ![h] = None]
    /\ pos' = [pos EXCEPT ![h] = 0]

\* The first access to freed memory (or to an unset thread id).
Undefined(access) ==
    /\ fault' = access
    /\ UNCHANGED <<table, locks, objects, handlers>>

\* The bound on ps_new: a connect starts only if it will find an object.
ObjectLeft ==
    Cardinality({s \in Sessions : heap[s] = "unused"})
      > Cardinality({h \in At({"lookup", "scan", "alloc", "create"}) :
                        op[h] = "connect"})

Start(h, what, target, label) ==
    /\ pc[h] = "idle"
    /\ GoTo(h, label)
    /\ op' = [op EXCEPT ![h] = what]
    /\ ip' = [ip EXCEPT ![h] = target]
    /\ UNCHANGED <<table, locks, objects, ps, pos, fault>>

-----------------------------------------------------------------------------
(* lcm_getps(lcm, ip): gctl_connect refuses an address it finds, a gate    *)
(* request goes on with the session it finds.                              *)

Found(h, s) ==
    IF op[h] = "request"
    THEN /\ GoTo(h, "proxy")
         /\ ps' = [ps EXCEPT ![h] = s]
         /\ pos' = [pos EXCEPT ![h] = 0]
         /\ UNCHANGED <<op, ip>>
    ELSE Answer(h)                                      \* ECONFLICT

NotFound(h) ==
    IF op[h] = "connect"
    THEN /\ GoTo(h, "alloc")
         /\ pos' = [pos EXCEPT ![h] = 0]
         /\ UNCHANGED <<op, ip, ps>>
    ELSE Answer(h)                                      \* ENOCON

Lookup(h) ==
    /\ pc[h] = "lookup"
    /\ lcm_internal_lock = None
    /\ IF count = 0
       THEN NotFound(h) /\ UNCHANGED lcm_internal_lock
       ELSE /\ lcm_internal_lock' = h
            /\ GoTo(h, "scan")
            /\ UNCHANGED <<op, ip, ps, pos>>
    /\ UNCHANGED <<table, lcm_lock, objects, fault>>

\* Mutant of ScanEnd: the loop leaves the last entry out.
ScanEnd_short(h) ==
    /\ pc[h] = "scan"
    /\ pos[h] + 1 >= count
    /\ lcm_internal_lock' = None
    /\ NotFound(h)
    /\ UNCHANGED <<table, lcm_lock, objects, fault>>

\* The loop ends without a match.  The count is read again in every round.
ScanEnd(h) ==
    /\ pc[h] = "scan"
    /\ pos[h] >= count
    /\ lcm_internal_lock' = None
    /\ NotFound(h)
    /\ UNCHANGED <<table, lcm_lock, objects, fault>>

\* One round: lock the client's evnt_lock, compare its address, unlock.
ScanMatch(h) ==
    /\ pc[h] = "scan"
    /\ pos[h] < count
    /\ heap[clients[pos[h]]] # "freed"
    /\ cmts_addr[clients[pos[h]]] = ip[h]
    /\ lcm_internal_lock' = None
    /\ Found(h, clients[pos[h]])
    /\ UNCHANGED <<table, lcm_lock, objects, fault>>

\* Mutant of ScanNext: `continue` goes round without raising i.
ScanNext_stuck(h) ==
    /\ pc[h] = "scan"
    /\ pos[h] < count
    /\ heap[clients[pos[h]]] # "freed"
    /\ cmts_addr[clients[pos[h]]] # ip[h]
    /\ UNCHANGED vars

ScanNext(h) ==
    /\ pc[h] = "scan"
    /\ pos[h] < count
    /\ heap[clients[pos[h]]] # "freed"
    /\ cmts_addr[clients[pos[h]]] # ip[h]
    /\ pos' = [pos EXCEPT ![h] = @ + 1]
    /\ UNCHANGED <<table, locks, objects, pc, op, ip, ps, fault>>

ScanFreed(h) ==
    /\ pc[h] = "scan"
    /\ pos[h] < count
    /\ heap[clients[pos[h]]] = "freed"
    /\ Undefined("lookup")

-----------------------------------------------------------------------------
(* POST /connect after the lookup.                                         *)

Connect(h) ==
    \E a \in Addresses : ObjectLeft /\ Start(h, "connect", a, "lookup")

\* Mutant of AllocOk: the limit is compared with > instead of >=.
AllocOk_loose(h) ==
    /\ pc[h] = "alloc"
    /\ lcm_internal_lock = None
    /\ IF count > MaxPep
       THEN Answer(h)
       ELSE GoTo(h, "create") /\ UNCHANGED <<op, ip, ps, pos>>
    /\ UNCHANGED <<table, locks, objects, fault>>

\* lcm_alloc_ok: the lock is held for the comparison only, so the answer may
\* be out of date when gctl_connect acts on it.
AllocOk(h) ==
    /\ pc[h] = "alloc"
    /\ lcm_internal_lock = None
    /\ IF count >= MaxPep
       THEN Answer(h)                                   \* ENOROOM
       ELSE GoTo(h, "create") /\ UNCHANGED <<op, ip, ps, pos>>
    /\ UNCHANGED <<table, locks, objects, fault>>

\* ps_new, and then ps_admctl unless the request is a dry run.
Create(h) ==
    /\ pc[h] = "create"
    /\ \E s \in Sessions :
          /\ heap[s] = "unused"
          /\ heap' = [heap EXCEPT ![s] = "allocated"]
          /\ cmts_addr' = [cmts_addr EXCEPT ![s] = ip[h]]
          /\ ps' = [ps EXCEPT ![h] = s]
    /\ \E dry_run \in BOOLEAN :
          GoTo(h, IF dry_run THEN "boot" ELSE "admit")
    /\ UNCHANGED <<table, locks, die, thread, op, ip, pos, fault>>

Admitted(h) ==
    /\ pc[h] = "admit"
    /\ GoTo(h, "boot")
    /\ UNCHANGED <<table, locks, objects, op, ip, ps, pos, fault>>

\* ps_boot starts the thread.
Boot(h) ==
    /\ pc[h] = "boot"
    /\ thread' = [thread EXCEPT ![ps[h]] = "loop"]
    /\ GoTo(h, "set")
    /\ UNCHANGED <<table, locks, heap, cmts_addr, die, op, ip, ps, pos, fault>>

\* ps_admctl or ps_boot failed: ps_free, ESOCKFAIL.
ConnectFails(h) ==
    /\ pc[h] \in {"admit", "boot"}
    /\ heap' = [heap EXCEPT ![ps[h]] = "freed"]
    /\ Answer(h)
    /\ UNCHANGED <<table, locks, cmts_addr, die, thread, fault>>

\* lcm_set: i = count; clients[i] = conn; ++count.  /clear may zero the count
\* in between, and the build may keep the value it read for `i` or read the
\* count again for the increment.
SetLock(h) ==
    /\ pc[h] = "set"
    /\ lcm_internal_lock = None
    /\ lcm_internal_lock' = h
    /\ pos' = [pos EXCEPT ![h] = count]
    /\ GoTo(h, "store")
    /\ UNCHANGED <<table, lcm_lock, objects, op, ip, ps, fault>>

SetStore(h) ==
    /\ pc[h] = "store"
    /\ clients' = [clients EXCEPT ![pos[h]] = ps[h]]
    /\ GoTo(h, "bump")
    /\ UNCHANGED <<count, threads, locks, objects, op, ip, ps, pos, fault>>

\* Mutant of SetBump: the increment is missing.
SetBump_forgets(h) ==
    /\ pc[h] = "bump"
    /\ lcm_internal_lock' = None
    /\ GoTo(h, "tid")
    /\ UNCHANGED <<table, lcm_lock, objects, op, ip, ps, pos, fault>>

SetBump(h) ==
    /\ pc[h] = "bump"
    /\ count' \in {count + 1, pos[h] + 1}
    /\ lcm_internal_lock' = None
    /\ GoTo(h, "tid")
    /\ UNCHANGED <<clients, threads, lcm_lock, objects, op, ip, ps, pos, fault>>

\* gctl_lock_tid
LockTid(h) ==
    /\ pc[h] = "tid"
    /\ lcm_lock = None
    /\ threads' = [threads EXCEPT ![pos[h]] = ps[h]]
    /\ GoTo(h, "reply")
    /\ UNCHANGED <<count, clients, locks, objects, op, ip, ps, pos, fault>>

\* json_ok(JSON_CONNECT, ..., ps->cmts_addr)
Reply(h) ==
    /\ pc[h] = "reply"
    /\ IF heap[ps[h]] = "freed"
       THEN Undefined("reply")
       ELSE Answer(h) /\ UNCHANGED <<table, locks, objects, fault>>

-----------------------------------------------------------------------------
(* Gate requests.  The handler then waits for the report, which no longer  *)
(* involves the session object.                                            *)

Request(h) ==
    \E a \in Addresses : Start(h, "request", a, "lookup")

\* ps_proxy reads ps->handle, ps->connection and ps->sock.
Proxy(h) ==
    /\ pc[h] = "proxy"
    /\ IF heap[ps[h]] = "freed"
       THEN Undefined("proxy")
       ELSE Answer(h) /\ UNCHANGED <<table, locks, objects, fault>>

-----------------------------------------------------------------------------
(* POST /clear: gctl_lcm_reset.                                            *)

Clear(h) == Start(h, "clear", None, "clear")

ClearLock(h) ==
    /\ pc[h] = "clear"
    /\ lcm_lock = None
    /\ IF count = 0
       THEN Answer(h) /\ UNCHANGED lcm_lock
       ELSE /\ lcm_lock' = h
            /\ GoTo(h, "sweep")
            /\ UNCHANGED <<op, ip, ps, pos>>
    /\ UNCHANGED <<table, lcm_internal_lock, objects, fault>>

\* Mutant of Sweep: the stop flag is not raised.
Sweep_untold(h) ==
    /\ pc[h] = "sweep"
    /\ pos[h] < count
    /\ IF heap[clients[pos[h]]] = "freed"
       THEN Undefined("clear")
       ELSE /\ ps' = [ps EXCEPT ![h] = clients[pos[h]]]
            /\ GoTo(h, "join")
            /\ UNCHANGED <<table, locks, objects, op, ip, pos, fault>>

\* One round begins: read the thread id and the client, raise its stop flag.
Sweep(h) ==
    /\ pc[h] = "sweep"
    /\ pos[h] < count
    /\ IF heap[clients[pos[h]]] = "freed"
       THEN Undefined("clear")
       ELSE /\ die' = [die EXCEPT ![clients[pos[h]]] = TRUE]
            /\ ps' = [ps EXCEPT ![h] = clients[pos[h]]]
            /\ GoTo(h, "join")
            /\ UNCHANGED <<table, locks, heap, cmts_addr, thread,
                           op, ip, pos, fault>>

\* pthread_join(threads[i])
Join(h) ==
    /\ pc[h] = "join"
    /\ threads[pos[h]] # None
    /\ thread[threads[pos[h]]] = "exited"
    /\ GoTo(h, "free")
    /\ UNCHANGED <<table, locks, objects, op, ip, ps, pos, fault>>

JoinUnset(h) ==
    /\ pc[h] = "join"
    /\ threads[pos[h]] = None
    /\ Undefined("join")

Free_keeps_tid(h) ==
    /\ pc[h] = "free"
    /\ heap' = [heap EXCEPT ![ps[h]] = "freed"]
    /\ ps' = [ps EXCEPT ![h] = None]
    /\ pos' = [pos EXCEPT ![h] = @ + 1]
    /\ GoTo(h, "sweep")
    /\ UNCHANGED <<table, locks, cmts_addr, die, thread, op, ip, fault>>

\* Close the socket, ps_free, threads[i] = NULL, next round.
Free(h) ==
    /\ pc[h] = "free"
    /\ heap' = [heap EXCEPT ![ps[h]] = "freed"]
    /\ threads' = [threads EXCEPT ![pos[h]] = None]
    /\ ps' = [ps EXCEPT ![h] = None]
    /\ pos' = [pos EXCEPT ![h] = @ + 1]
    /\ GoTo(h, "sweep")
    /\ UNCHANGED <<count, clients, locks, cmts_addr, die, thread, op, ip, fault>>

\* Mutant of SweepEnd: the loop leaves the last client out.
SweepEnd_short(h) ==
    /\ pc[h] = "sweep"
    /\ pos[h] + 1 >= count
    /\ GoTo(h, "zero")
    /\ UNCHANGED <<table, locks, objects, op, ip, ps, pos, fault>>

\* The loop is over.
SweepEnd(h) ==
    /\ pc[h] = "sweep"
    /\ pos[h] >= count
    /\ GoTo(h, "zero")
    /\ UNCHANGED <<table, locks, objects, op, ip, ps, pos, fault>>

\* Mutant of Zero: the count is not reset.
Zero_keeps_count(h) ==
    /\ pc[h] = "zero"
    /\ lcm_lock' = None
    /\ Answer(h)
    /\ UNCHANGED <<table, lcm_internal_lock, objects, fault>>

\* count = 0, sleep(1), unlock.
Zero(h) ==
    /\ pc[h] = "zero"
    /\ count' = 0
    /\ lcm_lock' = None
    /\ Answer(h)
    /\ UNCHANGED <<clients, threads, lcm_internal_lock, objects, fault>>

-----------------------------------------------------------------------------
(* The session thread, as far as /clear depends on it.  ps_statemachine    *)
(* tests `die` at the top of an iteration only.  The iteration that reads  *)
(* a Client-Close is one step with its test; it then reconnects in a loop  *)
(* of its own, which lasts until the CMTS admits the server again.         *)

ThreadExits(s) ==
    /\ thread[s] = "loop"
    /\ die[s]
    /\ thread' = [thread EXCEPT ![s] = "exited"]
    /\ UNCHANGED <<table, locks, heap, cmts_addr, die, handlers, fault>>

ClientClose(s) ==
    /\ thread[s] = "loop"
    /\ ~die[s]
    /\ thread' = [thread EXCEPT ![s] = "reconnect"]
    /\ UNCHANGED <<table, locks, heap, cmts_addr, die, handlers, fault>>

Readmitted(s) ==
    /\ thread[s] = "reconnect"
    /\ thread' = [thread EXCEPT ![s] = "loop"]
    /\ UNCHANGED <<table, locks, heap, cmts_addr, die, handlers, fault>>

-----------------------------------------------------------------------------

\* What a handler does once it has started.
Progress(h) ==
    \/ Lookup(h) \/ ScanEnd(h) \/ ScanMatch(h) \/ ScanNext(h) \/ ScanFreed(h)
    \/ AllocOk(h) \/ Create(h) \/ Admitted(h) \/ Boot(h) \/ ConnectFails(h)
    \/ SetLock(h) \/ SetStore(h) \/ SetBump(h) \/ LockTid(h) \/ Reply(h)
    \/ Proxy(h)
    \/ ClearLock(h) \/ Sweep(h) \/ Join(h) \/ JoinUnset(h) \/ Free(h)
    \/ SweepEnd(h) \/ Zero(h)

Handler(h) == Connect(h) \/ Request(h) \/ Clear(h) \/ Progress(h)

SessionThread(s) == ThreadExits(s) \/ ClientClose(s) \/ Readmitted(s)

\* After an undefined access anything may happen; the model says nothing.
AfterFault == fault # "none" /\ UNCHANGED vars

Next ==
    \/ /\ fault = "none"
       /\ \/ \E h \in Handlers : Handler(h)
          \/ \E s \in Sessions : SessionThread(s)
    \/ AfterFault

Spec == Init /\ [][Next]_vars

\* The scheduler gives every thread its turn, so a handler that can go on
\* does, and a session thread told to stop does at the top of its loop.  No
\* fairness is put on a CMTS: it may refuse the server for ever.
Fairness ==
    /\ \A h \in Handlers : WF_vars(fault = "none" /\ Progress(h))
    /\ \A s \in Sessions : WF_vars(fault = "none" /\ ThreadExits(s))

FairSpec == Spec /\ Fairness

-----------------------------------------------------------------------------
(***************************************************************************)
(* What the table is safe under: /clear is called when nothing else is     *)
(* being served, and no two connects to the same address overlap.  Neither *)
(* is enforced by the code.                                                *)
(***************************************************************************)
ClearAlone ==
    \A g, h \in Handlers :
        pc[h] \in Clearing /\ g # h => pc[g] = "idle"

ConnectsDistinct ==
    \A g, h \in Handlers :
        op[g] = "connect" /\ op[h] = "connect" /\ g # h => ip[g] # ip[h]

QuietNext == Next /\ ClearAlone' /\ ConnectsDistinct'

QuietSpec == Init /\ [][QuietNext]_vars

\* ... and every CMTS admits the server again in the end.
FairQuietSpec ==
    /\ QuietSpec
    /\ Fairness
    /\ \A s \in Sessions : WF_vars(fault = "none" /\ Readmitted(s))

-----------------------------------------------------------------------------
(* Properties of every interleaving.                                       *)

\* The check of the limit and the insertion are two critical sections, so
\* the limit can be passed; but by at most one connection for each handler
\* other than the first, whatever connects and clears overlap.
CapOvershoot == count <= MaxPep + Cardinality(Handlers) - 1

\* /clear never frees the object of a session whose thread still runs, even
\* when connects race with it: the id it joins and the client it frees are
\* read from two arrays that are filled at different moments.
JoinedBeforeFreed == \A s \in Live : heap[s] = "allocated"

\* A thread inside lcm_getps or lcm_set leaves it: the loop of lcm_getps
\* ends although it reads a count that /clear changes under it.
LcmLockReleased ==
    \A h \in Handlers :
        lcm_internal_lock = h ~> (lcm_internal_lock # h \/ fault # "none")

(* Properties when /clear is alone and connects to one CMTS do not overlap. *)

\* No handler touches a freed session, no join of an id that was not stored.
NoFault == fault = "none"

\* Every running session thread can be found: through the table, or through
\* the connect that is about to insert it.  A thread out of reach would keep
\* its CMTS connection until the process ends.
NoLostSession ==
    \A s \in Live :
        \/ s \in Registered
        \/ \E h \in At({"set", "store", "bump"}) : ps[h] = s

\* One session per CMTS, although the lookup and the insertion are apart.
NoDuplicateAddress ==
    \A i, j \in Slots :
        i < count /\ j < count /\ i # j =>
            cmts_addr[clients[i]] # cmts_addr[clients[j]]

\* threads[] and clients[] agree, but for a connect still to store its id.
TidsMatch ==
    \A i \in Slots :
        \/ i >= count
        \/ threads[i] = clients[i]
        \/ \E h \in At({"tid"}) : pos[h] = i /\ ps[h] = clients[i]
        \/ \E h \in At(Sweeping) : i < pos[h]

\* When /clear empties the table every session thread has ended.
ClearStopsAll ==
    [][count > 0 /\ count' = 0 => Live = {}]_vars

\* A /clear that was begun ends, if every CMTS admits the server again.
ClearCompletes ==
    \A h \in Handlers : pc[h] = "clear" ~> pc[h] = "idle"

-----------------------------------------------------------------------------
(***************************************************************************)
(* The registry the API promises.  A session is in it from the moment the  *)
(* count covers its entry until /clear frees it, and held by the request   *)
(* whose lcm_getps returned it until ps_proxy is done.                     *)
(***************************************************************************)
SessionsOf(a) ==
    {s \in Sessions \cap Registered : heap[s] = "allocated" /\ cmts_addr[s] = a}

registry == [a \in Addresses |-> SessionsOf(a)]
held     == [h \in Handlers |-> IF pc[h] = "proxy" THEN ps[h] ELSE None]
closed   == {s \in Sessions : heap[s] = "freed"}

R == INSTANCE Registry

\* Lookups, insertions and the loop of /clear, of several steps each, look
\* like single ones: none finds a session that is about to be closed, none
\* inserts a second one for its CMTS, none is closed twice or left out.
\* (lcm_getps, lcm_alloc_ok, lcm_set, gctl_connect, gctl_lcm_reset.)
ImplementsRegistry == R!Spec

-----------------------------------------------------------------------------
(* What comments of the code say, and the code does not do.                *)

\* lcm.h:14-16 calls MAXROOM the hard cap of the table.
HardCap == count <= MaxRoom

\* lcm.c:3-7 says the lock of the LCM prevents races on the client list.
LookupSafe == fault # "lookup"

=============================================================================
