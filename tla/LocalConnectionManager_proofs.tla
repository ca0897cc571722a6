-------------------- MODULE LocalConnectionManager_proofs --------------------
(***************************************************************************)
(* Proofs about LocalConnectionManager, for any number of handlers,        *)
(* addresses, session objects and any limit.                               *)
(***************************************************************************)
EXTENDS LocalConnectionManager, FiniteSetTheorems, TLAPS

\* The largest count CapOvershoot allows.
Bound == MaxPep + Cardinality(Handlers) - 1

(***************************************************************************)
(* A mutex is owned exactly by the handler that is in its critical section.*)
(***************************************************************************)
LockInv ==
    /\ \A h \in Handlers : lcm_internal_lock = h <=> pc[h] \in InLcm
    /\ \A h \in Handlers : lcm_lock = h <=> pc[h] \in Sweeping

(***************************************************************************)
(* CapOvershoot made inductive.  Every handler past lcm_alloc_ok will add  *)
(* one, so it is counted already.  lcm_set may write the position it read  *)
(* before a /clear zeroed the count, so the same holds of that position.   *)
(***************************************************************************)
CapInv ==
    /\ count + Cardinality(At(Passed)) <= Bound
    /\ \A h \in Handlers :
          pc[h] \in {"store", "bump"} => pos[h] + Cardinality(At(Passed)) <= Bound

(***************************************************************************)
(* Why /clear joins the right thread.  A connect owns its session from     *)
(* ps_new until gctl_lock_tid; until then the session is in no entry of    *)
(* threads[], and in clients[] at most at the connect's own position.  So  *)
(* no session is twice in either array, nor in both at two positions.      *)
(***************************************************************************)
Owning == {"admit", "boot", "set", "store", "bump", "tid"}

OwnerKnown ==
    \A h \in At(Owning) : ps[h] \in Sessions /\ heap[ps[h]] # "unused"

OwnersDistinct ==
    \A g, h \in At(Owning) : g # h => ps[g] # ps[h]

OwnerFresh ==
    \A h \in At({"admit", "boot"}) :
        heap[ps[h]] = "allocated" /\ thread[ps[h]] = "none"

ThreadsNotOwned ==
    \A i \in Slots : threads[i] # None =>
        /\ heap[threads[i]] # "unused"
        /\ \A h \in At(Owning) : ps[h] # threads[i]

ClientsOwnPlace ==
    \A i \in Slots : clients[i] # None =>
        /\ heap[clients[i]] # "unused"
        /\ \A h \in At(Owning) :
              ps[h] = clients[i] => pc[h] \in {"bump", "tid"} /\ pos[h] = i

ThreadsOnce ==
    \A i, j \in Slots :
        i # j /\ threads[i] # None =>
            threads[i] # threads[j] /\ threads[i] # clients[j]

ClientsOnce ==
    \A i, j \in Slots : i # j /\ clients[i] # None => clients[i] # clients[j]

RefInv == /\ OwnerKnown /\ OwnersDistinct /\ OwnerFresh
          /\ ThreadsNotOwned /\ ClientsOwnPlace /\ ThreadsOnce /\ ClientsOnce

(***************************************************************************)
(* A thread ends only when told to, and a session that is told to is the   *)
(* one the sweep is at, unless its thread has been joined and forgotten.   *)
(* Hence the thread that a sweep has joined is its client's own.           *)
(***************************************************************************)
UnusedIdle ==
    \A s \in Sessions : heap[s] = "unused" => thread[s] = "none" /\ ~die[s]

ExitedTold ==
    \A s \in Sessions : thread[s] = "exited" => die[s]

ToldIsSwept ==
    \A i \in Slots : threads[i] # None /\ die[threads[i]] =>
        \E h \in At({"join", "free"}) : pos[h] = i /\ ps[h] = threads[i]

ToldOwnerIsJoined ==
    \A h \in At(Owning) : die[ps[h]] =>
        \E g \in At({"join"}) : ps[g] = ps[h]

FreedHasExited ==
    \A h \in At({"free"}) : ps[h] \in Sessions /\ thread[ps[h]] = "exited"

SweptInRange ==
    \A h \in At({"join", "free"}) : pos[h] \in Slots

DieInv == /\ SweptInRange /\ UnusedIdle /\ ExitedTold /\ ToldIsSwept
          /\ ToldOwnerIsJoined /\ FreedHasExited

LEMMA BoundNat == Cardinality(Handlers) \in Nat /\ Bound \in Nat /\ Slots = 0 .. Bound
<1>1. Cardinality(Handlers) \in Nat /\ Cardinality(Handlers) # 0
  BY HandlersAssumption, FS_CardinalityType, FS_EmptySet
<1>2. QED
  BY <1>1, LimitAssumption DEF Bound, Slots

LEMMA PassedFinite ==
    /\ IsFiniteSet(At(Passed))
    /\ Cardinality(At(Passed)) \in Nat
    /\ Cardinality(At(Passed)) <= Cardinality(Handlers)
<1>1. At(Passed) \in SUBSET Handlers
  BY DEF At
<1>2. QED
  BY <1>1, HandlersAssumption, FS_Subset, FS_CardinalityType

\* All the handler actions by name, so that a proof can take them one by one.
LEMMA StepCases ==
  ASSUME Next
  PROVE  \/ \E h \in Handlers : Connect(h) \/ Request(h) \/ Clear(h) \/ Progress(h)
         \/ \E s \in Sessions : SessionThread(s)
         \/ UNCHANGED vars
BY DEF Next, Handler, AfterFault

LEMMA TypeInit == Init => TypeOK
BY DEF Init, TypeOK, Labels, Faults

USE DEF GoTo, Answer, Start, Undefined, table, locks, objects, handlers

LEMMA TypeStep ==
  ASSUME TypeOK, CapInv, [Next]_vars
  PROVE  TypeOK'
<1> USE DEF TypeOK, Labels, Faults
<1>1. ASSUME NEW h \in Handlers, Connect(h) \/ Request(h) \/ Clear(h)
      PROVE  TypeOK'
  BY <1>1 DEF Connect, Request, Clear
<1>2. ASSUME NEW h \in Handlers, Lookup(h) \/ ScanEnd(h) \/ ScanNext(h) \/ ScanFreed(h)
      PROVE  TypeOK'
  BY <1>2 DEF Lookup, ScanEnd, ScanNext, ScanFreed, NotFound
<1>3. ASSUME NEW h \in Handlers, ScanMatch(h)
      PROVE  TypeOK'
  <2>1. pos[h] \in Slots
    BY <1>3, BoundNat, PassedFinite DEF ScanMatch, CapInv
  <2>2. QED
    BY <1>3, <2>1 DEF ScanMatch, Found
<1>4. ASSUME NEW h \in Handlers, AllocOk(h) \/ Create(h) \/ Admitted(h)
      PROVE  TypeOK'
  BY <1>4 DEF AllocOk, Create, Admitted
<1>5. ASSUME NEW h \in Handlers, Boot(h) \/ ConnectFails(h)
      PROVE  TypeOK'
  BY <1>5 DEF Boot, ConnectFails
<1>6. ASSUME NEW h \in Handlers, SetLock(h) \/ SetStore(h) \/ SetBump(h)
      PROVE  TypeOK'
  BY <1>6 DEF SetLock, SetStore, SetBump
<1>7. ASSUME NEW h \in Handlers, LockTid(h) \/ Reply(h) \/ Proxy(h)
      PROVE  TypeOK'
  BY <1>7 DEF LockTid, Reply, Proxy
<1>8. ASSUME NEW h \in Handlers, ClearLock(h) \/ Join(h) \/ JoinUnset(h)
                                   \/ Free(h) \/ SweepEnd(h) \/ Zero(h)
      PROVE  TypeOK'
  BY <1>8 DEF ClearLock, Join, JoinUnset, Free, SweepEnd, Zero
<1>9. ASSUME NEW h \in Handlers, Sweep(h)
      PROVE  TypeOK'
  <2>1. pos[h] \in Slots
    BY <1>9, BoundNat, PassedFinite DEF Sweep, CapInv
  <2>2. clients[pos[h]] \in Sessions \cup {None}
    BY <2>1
  <2>3. CASE heap[clients[pos[h]]] = "freed"
    BY <1>9, <2>3 DEF Sweep
  <2>4. CASE heap[clients[pos[h]]] # "freed"
    <3>1. /\ die' = [die EXCEPT ![clients[pos[h]]] = TRUE]
          /\ ps' = [ps EXCEPT ![h] = clients[pos[h]]]
          /\ pc' = [pc EXCEPT ![h] = "join"]
      BY <1>9, <2>4 DEF Sweep
    <3>2. die' \in [Sessions -> BOOLEAN] /\ ps' \in [Handlers -> Sessions \cup {None}]
      BY <2>2, <3>1
    <3>3. pc' \in [Handlers -> Labels]
      BY <3>1 DEF Labels
    <3>4. QED
      BY <1>9, <2>4, <3>2, <3>3 DEF Sweep
  <2>5. QED
    BY <2>3, <2>4
<1>10. ASSUME NEW s \in Sessions, SessionThread(s)
       PROVE  TypeOK'
  BY <1>10 DEF SessionThread, ThreadExits, ClientClose, Readmitted
<1>11. CASE UNCHANGED vars
  BY <1>11 DEF vars
<1>12. QED
  BY <1>1, <1>2, <1>3, <1>4, <1>5, <1>6, <1>7, <1>8, <1>9, <1>10, <1>11,
     StepCases DEF Progress

-----------------------------------------------------------------------------

LEMMA LockInit == Init => LockInv
BY NoneAssumption DEF Init, LockInv, InLcm, Sweeping

LEMMA LockStep ==
  ASSUME TypeOK, LockInv, [Next]_vars
  PROVE  LockInv'
<1> USE NoneAssumption DEF TypeOK, LockInv, InLcm, Sweeping
<1>1. ASSUME NEW h \in Handlers, Connect(h) \/ Request(h) \/ Clear(h)
      PROVE  LockInv'
  BY <1>1 DEF Connect, Request, Clear
<1>2. ASSUME NEW h \in Handlers, Lookup(h) \/ ScanEnd(h) \/ ScanNext(h) \/ ScanFreed(h)
      PROVE  LockInv'
  BY <1>2 DEF Lookup, ScanEnd, ScanNext, ScanFreed, NotFound
<1>3. ASSUME NEW h \in Handlers, ScanMatch(h)
      PROVE  LockInv'
  BY <1>3 DEF ScanMatch, Found
<1>4. ASSUME NEW h \in Handlers, AllocOk(h) \/ Create(h) \/ Admitted(h)
                                   \/ Boot(h) \/ ConnectFails(h)
      PROVE  LockInv'
  BY <1>4 DEF AllocOk, Create, Admitted, Boot, ConnectFails
<1>5. ASSUME NEW h \in Handlers, SetLock(h) \/ SetStore(h) \/ SetBump(h)
      PROVE  LockInv'
  BY <1>5 DEF SetLock, SetStore, SetBump
<1>6. ASSUME NEW h \in Handlers, LockTid(h) \/ Reply(h) \/ Proxy(h)
      PROVE  LockInv'
  BY <1>6 DEF LockTid, Reply, Proxy
<1>7. ASSUME NEW h \in Handlers, ClearLock(h) \/ Sweep(h) \/ Join(h) \/ JoinUnset(h)
      PROVE  LockInv'
  BY <1>7 DEF ClearLock, Sweep, Join, JoinUnset
<1>8. ASSUME NEW h \in Handlers, Free(h) \/ SweepEnd(h) \/ Zero(h)
      PROVE  LockInv'
  BY <1>8 DEF Free, SweepEnd, Zero
<1>9. ASSUME NEW s \in Sessions, SessionThread(s)
      PROVE  LockInv'
  BY <1>9 DEF SessionThread, ThreadExits, ClientClose, Readmitted
<1>10. CASE UNCHANGED vars
  BY <1>10 DEF vars
<1>11. QED
  BY <1>1, <1>2, <1>3, <1>4, <1>5, <1>6, <1>7, <1>8, <1>9, <1>10,
     StepCases DEF Progress

-----------------------------------------------------------------------------
(* How a step moves a handler into, out of, or past the set that CapInv    *)
(* counts.                                                                 *)

LEMMA PassedSame ==
  ASSUME \A g \in Handlers : pc'[g] \in Passed <=> pc[g] \in Passed
  PROVE  At(Passed)' = At(Passed)
BY DEF At, Passed

LEMMA PassedAdd ==
  ASSUME NEW h \in Handlers, pc[h] \notin Passed, pc'[h] \in Passed,
         \A g \in Handlers \ {h} : pc'[g] = pc[g]
  PROVE  Cardinality(At(Passed)') <= Cardinality(Handlers)
<1>1. At(Passed)' \in SUBSET Handlers
  BY DEF At
<1>2. QED
  BY <1>1, HandlersAssumption, FS_Subset

LEMMA PassedRemove ==
  ASSUME NEW h \in Handlers, pc[h] \in Passed, pc'[h] \notin Passed,
         \A g \in Handlers \ {h} : pc'[g] = pc[g]
  PROVE  Cardinality(At(Passed)') = Cardinality(At(Passed)) - 1
<1>1. At(Passed)' = At(Passed) \ {h} /\ h \in At(Passed)
  BY DEF At, Passed
<1>2. QED
  BY <1>1, PassedFinite, FS_RemoveElement

LEMMA CapInit == Init => CapInv
<1> SUFFICES ASSUME Init PROVE CapInv
  OBVIOUS
<1>1. At(Passed) = {}
  BY DEF Init, At, Passed
<1>2. Cardinality(At(Passed)) = 0
  BY <1>1, FS_EmptySet
<1>3. QED
  BY <1>2, BoundNat DEF Init, CapInv

\* A step that leaves alone the count, who is counted, and the positions of
\* the handlers in lcm_set.
LEMMA CapSame ==
  ASSUME CapInv, count' = count,
         \A g \in Handlers : pc'[g] \in Passed <=> pc[g] \in Passed,
         \A g \in Handlers : pc'[g] \in {"store", "bump"} =>
             pc[g] \in {"store", "bump"} /\ pos'[g] = pos[g]
  PROVE  CapInv'
BY PassedSame DEF CapInv, Bound

LEMMA CapStep ==
  ASSUME TypeOK, LockInv, CapInv, [Next]_vars
  PROVE  CapInv'
<1> USE DEF TypeOK
<1>0. Cardinality(At(Passed)) \in Nat /\ Bound \in Nat
  BY PassedFinite, BoundNat
<1>1. ASSUME NEW h \in Handlers, Connect(h) \/ Request(h) \/ Clear(h)
      PROVE  CapInv'
  BY <1>1, CapSame DEF Connect, Request, Clear, Passed
<1>2. ASSUME NEW h \in Handlers, Lookup(h) \/ ScanEnd(h) \/ ScanMatch(h)
                                   \/ ScanNext(h) \/ ScanFreed(h)
      PROVE  CapInv'
  BY <1>2, CapSame DEF Lookup, ScanEnd, ScanMatch, ScanNext, ScanFreed,
     Found, NotFound, Passed
<1>3. ASSUME NEW h \in Handlers, AllocOk(h)
      PROVE  CapInv'
  <2>1. CASE count >= MaxPep
    BY <1>3, <2>1, CapSame DEF AllocOk, Passed
  <2>2. CASE ~(count >= MaxPep)
    <3>1. Cardinality(At(Passed)') <= Cardinality(Handlers)
      BY <1>3, <2>2, PassedAdd DEF AllocOk, Passed
    <3>2. Cardinality(At(Passed)') \in Nat
      <4>1. At(Passed)' \in SUBSET Handlers
        BY DEF At
      <4>2. QED
        BY <4>1, HandlersAssumption, FS_Subset, FS_CardinalityType
    <3>3. \A g \in Handlers : pc'[g] \notin {"store", "bump"}
      BY <1>3, <2>2, NoneAssumption DEF AllocOk, LockInv, InLcm
    <3>4. count' + Cardinality(At(Passed)') <= Bound
      BY <1>3, <2>2, <3>1, <3>2, BoundNat, LimitAssumption DEF AllocOk, Bound
    <3>5. QED
      BY <3>3, <3>4 DEF CapInv, Bound
  <2>3. QED
    BY <2>1, <2>2
<1>4. ASSUME NEW h \in Handlers, Create(h) \/ Admitted(h) \/ Boot(h)
      PROVE  CapInv'
  BY <1>4, CapSame DEF Create, Admitted, Boot, Passed
<1>5. ASSUME NEW h \in Handlers, ConnectFails(h)
      PROVE  CapInv'
  <2>1. Cardinality(At(Passed)') = Cardinality(At(Passed)) - 1
    BY <1>5, PassedRemove DEF ConnectFails, Passed
  <2>2. \A g \in Handlers : pc'[g] \in {"store", "bump"} =>
           pc[g] \in {"store", "bump"} /\ pos'[g] = pos[g]
    BY <1>5 DEF ConnectFails
  <2>3. count' = count
    BY <1>5 DEF ConnectFails
  <2>4. \A g \in Handlers : pos[g] \in Nat
    OBVIOUS
  <2>5. QED
    BY <1>0, <2>1, <2>2, <2>3, <2>4 DEF CapInv, Bound
<1>6. ASSUME NEW h \in Handlers, SetLock(h)
      PROVE  CapInv'
  <2>1. At(Passed)' = At(Passed)
    BY <1>6, PassedSame DEF SetLock, Passed
  <2>2. \A g \in Handlers : pc'[g] \in {"store", "bump"} => g = h
    BY <1>6, NoneAssumption DEF SetLock, LockInv, InLcm
  <2>3. count' = count /\ pos'[h] = count
    BY <1>6 DEF SetLock
  <2>4. QED
    BY <2>1, <2>2, <2>3 DEF CapInv, Bound
<1>7. ASSUME NEW h \in Handlers, SetStore(h)
      PROVE  CapInv'
  BY <1>7, CapSame DEF SetStore, Passed
<1>8. ASSUME NEW h \in Handlers, SetBump(h)
      PROVE  CapInv'
  <2>1. Cardinality(At(Passed)') = Cardinality(At(Passed)) - 1
    BY <1>8, PassedRemove DEF SetBump, Passed
  <2>2. \A g \in Handlers : pc'[g] \notin {"store", "bump"}
    BY <1>8, NoneAssumption DEF SetBump, LockInv, InLcm
  <2>3. count' \in {count + 1, pos[h] + 1}
    BY <1>8 DEF SetBump
  <2>4. pos[h] + Cardinality(At(Passed)) <= Bound
    BY <1>8 DEF SetBump, CapInv
  <2>5. QED
    BY <1>0, <2>1, <2>2, <2>3, <2>4 DEF CapInv, Bound
<1>9. ASSUME NEW h \in Handlers, LockTid(h) \/ Reply(h) \/ Proxy(h)
      PROVE  CapInv'
  BY <1>9, CapSame DEF LockTid, Reply, Proxy, Passed
<1>10. ASSUME NEW h \in Handlers, ClearLock(h) \/ Sweep(h) \/ Join(h)
                                    \/ JoinUnset(h) \/ Free(h) \/ SweepEnd(h)
       PROVE  CapInv'
  BY <1>10, CapSame DEF ClearLock, Sweep, Join, JoinUnset, Free, SweepEnd, Passed
<1>11. ASSUME NEW h \in Handlers, Zero(h)
       PROVE  CapInv'
  <2>1. At(Passed)' = At(Passed)
    BY <1>11, PassedSame DEF Zero, Passed
  <2>2. \A g \in Handlers : pc'[g] \in {"store", "bump"} =>
           pc[g] \in {"store", "bump"} /\ pos'[g] = pos[g]
    BY <1>11 DEF Zero
  <2>3. count' = 0 /\ count + Cardinality(At(Passed)) <= Bound
    BY <1>11 DEF Zero, CapInv
  <2>4. QED
    BY <1>0, <2>1, <2>2, <2>3 DEF CapInv, Bound
<1>12. ASSUME NEW s \in Sessions, SessionThread(s)
       PROVE  CapInv'
  BY <1>12, CapSame DEF SessionThread, ThreadExits, ClientClose, Readmitted
<1>13. CASE UNCHANGED vars
  BY <1>13, CapSame DEF vars
<1>14. QED
  BY <1>1, <1>2, <1>3, <1>4, <1>5, <1>6, <1>7, <1>8, <1>9, <1>10, <1>11,
     <1>12, <1>13, StepCases DEF Progress

-----------------------------------------------------------------------------

LEMMA RefInit == Init => RefInv
BY DEF Init, RefInv, OwnerKnown, OwnersDistinct, OwnerFresh, ThreadsNotOwned,
       ClientsOwnPlace, ThreadsOnce, ClientsOnce, At, Owning

LEMMA RefStep ==
  ASSUME TypeOK, LockInv, RefInv, DieInv, [Next]_vars
  PROVE  RefInv'
<1> USE NoneAssumption DEF TypeOK, At, Owning, RefInv, OwnerKnown,
      OwnersDistinct, OwnerFresh, ThreadsNotOwned, ClientsOwnPlace,
      ThreadsOnce, ClientsOnce
<1>1. ASSUME NEW h \in Handlers, Connect(h) \/ Request(h) \/ Clear(h)
      PROVE  RefInv'
  BY <1>1 DEF Connect, Request, Clear
<1>2. ASSUME NEW h \in Handlers, Lookup(h) \/ ScanEnd(h) \/ ScanNext(h) \/ ScanFreed(h)
      PROVE  RefInv'
  BY <1>2 DEF Lookup, ScanEnd, ScanNext, ScanFreed, NotFound
<1>3. ASSUME NEW h \in Handlers, ScanMatch(h)
      PROVE  RefInv'
  BY <1>3 DEF ScanMatch, Found
<1>4. ASSUME NEW h \in Handlers, AllocOk(h)
      PROVE  RefInv'
  BY <1>4 DEF AllocOk
<1>5. ASSUME NEW h \in Handlers, Create(h)
      PROVE  RefInv'
  BY <1>5 DEF Create, DieInv, UnusedIdle
<1>6. ASSUME NEW h \in Handlers, Admitted(h)
      PROVE  RefInv'
  BY <1>6 DEF Admitted
<1>7. ASSUME NEW h \in Handlers, Boot(h)
      PROVE  RefInv'
  BY <1>7 DEF Boot
<1>8. ASSUME NEW h \in Handlers, ConnectFails(h)
      PROVE  RefInv'
  BY <1>8 DEF ConnectFails
<1>9. ASSUME NEW h \in Handlers, SetLock(h)
      PROVE  RefInv'
  BY <1>9 DEF SetLock
<1>10. ASSUME NEW h \in Handlers, SetStore(h)
       PROVE  RefInv'
  BY <1>10 DEF SetStore
<1>11. ASSUME NEW h \in Handlers, SetBump(h)
       PROVE  RefInv'
  BY <1>11 DEF SetBump
<1>12. ASSUME NEW h \in Handlers, LockTid(h)
       PROVE  RefInv'
  BY <1>12 DEF LockTid
<1>13. ASSUME NEW h \in Handlers, Reply(h) \/ Proxy(h)
       PROVE  RefInv'
  BY <1>13 DEF Reply, Proxy
<1>14. ASSUME NEW h \in Handlers, ClearLock(h) \/ Join(h) \/ JoinUnset(h) \/ SweepEnd(h)
       PROVE  RefInv'
  BY <1>14 DEF ClearLock, Join, JoinUnset, SweepEnd
<1>15. ASSUME NEW h \in Handlers, Sweep(h)
       PROVE  RefInv'
  BY <1>15 DEF Sweep
<1>16. ASSUME NEW h \in Handlers, Free(h)
       PROVE  RefInv'
  BY <1>16 DEF Free, DieInv, FreedHasExited
<1>17. ASSUME NEW h \in Handlers, Zero(h)
       PROVE  RefInv'
  BY <1>17 DEF Zero
<1>18. ASSUME NEW s \in Sessions, SessionThread(s)
       PROVE  RefInv'
  BY <1>18 DEF SessionThread, ThreadExits, ClientClose, Readmitted
<1>19. CASE UNCHANGED vars
  BY <1>19 DEF vars
<1>20. QED
  BY <1>1, <1>2, <1>3, <1>4, <1>5, <1>6, <1>7, <1>8, <1>9, <1>10, <1>11,
     <1>12, <1>13, <1>14, <1>15, <1>16, <1>17, <1>18, <1>19,
     StepCases DEF Progress

-----------------------------------------------------------------------------

LEMMA DieInit == Init => DieInv
BY DEF Init, DieInv, SweptInRange, UnusedIdle, ExitedTold, ToldIsSwept, ToldOwnerIsJoined,
       FreedHasExited, At, Owning

LEMMA DieStep ==
  ASSUME TypeOK, LockInv, CapInv, RefInv, DieInv, [Next]_vars
  PROVE  DieInv'
<1> USE NoneAssumption DEF TypeOK, At, Owning, DieInv, UnusedIdle, ExitedTold,
      ToldIsSwept, ToldOwnerIsJoined, FreedHasExited, SweptInRange
<1>1. ASSUME NEW h \in Handlers, Connect(h) \/ Request(h) \/ Clear(h)
      PROVE  DieInv'
  BY <1>1 DEF Connect, Request, Clear
<1>2. ASSUME NEW h \in Handlers, Lookup(h) \/ ScanEnd(h) \/ ScanNext(h) \/ ScanFreed(h)
      PROVE  DieInv'
  BY <1>2 DEF Lookup, ScanEnd, ScanNext, ScanFreed, NotFound
<1>3. ASSUME NEW h \in Handlers, ScanMatch(h)
      PROVE  DieInv'
  BY <1>3 DEF ScanMatch, Found
<1>4. ASSUME NEW h \in Handlers, AllocOk(h)
      PROVE  DieInv'
  BY <1>4 DEF AllocOk
<1>5. ASSUME NEW h \in Handlers, Create(h)
      PROVE  DieInv'
  BY <1>5 DEF Create
<1>6. ASSUME NEW h \in Handlers, Admitted(h)
      PROVE  DieInv'
  BY <1>6 DEF Admitted
<1>7. ASSUME NEW h \in Handlers, Boot(h)
      PROVE  DieInv'
  BY <1>7 DEF Boot, RefInv, OwnerFresh
<1>8. ASSUME NEW h \in Handlers, ConnectFails(h)
      PROVE  DieInv'
  BY <1>8 DEF ConnectFails
<1>9. ASSUME NEW h \in Handlers, SetLock(h) \/ SetStore(h) \/ SetBump(h)
      PROVE  DieInv'
  BY <1>9 DEF SetLock, SetStore, SetBump
<1>10. ASSUME NEW h \in Handlers, LockTid(h)
       PROVE  DieInv'
  BY <1>10 DEF LockTid, LockInv, Sweeping
<1>11. ASSUME NEW h \in Handlers, Reply(h) \/ Proxy(h)
       PROVE  DieInv'
  BY <1>11 DEF Reply, Proxy
<1>12. ASSUME NEW h \in Handlers, ClearLock(h) \/ JoinUnset(h) \/ SweepEnd(h)
       PROVE  DieInv'
  BY <1>12 DEF ClearLock, JoinUnset, SweepEnd
<1>13. ASSUME NEW h \in Handlers, Sweep(h)
       PROVE  DieInv'
  <2>1. pos[h] \in Slots
    BY <1>13, BoundNat, PassedFinite DEF Sweep, CapInv
  <2>2. \A g \in Handlers : g # h => pc[g] \notin {"join", "free"}
    BY <1>13 DEF Sweep, LockInv, Sweeping
  <2>3. CASE heap[clients[pos[h]]] = "freed"
    BY <1>13, <2>3 DEF Sweep
  <2>4. CASE heap[clients[pos[h]]] # "freed"
    <3> DEFINE c == clients[pos[h]]
    <3>1. /\ die' = [die EXCEPT ![c] = TRUE]
          /\ ps' = [ps EXCEPT ![h] = c]
          /\ pc' = [pc EXCEPT ![h] = "join"]
          /\ pc[h] = "sweep"
          /\ UNCHANGED <<clients, threads, heap, thread, pos>>
      BY <1>13, <2>4 DEF Sweep
    <3>2. c \in Sessions \cup {None}
      BY <2>1
    <3>3. UnusedIdle'
      BY <2>1, <3>1, <3>2 DEF RefInv, ClientsOwnPlace
    <3>4. ExitedTold'
      BY <3>1, <3>2
    <3>5. ToldIsSwept'
      BY <2>1, <2>2, <3>1, <3>2 DEF RefInv, ThreadsOnce
    <3>6. ToldOwnerIsJoined'
      BY <2>2, <3>1, <3>2
    <3>7. FreedHasExited' /\ SweptInRange'
      BY <2>1, <3>1
    <3>8. QED
      BY <3>3, <3>4, <3>5, <3>6, <3>7
  <2>5. QED
    BY <2>3, <2>4
<1>14. ASSUME NEW h \in Handlers, Join(h)
       PROVE  DieInv'
  <2> DEFINE t == threads[pos[h]]
  <2>1. pos[h] \in Slots /\ t \in Sessions /\ thread[t] = "exited"
    BY <1>14 DEF Join
  <2>2. \A g \in Handlers : g # h => pc[g] \notin {"join", "free"}
    BY <1>14 DEF Join, LockInv, Sweeping
  <2>3. ps[h] = t
    BY <2>1, <2>2
  <2>4. \A g \in At(Owning) : ps[g] # t
    BY <2>1 DEF RefInv, ThreadsNotOwned
  <2>5. /\ pc[h] = "join" /\ pc' = [pc EXCEPT ![h] = "free"]
        /\ UNCHANGED <<threads, heap, thread, die, pos, ps>>
    BY <1>14 DEF Join
  <2>6. QED
    BY <2>1, <2>2, <2>3, <2>4, <2>5
<1>15. ASSUME NEW h \in Handlers, Free(h)
       PROVE  DieInv'
  BY <1>15 DEF Free, LockInv, Sweeping
<1>16. ASSUME NEW h \in Handlers, Zero(h)
       PROVE  DieInv'
  BY <1>16 DEF Zero
<1>17. ASSUME NEW s \in Sessions, SessionThread(s)
       PROVE  DieInv'
  BY <1>17 DEF SessionThread, ThreadExits, ClientClose, Readmitted
<1>18. CASE UNCHANGED vars
  BY <1>18 DEF vars
<1>19. QED
  BY <1>1, <1>2, <1>3, <1>4, <1>5, <1>6, <1>7, <1>8, <1>9, <1>10, <1>11,
     <1>12, <1>13, <1>14, <1>15, <1>16, <1>17, <1>18, StepCases DEF Progress

-----------------------------------------------------------------------------

LEMMA JoinedStep ==
  ASSUME TypeOK, RefInv, DieInv, JoinedBeforeFreed, [Next]_vars
  PROVE  JoinedBeforeFreed'
<1> USE DEF TypeOK, JoinedBeforeFreed, Live
<1>1. ASSUME NEW h \in Handlers, Connect(h) \/ Request(h) \/ Clear(h)
      PROVE  JoinedBeforeFreed'
  BY <1>1 DEF Connect, Request, Clear
<1>2. ASSUME NEW h \in Handlers, Lookup(h) \/ ScanEnd(h) \/ ScanMatch(h)
                                   \/ ScanNext(h) \/ ScanFreed(h) \/ AllocOk(h)
      PROVE  JoinedBeforeFreed'
  BY <1>2 DEF Lookup, ScanEnd, ScanMatch, ScanNext, ScanFreed, AllocOk
<1>3. ASSUME NEW h \in Handlers, Create(h)
      PROVE  JoinedBeforeFreed'
  BY <1>3 DEF Create
<1>4. ASSUME NEW h \in Handlers, Boot(h)
      PROVE  JoinedBeforeFreed'
  BY <1>4 DEF Boot, RefInv, OwnerFresh, At
<1>5. ASSUME NEW h \in Handlers, ConnectFails(h)
      PROVE  JoinedBeforeFreed'
  BY <1>5 DEF ConnectFails, RefInv, OwnerFresh, At
<1>6. ASSUME NEW h \in Handlers, Admitted(h) \/ SetLock(h) \/ SetStore(h)
                          \/ SetBump(h) \/ LockTid(h) \/ Reply(h) \/ Proxy(h)
      PROVE  JoinedBeforeFreed'
  BY <1>6 DEF Admitted, SetLock, SetStore, SetBump, LockTid, Reply, Proxy
<1>7. ASSUME NEW h \in Handlers, ClearLock(h) \/ Sweep(h) \/ Join(h)
                          \/ JoinUnset(h) \/ SweepEnd(h) \/ Zero(h)
      PROVE  JoinedBeforeFreed'
  BY <1>7 DEF ClearLock, Sweep, Join, JoinUnset, SweepEnd, Zero
<1>8. ASSUME NEW h \in Handlers, Free(h)
      PROVE  JoinedBeforeFreed'
  BY <1>8 DEF Free, DieInv, FreedHasExited, At
<1>9. ASSUME NEW s \in Sessions, SessionThread(s)
      PROVE  JoinedBeforeFreed'
  BY <1>9 DEF SessionThread, ThreadExits, ClientClose, Readmitted
<1>10. CASE UNCHANGED vars
  BY <1>10 DEF vars
<1>11. QED
  BY <1>1, <1>2, <1>3, <1>4, <1>5, <1>6, <1>7, <1>8, <1>9, <1>10,
     StepCases DEF Progress

-----------------------------------------------------------------------------

IInv == /\ TypeOK /\ LockInv /\ CapInv
        /\ RefInv /\ DieInv /\ JoinedBeforeFreed

LEMMA IInvInit == Init => IInv
<1>1. Init => JoinedBeforeFreed
  BY DEF Init, JoinedBeforeFreed, Live
<1>2. QED
  BY <1>1, TypeInit, LockInit, CapInit, RefInit, DieInit DEF IInv

LEMMA IInvStep == IInv /\ [Next]_vars => IInv'
BY TypeStep, LockStep, CapStep, RefStep, DieStep, JoinedStep DEF IInv

\* Every reachable state satisfies the inductive invariant.
THEOREM Invariant == Spec => []IInv
BY IInvInit, IInvStep, PTL DEF Spec

\* All variables keep their types, whatever requests overlap.
THEOREM TypeCorrect == Spec => []TypeOK
<1>1. IInv => TypeOK
  BY DEF IInv
<1>2. QED
  BY <1>1, Invariant, PTL

\* The configured limit is exceeded by less than the number of handlers:
\* lcm_alloc_ok and lcm_set are apart, but each handler can be only once
\* between them (gctl_connect).
THEOREM CapOvershootHolds == Spec => []CapOvershoot
<1>1. IInv => CapOvershoot
  BY PassedFinite, BoundNat DEF IInv, TypeOK, CapInv, CapOvershoot, Bound
<1>2. QED
  BY <1>1, Invariant, PTL

\* lcm_set stays inside clients[], without a test of its own, whenever the
\* limit leaves room for the handlers that can be past lcm_alloc_ok at once.
THEOREM HardCapIfRoom ==
  ASSUME MaxPep + Cardinality(Handlers) - 1 <= MaxRoom
  PROVE  Spec => []HardCap
<1>1. IInv => HardCap
  BY PassedFinite, BoundNat, LimitAssumption
     DEF IInv, TypeOK, CapInv, HardCap, Bound
<1>2. QED
  BY <1>1, Invariant, PTL

\* gctl_lcm_reset never frees a session whose thread still runs.
THEOREM JoinedBeforeFreedHolds == Spec => []JoinedBeforeFreed
<1>1. IInv => JoinedBeforeFreed
  BY DEF IInv
<1>2. QED
  BY <1>1, Invariant, PTL

-----------------------------------------------------------------------------
(***************************************************************************)
(* Proofs about QuietSpec: the table when /clear is called on its own and  *)
(* no two connects to one address overlap.  They build on the invariant    *)
(* shown above of every interleaving.                                      *)
(***************************************************************************)

\* The connects that hold a session whose thread runs.
Booted == {"set", "store", "bump", "tid"}

\* The connects for which lcm_getps has found no session with their address.
Unconflicted == {"alloc", "create"} \cup (Owning \ {"tid"})

(***************************************************************************)
(* What each handler may rely on between its steps.                        *)
(***************************************************************************)

\* lcm_getps: positions start at zero, and no entry passed so far matches.
LookupPart(h) ==
    /\ pc[h] \in {"idle", "lookup", "clear"} => pos[h] = 0
    /\ pc[h] = "scan" => \A i \in Slots :
          i < count /\ i < pos[h] => cmts_addr[clients[i]] # ip[h]

\* gctl_connect: no entry conflicts until its own is in, the session is the
\* connect's, and the count does not move between lcm_set's read and write.
ConnectPart(h) ==
    /\ pc[h] \in Unconflicted \cup {"tid", "reply"} => op[h] = "connect"
    /\ pc[h] \in Unconflicted => \A i \in Slots :
          i < count => cmts_addr[clients[i]] # ip[h]
    /\ pc[h] \in Owning => cmts_addr[ps[h]] = ip[h]
    /\ pc[h] \in Booted => heap[ps[h]] = "allocated"
    /\ pc[h] \in {"store", "bump"} => pos[h] = count
    /\ pc[h] = "bump" => clients[pos[h]] = ps[h]
    /\ pc[h] \in {"tid", "reply"} => pos[h] < count /\ clients[pos[h]] = ps[h]

\* A gate request's session is in the table.
GatePart(h) ==
    pc[h] = "proxy" => ps[h] \in Registered

\* gctl_lcm_reset: the threads of the entries it has passed have ended.
ClearPart(h) ==
    /\ pc[h] \in {"join", "free"} => pos[h] < count /\ ps[h] = clients[pos[h]]
    /\ pc[h] = "zero" => pos[h] >= count
    /\ pc[h] \in Sweeping => \A i \in Slots :
          i < pos[h] /\ i < count =>
              clients[i] \in Sessions /\ thread[clients[i]] = "exited"

\* Entries in use that no sweep has passed hold sessions that exist.
EntriesAllocated ==
    \A i \in Slots :
        i < count /\ (\A h \in At(Sweeping) : pos[h] <= i) =>
            clients[i] \in Sessions /\ heap[clients[i]] = "allocated"

HandlersQ ==
    \A h \in Handlers :
        LookupPart(h) /\ ConnectPart(h) /\ GatePart(h) /\ ClearPart(h)

TableQ == EntriesAllocated /\ TidsMatch /\ NoLostSession /\ NoDuplicateAddress

QInv == ClearAlone /\ ConnectsDistinct /\ NoFault /\ HandlersQ /\ TableQ

LEMMA QInit == Init => QInv
BY DEF Init, QInv, ClearAlone, ConnectsDistinct, NoFault, HandlersQ, LookupPart,
       ConnectPart, GatePart, ClearPart, TableQ, EntriesAllocated, TidsMatch,
       NoLostSession, NoDuplicateAddress, At, Live, Unconflicted, Owning, Booted,
       Sweeping, Clearing, Slots

\* The facts every step starts from.
LEMMA QFacts ==
  ASSUME IInv, QInv
  PROVE  /\ TypeOK /\ LockInv /\ CapInv /\ RefInv /\ DieInv
         /\ ClearAlone /\ ConnectsDistinct /\ HandlersQ /\ fault = "none"
         /\ EntriesAllocated /\ TidsMatch /\ NoLostSession /\ NoDuplicateAddress
         /\ \A i \in Slots : i \in Nat
         /\ \A n \in Nat : n < count => n \in Slots
         /\ count \in Slots
<1>1. TypeOK /\ CapInv
  BY DEF IInv
<1>2. /\ \A i \in Slots : i \in Nat
      /\ \A n \in Nat : n < count => n \in Slots
      /\ count \in Slots
  BY <1>1, BoundNat, PassedFinite DEF TypeOK, CapInv
<1>3. QED
  BY <1>1, <1>2 DEF IInv, QInv, TableQ, NoFault

-----------------------------------------------------------------------------
(***************************************************************************)
(* Steps that leave the table and the objects alone.                       *)
(***************************************************************************)

OthersSame(h) ==
    \A g \in Handlers : g # h =>
        /\ pc'[g] = pc[g] /\ op'[g] = op[g] /\ ip'[g] = ip[g]
        /\ ps'[g] = ps[g] /\ pos'[g] = pos[g]

ObjectsSame ==
    /\ heap' = heap /\ cmts_addr' = cmts_addr /\ thread' = thread

TableSame ==
    count' = count /\ clients' = clients /\ threads' = threads

LEMMA FrameQ ==
  ASSUME IInv, QInv, ClearAlone', ConnectsDistinct', NEW h \in Handlers,
         OthersSame(h), ObjectsSame, TableSame, fault' = fault,
         LookupPart(h)' /\ ConnectPart(h)' /\ GatePart(h)' /\ ClearPart(h)',
         pc[h] \in {"set", "store", "bump"} =>
             pc'[h] \in {"set", "store", "bump"} /\ ps'[h] = ps[h],
         pc[h] # "tid",
         pc[h] \in Sweeping => pc'[h] \in Sweeping /\ pos'[h] = pos[h]
  PROVE  QInv'
<1> USE QFacts DEF TypeOK, At, OthersSame, ObjectsSame, TableSame
<1>1. Registered' = Registered /\ Live' = Live
  BY DEF Registered, Live
<1>2. HandlersQ'
  BY <1>1 DEF HandlersQ, LookupPart, ConnectPart, GatePart, ClearPart
<1>3. EntriesAllocated'
  BY DEF EntriesAllocated, Sweeping
<1>4. TidsMatch'
  BY DEF TidsMatch, Sweeping
<1>5. NoLostSession'
  BY <1>1 DEF NoLostSession
<1>6. NoDuplicateAddress'
  BY DEF NoDuplicateAddress
<1>7. QED
  BY <1>2, <1>3, <1>4, <1>5, <1>6 DEF QInv, TableQ, NoFault

\* What QFacts says of one handler.
LEMMA HandlerFacts ==
  ASSUME IInv, QInv, NEW h \in Handlers
  PROVE  LookupPart(h) /\ ConnectPart(h) /\ GatePart(h) /\ ClearPart(h)
BY QFacts DEF HandlersQ

LEMMA FrameStepsQ ==
  ASSUME IInv, QInv, ClearAlone', ConnectsDistinct', NEW h \in Handlers
  PROVE  /\ Connect(h) \/ Request(h) \/ Clear(h) => QInv'
         /\ Lookup(h) \/ ScanEnd(h) \/ ScanMatch(h) \/ ScanNext(h) => QInv'
         /\ AllocOk(h) \/ Admitted(h) \/ SetLock(h) => QInv'
         /\ ClearLock(h) \/ Join(h) \/ SweepEnd(h) => QInv'
<1> USE QFacts, HandlerFacts DEF TypeOK, OthersSame, ObjectsSame, TableSame,
      Unconflicted, Owning, Booted, Sweeping, ConnectPart, LookupPart, GatePart, ClearPart
<1>1. ASSUME Connect(h) \/ Request(h) \/ Clear(h)
      PROVE  QInv'
  BY <1>1, FrameQ DEF Connect, Request, Clear
<1>2. ASSUME Lookup(h)
      PROVE  QInv'
  BY <1>2, FrameQ DEF Lookup, NotFound
<1>3. ASSUME ScanEnd(h)
      PROVE  QInv'
  BY <1>3, FrameQ DEF ScanEnd, NotFound
<1>4. ASSUME ScanMatch(h)
      PROVE  QInv'
  <2>1. pos[h] \in Slots
    BY <1>4 DEF ScanMatch
  <2>2. clients[pos[h]] \in Registered
    BY <1>4, <2>1 DEF ScanMatch, Registered
  <2>3. Registered' = Registered
    BY <1>4 DEF ScanMatch, Registered
  <2>4. QED
    BY <1>4, <2>2, <2>3, FrameQ DEF ScanMatch, Found
<1>5. ASSUME ScanNext(h)
      PROVE  QInv'
  <2>1. \A i \in Slots : i < pos[h] + 1 => i < pos[h] \/ i = pos[h]
    OBVIOUS
  <2>2. LookupPart(h)'
    BY <1>5, <2>1 DEF ScanNext
  <2>3. QED
    BY <1>5, <2>2, FrameQ DEF ScanNext
<1>6. ASSUME AllocOk(h)
      PROVE  QInv'
  BY <1>6, FrameQ DEF AllocOk
<1>7. ASSUME Admitted(h)
      PROVE  QInv'
  BY <1>7, FrameQ DEF Admitted
<1>8. ASSUME SetLock(h)
      PROVE  QInv'
  BY <1>8, FrameQ DEF SetLock
<1>9. ASSUME ClearLock(h)
      PROVE  QInv'
  BY <1>9, FrameQ DEF ClearLock
<1>10. ASSUME Join(h)
      PROVE  QInv'
  BY <1>10, FrameQ DEF Join, DieInv, FreedHasExited
<1>11. ASSUME SweepEnd(h)
      PROVE  QInv'
  BY <1>11, FrameQ DEF SweepEnd
<1>12. QED
  BY <1>1, <1>2, <1>3, <1>4, <1>5, <1>6, <1>7, <1>8, <1>9, <1>10, <1>11

-----------------------------------------------------------------------------
(***************************************************************************)
(* With /clear alone, no step of a connect or a gate request finds the     *)
(* table being swept: no access is undefined.                              *)
(***************************************************************************)

LEMMA NoSweepQ ==
  ASSUME IInv, QInv, NEW h \in Handlers, pc[h] \notin Clearing, pc[h] # "idle"
  PROVE  /\ \A g \in Handlers : pc[g] \notin Clearing
         /\ \A i \in Slots : i < count =>
               clients[i] \in Sessions /\ heap[clients[i]] = "allocated"
BY QFacts DEF ClearAlone, Clearing, Sweeping, EntriesAllocated, At

LEMMA NoUndefinedQ ==
  ASSUME IInv, QInv, NEW h \in Handlers
  PROVE  /\ ~ScanFreed(h) /\ ~JoinUnset(h)
         /\ Reply(h) \/ Proxy(h) => heap[ps[h]] # "freed"
         /\ Sweep(h) => heap[clients[pos[h]]] # "freed"
<1> USE QFacts, HandlerFacts DEF TypeOK, At
<1>1. ~ScanFreed(h)
  BY NoSweepQ DEF ScanFreed, Clearing
<1>2. Reply(h) \/ Proxy(h) => heap[ps[h]] # "freed"
  <2>1. pc[h] = "reply" => heap[ps[h]] # "freed"
    BY NoSweepQ DEF ConnectPart, Clearing
  <2>2. pc[h] = "proxy" => heap[ps[h]] # "freed"
    BY NoSweepQ DEF GatePart, Registered, Clearing
  <2>3. QED
    BY <2>1, <2>2 DEF Reply, Proxy
<1>3. pc[h] \in {"sweep", "join"} => \A g \in Handlers : g # h => pc[g] = "idle"
  BY DEF ClearAlone, Clearing
<1>4. pc[h] \in {"sweep", "join"} /\ pos[h] < count =>
          clients[pos[h]] \in Sessions /\ heap[clients[pos[h]]] = "allocated"
  <2>1. SUFFICES ASSUME pc[h] \in {"sweep", "join"}, pos[h] < count
                 PROVE  clients[pos[h]] \in Sessions /\ heap[clients[pos[h]]] = "allocated"
    OBVIOUS
  <2>2. pos[h] \in Slots /\ \A g \in At(Sweeping) : g = h
    BY <1>3, <2>1 DEF Sweeping
  <2>3. QED
    BY <2>1, <2>2 DEF EntriesAllocated
<1>5. Sweep(h) => heap[clients[pos[h]]] # "freed"
  BY <1>4 DEF Sweep
<1>6. ~JoinUnset(h)
  <2>1. SUFFICES ASSUME pc[h] = "join", threads[pos[h]] = None PROVE FALSE
    BY DEF JoinUnset
  <2>2. pos[h] \in Slots /\ pos[h] < count
    BY <2>1 DEF ClearPart
  <2>3. At({"tid"}) = {} /\ \A g \in At(Sweeping) : g = h
    BY <1>3, <2>1 DEF Sweeping
  <2>4. threads[pos[h]] = clients[pos[h]]
    BY <2>2, <2>3 DEF TidsMatch
  <2>5. QED
    BY <1>4, <2>1, <2>2, <2>4, NoneAssumption
<1>7. QED
  BY <1>1, <1>2, <1>5, <1>6

LEMMA UseStepsQ ==
  ASSUME IInv, QInv, ClearAlone', ConnectsDistinct', NEW h \in Handlers
  PROVE  Reply(h) \/ Proxy(h) \/ Sweep(h) => QInv'
<1> USE QFacts, HandlerFacts, NoUndefinedQ DEF TypeOK, OthersSame, ObjectsSame,
      TableSame, Unconflicted, Owning, Booted, Sweeping,
      ConnectPart, LookupPart, GatePart, ClearPart
<1>1. ASSUME Reply(h) \/ Proxy(h)
      PROVE  QInv'
  BY <1>1, FrameQ, SMTT(30) DEF Reply, Proxy
<1>2. ASSUME Sweep(h)
      PROVE  QInv'
  BY <1>2, FrameQ DEF Sweep
<1>3. QED
  BY <1>1, <1>2

-----------------------------------------------------------------------------
(***************************************************************************)
(* Steps of a connect that change an object or the table.  /clear is not   *)
(* at work then.                                                           *)
(***************************************************************************)

LEMMA CreateQ ==
  ASSUME IInv, QInv, ClearAlone', ConnectsDistinct', NEW h \in Handlers, Create(h)
  PROVE  QInv'
<1> USE QFacts, HandlerFacts DEF TypeOK, At, OthersSame
<1>1. PICK s \in Sessions :
        /\ heap[s] = "unused" /\ heap' = [heap EXCEPT ![s] = "allocated"]
        /\ cmts_addr' = [cmts_addr EXCEPT ![s] = ip[h]]
        /\ ps' = [ps EXCEPT ![h] = s]
  BY DEF Create
<1>2. /\ pc[h] = "create" /\ pc'[h] \in {"boot", "admit"} /\ OthersSame(h)
      /\ op'[h] = op[h] /\ ip'[h] = ip[h] /\ pos'[h] = pos[h]
      /\ TableSame /\ thread' = thread /\ fault' = fault
  BY DEF Create, TableSame
<1>3. /\ \A g \in Handlers : pc[g] \notin Clearing
      /\ \A i \in Slots : i < count =>
            /\ clients[i] \in Sessions /\ heap[clients[i]] = "allocated"
            /\ cmts_addr'[clients[i]] = cmts_addr[clients[i]]
  BY <1>1, <1>2, NoSweepQ DEF Clearing
<1>4. Registered' = Registered /\ Live' = Live
  BY <1>2 DEF Registered, Live, TableSame
<1>5. \A g \in Handlers : LookupPart(g)' /\ GatePart(g)'
  BY <1>2, <1>3, <1>4 DEF LookupPart, GatePart, TableSame
<1>6. \A g \in Handlers : ClearPart(g)'
  BY <1>2, <1>3 DEF ClearPart, Clearing, Sweeping
<1>7. ConnectPart(h)'
  BY <1>1, <1>2, <1>3 DEF ConnectPart, TableSame, Unconflicted, Owning, Booted
<1>8. ASSUME NEW g \in Handlers, g # h PROVE ConnectPart(g)'
  <2>1. pc[g] \in Owning => ps[g] # s
    BY <1>1 DEF RefInv, OwnerKnown
  <2>2. QED
    BY <1>1, <1>2, <1>3, <2>1 DEF ConnectPart, TableSame, Unconflicted, Owning, Booted
<1>9. EntriesAllocated' /\ TidsMatch' /\ NoLostSession' /\ NoDuplicateAddress'
  <2>1. EntriesAllocated' /\ NoDuplicateAddress'
    BY <1>1, <1>2, <1>3 DEF EntriesAllocated, NoDuplicateAddress, TableSame
  <2>2. TidsMatch'
    BY <1>2 DEF TidsMatch, TableSame, Sweeping
  <2>3. NoLostSession'
    BY <1>2, <1>4 DEF NoLostSession
  <2>4. QED
    BY <2>1, <2>2, <2>3
<1>10. QED
  BY <1>2, <1>5, <1>6, <1>7, <1>8, <1>9 DEF QInv, HandlersQ, TableQ, NoFault

LEMMA BootQ ==
  ASSUME IInv, QInv, ClearAlone', ConnectsDistinct', NEW h \in Handlers, Boot(h)
  PROVE  QInv'
<1> USE QFacts, HandlerFacts DEF TypeOK, At, OthersSame
<1>1. /\ pc[h] = "boot" /\ pc'[h] = "set" /\ OthersSame(h)
      /\ op'[h] = op[h] /\ ip'[h] = ip[h] /\ pos'[h] = pos[h] /\ ps'[h] = ps[h]
      /\ TableSame /\ heap' = heap /\ cmts_addr' = cmts_addr /\ fault' = fault
      /\ thread' = [thread EXCEPT ![ps[h]] = "loop"]
  BY DEF Boot, TableSame
<1>2. \A g \in Handlers : pc[g] \notin Clearing
  BY <1>1, NoSweepQ DEF Clearing
<1>3. /\ Registered' = Registered
      /\ \A s \in Live' : s = ps[h] \/ s \in Live
  BY <1>1 DEF Registered, Live, TableSame
<1>4. \A g \in Handlers : LookupPart(g)' /\ GatePart(g)' /\ ClearPart(g)'
  BY <1>1, <1>2, <1>3 DEF LookupPart, GatePart, ClearPart, TableSame, Clearing, Sweeping
<1>5. heap[ps[h]] = "allocated"
  BY <1>1 DEF RefInv, OwnerFresh
<1>6. \A g \in Handlers : ConnectPart(g)'
  BY <1>1, <1>5 DEF ConnectPart, TableSame, Unconflicted, Owning, Booted
<1>7. EntriesAllocated' /\ NoDuplicateAddress'
  BY <1>1, <1>2 DEF EntriesAllocated, NoDuplicateAddress, TableSame, Sweeping, Clearing
<1>8. TidsMatch'
  BY <1>1 DEF TidsMatch, TableSame, Sweeping
<1>9. NoLostSession'
  BY <1>1, <1>3 DEF NoLostSession
<1>10. QED
  BY <1>1, <1>4, <1>6, <1>7, <1>8, <1>9 DEF QInv, HandlersQ, TableQ, NoFault

LEMMA ConnectFailsQ ==
  ASSUME IInv, QInv, ClearAlone', ConnectsDistinct', NEW h \in Handlers,
         ConnectFails(h)
  PROVE  QInv'
<1> USE QFacts, HandlerFacts DEF TypeOK, At, OthersSame
<1>1. /\ pc[h] \in {"admit", "boot"} /\ pc'[h] = "idle" /\ OthersSame(h)
      /\ pos'[h] = 0
      /\ TableSame /\ cmts_addr' = cmts_addr /\ thread' = thread /\ fault' = fault
      /\ heap' = [heap EXCEPT ![ps[h]] = "freed"]
  BY DEF ConnectFails, TableSame
<1>2. /\ \A g \in Handlers : pc[g] \notin Clearing
      /\ \A i \in Slots : i < count =>
            clients[i] \in Sessions /\ heap[clients[i]] = "allocated"
  BY <1>1, NoSweepQ DEF Clearing
<1>3. ps[h] \in Sessions
  BY <1>1 DEF RefInv, OwnerKnown, Owning
<1>4. \A i \in Slots : i < count => clients[i] # ps[h]
  BY <1>1, <1>2, <1>3, NoneAssumption DEF RefInv, ClientsOwnPlace, Owning
<1>5. Registered' = Registered /\ Live' = Live
  BY <1>1 DEF Registered, Live, TableSame
<1>6. \A g \in Handlers : LookupPart(g)' /\ GatePart(g)' /\ ClearPart(g)'
  BY <1>1, <1>2, <1>5 DEF LookupPart, GatePart, ClearPart, TableSame, Clearing, Sweeping
<1>7. ConnectPart(h)'
  BY <1>1 DEF ConnectPart, Unconflicted, Owning, Booted
<1>8. ASSUME NEW g \in Handlers, g # h PROVE ConnectPart(g)'
  <2>1. pc[g] \in Owning => ps[g] # ps[h]
    BY <1>1, <1>8 DEF RefInv, OwnersDistinct, Owning
  <2>2. QED
    BY <1>1, <1>8, <2>1 DEF ConnectPart, TableSame, Unconflicted, Owning, Booted
<1>9. EntriesAllocated' /\ NoDuplicateAddress'
  BY <1>1, <1>2, <1>4 DEF EntriesAllocated, NoDuplicateAddress, TableSame
<1>10. TidsMatch'
  BY <1>1 DEF TidsMatch, TableSame, Sweeping
<1>11. NoLostSession'
  BY <1>1, <1>5 DEF NoLostSession
<1>12. QED
  BY <1>1, <1>6, <1>7, <1>8, <1>9, <1>10, <1>11 DEF QInv, HandlersQ, TableQ, NoFault

LEMMA SetStoreQ ==
  ASSUME IInv, QInv, ClearAlone', ConnectsDistinct', NEW h \in Handlers, SetStore(h)
  PROVE  QInv'
<1> USE QFacts, HandlerFacts DEF TypeOK, At, OthersSame
<1>1. /\ pc[h] = "store" /\ pc'[h] = "bump" /\ OthersSame(h)
      /\ op'[h] = op[h] /\ ip'[h] = ip[h] /\ pos'[h] = pos[h] /\ ps'[h] = ps[h]
      /\ count' = count /\ threads' = threads /\ ObjectsSame /\ fault' = fault
      /\ clients' = [clients EXCEPT ![pos[h]] = ps[h]]
  BY DEF SetStore, ObjectsSame
<1>2. \A g \in Handlers : pc[g] \notin Clearing
  BY <1>1, NoSweepQ DEF Clearing
<1>3. pos[h] = count
  BY <1>1 DEF ConnectPart
<1>4. \A i \in Slots : i < count => clients'[i] = clients[i]
  BY <1>1, <1>3
<1>5. clients'[pos[h]] = ps[h]
  BY <1>1, <1>3
<1>6. Registered' = Registered /\ Live' = Live
  BY <1>1, <1>4 DEF Registered, Live, ObjectsSame
<1>7. \A g \in Handlers : LookupPart(g)' /\ GatePart(g)' /\ ClearPart(g)'
  BY <1>1, <1>2, <1>4, <1>6
     DEF LookupPart, GatePart, ClearPart, ObjectsSame, Clearing, Sweeping
<1>8. ConnectPart(h)'
  BY <1>1, <1>3, <1>4, <1>5
     DEF ConnectPart, ObjectsSame, Unconflicted, Owning, Booted
<1>9. ASSUME NEW g \in Handlers, g # h PROVE ConnectPart(g)'
  <2>1. pc[g] \notin {"store", "bump"}
    BY <1>1, <1>9 DEF LockInv, InLcm
  <2>2. QED
    BY <1>1, <1>4, <1>9, <2>1
       DEF ConnectPart, ObjectsSame, Unconflicted, Owning, Booted
<1>10. EntriesAllocated' /\ NoDuplicateAddress'
  BY <1>1, <1>2, <1>4
     DEF EntriesAllocated, NoDuplicateAddress, ObjectsSame, Sweeping, Clearing
<1>11. TidsMatch'
  BY <1>1, <1>4 DEF TidsMatch, Sweeping
<1>12. NoLostSession'
  BY <1>1, <1>6 DEF NoLostSession
<1>13. QED
  BY <1>1, <1>7, <1>8, <1>9, <1>10, <1>11, <1>12 DEF QInv, HandlersQ, TableQ, NoFault

LEMMA SetBumpQ ==
  ASSUME IInv, QInv, ClearAlone', ConnectsDistinct', NEW h \in Handlers, SetBump(h)
  PROVE  QInv'
<1> USE QFacts, HandlerFacts DEF TypeOK, At, OthersSame
<1>1. /\ pc[h] = "bump" /\ pc'[h] = "tid" /\ OthersSame(h)
      /\ op'[h] = op[h] /\ ip'[h] = ip[h] /\ pos'[h] = pos[h] /\ ps'[h] = ps[h]
      /\ clients' = clients /\ threads' = threads /\ ObjectsSame /\ fault' = fault
      /\ count' \in {count + 1, pos[h] + 1}
  BY DEF SetBump, ObjectsSame
<1>2. /\ \A g \in Handlers : pc[g] \notin Clearing
      /\ \A i \in Slots : i < count =>
            clients[i] \in Sessions /\ heap[clients[i]] = "allocated"
  BY <1>1, NoSweepQ DEF Clearing
<1>3. /\ pos[h] = count /\ clients[count] = ps[h] /\ ps[h] \in Sessions
      /\ heap[ps[h]] = "allocated" /\ cmts_addr[ps[h]] = ip[h] /\ op[h] = "connect"
      /\ \A i \in Slots : i < count => cmts_addr[clients[i]] # ip[h]
  BY <1>1 DEF ConnectPart, Unconflicted, Owning, Booted, RefInv, OwnerKnown
<1>4. /\ count' = count + 1 /\ pos[h] < count'
      /\ \A i \in Nat : i < count' <=> i < count \/ i = count
  <2>1. count \in Nat
    OBVIOUS
  <2>2. count' = count + 1
    BY <1>1, <1>3
  <2>3. pos[h] = count
    BY <1>3
  <2> HIDE QFacts, HandlerFacts
  <2>4. QED
    BY <2>1, <2>2, <2>3
<1>5. /\ Registered' = Registered \cup {ps[h]}
      /\ Live' = Live
  BY <1>1, <1>3, <1>4 DEF Registered, Live, ObjectsSame
<1>6. \A g \in Handlers : pc[g] # "scan"
  BY <1>1 DEF LockInv, InLcm
<1>7. \A g \in Handlers : LookupPart(g)' /\ GatePart(g)' /\ ClearPart(g)'
  BY <1>1, <1>2, <1>5, <1>6
     DEF LookupPart, GatePart, ClearPart, ObjectsSame, Clearing, Sweeping
<1>8. ConnectPart(h)'
  BY <1>1, <1>3, <1>4 DEF ConnectPart, ObjectsSame, Unconflicted, Owning, Booted
<1>9. ASSUME NEW g \in Handlers, g # h PROVE ConnectPart(g)'
  <2>1. pc[g] \notin {"store", "bump"}
    BY <1>1, <1>9 DEF LockInv, InLcm
  <2>2. pc[g] \in Unconflicted => ip[g] # ip[h]
    BY <1>3, <1>9 DEF ConnectPart, ConnectsDistinct
  <2>3. pc[g] \in Unconflicted =>
          \A i \in Slots : i < count' => cmts_addr[clients[i]] # ip[g]
    BY <1>3, <1>4, <1>9, <2>2 DEF ConnectPart
  <2>4. pc[g] \in {"tid", "reply"} => pos[g] < count'
    BY <1>4, <1>9 DEF ConnectPart
  <2>5. QED
    BY <1>1, <1>9, <2>1, <2>3, <2>4
       DEF ConnectPart, ObjectsSame, Unconflicted, Owning, Booted
<1>10. EntriesAllocated'
  BY <1>1, <1>2, <1>3, <1>4 DEF EntriesAllocated, ObjectsSame
<1>11. NoDuplicateAddress'
  BY <1>1, <1>3, <1>4 DEF NoDuplicateAddress, ObjectsSame
<1>12. TidsMatch'
  <2>1. SUFFICES ASSUME NEW i \in Slots, i < count'
                 PROVE  \/ threads[i] = clients[i]
                        \/ \E g \in Handlers : /\ pc'[g] = "tid" /\ pos'[g] = i
                                               /\ ps'[g] = clients[i]
    BY <1>1, <1>4 DEF TidsMatch
  <2>2. CASE i = count
    BY <1>1, <1>3, <2>2
  <2>3. CASE i < count
    <3>1. \/ threads[i] = clients[i]
          \/ \E g \in Handlers : pc[g] = "tid" /\ pos[g] = i /\ ps[g] = clients[i]
      BY <1>2, <2>3 DEF TidsMatch, Sweeping, Clearing
    <3>2. QED
      BY <1>1, <3>1
  <2>4. QED
    BY <1>4, <2>1, <2>2, <2>3
<1>13. NoLostSession'
  BY <1>1, <1>5 DEF NoLostSession
<1>14. QED
  BY <1>1, <1>7, <1>8, <1>9, <1>10, <1>11, <1>12, <1>13
     DEF QInv, HandlersQ, TableQ, NoFault

LEMMA LockTidQ ==
  ASSUME IInv, QInv, ClearAlone', ConnectsDistinct', NEW h \in Handlers, LockTid(h)
  PROVE  QInv'
<1> USE QFacts, HandlerFacts DEF TypeOK, At, OthersSame
<1>1. /\ pc[h] = "tid" /\ pc'[h] = "reply" /\ OthersSame(h)
      /\ op'[h] = op[h] /\ ip'[h] = ip[h] /\ pos'[h] = pos[h] /\ ps'[h] = ps[h]
      /\ count' = count /\ clients' = clients /\ ObjectsSame /\ fault' = fault
      /\ threads' = [threads EXCEPT ![pos[h]] = ps[h]]
  BY DEF LockTid, ObjectsSame
<1>2. \A g \in Handlers : pc[g] \notin Clearing
  BY <1>1, NoSweepQ DEF Clearing
<1>3. Registered' = Registered /\ Live' = Live
  BY <1>1 DEF Registered, Live, ObjectsSame
<1>4. \A g \in Handlers : LookupPart(g)' /\ GatePart(g)' /\ ClearPart(g)'
  BY <1>1, <1>2, <1>3
     DEF LookupPart, GatePart, ClearPart, ObjectsSame, Clearing, Sweeping
<1>5. \A g \in Handlers : ConnectPart(g)'
  BY <1>1 DEF ConnectPart, ObjectsSame, Unconflicted, Owning, Booted
<1>6. EntriesAllocated' /\ NoDuplicateAddress'
  BY <1>1, <1>2
     DEF EntriesAllocated, NoDuplicateAddress, ObjectsSame, Sweeping, Clearing
<1>7. TidsMatch'
  <2>1. clients[pos[h]] = ps[h] /\ pos[h] \in Slots
    BY <1>1 DEF ConnectPart
  <2>2. QED
    BY <1>1, <2>1 DEF TidsMatch, Sweeping
<1>8. NoLostSession'
  BY <1>1, <1>3 DEF NoLostSession
<1>9. QED
  BY <1>1, <1>4, <1>5, <1>6, <1>7, <1>8 DEF QInv, HandlersQ, TableQ, NoFault

-----------------------------------------------------------------------------
(***************************************************************************)
(* The two steps of /clear that change the table, and the session threads. *)
(***************************************************************************)

LEMMA FreeQ ==
  ASSUME IInv, QInv, ClearAlone', ConnectsDistinct', NEW h \in Handlers, Free(h)
  PROVE  QInv'
<1> USE QFacts, HandlerFacts DEF TypeOK, At, OthersSame
<1>1. /\ pc[h] = "free" /\ pc'[h] = "sweep" /\ OthersSame(h)
      /\ ps'[h] = None /\ pos'[h] = pos[h] + 1
      /\ count' = count /\ clients' = clients /\ fault' = fault
      /\ cmts_addr' = cmts_addr /\ thread' = thread
      /\ heap' = [heap EXCEPT ![ps[h]] = "freed"]
      /\ threads' = [threads EXCEPT ![pos[h]] = None]
  BY DEF Free
<1>2. \A g \in Handlers : g # h => pc[g] = "idle"
  BY <1>1 DEF ClearAlone, Clearing
<1>3. /\ pos[h] < count /\ pos[h] \in Slots /\ ps[h] = clients[pos[h]]
      /\ ps[h] \in Sessions /\ thread[ps[h]] = "exited"
  BY <1>1 DEF ClearPart, DieInv, FreedHasExited
<1>4. \A i \in Slots : i < pos[h] + 1 <=> i < pos[h] \/ i = pos[h]
  OBVIOUS
<1>5. Registered' = Registered /\ Live' = Live
  BY <1>1 DEF Registered, Live
<1>6. \A g \in Handlers : LookupPart(g)' /\ ConnectPart(g)' /\ GatePart(g)'
  BY <1>1, <1>2 DEF LookupPart, ConnectPart, GatePart, Unconflicted, Owning, Booted
<1>7. \A g \in Handlers : ClearPart(g)'
  BY <1>1, <1>2, <1>3, <1>4 DEF ClearPart, Sweeping
<1>8. EntriesAllocated'
  <2>1. SUFFICES ASSUME NEW i \in Slots, i < count, pos[h] + 1 <= i
                 PROVE  clients[i] \in Sessions /\ heap'[clients[i]] = "allocated"
    BY <1>1 DEF EntriesAllocated, Sweeping
  <2>2. \A g \in Handlers : pc[g] \in Sweeping => pos[g] <= i
    BY <1>2, <2>1 DEF Sweeping
  <2>3. clients[i] \in Sessions /\ heap[clients[i]] = "allocated"
    BY <2>1, <2>2 DEF EntriesAllocated
  <2>4. clients[i] # ps[h]
    BY <1>3, <2>1, <2>3, NoneAssumption DEF RefInv, ClientsOnce
  <2>5. QED
    BY <1>1, <2>3, <2>4
<1>9. TidsMatch'
  <2>1. SUFFICES ASSUME NEW i \in Slots, i < count, ~(i < pos[h] + 1)
                 PROVE  threads'[i] = clients[i]
    BY <1>1 DEF TidsMatch, Sweeping
  <2>2. threads[i] = clients[i]
    BY <1>1, <1>2, <1>4, <2>1 DEF TidsMatch, Sweeping
  <2>3. QED
    BY <1>1, <1>4, <2>1, <2>2
<1>10. NoLostSession'
  BY <1>1, <1>5 DEF NoLostSession
<1>11. NoDuplicateAddress'
  BY <1>1 DEF NoDuplicateAddress
<1>12. QED
  BY <1>1, <1>6, <1>7, <1>8, <1>9, <1>10, <1>11 DEF QInv, HandlersQ, TableQ, NoFault

\* gctl_lcm_reset forgets the sessions only when all their threads have ended.
LEMMA ZeroFindsNone ==
  ASSUME IInv, QInv, NEW h \in Handlers, Zero(h)
  PROVE  Live = {}
<1> USE QFacts, HandlerFacts DEF TypeOK, At
<1>1. pc[h] = "zero" /\ \A g \in Handlers : g # h => pc[g] = "idle"
  BY DEF Zero, ClearAlone, Clearing
<1>2. Live \subseteq Registered
  BY <1>1 DEF NoLostSession
<1>3. \A i \in Slots : i < count => thread[clients[i]] = "exited"
  BY <1>1 DEF ClearPart, Sweeping
<1>4. QED
  BY <1>2, <1>3 DEF Registered, Live

LEMMA ZeroQ ==
  ASSUME IInv, QInv, ClearAlone', ConnectsDistinct', NEW h \in Handlers, Zero(h)
  PROVE  QInv'
<1> USE QFacts, HandlerFacts DEF TypeOK, At, OthersSame
<1>1. /\ pc[h] = "zero" /\ pc'[h] = "idle" /\ OthersSame(h)
      /\ pos'[h] = 0 /\ count' = 0 /\ fault' = fault /\ thread' = thread
  BY DEF Zero
<1>2. \A g \in Handlers : g # h => pc[g] = "idle"
  BY <1>1 DEF ClearAlone, Clearing
<1>3. \A i \in Slots : ~(i < count')
  BY <1>1
<1>4. Live' = {}
  BY <1>1, ZeroFindsNone DEF Live
<1>5. \A g \in Handlers : LookupPart(g)' /\ ConnectPart(g)' /\ GatePart(g)' /\ ClearPart(g)'
  BY <1>1, <1>2
     DEF LookupPart, ConnectPart, GatePart, ClearPart, Unconflicted, Owning, Booted, Sweeping
<1>6. EntriesAllocated' /\ NoDuplicateAddress'
  BY <1>3 DEF EntriesAllocated, NoDuplicateAddress
<1>7. TidsMatch'
  BY <1>1 DEF TidsMatch
<1>8. NoLostSession'
  BY <1>4 DEF NoLostSession
<1>9. QED
  BY <1>1, <1>5, <1>6, <1>7, <1>8 DEF QInv, HandlersQ, TableQ, NoFault

LEMMA SessionThreadQ ==
  ASSUME IInv, QInv, ClearAlone', ConnectsDistinct', NEW s \in Sessions,
         SessionThread(s)
  PROVE  QInv'
<1> USE QFacts, HandlerFacts DEF TypeOK, At
<1>1. /\ TableSame /\ heap' = heap /\ cmts_addr' = cmts_addr /\ fault' = fault
      /\ pc' = pc /\ op' = op /\ ip' = ip /\ ps' = ps /\ pos' = pos
      /\ thread[s] \in {"loop", "reconnect"}
      /\ \E t \in {"loop", "reconnect", "exited"} :
            thread' = [thread EXCEPT ![s] = t]
  BY DEF SessionThread, ThreadExits, ClientClose, Readmitted, TableSame
<1>2. Registered' = Registered /\ Live' \subseteq Live
  BY <1>1 DEF Registered, Live, TableSame
<1>3. \A x \in Sessions : thread[x] = "exited" => thread'[x] = "exited"
  BY <1>1
<1>4. \A g \in Handlers : LookupPart(g)' /\ GatePart(g)'
  BY <1>1, <1>2 DEF LookupPart, GatePart, TableSame
<1>5. \A g \in Handlers : ClearPart(g)'
  BY <1>1, <1>3 DEF ClearPart, TableSame
<1>6. \A g \in Handlers : ConnectPart(g)'
  BY <1>1 DEF ConnectPart, TableSame
<1>7. EntriesAllocated' /\ NoDuplicateAddress' /\ TidsMatch'
  BY <1>1 DEF EntriesAllocated, NoDuplicateAddress, TidsMatch, TableSame
<1>8. NoLostSession'
  BY <1>1, <1>2 DEF NoLostSession
<1>9. QED
  BY <1>1, <1>4, <1>5, <1>6, <1>7, <1>8 DEF QInv, HandlersQ, TableQ, NoFault

-----------------------------------------------------------------------------

LEMMA QStep == IInv /\ QInv /\ [QuietNext]_vars => QInv'
<1> SUFFICES ASSUME IInv, QInv, [QuietNext]_vars PROVE QInv'
  OBVIOUS
<1>1. ASSUME NEW h \in Handlers, Handler(h), ClearAlone', ConnectsDistinct'
      PROVE  QInv'
  <2>1. ASSUME Connect(h) \/ Request(h) \/ Clear(h) PROVE QInv'
    BY <1>1, <2>1, FrameStepsQ
  <2>2. ASSUME Progress(h) PROVE QInv'
    BY <1>1, <2>2, FrameStepsQ, UseStepsQ, NoUndefinedQ, CreateQ, BootQ, ConnectFailsQ,
       SetStoreQ, SetBumpQ, LockTidQ, FreeQ, ZeroQ DEF Progress
  <2>3. QED
    BY <1>1, <2>1, <2>2 DEF Handler
<1>2. ASSUME UNCHANGED vars PROVE QInv'
  BY <1>2 DEF vars, QInv, ClearAlone, ConnectsDistinct, NoFault, HandlersQ, LookupPart,
       ConnectPart, GatePart, ClearPart, TableQ, EntriesAllocated, TidsMatch,
       NoLostSession, NoDuplicateAddress, At, Live, Registered
<1>3. QED
  BY <1>1, <1>2, SessionThreadQ DEF QuietNext, Next, AfterFault

\* Every state of a quiet behaviour satisfies both invariants.
THEOREM QuietInvariant == QuietSpec => [](IInv /\ QInv)
<1>1. Init => IInv /\ QInv
  BY IInvInit, QInit
<1>2. IInv /\ QInv /\ [QuietNext]_vars => (IInv /\ QInv)'
  BY IInvStep, QStep DEF QuietNext
<1>3. QED
  BY <1>1, <1>2, PTL DEF QuietSpec

\* No API request touches freed memory or joins an unset thread id, provided
\* /clear runs alone and connects to one CMTS do not overlap (gctl_connect,
\* gctl_04, gctl_lcm_reset).
THEOREM NoFaultHolds == QuietSpec => []NoFault
<1>1. IInv /\ QInv => NoFault
  BY DEF QInv
<1>2. QED
  BY <1>1, QuietInvariant, PTL

\* Under the same proviso no running session thread drops out of the table.
THEOREM NoLostSessionHolds == QuietSpec => []NoLostSession
<1>1. IInv /\ QInv => NoLostSession
  BY DEF QInv, TableQ
<1>2. QED
  BY <1>1, QuietInvariant, PTL

\* ... the conflict test of gctl_connect keeps one session per CMTS
THEOREM NoDuplicateAddressHolds == QuietSpec => []NoDuplicateAddress
<1>1. IInv /\ QInv => NoDuplicateAddress
  BY DEF QInv, TableQ
<1>2. QED
  BY <1>1, QuietInvariant, PTL

\* ... threads[] names, for each client, the thread to join (gctl_lock_tid)
THEOREM TidsMatchHolds == QuietSpec => []TidsMatch
<1>1. IInv /\ QInv => TidsMatch
  BY DEF QInv, TableQ
<1>2. QED
  BY <1>1, QuietInvariant, PTL

\* ... and gctl_lcm_reset empties the table only when all threads have ended.
THEOREM ClearStopsAllHolds == QuietSpec => ClearStopsAll
<1>1. IInv /\ QInv /\ [QuietNext]_vars => [count > 0 /\ count' = 0 => Live = {}]_vars
  <2> SUFFICES ASSUME IInv, QInv, QuietNext, count > 0, count' = 0 PROVE Live = {}
    OBVIOUS
  <2>1. TypeOK
    BY DEF IInv
  <2>2. ASSUME NEW h \in Handlers, Handler(h) PROVE Zero(h)
    BY <2>1, <2>2 DEF TypeOK, Handler, Progress, Connect, Request, Clear, Lookup, ScanEnd,
         ScanMatch, ScanNext, ScanFreed, AllocOk, Create, Admitted, Boot, ConnectFails,
         SetLock, SetStore, SetBump, LockTid, Reply, Proxy, ClearLock, Sweep, Join,
         JoinUnset, Free, SweepEnd
  <2>3. \E h \in Handlers : Zero(h)
    BY <2>1, <2>2 DEF QuietNext, Next, AfterFault, SessionThread, ThreadExits,
         ClientClose, Readmitted, vars
  <2>4. QED
    BY <2>3, ZeroFindsNone
<1>2. QED
  BY <1>1, QuietInvariant, PTL DEF QuietSpec, ClearStopsAll

-----------------------------------------------------------------------------
(***************************************************************************)
(* That the table of the LCM implements Registry, when /clear is called on *)
(* its own and no two connects to one address overlap.                     *)
(***************************************************************************)

(***************************************************************************)
(* The entries a sweep has passed are freed: when it zeroes the count, it  *)
(* forgets no session that the registry still has.                         *)
(***************************************************************************)
SweptFreed ==
    \A h \in At(Sweeping) : \A i \in Slots :
        i < pos[h] /\ i < count => heap[clients[i]] = "freed"

\* Requests name CMTSs, and so do the sessions made for them.
AddressKnown ==
    /\ \A h \in Handlers : op[h] \in {"connect", "request"} => ip[h] \in Addresses
    /\ \A s \in Sessions : heap[s] # "unused" => cmts_addr[s] \in Addresses

GInv == IInv /\ QInv /\ SweptFreed /\ AddressKnown

LEMMA SweptInit == Init => SweptFreed
BY DEF Init, SweptFreed, At, Sweeping

\* While /clear is under way nobody else is being served.
LEMMA AloneQ ==
  ASSUME ClearAlone, NEW h \in Handlers, pc[h] \in Clearing
  PROVE  \A g \in Handlers : g # h => pc[g] = "idle"
BY DEF ClearAlone

LEMMA SweptStep ==
  ASSUME GInv, QuietNext
  PROVE  SweptFreed'
<1> USE QFacts, HandlerFacts DEF GInv, TypeOK, At
<1>1. ASSUME NEW h \in Handlers, Connect(h) \/ Request(h) \/ Clear(h)
      PROVE  SweptFreed'
  <2>1. /\ clients' = clients /\ count' = count /\ heap' = heap /\ pos' = pos
        /\ \A g \in Handlers : pc'[g] \in Sweeping => pc[g] \in Sweeping
    BY <1>1 DEF Connect, Request, Clear, Sweeping
  <2>2. QED
    BY <2>1 DEF SweptFreed
<1>2. ASSUME NEW h \in Handlers, pc[h] \notin Clearing, Progress(h)
      PROVE  SweptFreed'
  <2>1. \A g \in Handlers : pc[g] \notin Clearing
    <3>1. pc[h] # "idle"
      BY <1>2 DEF Progress, Lookup, ScanEnd, ScanMatch, ScanNext, ScanFreed, AllocOk,
           Create, Admitted, Boot, ConnectFails, SetLock, SetStore, SetBump, LockTid,
           Reply, Proxy, ClearLock, Sweep, Join, JoinUnset, Free, SweepEnd, Zero
    <3>2. QED
      BY <1>2, <3>1, NoSweepQ
  <2>2. \A g \in Handlers : pc'[g] \notin Sweeping
    BY <1>2, <2>1 DEF Progress, Lookup, ScanEnd, ScanMatch, ScanNext, ScanFreed, AllocOk,
         Create, Admitted, Boot, ConnectFails, SetLock, SetStore, SetBump, LockTid, Found,
         NotFound, Reply, Proxy, ClearLock, Sweep, Join, JoinUnset, Free, SweepEnd, Zero,
         Clearing, Sweeping
  <2>3. QED
    BY <2>2 DEF SweptFreed
<1>3. ASSUME NEW h \in Handlers, ClearLock(h)
      PROVE  SweptFreed'
  <2>1. /\ clients' = clients /\ count' = count /\ heap' = heap
        /\ pos[h] = 0 /\ pos'[h] = 0 /\ pc[h] \in Clearing
    BY <1>3 DEF ClearLock, LookupPart, Clearing
  <2>2. \A g \in Handlers : g # h => pc'[g] = "idle"
    BY <1>3, <2>1, AloneQ DEF ClearLock
  <2>3. QED
    BY <2>1, <2>2 DEF SweptFreed, Sweeping
<1>4. ASSUME NEW h \in Handlers, Sweep(h) \/ Join(h) \/ SweepEnd(h) \/ JoinUnset(h)
      PROVE  SweptFreed'
  <2>1. /\ clients' = clients /\ count' = count /\ heap' = heap /\ pos' = pos
        /\ \A g \in Handlers : pc'[g] \in Sweeping => pc[g] \in Sweeping
    BY <1>4 DEF Sweep, Join, SweepEnd, JoinUnset, Sweeping
  <2>2. QED
    BY <2>1 DEF SweptFreed
<1>5. ASSUME NEW h \in Handlers, Free(h)
      PROVE  SweptFreed'
  <2>1. /\ pc[h] = "free" /\ pos'[h] = pos[h] + 1
        /\ clients' = clients /\ count' = count
        /\ heap' = [heap EXCEPT ![ps[h]] = "freed"]
    BY <1>5 DEF Free
  <2>2. /\ \A g \in Handlers : g # h => pc'[g] = "idle"
        /\ ps[h] = clients[pos[h]] /\ pos[h] \in Slots /\ ps[h] \in Sessions
    BY <1>5, <2>1, AloneQ DEF Free, ClearPart, Clearing, DieInv, FreedHasExited
  <2>3. \A i \in Slots : i < pos[h] /\ i < count => heap[clients[i]] = "freed"
    BY <2>1 DEF SweptFreed, Sweeping
  <2>4. \A i \in Slots : i < pos[h] /\ i < count => heap'[clients[i]] = "freed"
    BY <2>1, <2>2, <2>3
  <2>5. heap'[clients[pos[h]]] = "freed"
    BY <2>1, <2>2
  <2>6. \A i \in Slots : i < pos[h] + 1 => i < pos[h] \/ i = pos[h]
    OBVIOUS
  <2>7. QED
    BY <2>1, <2>2, <2>4, <2>5, <2>6 DEF SweptFreed, Sweeping
<1>6. ASSUME NEW h \in Handlers, Zero(h)
      PROVE  SweptFreed'
  BY <1>6 DEF Zero, SweptFreed
<1>7. ASSUME NEW s \in Sessions, SessionThread(s)
      PROVE  SweptFreed'
  BY <1>7 DEF SessionThread, ThreadExits, ClientClose, Readmitted, SweptFreed
<1>8. ASSUME UNCHANGED vars PROVE SweptFreed'
  BY <1>8 DEF vars, SweptFreed
<1>9. ASSUME NEW h \in Handlers, pc[h] \in Clearing, Progress(h)
      PROVE  SweptFreed'
  BY <1>3, <1>4, <1>5, <1>6, <1>9 DEF Clearing, Progress, Lookup, ScanEnd, ScanMatch,
     ScanNext, ScanFreed, AllocOk, Create, Admitted, Boot, ConnectFails, SetLock, SetStore,
     SetBump, LockTid, Reply, Proxy
<1>10. QED
  BY <1>1, <1>2, <1>7, <1>8, <1>9 DEF QuietNext, Next, Handler, AfterFault

LEMMA AddressInit == Init => AddressKnown
BY DEF Init, AddressKnown

LEMMA AddressStep ==
  ASSUME GInv, QuietNext
  PROVE  AddressKnown'
<1> USE QFacts, HandlerFacts DEF GInv, TypeOK, AddressKnown
<1>1. ASSUME NEW h \in Handlers, Connect(h) \/ Request(h) \/ Clear(h)
      PROVE  AddressKnown'
  BY <1>1 DEF Connect, Request, Clear
<1>2. ASSUME NEW h \in Handlers, Create(h)
      PROVE  AddressKnown'
  BY <1>2 DEF Create, ConnectPart, Unconflicted
<1>3. ASSUME NEW h \in Handlers, ConnectFails(h)
      PROVE  AddressKnown'
  <2>1. ps[h] \in Sessions /\ heap[ps[h]] # "unused"
    BY <1>3 DEF ConnectFails, RefInv, OwnerKnown, Owning, At
  <2>2. QED
    BY <1>3, <2>1 DEF ConnectFails
<1>4. ASSUME NEW h \in Handlers, Free(h)
      PROVE  AddressKnown'
  <2>1. ps[h] \in Sessions /\ heap[ps[h]] # "unused"
    BY <1>4 DEF Free, DieInv, FreedHasExited, UnusedIdle, At
  <2>2. QED
    BY <1>4, <2>1 DEF Free
<1>5. ASSUME NEW h \in Handlers, heap' = heap, cmts_addr' = cmts_addr, Progress(h)
      PROVE  AddressKnown'
  BY <1>5 DEF Progress, Lookup, ScanEnd, ScanMatch, ScanNext, ScanFreed, AllocOk, Create,
     Admitted, Boot, ConnectFails, SetLock, SetStore, SetBump, LockTid, Found, NotFound,
     Reply, Proxy, ClearLock, Sweep, Join, JoinUnset, Free, SweepEnd, Zero
<1>6. ASSUME NEW h \in Handlers, Progress(h)
      PROVE  Create(h) \/ ConnectFails(h) \/ Free(h) \/ (heap' = heap /\ cmts_addr' = cmts_addr)
  BY <1>6 DEF Progress, Lookup, ScanEnd, ScanMatch, ScanNext, ScanFreed, AllocOk,
     Admitted, Boot, SetLock, SetStore, SetBump, LockTid,
     Reply, Proxy, ClearLock, Sweep, Join, JoinUnset, SweepEnd, Zero
<1>7. ASSUME NEW s \in Sessions, SessionThread(s)
      PROVE  AddressKnown'
  BY <1>7 DEF SessionThread, ThreadExits, ClientClose, Readmitted
<1>8. ASSUME UNCHANGED vars PROVE AddressKnown'
  BY <1>8 DEF vars
<1>9. QED
  BY <1>1, <1>2, <1>3, <1>4, <1>5, <1>6, <1>7, <1>8 DEF QuietNext, Next, Handler, AfterFault

-----------------------------------------------------------------------------
(***************************************************************************)
(* Steps that the registry does not see.                                   *)
(***************************************************************************)

HeldSame ==
    \A g \in Handlers :
        /\ pc'[g] = "proxy" <=> pc[g] = "proxy"
        /\ pc[g] = "proxy" => ps'[g] = ps[g]

LEMMA Unseen ==
  ASSUME Registered' = Registered, HeldSame,
         heap' = heap, cmts_addr' = cmts_addr
  PROVE  UNCHANGED R!vars
<1>1. \A a \in Addresses : SessionsOf(a)' = SessionsOf(a)
  BY DEF SessionsOf
<1>2. registry' = registry
  BY <1>1 DEF registry
<1>3. held' = held
  BY DEF held, HeldSame
<1>4. closed' = closed
  BY DEF closed
<1>5. QED
  BY <1>2, <1>3, <1>4 DEF R!vars

LEMMA UnseenSteps ==
  ASSUME GInv, NEW h \in Handlers
  PROVE  /\ Connect(h) \/ Request(h) \/ Clear(h) => UNCHANGED R!vars
         /\ Lookup(h) \/ ScanEnd(h) \/ ScanNext(h) => UNCHANGED R!vars
         /\ AllocOk(h) \/ Admitted(h) \/ Boot(h) \/ SetLock(h) \/ LockTid(h) \/ Reply(h)
                => UNCHANGED R!vars
         /\ ClearLock(h) \/ Sweep(h) \/ Join(h) \/ SweepEnd(h) => UNCHANGED R!vars
<1> USE QFacts DEF GInv, TypeOK, HeldSame, Registered
<1>1. Connect(h) \/ Request(h) \/ Clear(h) => UNCHANGED R!vars
  BY Unseen DEF Connect, Request, Clear
<1>2. Lookup(h) \/ ScanEnd(h) \/ ScanNext(h) => UNCHANGED R!vars
  BY Unseen DEF Lookup, ScanEnd, ScanNext, NotFound
<1>3. AllocOk(h) \/ Admitted(h) \/ Boot(h) \/ SetLock(h) \/ LockTid(h)
         => UNCHANGED R!vars
  BY Unseen DEF AllocOk, Admitted, Boot, SetLock, LockTid
<1>4. Reply(h) => UNCHANGED R!vars
  BY NoUndefinedQ, Unseen DEF Reply
<1>5. ClearLock(h) \/ Sweep(h) \/ Join(h) \/ SweepEnd(h) => UNCHANGED R!vars
  BY NoUndefinedQ, Unseen DEF ClearLock, Sweep, Join, SweepEnd
<1>6. QED
  BY <1>1, <1>2, <1>3, <1>4, <1>5

LEMMA ThreadUnseen ==
  ASSUME NEW s \in Sessions, SessionThread(s)
  PROVE  UNCHANGED R!vars
BY Unseen DEF HeldSame, Registered, SessionThread, ThreadExits, ClientClose, Readmitted

\* ps_new makes a session that is in no entry; lcm_set writes behind the last.
LEMMA CreateUnseen ==
  ASSUME GInv, NEW h \in Handlers, Create(h)
  PROVE  UNCHANGED R!vars
<1> USE QFacts DEF GInv, TypeOK
<1>1. PICK s \in Sessions :
        /\ heap[s] = "unused" /\ heap' = [heap EXCEPT ![s] = "allocated"]
        /\ cmts_addr' = [cmts_addr EXCEPT ![s] = ip[h]]
        /\ ps' = [ps EXCEPT ![h] = s]
  BY DEF Create
<1>2. pc[h] = "create" /\ Registered' = Registered /\ HeldSame
  BY <1>1 DEF Create, Registered, HeldSame
<1>3. s \notin Registered
  BY <1>1, <1>2, NoSweepQ DEF Registered, Clearing
<1>4. \A a \in Addresses : SessionsOf(a)' = SessionsOf(a)
  BY <1>1, <1>2, <1>3 DEF SessionsOf
<1>5. registry' = registry /\ held' = held
  BY <1>2, <1>4 DEF registry, held, HeldSame
<1>6. closed' = closed
  BY <1>1 DEF closed
<1>7. QED
  BY <1>5, <1>6 DEF R!vars

LEMMA StoreUnseen ==
  ASSUME GInv, NEW h \in Handlers, SetStore(h)
  PROVE  UNCHANGED R!vars
<1> USE QFacts, HandlerFacts DEF GInv, TypeOK
<1>1. pos[h] = count
  BY DEF SetStore, ConnectPart
<1>2. /\ \A i \in Slots : i < count => clients'[i] = clients[i]
      /\ count' = count /\ heap' = heap /\ cmts_addr' = cmts_addr
  BY <1>1 DEF SetStore
<1>3. Registered' = Registered
  BY <1>2 DEF Registered
<1>4. HeldSame
  BY DEF SetStore, HeldSame
<1>5. QED
  BY <1>2, <1>3, <1>4, Unseen

\* gctl_lcm_reset's `count = 0' forgets sessions that are all freed.
LEMMA ZeroUnseen ==
  ASSUME GInv, NEW h \in Handlers, Zero(h)
  PROVE  UNCHANGED R!vars
<1> USE QFacts, HandlerFacts DEF GInv, TypeOK, At
<1>1. /\ pc[h] = "zero" /\ pos[h] >= count /\ count' = 0
      /\ heap' = heap /\ cmts_addr' = cmts_addr
  BY DEF Zero, ClearPart
<1>2. \A i \in Slots : i < count => heap[clients[i]] = "freed"
  BY <1>1 DEF SweptFreed, Sweeping
<1>3. \A a \in Addresses : SessionsOf(a) = {}
  BY <1>2 DEF SessionsOf, Registered
<1>4. \A i \in Slots : ~(i < count')
  BY <1>1
<1>5. \A a \in Addresses : SessionsOf(a)' = {}
  BY <1>4 DEF SessionsOf, Registered
<1>6. registry' = registry
  BY <1>3, <1>5 DEF registry
<1>7. held' = held
  BY DEF Zero, held
<1>8. QED
  BY <1>1, <1>6, <1>7 DEF closed, R!vars

-----------------------------------------------------------------------------
(***************************************************************************)
(* Steps that are steps of the registry.                                   *)
(***************************************************************************)

\* The registry changes at one address if the sessions of the others stay.
LEMMA Reassigned ==
  ASSUME NEW a \in Addresses, NEW S, SessionsOf(a)' = S,
         \A b \in Addresses : b # a => SessionsOf(b)' = SessionsOf(b)
  PROVE  registry[a] = SessionsOf(a) /\ registry' = [registry EXCEPT ![a] = S]
BY DEF registry

\* lcm_set's `++count' shows the session to everybody.
LEMMA BumpInserts ==
  ASSUME GInv, NEW h \in Handlers, SetBump(h)
  PROVE  R!Next
<1> USE QFacts, HandlerFacts DEF GInv, TypeOK
<1>1. /\ pc[h] = "bump" /\ clients' = clients /\ heap' = heap /\ cmts_addr' = cmts_addr
      /\ count' \in {count + 1, pos[h] + 1}
  BY DEF SetBump
<1>2. /\ pos[h] = count /\ clients[count] = ps[h] /\ ps[h] \in Sessions
      /\ heap[ps[h]] = "allocated" /\ cmts_addr[ps[h]] = ip[h]
      /\ \A i \in Slots : i < count => cmts_addr[clients[i]] # ip[h]
  BY <1>1 DEF ConnectPart, Unconflicted, Owning, Booted, RefInv, OwnerKnown, At
<1>3. \A i \in Nat : i < count' <=> i < count \/ i = count
  <2>1. count \in Nat /\ count' = count + 1
    BY <1>1, <1>2
  <2> HIDE QFacts, HandlerFacts
  <2>2. QED
    BY <2>1
<1>4. Registered' = Registered \cup {ps[h]}
  BY <1>1, <1>2, <1>3 DEF Registered
<1>5. PICK a \in Addresses : a = ip[h]
  BY <1>2 DEF AddressKnown
<1>6. \A s \in Registered : cmts_addr[s] # ip[h]
  BY <1>2 DEF Registered
<1>7. /\ SessionsOf(a) = {} /\ SessionsOf(a)' = {ps[h]}
      /\ \A b \in Addresses : b # a => SessionsOf(b)' = SessionsOf(b)
  <2>1. SessionsOf(a) = {}
    BY <1>5, <1>6 DEF SessionsOf
  <2> HIDE QFacts, HandlerFacts
  <2>2. SessionsOf(a)' = {ps[h]}
    BY <1>1, <1>2, <1>4, <1>5, <1>6 DEF SessionsOf
  <2>3. ASSUME NEW b \in Addresses, b # a PROVE SessionsOf(b)' = SessionsOf(b)
    BY <1>1, <1>2, <1>4, <1>5, <2>3 DEF SessionsOf
  <2>4. QED
    BY <2>1, <2>2, <2>3
<1>8. registry' = [registry EXCEPT ![a] = {ps[h]}] /\ registry[a] = {}
  BY <1>7, Reassigned
<1>9. ps[h] \notin closed /\ closed' = closed
  BY <1>1, <1>2 DEF closed
<1>10. \A b \in Addresses : ps[h] \notin registry[b]
  BY <1>2, <1>6 DEF registry, SessionsOf
<1>11. held' = held
  BY DEF SetBump, held
<1>12. R!Insert(a, ps[h])
  BY <1>8, <1>9, <1>10, <1>11 DEF R!Insert, R!Open
<1>13. QED
  BY <1>2, <1>12 DEF R!Next

\* A connect whose session was never shown frees it.
LEMMA FailedCloses ==
  ASSUME GInv, NEW h \in Handlers, ConnectFails(h)
  PROVE  R!Next
<1> USE QFacts, HandlerFacts DEF GInv, TypeOK, At
<1>1. /\ pc[h] \in {"admit", "boot"}
      /\ Registered' = Registered /\ cmts_addr' = cmts_addr
      /\ heap' = [heap EXCEPT ![ps[h]] = "freed"]
  BY DEF ConnectFails, Registered
<1>2. ps[h] \in Sessions /\ heap[ps[h]] = "allocated"
  BY <1>1 DEF RefInv, OwnerKnown, OwnerFresh, Owning
<1>3. ps[h] \notin Registered
  <2>1. \A i \in Slots : i < count => clients[i] \in Sessions
    BY <1>1, NoSweepQ DEF Clearing
  <2>2. \A i \in Slots : i < count => clients[i] # ps[h]
    BY <1>1, <1>2, <2>1, NoneAssumption DEF RefInv, ClientsOwnPlace, Owning
  <2>3. QED
    BY <2>2 DEF Registered
<1>4. \A a \in Addresses : SessionsOf(a)' = SessionsOf(a) /\ ps[h] \notin SessionsOf(a)
  BY <1>1, <1>2, <1>3 DEF SessionsOf
<1>5. registry' = registry /\ \A a \in Addresses : ps[h] \notin registry[a]
  BY <1>4 DEF registry
<1>6. closed' = closed \cup {ps[h]} /\ ps[h] \notin closed
  BY <1>1, <1>2 DEF closed
<1>7. held' = held
  BY <1>1 DEF ConnectFails, held
<1>8. R!Fail(ps[h])
  BY <1>5, <1>6, <1>7 DEF R!Fail, R!Open
<1>9. QED
  BY <1>2, <1>8 DEF R!Next

\* A gate request whose lcm_getps finds a session holds it from then on.
LEMMA MatchFinds ==
  ASSUME GInv, NEW h \in Handlers, ScanMatch(h)
  PROVE  [R!Next]_(R!vars)
<1> USE QFacts, HandlerFacts DEF GInv, TypeOK
<1>1. /\ pc[h] = "scan" /\ pos[h] < count /\ pos[h] \in Slots
      /\ heap' = heap /\ cmts_addr' = cmts_addr /\ Registered' = Registered
      /\ cmts_addr[clients[pos[h]]] = ip[h]
  BY DEF ScanMatch, Registered
<1>2. CASE op[h] # "request"
  <2>1. HeldSame
    BY <1>1, <1>2 DEF ScanMatch, Found, HeldSame
  <2>2. QED
    BY <1>1, <2>1, Unseen
<1>3. CASE op[h] = "request"
  <2> DEFINE s == clients[pos[h]]
  <2>1. ip[h] \in Addresses
    BY <1>3 DEF AddressKnown
  <2>2. s \in Sessions /\ heap[s] = "allocated"
    BY <1>1, NoSweepQ DEF Clearing
  <2>3. s \in SessionsOf(ip[h])
    BY <1>1, <2>2 DEF SessionsOf, Registered
  <2>4. s \in registry[ip[h]]
    BY <2>1, <2>3 DEF registry
  <2>5. held[h] = None /\ held' = [held EXCEPT ![h] = s]
    <3>1. pc' = [pc EXCEPT ![h] = "proxy"] /\ ps' = [ps EXCEPT ![h] = s]
      BY <1>3 DEF ScanMatch, Found
    <3>2. QED
      BY <1>1, <3>1 DEF held
  <2>6. registry' = registry /\ closed' = closed
    BY <1>1 DEF registry, SessionsOf, closed
  <2> HIDE DEF s
  <2>7. R!Find(h, ip[h])
    BY <2>4, <2>5, <2>6 DEF R!Find
  <2>8. QED
    BY <2>1, <2>7 DEF R!Next
<1>4. QED
  BY <1>2, <1>3

\* ps_proxy is done with it.
LEMMA ProxyDrops ==
  ASSUME GInv, NEW h \in Handlers, Proxy(h)
  PROVE  R!Next
<1> USE QFacts, HandlerFacts DEF GInv, TypeOK
<1>1. /\ pc[h] = "proxy" /\ pc' = [pc EXCEPT ![h] = "idle"] /\ ps' = [ps EXCEPT ![h] = None]
      /\ heap' = heap /\ cmts_addr' = cmts_addr /\ Registered' = Registered
  BY NoUndefinedQ DEF Proxy, Registered
<1>2. ps[h] \in Sessions
  BY <1>1, NoSweepQ DEF GatePart, Registered, Clearing
<1>3. held[h] # None /\ held' = [held EXCEPT ![h] = None]
  BY <1>1, <1>2, NoneAssumption DEF held
<1>4. registry' = registry /\ closed' = closed
  BY <1>1 DEF registry, SessionsOf, closed
<1>5. R!Drop(h)
  BY <1>3, <1>4 DEF R!Drop
<1>6. QED
  BY <1>5 DEF R!Next

\* A round of gctl_lcm_reset closes the session of one CMTS, the only one.
LEMMA FreeCloses ==
  ASSUME GInv, NEW h \in Handlers, Free(h)
  PROVE  R!Next
<1> USE QFacts, HandlerFacts DEF GInv, TypeOK, At
<1>0. PICK s \in Sessions : s = ps[h]
  BY DEF Free, DieInv, FreedHasExited
<1>1. /\ pc[h] = "free" /\ cmts_addr' = cmts_addr /\ Registered' = Registered
      /\ heap' = [heap EXCEPT ![s] = "freed"]
      /\ pc' = [pc EXCEPT ![h] = "sweep"]
  BY <1>0 DEF Free, Registered
<1>2. \A g \in Handlers : g # h => pc[g] = "idle"
  BY <1>1, AloneQ DEF Clearing
<1>3. pos[h] < count /\ pos[h] \in Slots /\ s = clients[pos[h]]
  BY <1>0, <1>1 DEF ClearPart
<1>4. heap[s] = "allocated"
  <2>1. \A g \in Handlers : pc[g] \in Sweeping => pos[g] <= pos[h]
    BY <1>2 DEF Sweeping
  <2>2. QED
    BY <1>3, <2>1 DEF EntriesAllocated
<1>5. PICK a \in Addresses : a = cmts_addr[s]
  BY <1>3, <1>4 DEF AddressKnown
<1>6. \A x \in Registered : cmts_addr[x] = a => x = s
  BY <1>3, <1>5 DEF Registered, NoDuplicateAddress
<1>7. s \in Registered
  BY <1>3 DEF Registered
<1>8. /\ SessionsOf(a) = {s} /\ SessionsOf(a)' = {}
      /\ \A b \in Addresses : b # a => SessionsOf(b)' = SessionsOf(b)
  <2> HIDE QFacts, HandlerFacts
  <2>1. SessionsOf(a) = {s}
    BY <1>4, <1>5, <1>6, <1>7 DEF SessionsOf
  <2>2. SessionsOf(a)' = {}
    <3>1. heap'[s] = "freed"
      BY <1>1, QFacts
    <3>2. QED
      BY <1>1, <1>5, <1>6, <3>1 DEF SessionsOf
  <2>3. ASSUME NEW b \in Addresses, b # a PROVE SessionsOf(b)' = SessionsOf(b)
    BY <1>1, <1>5, <2>3 DEF SessionsOf
  <2>4. QED
    BY <2>1, <2>2, <2>3
<1>9. registry[a] = {s} /\ registry' = [registry EXCEPT ![a] = {}]
  BY <1>8, Reassigned
<1>10. closed' = closed \cup {s}
  BY <1>1 DEF closed
<1>11. held' = held /\ \A g \in Handlers : held[g] = None
  BY <1>1, <1>2 DEF held
<1>12. s # None
  BY NoneAssumption
<1>13. R!Close(a)
  BY <1>9, <1>10, <1>11, <1>12 DEF R!Close
<1>14. QED
  BY <1>13 DEF R!Next

-----------------------------------------------------------------------------

LEMMA RegistryInit == Init => R!Init
BY DEF Init, R!Init, registry, held, closed, SessionsOf, Registered

LEMMA RegistryStep == GInv /\ [QuietNext]_vars => [R!Next]_(R!vars)
<1> SUFFICES ASSUME GInv, [QuietNext]_vars PROVE [R!Next]_(R!vars)
  OBVIOUS
<1>1. ASSUME NEW h \in Handlers, Handler(h) PROVE [R!Next]_(R!vars)
  <2>1. ASSUME Connect(h) \/ Request(h) \/ Clear(h) PROVE UNCHANGED R!vars
    BY <2>1, UnseenSteps
  <2>2. ASSUME Progress(h) PROVE [R!Next]_(R!vars)
    BY <2>2, UnseenSteps, NoUndefinedQ, CreateUnseen, StoreUnseen, ZeroUnseen, BumpInserts,
       FailedCloses, MatchFinds, ProxyDrops, FreeCloses DEF Progress, GInv
  <2>3. QED
    BY <1>1, <2>1, <2>2 DEF Handler
<1>2. ASSUME UNCHANGED vars PROVE UNCHANGED R!vars
  BY <1>2, Unseen DEF vars, HeldSame, Registered
<1>3. QED
  BY <1>1, <1>2, ThreadUnseen DEF QuietNext, Next, AfterFault

\* The loops and critical sections of lcm.c and gctl_lcm_reset keep the promise
\* of Registry, for any number of handlers, CMTSs and sessions and any limit,
\* provided /clear runs alone and connects to one CMTS do not overlap.
THEOREM ImplementsRegistryHolds == QuietSpec => ImplementsRegistry
<1>1. Init => GInv
  BY IInvInit, QInit, SweptInit, AddressInit DEF GInv
<1>2. GInv /\ [QuietNext]_vars => GInv'
  <2>1. ASSUME GInv, QuietNext PROVE GInv'
    BY <2>1, IInvStep, QStep, SweptStep, AddressStep DEF GInv, QuietNext
  <2>2. ASSUME GInv, UNCHANGED vars PROVE GInv'
    BY <2>2, IInvStep, QStep DEF GInv, vars, SweptFreed, AddressKnown, At
  <2>3. QED
    BY <2>1, <2>2
<1>3. GInv /\ [QuietNext]_vars => [R!Next]_(R!vars)
  BY RegistryStep
<1>4. QED
  BY <1>1, <1>2, <1>3, RegistryInit, PTL DEF QuietSpec, ImplementsRegistry, R!Spec
=============================================================================
