------------------------ MODULE ConcurrentDictProofs ------------------------
(***************************************************************************)
(* Proofs about the lock layer, for any number of clients, shards and      *)
(* calls of Clear: its types, the ascending order of the locks, mutual     *)
(* exclusion and the absence of fatal unlocks.                             *)
(***************************************************************************)
EXTENDS ConcurrentDict, WellFoundedInduction, TLAPS

Locking == {"locking"} \cup Waiting

\* What a client knows of its own plan: no shard is locked both ways, the
\* shards it has are below those it has yet to lock, and the kind of call it
\* waits in is the one its plan asks for.
OrderOf(c) ==
    /\ plan[c].write \cap plan[c].read = {}
    /\ todo[c] \subseteq All(plan[c])
    /\ pc[c] \in Locking => \A s \in All(plan[c]) \ todo[c], t \in todo[c] : s < t
    /\ pc[c] \in {"lock", "drain"} => NextToLock(c) \subseteq plan[c].write
    /\ pc[c] = "rlock" => NextToLock(c) \subseteq plan[c].read

\* What the mutexes of the current table know of a client.
LockedBy(c) ==
    /\ \A s \in HeldForWriting(c) : owner[<<table, s>>] = c /\ readers[<<table, s>>] = {}
    /\ \A s \in HeldForReading(c) : c \in readers[<<table, s>>]
    /\ pc[c] \in Waiting => mu[c] = table
    /\ pc[c] = "drain" => \A s \in NextToLock(c) : owner[<<table, s>>] = c
    /\ pc[c] = "rlock" => \A s \in NextToLock(c) : c \in readers[<<table, s>>] \cup rwait[<<table, s>>]

Ordered == \A c \in Clients : OrderOf(c)
Locked == ~torn => ~fault /\ \A c \in Clients : LockedBy(c)

LockInv == TypeOK /\ Ordered /\ Locked

-----------------------------------------------------------------------------
(* Facts about the state functions                                         *)

\* The lowest shard is unique.
LEMMA LowestUnique ==
    ASSUME NEW S \in SUBSET Shards, NEW s \in Lowest(S), NEW t \in Lowest(S)
    PROVE  s = t
  BY ShardsAssumption DEF Lowest, Shards

\* A plan made by toLockIndices has types and no shard twice.
LEMMA PlanFacts ==
    ASSUME NEW req \in Requests
    PROVE  /\ toLockIndices(req) \in [write : SUBSET Shards, read : SUBSET Shards]
           /\ toLockIndices(req).write \cap toLockIndices(req).read = {}
  BY ShardsAssumption, RequestsAssumption DEF toLockIndices

\* The shard to lock or unlock next is one of those left, and its mutex exists.
LEMMA NextFacts ==
    ASSUME TypeOK, NEW c \in Clients, NEW s \in NextToLock(c) \cup NextToUnlock(c)
    PROVE  s \in Shards /\ s \in todo[c] /\ <<table, s>> \in Mutexes /\ <<mu[c], s>> \in Mutexes
<1>1. s \in todo[c]
  BY DEF NextToLock, NextToUnlock, Lowest, Highest
<1>2. s \in Shards /\ table \in Tables /\ mu[c] \in Tables
  BY <1>1 DEF TypeOK
<1> QED BY <1>1, <1>2 DEF Mutexes

\* Held, case by case.
LEMMA HeldLocking ==
    ASSUME NEW c, pc[c] \in Locking PROVE Held(c) = All(plan[c]) \ todo[c]
  BY DEF Held, Locking, Waiting

LEMMA HeldOtherwise ==
    ASSUME NEW c
    PROVE  /\ pc[c] = "running" => Held(c) = All(plan[c])
           /\ pc[c] = "unlocking" => Held(c) = todo[c]
           /\ pc[c] = "idle" => Held(c) = {}
  BY DEF Held, Waiting

-----------------------------------------------------------------------------
(* Types                                                                   *)

LEMMA TypeInit == Init => TypeOK
<1> SUFFICES ASSUME Init PROVE TypeOK
  OBVIOUS
<1>1. 0 \in Tables
  BY ClearsAssumption DEF Tables
<1>2. NoPlan \in [write : SUBSET Shards, read : SUBSET Shards]
  BY DEF NoPlan
<1>3. fault \in BOOLEAN /\ torn \in BOOLEAN
  BY DEF Init
<1> QED BY <1>1, <1>2, <1>3 DEF Init, TypeOK, PCs

LEMMA TypeNext ==
    ASSUME TypeOK, [Next]_vars
    PROVE  TypeOK'
<1> USE DEF TypeOK
<1>1. CASE UNCHANGED vars
  BY <1>1 DEF vars
<1>2. ASSUME NEW c \in Clients, Step(c) PROVE TypeOK'
  <2>1. ASSUME NEW req \in Requests, RWLocks(c, req) PROVE TypeOK'
    <3>1. All(toLockIndices(req)) \in SUBSET Shards
      BY PlanFacts DEF All
    <3> QED BY <2>1, <3>1, PlanFacts DEF RWLocks, mutex, PCs
  <2>2. CASE CallLock(c)
    BY <2>2 DEF CallLock, mutex, PCs, Waiting
  <2>3. CASE Announce(c)
    BY <2>3 DEF Announce, PCs, Waiting
  <2>4. CASE LockReturns(c)
    BY <2>4 DEF LockReturns, Acquired, mutex, PCs
  <2>5. CASE RLock(c)
    <3>1. PICK s \in NextToLock(c) :
            readers' = [readers EXCEPT ![<<table, s>>] = @ \cup {c}] /\ Acquired(c, s)
      BY <2>5 DEF RLock
    <3>2. readers' \in [Mutexes -> SUBSET Clients]
      BY <3>1, NextFacts
    <3>3. mu' \in [Clients -> Tables] /\ owner' = owner /\ rwait' = rwait
      BY <2>5 DEF RLock
    <3> QED BY <3>1, <3>2, <3>3 DEF Acquired, PCs
  <2>6. CASE RLockWaits(c)
    <3>1. PICK s \in NextToLock(c) : rwait' = [rwait EXCEPT ![<<table, s>>] = @ \cup {c}]
      BY <2>6 DEF RLockWaits
    <3>2. rwait' \in [Mutexes -> SUBSET Clients]
      BY <3>1, NextFacts
    <3> QED BY <2>6, <3>2 DEF RLockWaits, PCs, Waiting
  <2>7. CASE RLockReturns(c)
    BY <2>7 DEF RLockReturns, Acquired, mutex, PCs
  <2>8. CASE RWUnLocks(c)
    BY <2>8 DEF RWUnLocks, All, mutex, PCs
  <2>9. CASE Unlock(c)
    <3>1. PICK s \in NextToUnlock(c) :
            /\ Released(c, s)
            /\ \/ /\ owner' = [owner EXCEPT ![<<table, s>>] = NoClient]
                  /\ readers' = [readers EXCEPT ![<<table, s>>] = rwait[<<table, s>>]]
                  /\ rwait' = [rwait EXCEPT ![<<table, s>>] = {}]
                  /\ fault' = fault
               \/ fault' = TRUE /\ UNCHANGED <<owner, readers, rwait>>
      BY <2>9 DEF Unlock, mutex
    <3>2. owner' \in [Mutexes -> Clients \cup {NoClient}]
      BY <3>1, NextFacts
    <3>3. readers' \in [Mutexes -> SUBSET Clients] /\ rwait' \in [Mutexes -> SUBSET Clients]
      BY <3>1, NextFacts
    <3>4. fault' \in BOOLEAN
      BY <3>1
    <3>5. plan' \in [Clients -> [write : SUBSET Shards, read : SUBSET Shards]]
      BY <3>1 DEF Released, NoPlan
    <3> QED BY <3>1, <3>2, <3>3, <3>4, <3>5 DEF Released, PCs
  <2>10. CASE RUnlock(c)
    <3>1. PICK s \in NextToUnlock(c) :
            /\ Released(c, s)
            /\ \/ /\ \E d \in readers[<<table, s>>] : readers' = [readers EXCEPT ![<<table, s>>] = @ \ {d}]
                  /\ fault' = fault
               \/ fault' = TRUE /\ UNCHANGED readers
      BY <2>10 DEF RUnlock
    <3>2. readers' \in [Mutexes -> SUBSET Clients]
      <4>1. CASE UNCHANGED readers
        BY <4>1
      <4>2. ASSUME NEW d, readers' = [readers EXCEPT ![<<table, s>>] = @ \ {d}]
            PROVE  readers' \in [Mutexes -> SUBSET Clients]
        BY <4>2, NextFacts
      <4> QED BY <3>1, <4>1, <4>2
    <3>3. fault' \in BOOLEAN
      BY <3>1
    <3>4. plan' \in [Clients -> [write : SUBSET Shards, read : SUBSET Shards]]
      BY <3>1 DEF Released, NoPlan
    <3>5. owner' = owner /\ rwait' = rwait
      BY <2>10 DEF RUnlock
    <3> QED BY <3>1, <3>2, <3>3, <3>4, <3>5 DEF Released, PCs
  <2>11. CASE Clear(c)
    BY <2>11, ClearsAssumption DEF Clear, client, mutex, Tables
  <2> QED BY <1>2, <2>1, <2>2, <2>3, <2>4, <2>5, <2>6, <2>7, <2>8, <2>9, <2>10, <2>11
          DEF Step, LockStep, UnlockStep
<1> QED BY <1>1, <1>2 DEF Next

\* Every variable keeps its type.
THEOREM TypeCorrect == Spec => []TypeOK
  BY TypeInit, TypeNext, PTL DEF Spec

-----------------------------------------------------------------------------
(* The order of the locks                                                  *)

\* A step of one client leaves the others where they are.
LEMMA OthersStay ==
    ASSUME TypeOK, NEW c \in Clients, NEW d \in Clients, d # c, Step(c)
    PROVE  pc'[d] = pc[d] /\ plan'[d] = plan[d] /\ todo'[d] = todo[d] /\ mu'[d] = mu[d]
<1>1. ASSUME NEW req \in Requests, RWLocks(c, req)
      PROVE  pc'[d] = pc[d] /\ plan'[d] = plan[d] /\ todo'[d] = todo[d] /\ mu'[d] = mu[d]
  BY <1>1 DEF TypeOK, RWLocks
<1>2. CASE LockStep(c)
  BY <1>2, ZenonT(60) DEF TypeOK, LockStep, CallLock, Announce, LockReturns, RLock, RLockWaits,
              RLockReturns, Acquired
<1>3. CASE RWUnLocks(c)
  BY <1>3 DEF TypeOK, RWUnLocks
<1>4. CASE UnlockStep(c)
  <2>1. PICK s \in NextToUnlock(c) : Released(c, s)
    BY <1>4 DEF UnlockStep, Unlock, RUnlock
  <2> QED BY <2>1 DEF Released, TypeOK
<1>5. CASE Clear(c)
  BY <1>5 DEF Clear, client
<1> QED BY <1>1, <1>2, <1>3, <1>4, <1>5 DEF Step

\* Locking the lowest shard that is left keeps the order.
LEMMA AcquiredKeepsOrder ==
    ASSUME TypeOK, NEW c \in Clients, OrderOf(c), pc[c] \in Locking,
           NEW s \in NextToLock(c), Acquired(c, s)
    PROVE  OrderOf(c)'
<1>1. todo'[c] = todo[c] \ {s} /\ plan'[c] = plan[c] /\ pc'[c] \in {"running", "locking"}
  BY DEF TypeOK, Acquired
<1>2. s \in todo[c] /\ \A t \in todo[c] : s <= t
  BY DEF NextToLock, Lowest
<1>3. todo[c] \subseteq Shards /\ All(plan[c]) \subseteq Shards
  BY DEF TypeOK, All
<1>4. ASSUME NEW x \in All(plan'[c]) \ todo'[c], NEW t \in todo'[c] PROVE x < t
  <2>1. CASE x = s
    BY <1>1, <1>2, <1>3, <1>4, <2>1 DEF Shards
  <2>2. CASE x # s
    BY <1>1, <1>4, <2>2 DEF OrderOf
  <2> QED BY <2>1, <2>2
<1> QED BY <1>1, <1>4 DEF OrderOf, Waiting, Locking, All

LEMMA OrderNext ==
    ASSUME TypeOK, TypeOK', Ordered, [Next]_vars
    PROVE  Ordered'
<1>1. CASE UNCHANGED vars
  BY <1>1 DEF vars, Ordered, OrderOf, All, NextToLock
<1>2. ASSUME NEW c \in Clients, Step(c), NEW d \in Clients PROVE OrderOf(d)'
  <2> OrderOf(c) /\ OrderOf(d)
    BY DEF Ordered
  <2>1. CASE d # c
    BY <1>2, <2>1, OthersStay DEF OrderOf, All, NextToLock
  <2>2. CASE d = c
    <3> SUFFICES OrderOf(c)'
      BY <2>2
    <3>1. ASSUME NEW req \in Requests, RWLocks(c, req) PROVE OrderOf(c)'
      <4>1. /\ plan'[c] = toLockIndices(req) /\ todo'[c] = All(plan'[c])
            /\ pc'[c] \in {"running", "locking"}
        BY <3>1 DEF RWLocks, TypeOK
      <4> QED BY <4>1, PlanFacts DEF OrderOf, Waiting, Locking
    <3>2. CASE CallLock(c)
      <4>1. /\ plan'[c] = plan[c] /\ todo'[c] = todo[c] /\ pc'[c] = "lock" /\ pc[c] = "locking"
            /\ \E s \in NextToLock(c) : s \in plan[c].write
        BY <3>2 DEF CallLock, TypeOK
      <4>2. NextToLock(c) \subseteq plan[c].write /\ NextToLock(c)' = NextToLock(c)
        BY <4>1, LowestUnique DEF NextToLock, TypeOK
      <4> QED BY <4>1, <4>2 DEF OrderOf, Waiting, Locking
    <3>3. CASE Announce(c)
      <4>1. /\ plan'[c] = plan[c] /\ todo'[c] = todo[c] /\ pc'[c] = "drain" /\ pc[c] = "lock"
        BY <3>3 DEF Announce, TypeOK
      <4> QED BY <4>1 DEF OrderOf, Waiting, Locking, NextToLock
    <3>4. CASE LockReturns(c)
      BY <3>4, AcquiredKeepsOrder DEF LockReturns, Waiting, Locking
    <3>5. CASE RLock(c)
      BY <3>5, AcquiredKeepsOrder DEF RLock, Waiting, Locking
    <3>6. CASE RLockWaits(c)
      <4>1. /\ plan'[c] = plan[c] /\ todo'[c] = todo[c] /\ pc'[c] = "rlock" /\ pc[c] = "locking"
            /\ \E s \in NextToLock(c) : s \in plan[c].read
        BY <3>6 DEF RLockWaits, TypeOK
      <4>2. NextToLock(c) \subseteq plan[c].read /\ NextToLock(c)' = NextToLock(c)
        BY <4>1, LowestUnique DEF NextToLock, TypeOK
      <4> QED BY <4>1, <4>2 DEF OrderOf, Waiting, Locking
    <3>7. CASE RLockReturns(c)
      BY <3>7, AcquiredKeepsOrder DEF RLockReturns, Waiting, Locking
    <3>8. CASE RWUnLocks(c)
      <4>1. /\ plan'[c] = plan[c] /\ todo'[c] = All(plan[c])
            /\ pc'[c] \in {"idle", "unlocking"}
        BY <3>8 DEF RWUnLocks, TypeOK
      <4> QED BY <4>1 DEF OrderOf, Waiting, Locking, All
    <3>9. CASE UnlockStep(c)
      <4>1. PICK s \in NextToUnlock(c) : Released(c, s)
        BY <3>9 DEF UnlockStep, Unlock, RUnlock
      <4>2. CASE todo[c] = {s}
        BY <4>1, <4>2 DEF Released, TypeOK, OrderOf, Waiting, Locking, NoPlan, All
      <4>3. CASE todo[c] # {s}
        BY <4>1, <4>3 DEF Released, TypeOK, OrderOf, Waiting, Locking, All
      <4> QED BY <4>2, <4>3
    <3>10. CASE Clear(c)
      BY <3>10 DEF Clear, client, OrderOf, All, NextToLock
    <3> QED BY <1>2, <3>1, <3>2, <3>3, <3>4, <3>5, <3>6, <3>7, <3>8, <3>9, <3>10
            DEF Step, LockStep
  <2> QED BY <2>1, <2>2
<1> QED BY <1>1, <1>2 DEF Next, Ordered

LEMMA OrderInit == Init => Ordered
  BY DEF Init, Ordered, OrderOf, NoPlan, All, Waiting, Locking

\* What a client holds is below the shard it waits for, in every reachable
\* state: the reason why RWLocks cannot deadlock.
THEOREM LocksAscend == Spec => []LockOrder
<1>1. Init => TypeOK /\ Ordered
  BY TypeInit, OrderInit
<1>2. TypeOK /\ Ordered /\ [Next]_vars => (TypeOK /\ Ordered)'
  BY TypeNext, OrderNext
<1>3. TypeOK /\ Ordered => LockOrder
  <2> SUFFICES ASSUME Ordered, NEW c \in Clients, pc[c] \in Waiting,
                      NEW s \in Held(c), NEW t \in NextToLock(c)
               PROVE  s < t
    BY DEF LockOrder
  <2>1. s \in All(plan[c]) \ todo[c]
    BY HeldLocking DEF Locking
  <2>2. t \in todo[c]
    BY DEF NextToLock, Lowest
  <2> QED BY <2>1, <2>2 DEF Ordered, OrderOf, Locking
<1> QED BY <1>1, <1>2, <1>3, PTL DEF Spec

-----------------------------------------------------------------------------
(* Mutual exclusion                                                        *)

\* A client that takes no part in a step stays locked as it was if the
\* mutexes it has to do with stay as they were to it.
LEMMA OthersLocked ==
    ASSUME TypeOK, NEW c \in Clients, NEW d \in Clients, d # c, Step(c), LockedBy(d),
           table' = table,
           \A s \in Shards :
               /\ owner[<<table, s>>] = d => owner'[<<table, s>>] = d
               /\ owner[<<table, s>>] = d /\ readers[<<table, s>>] = {} => readers'[<<table, s>>] = {}
               /\ d \in readers[<<table, s>>] => d \in readers'[<<table, s>>]
               /\ d \in rwait[<<table, s>>] => d \in readers'[<<table, s>>] \cup rwait'[<<table, s>>]
    PROVE  LockedBy(d)'
<1>1. pc'[d] = pc[d] /\ plan'[d] = plan[d] /\ todo'[d] = todo[d] /\ mu'[d] = mu[d]
  BY OthersStay
<1>2. /\ HeldForWriting(d)' = HeldForWriting(d) /\ HeldForReading(d)' = HeldForReading(d)
      /\ NextToLock(d)' = NextToLock(d)
  BY <1>1 DEF HeldForWriting, HeldForReading, Held, NextToLock
<1>3. HeldForWriting(d) \subseteq Shards /\ HeldForReading(d) \subseteq Shards /\ NextToLock(d) \subseteq Shards
  BY DEF HeldForWriting, HeldForReading, NextToLock, Lowest, TypeOK
<1> QED BY <1>1, <1>2, <1>3 DEF LockedBy

\* The shard that a client acquires is added to what it holds.
LEMMA AcquiredHeld ==
    ASSUME TypeOK, NEW c \in Clients, OrderOf(c), pc[c] \in Locking,
           NEW s \in NextToLock(c), Acquired(c, s)
    PROVE  /\ Held(c)' = Held(c) \cup {s}
           /\ plan'[c] = plan[c] /\ pc'[c] \in {"running", "locking"} /\ table' = table
<1>1. /\ todo'[c] = todo[c] \ {s} /\ plan'[c] = plan[c] /\ table' = table
      /\ pc'[c] = IF todo[c] = {s} THEN "running" ELSE "locking"
  BY DEF TypeOK, Acquired
<1>2. s \in todo[c] /\ todo[c] \subseteq All(plan[c])
  BY DEF NextToLock, Lowest, OrderOf
<1>3. Held(c) = All(plan[c]) \ todo[c]
  BY HeldLocking
<1>4. CASE todo[c] = {s}
  BY <1>1, <1>2, <1>3, <1>4 DEF Held, Waiting
<1>5. CASE todo[c] # {s}
  BY <1>1, <1>2, <1>3, <1>5 DEF Held, Waiting
<1> QED BY <1>1, <1>4, <1>5

LEMMA LockedLock ==
    ASSUME TypeOK, Ordered, ~torn, ~fault, \A d \in Clients : LockedBy(d),
           NEW c \in Clients, LockStep(c), Step(c)
    PROVE  ~fault' /\ \A d \in Clients : LockedBy(d)'
<1> OrderOf(c) /\ LockedBy(c)
  BY DEF Ordered
<1>1. CASE CallLock(c)
  <2>1. /\ plan'[c] = plan[c] /\ todo'[c] = todo[c] /\ pc'[c] = "lock" /\ pc[c] = "locking"
        /\ mu'[c] = table /\ UNCHANGED <<table, owner, readers, rwait, fault>>
    BY <1>1 DEF CallLock, TypeOK, mutex
  <2>2. Held(c)' = Held(c)
    BY <2>1 DEF Held, Waiting
  <2>3. LockedBy(c)'
    BY <2>1, <2>2 DEF LockedBy, HeldForWriting, HeldForReading, Waiting
  <2> QED BY <2>1, <2>3, OthersLocked
<1>2. CASE Announce(c)
  <2>1. /\ plan'[c] = plan[c] /\ todo'[c] = todo[c] /\ pc'[c] = "drain" /\ pc[c] = "lock"
        /\ mu' = mu /\ mu[c] = table /\ UNCHANGED <<table, readers, rwait, fault>>
    BY <1>2 DEF Announce, TypeOK, LockedBy, Waiting
  <2>2. PICK s \in NextToLock(c) :
          /\ owner[<<table, s>>] = NoClient
          /\ owner' = [owner EXCEPT ![<<table, s>>] = c]
    BY <1>2, <2>1 DEF Announce
  <2>3. Held(c)' = Held(c) /\ NextToLock(c)' = NextToLock(c)
    BY <2>1 DEF Held, Waiting, NextToLock
  <2>4. \A t \in Shards : owner'[<<table, t>>] = IF t = s THEN c ELSE owner[<<table, t>>]
    <3> TAKE t \in Shards
    <3>1. <<table, t>> \in Mutexes
      BY DEF Mutexes, TypeOK
    <3> QED BY <2>2, <3>1 DEF TypeOK
  <2>5. \A t \in NextToLock(c) : t = s
    BY LowestUnique DEF NextToLock, TypeOK
  <2>6. s \in Shards
    BY NextFacts
  <2>7. LockedBy(c)'
    <3>1. HeldForWriting(c) \subseteq Shards
      BY DEF HeldForWriting, TypeOK
    <3> QED BY <2>1, <2>3, <2>4, <2>5, <2>6, <3>1 DEF LockedBy, HeldForWriting, HeldForReading, Waiting
  <2>8. ASSUME NEW d \in Clients, d # c PROVE LockedBy(d)'
    BY <2>1, <2>2, <2>4, <2>8, ClientsAssumption, OthersLocked
  <2> QED BY <2>1, <2>7, <2>8
<1>3. CASE LockReturns(c)
  <2>1. PICK s \in NextToLock(c) :
          /\ owner[<<mu[c], s>>] = c => readers[<<mu[c], s>>] = {}
          /\ Acquired(c, s)
    BY <1>3 DEF LockReturns
  <2>2. pc[c] = "drain" /\ mu[c] = table /\ UNCHANGED <<table, owner, readers, rwait, fault>>
    BY <1>3, <2>1 DEF LockReturns, mutex, Acquired, LockedBy, Waiting
  <2>3. /\ owner[<<table, s>>] = c /\ readers[<<table, s>>] = {}
        /\ s \in plan[c].write /\ s \notin plan[c].read
    BY <2>1, <2>2 DEF LockedBy, OrderOf
  <2>4. /\ Held(c)' = Held(c) \cup {s} /\ plan'[c] = plan[c]
        /\ pc'[c] \in {"running", "locking"}
    <3>1. pc[c] \in Locking
      BY <2>2 DEF Locking, Waiting
    <3> QED BY <2>1, <3>1, AcquiredHeld
  <2>5. LockedBy(c)'
    BY <2>2, <2>3, <2>4 DEF LockedBy, HeldForWriting, HeldForReading, Waiting
  <2> QED BY <2>2, <2>5, OthersLocked
<1>4. CASE RLock(c)
  <2>1. PICK s \in NextToLock(c) :
          /\ s \in plan[c].read
          /\ owner[<<table, s>>] = NoClient
          /\ readers' = [readers EXCEPT ![<<table, s>>] = @ \cup {c}]
          /\ Acquired(c, s)
    BY <1>4 DEF RLock
  <2>2. pc[c] = "locking" /\ UNCHANGED <<table, owner, rwait, fault>>
    BY <1>4, <2>1 DEF RLock, Acquired
  <2>3. /\ Held(c)' = Held(c) \cup {s} /\ plan'[c] = plan[c]
        /\ pc'[c] \in {"running", "locking"}
    BY <2>1, <2>2, AcquiredHeld DEF Locking
  <2>4. \A t \in Shards : readers'[<<table, t>>] =
                             IF t = s THEN readers[<<table, t>>] \cup {c} ELSE readers[<<table, t>>]
    <3> TAKE t \in Shards
    <3>1. <<table, t>> \in Mutexes
      BY DEF Mutexes, TypeOK
    <3> QED BY <2>1, <3>1 DEF TypeOK
  <2>5. s \notin plan[c].write
    BY <2>1 DEF OrderOf
  <2>6. s \in Shards /\ HeldForWriting(c) \subseteq Shards /\ HeldForReading(c) \subseteq Shards
    BY NextFacts DEF HeldForWriting, HeldForReading, TypeOK
  <2>7. HeldForWriting(c)' = HeldForWriting(c) /\ HeldForReading(c)' = HeldForReading(c) \cup {s}
    BY <2>1, <2>3, <2>5 DEF HeldForWriting, HeldForReading
  <2>8. LockedBy(c)'
    BY <2>1, <2>2, <2>3, <2>4, <2>6, <2>7, ClientsAssumption DEF LockedBy, Waiting
  <2>9. ASSUME NEW d \in Clients, d # c PROVE LockedBy(d)'
    BY <2>1, <2>2, <2>4, <2>9, ClientsAssumption, OthersLocked
  <2> QED BY <2>2, <2>8, <2>9
<1>5. CASE RLockWaits(c)
  <2>1. PICK s \in NextToLock(c) : rwait' = [rwait EXCEPT ![<<table, s>>] = @ \cup {c}]
    BY <1>5 DEF RLockWaits
  <2>2. /\ plan'[c] = plan[c] /\ todo'[c] = todo[c] /\ pc'[c] = "rlock" /\ pc[c] = "locking"
        /\ mu'[c] = table /\ UNCHANGED <<table, owner, readers, fault>>
    BY <1>5 DEF RLockWaits, TypeOK
  <2>3. Held(c)' = Held(c) /\ NextToLock(c)' = NextToLock(c)
    BY <2>2 DEF Held, Waiting, NextToLock
  <2>4. \A t \in Shards : rwait'[<<table, t>>] =
                             IF t = s THEN rwait[<<table, t>>] \cup {c} ELSE rwait[<<table, t>>]
    <3> TAKE t \in Shards
    <3>1. <<table, t>> \in Mutexes
      BY DEF Mutexes, TypeOK
    <3> QED BY <2>1, <3>1 DEF TypeOK
  <2>5. \A t \in NextToLock(c) : t = s
    BY LowestUnique DEF NextToLock, TypeOK
  <2>6. s \in Shards
    BY NextFacts
  <2>7. LockedBy(c)'
    <3>1. HeldForWriting(c)' = HeldForWriting(c) /\ HeldForReading(c)' = HeldForReading(c)
      BY <2>2, <2>3 DEF HeldForWriting, HeldForReading
    <3>2. c \in rwait'[<<table, s>>]
      BY <2>4, <2>6
    <3> QED BY <2>2, <2>3, <2>5, <3>1, <3>2 DEF LockedBy
  <2>8. ASSUME NEW d \in Clients, d # c PROVE LockedBy(d)'
    BY <2>2, <2>4, <2>8, OthersLocked
  <2> QED BY <2>2, <2>7, <2>8
<1>6. CASE RLockReturns(c)
  <2>1. PICK s \in NextToLock(c) : c \notin rwait[<<mu[c], s>>] /\ Acquired(c, s)
    BY <1>6 DEF RLockReturns
  <2>2. pc[c] = "rlock" /\ mu[c] = table /\ UNCHANGED <<table, owner, readers, rwait, fault>>
    BY <1>6, <2>1 DEF RLockReturns, mutex, Acquired, LockedBy, Waiting
  <2>3. c \in readers[<<table, s>>] /\ s \in plan[c].read /\ s \notin plan[c].write
    BY <2>1, <2>2 DEF LockedBy, OrderOf
  <2>4. /\ Held(c)' = Held(c) \cup {s} /\ plan'[c] = plan[c]
        /\ pc'[c] \in {"running", "locking"}
    <3>1. pc[c] \in Locking
      BY <2>2 DEF Locking, Waiting
    <3> QED BY <2>1, <3>1, AcquiredHeld
  <2>5. LockedBy(c)'
    BY <2>2, <2>3, <2>4 DEF LockedBy, HeldForWriting, HeldForReading, Waiting
  <2> QED BY <2>2, <2>5, OthersLocked
<1> QED BY <1>1, <1>2, <1>3, <1>4, <1>5, <1>6 DEF LockStep

\* What is left to hold after a shard is given back.
LEMMA ReleasedHeld ==
    ASSUME TypeOK, NEW c \in Clients, pc[c] = "unlocking", NEW s \in NextToUnlock(c), Released(c, s)
    PROVE  /\ Held(c) = todo[c] /\ s \in Held(c)
           /\ HeldForWriting(c)' \subseteq HeldForWriting(c) \ {s}
           /\ HeldForReading(c)' \subseteq HeldForReading(c) \ {s}
           /\ pc'[c] \notin Waiting /\ table' = table
<1>1. Held(c) = todo[c] /\ s \in todo[c]
  BY HeldOtherwise DEF NextToUnlock, Highest
<1>2. /\ todo'[c] = todo[c] \ {s} /\ table' = table
      /\ pc'[c] = IF todo[c] = {s} THEN "idle" ELSE "unlocking"
      /\ plan'[c] = IF todo[c] = {s} THEN NoPlan ELSE plan[c]
  BY DEF TypeOK, Released
<1>3. CASE todo[c] = {s}
  <2>1. Held(c)' = {}
    BY <1>2, <1>3 DEF Held, Waiting
  <2> QED BY <1>1, <1>2, <1>3, <2>1 DEF HeldForWriting, HeldForReading, Waiting
<1>4. CASE todo[c] # {s}
  <2>1. Held(c)' = todo[c] \ {s}
    BY <1>2, <1>4 DEF Held, Waiting
  <2> QED BY <1>1, <1>2, <1>4, <2>1 DEF HeldForWriting, HeldForReading, Waiting
<1> QED BY <1>3, <1>4

LEMMA LockedUnlock ==
    ASSUME TypeOK, Ordered, ~torn, ~fault, \A d \in Clients : LockedBy(d),
           NEW c \in Clients, UnlockStep(c), Step(c)
    PROVE  ~fault' /\ \A d \in Clients : LockedBy(d)'
<1> LockedBy(c)
  OBVIOUS
<1>1. CASE Unlock(c)
  <2>1. PICK s \in NextToUnlock(c) :
          LET m == <<table, s>> IN
          /\ s \in plan[c].write
          /\ Released(c, s)
          /\ IF owner[m] # NoClient /\ readers[m] = {}
               THEN /\ owner' = [owner EXCEPT ![m] = NoClient]
                    /\ readers' = [readers EXCEPT ![m] = rwait[m]]
                    /\ rwait' = [rwait EXCEPT ![m] = {}]
                    /\ fault' = fault
               ELSE fault' = TRUE /\ UNCHANGED mutex
    BY <1>1 DEF Unlock
  <2>2. pc[c] = "unlocking"
    BY <1>1 DEF Unlock
  <2>3. /\ s \in Held(c) /\ pc'[c] \notin Waiting /\ table' = table
        /\ HeldForWriting(c)' \subseteq HeldForWriting(c) \ {s}
        /\ HeldForReading(c)' \subseteq HeldForReading(c) \ {s}
    BY <2>1, <2>2, ReleasedHeld
  <2>4. owner[<<table, s>>] = c /\ readers[<<table, s>>] = {}
    BY <2>1, <2>3 DEF LockedBy, HeldForWriting
  <2>5. /\ owner' = [owner EXCEPT ![<<table, s>>] = NoClient]
        /\ readers' = [readers EXCEPT ![<<table, s>>] = rwait[<<table, s>>]]
        /\ fault' = fault
    BY <2>1, <2>4, ClientsAssumption
  <2>6. \A t \in Shards :
          /\ owner'[<<table, t>>] = IF t = s THEN NoClient ELSE owner[<<table, t>>]
          /\ readers'[<<table, t>>] = IF t = s THEN rwait[<<table, t>>] ELSE readers[<<table, t>>]
          /\ t # s => rwait'[<<table, t>>] = rwait[<<table, t>>]
    <3> TAKE t \in Shards
    <3>1. <<table, t>> \in Mutexes
      BY DEF Mutexes, TypeOK
    <3>2. rwait' = [rwait EXCEPT ![<<table, s>>] = {}]
      BY <2>1, <2>4, ClientsAssumption
    <3> QED BY <2>5, <3>1, <3>2 DEF TypeOK
  <2>7. LockedBy(c)'
    <3>1. HeldForWriting(c) \subseteq Shards /\ HeldForReading(c) \subseteq Shards
      BY DEF HeldForWriting, HeldForReading, TypeOK
    <3> QED BY <2>3, <2>6, <3>1 DEF LockedBy, Waiting
  <2>8. ASSUME NEW d \in Clients, d # c PROVE LockedBy(d)'
    BY <2>3, <2>4, <2>6, <2>8, OthersLocked
  <2> QED BY <2>5, <2>7, <2>8
<1>2. CASE RUnlock(c)
  <2>1. PICK s \in NextToUnlock(c) :
          LET m == <<table, s>> IN
          /\ s \in plan[c].read
          /\ Released(c, s)
          /\ IF readers[m] # {}
               THEN /\ \E d \in readers[m] :
                          /\ c \in readers[m] => d = c
                          /\ readers' = [readers EXCEPT ![m] = @ \ {d}]
                    /\ fault' = fault
               ELSE fault' = TRUE /\ UNCHANGED readers
    BY <1>2 DEF RUnlock
  <2>2. pc[c] = "unlocking" /\ UNCHANGED <<owner, rwait>>
    BY <1>2 DEF RUnlock
  <2>3. /\ s \in Held(c) /\ pc'[c] \notin Waiting /\ table' = table
        /\ HeldForWriting(c)' \subseteq HeldForWriting(c) \ {s}
        /\ HeldForReading(c)' \subseteq HeldForReading(c) \ {s}
    BY <2>1, <2>2, ReleasedHeld
  <2>4. c \in readers[<<table, s>>]
    BY <2>1, <2>3 DEF LockedBy, HeldForReading
  <2>5. readers' = [readers EXCEPT ![<<table, s>>] = @ \ {c}] /\ fault' = fault
    BY <2>1, <2>4
  <2>6. \A t \in Shards : readers'[<<table, t>>] =
                             IF t = s THEN readers[<<table, t>>] \ {c} ELSE readers[<<table, t>>]
    <3> TAKE t \in Shards
    <3>1. <<table, t>> \in Mutexes
      BY DEF Mutexes, TypeOK
    <3> QED BY <2>5, <3>1 DEF TypeOK
  <2>7. LockedBy(c)'
    <3>1. HeldForWriting(c) \subseteq Shards /\ HeldForReading(c) \subseteq Shards
      BY DEF HeldForWriting, HeldForReading, TypeOK
    <3> QED BY <2>2, <2>3, <2>6, <3>1, ZenonT(60) DEF LockedBy, Waiting
  <2>8. ASSUME NEW d \in Clients, d # c PROVE LockedBy(d)'
    BY <2>2, <2>3, <2>4, <2>6, <2>8, OthersLocked
  <2> QED BY <2>5, <2>7, <2>8
<1> QED BY <1>1, <1>2 DEF UnlockStep

LEMMA LockedNext ==
    ASSUME TypeOK, Ordered, Locked, [Next]_vars
    PROVE  Locked'
<1>1. CASE UNCHANGED vars
  BY <1>1 DEF vars, Locked, LockedBy, HeldForWriting, HeldForReading, Held, NextToLock
<1>2. ASSUME NEW c \in Clients, Step(c), ~torn'
      PROVE  ~fault' /\ \A d \in Clients : LockedBy(d)'
  <2>1. ~torn
    BY <1>2 DEF Step, LockStep, UnlockStep, RWLocks, CallLock, Announce, LockReturns, RLock,
                RLockWaits, RLockReturns, RWUnLocks, Unlock, RUnlock, Clear, Acquired, Released
  <2> ~fault /\ \A d \in Clients : LockedBy(d)
    BY <2>1 DEF Locked
  <2>2. ASSUME NEW req \in Requests, RWLocks(c, req)
        PROVE  ~fault' /\ \A d \in Clients : LockedBy(d)'
    <3>1. /\ todo'[c] = All(plan'[c]) /\ UNCHANGED <<table, owner, readers, rwait, fault>>
          /\ pc'[c] = IF todo'[c] = {} THEN "running" ELSE "locking"
      BY <2>2 DEF RWLocks, TypeOK, mutex
    <3>2. Held(c)' = {}
      BY <3>1 DEF Held, Waiting
    <3>3. LockedBy(c)'
      BY <3>1, <3>2 DEF LockedBy, HeldForWriting, HeldForReading, Waiting
    <3> QED BY <1>2, <3>1, <3>3, OthersLocked
  <2>3. CASE LockStep(c)
    BY <1>2, <2>1, <2>3, LockedLock
  <2>4. CASE RWUnLocks(c)
    <3>1. /\ pc[c] = "running" /\ todo'[c] = All(plan[c]) /\ plan'[c] = plan[c]
          /\ UNCHANGED <<table, owner, readers, rwait, fault>>
          /\ pc'[c] = IF All(plan[c]) = {} THEN "idle" ELSE "unlocking"
      BY <2>4 DEF RWUnLocks, TypeOK, mutex
    <3>2. Held(c)' = Held(c)
      BY <3>1 DEF Held, Waiting
    <3>3. LockedBy(c)'
      BY <3>1, <3>2 DEF LockedBy, HeldForWriting, HeldForReading, Waiting
    <3> QED BY <1>2, <3>1, <3>3, OthersLocked
  <2>5. CASE UnlockStep(c)
    BY <1>2, <2>1, <2>5, LockedUnlock
  <2>6. CASE Clear(c)
    <3>1. ~InUse /\ UNCHANGED <<pc, plan, todo, fault>>
      BY <1>2, <2>6 DEF Clear, client
    <3>2. ASSUME NEW d \in Clients PROVE Held(d)' = {} /\ pc'[d] \notin Waiting
      BY <3>1 DEF InUse, Held
    <3> QED BY <3>1, <3>2 DEF LockedBy, HeldForWriting, HeldForReading, Waiting
  <2> QED BY <1>2, <2>2, <2>3, <2>4, <2>5, <2>6 DEF Step
<1> QED BY <1>1, <1>2 DEF Next, Locked

LEMMA LockedInit == Init => Locked
  BY HeldOtherwise DEF Init, Locked, LockedBy, HeldForWriting, HeldForReading, Waiting

LEMMA LockInvInit == Init => LockInv
  BY TypeInit, OrderInit, LockedInit DEF LockInv

LEMMA LockInvNext == LockInv /\ [Next]_vars => LockInv'
  BY TypeNext, OrderNext, LockedNext DEF LockInv

LEMMA LockInvHolds == Spec => []LockInv
  BY LockInvInit, LockInvNext, PTL DEF Spec

\* Two clients that have been given the lock of one shard both have it for
\* reading.
LEMMA LockInvExcludes == LockInv => MutualExclusion
<1> SUFFICES ASSUME LockInv, ~torn, NEW c \in Clients, NEW d \in Clients, c # d,
                    NEW s \in HeldForWriting(c), s \in Held(d)
             PROVE  FALSE
  BY DEF MutualExclusion
<1>1. owner[<<table, s>>] = c /\ readers[<<table, s>>] = {}
  BY DEF LockInv, Locked, LockedBy
<1>2. s \in HeldForWriting(d) \/ s \in HeldForReading(d)
  <2>1. Held(d) \subseteq All(plan[d])
    BY HeldLocking, HeldOtherwise DEF LockInv, TypeOK, PCs, Ordered, OrderOf, Locking
  <2> QED BY <2>1 DEF All, HeldForWriting, HeldForReading
<1> QED BY <1>1, <1>2 DEF LockInv, Locked, LockedBy

\* Two clients that have been given the lock of one shard both have it for
\* reading, as long as Clear has not run while a lock was in use.
THEOREM LocksExclude == Spec => []MutualExclusion
  BY LockInvHolds, LockInvExcludes, PTL

\* RWUnLocks unlocks only what RWLocks has locked, as long as Clear has not
\* run while a lock was in use.
THEOREM NoFatalUnlockBeforeTear == Spec => []UnlocksMatchLocks
<1>1. LockInv => UnlocksMatchLocks
  BY DEF LockInv, Locked, UnlocksMatchLocks
<1> QED BY <1>1, LockInvHolds, PTL

-----------------------------------------------------------------------------
(* No circular wait.  Locked says that the mutexes know of every client;   *)
(* the converse is needed too: whoever a mutex knows of is a client that   *)
(* holds it or that waits for it.                                          *)

Traced(c) ==
    \A s \in Shards :
        /\ owner[<<table, s>>] = c =>
              s \in HeldForWriting(c) \/ (pc[c] = "drain" /\ s \in NextToLock(c))
        /\ c \in readers[<<table, s>>] =>
              s \in HeldForReading(c) \/ (pc[c] = "rlock" /\ s \in NextToLock(c))
        /\ c \in rwait[<<table, s>>] =>
              pc[c] = "rlock" /\ s \in NextToLock(c) /\ c \notin readers[<<table, s>>]

\* Nobody has touched the mutexes that Clear has yet to make.
Fresh ==
    \A t \in Tables, s \in Shards : t > table =>
        owner[<<t, s>>] = NoClient /\ readers[<<t, s>>] = {} /\ rwait[<<t, s>>] = {}

Traces == ~torn => Fresh /\ \A c \in Clients : Traced(c)

WaitInv == LockInv /\ Traces

\* A client that takes no part in a step is known to the mutexes as before.
LEMMA OthersTraced ==
    ASSUME TypeOK, NEW c \in Clients, NEW d \in Clients, d # c, Step(c), Traced(d),
           table' = table,
           \A s \in Shards :
               /\ owner'[<<table, s>>] = d => owner[<<table, s>>] = d
               /\ d \in readers'[<<table, s>>] => d \in readers[<<table, s>>] \cup rwait[<<table, s>>]
               /\ d \in rwait'[<<table, s>>] =>
                     /\ d \in rwait[<<table, s>>]
                     /\ d \in readers'[<<table, s>>] => d \in readers[<<table, s>>]
    PROVE  Traced(d)'
<1>1. pc'[d] = pc[d] /\ plan'[d] = plan[d] /\ todo'[d] = todo[d] /\ mu'[d] = mu[d]
  BY OthersStay
<1>2. /\ HeldForWriting(d)' = HeldForWriting(d) /\ HeldForReading(d)' = HeldForReading(d)
      /\ NextToLock(d)' = NextToLock(d)
  BY <1>1 DEF HeldForWriting, HeldForReading, Held, NextToLock
<1> QED BY <1>1, <1>2 DEF Traced

\* A step that changes the mutexes of the current table only leaves the
\* later ones fresh.
LEMMA StaysFresh ==
    ASSUME TypeOK, Fresh, table' = table,
           \A m \in Mutexes : m[1] # table =>
               owner'[m] = owner[m] /\ readers'[m] = readers[m] /\ rwait'[m] = rwait[m]
    PROVE  Fresh'
<1> SUFFICES ASSUME NEW t \in Tables, NEW s \in Shards, t > table
             PROVE  owner'[<<t, s>>] = NoClient /\ readers'[<<t, s>>] = {} /\ rwait'[<<t, s>>] = {}
  BY DEF Fresh
<1>1. <<t, s>> \in Mutexes /\ <<t, s>>[1] = t /\ t # table
  BY ClearsAssumption DEF Mutexes, Tables, TypeOK
<1>2. owner'[<<t, s>>] = owner[<<t, s>>] /\ readers'[<<t, s>>] = readers[<<t, s>>]
      /\ rwait'[<<t, s>>] = rwait[<<t, s>>]
  BY <1>1
<1> QED BY <1>2 DEF Fresh

\* The mutexes of the current table.
LEMMA CurrentMutexes ==
    ASSUME TypeOK
    PROVE  \A t \in Shards : <<table, t>> \in Mutexes /\ <<table, t>>[1] = table
  BY DEF Mutexes, TypeOK

LEMMA TracedLock ==
    ASSUME LockInv, ~torn, Fresh, \A d \in Clients : Traced(d),
           NEW c \in Clients, LockStep(c), Step(c)
    PROVE  Fresh' /\ \A d \in Clients : Traced(d)'
<1> TypeOK /\ OrderOf(c) /\ LockedBy(c) /\ Traced(c)
  BY DEF LockInv, Ordered, Locked
<1>s. \A s, t \in NextToLock(c) : s \in Shards /\ s = t
  BY LowestUnique, NextFacts DEF NextToLock, TypeOK
<1>h. \A t \in Held(c) : t \notin NextToLock(c)
  <2>1. pc[c] \in Locking
    BY DEF LockStep, CallLock, Announce, LockReturns, RLock, RLockWaits, RLockReturns, Locking, Waiting
  <2> QED BY <2>1, HeldLocking DEF NextToLock, Lowest
<1>1. CASE CallLock(c)
  <2>1. /\ plan'[c] = plan[c] /\ todo'[c] = todo[c] /\ pc'[c] = "lock" /\ pc[c] = "locking"
        /\ UNCHANGED <<table, owner, readers, rwait, fault>>
    BY <1>1 DEF CallLock, TypeOK, mutex
  <2>2. Held(c)' = Held(c)
    BY <2>1 DEF Held, Waiting
  <2>3. Traced(c)'
    BY <2>1, <2>2 DEF Traced, HeldForWriting, HeldForReading
  <2> QED BY <2>1, <2>3, OthersTraced, StaysFresh
<1>2. CASE Announce(c)
  <2>1. /\ plan'[c] = plan[c] /\ todo'[c] = todo[c] /\ pc'[c] = "drain" /\ pc[c] = "lock"
        /\ mu[c] = table /\ UNCHANGED <<table, readers, rwait, fault>>
    BY <1>2 DEF Announce, TypeOK, LockedBy, Waiting
  <2>2. PICK s \in NextToLock(c) : owner' = [owner EXCEPT ![<<table, s>>] = c]
    BY <1>2, <2>1 DEF Announce
  <2>3. Held(c)' = Held(c) /\ NextToLock(c)' = NextToLock(c)
    BY <2>1 DEF Held, Waiting, NextToLock
  <2>4. /\ \A t \in Shards : owner'[<<table, t>>] = IF t = s THEN c ELSE owner[<<table, t>>]
        /\ \A m \in Mutexes : m[1] # table => owner'[m] = owner[m]
    <3>1. owner \in [Mutexes -> Clients \cup {NoClient}] /\ s \in Shards
      BY <1>s DEF TypeOK
    <3>2. \A t \in Shards : <<table, t>> \in Mutexes /\ <<table, t>>[1] = table
      BY CurrentMutexes
    <3> QED BY <2>2, <3>1, <3>2
  <2>5. Traced(c)'
    BY <2>1, <2>3, <2>4 DEF Traced, HeldForWriting, HeldForReading
  <2>6. ASSUME NEW d \in Clients, d # c PROVE Traced(d)'
    BY <2>1, <2>4, <2>6, OthersTraced
  <2> QED BY <2>1, <2>4, <2>5, <2>6, StaysFresh
<1>3. CASE LockReturns(c)
  <2>1. PICK s \in NextToLock(c) : Acquired(c, s)
    BY <1>3 DEF LockReturns
  <2>2. pc[c] = "drain" /\ UNCHANGED <<table, owner, readers, rwait, fault>>
    BY <1>3, <2>1 DEF LockReturns, mutex, Acquired
  <2>3. s \in plan[c].write
    BY <2>1, <2>2 DEF OrderOf
  <2>4. Held(c)' = Held(c) \cup {s} /\ plan'[c] = plan[c]
    <3>1. pc[c] \in Locking
      BY <2>2 DEF Locking, Waiting
    <3> QED BY <2>1, <3>1, AcquiredHeld
  <2>5. Traced(c)'
    BY <1>s, <2>1, <2>2, <2>3, <2>4 DEF Traced, HeldForWriting, HeldForReading
  <2> QED BY <2>2, <2>5, OthersTraced, StaysFresh
<1>4. CASE RLock(c)
  <2>1. PICK s \in NextToLock(c) :
          /\ s \in plan[c].read
          /\ readers' = [readers EXCEPT ![<<table, s>>] = @ \cup {c}]
          /\ Acquired(c, s)
    BY <1>4 DEF RLock
  <2>2. pc[c] = "locking" /\ UNCHANGED <<table, owner, rwait, fault>>
    BY <1>4, <2>1 DEF RLock, Acquired
  <2>3. Held(c)' = Held(c) \cup {s} /\ plan'[c] = plan[c]
    BY <2>1, <2>2, AcquiredHeld DEF Locking
  <2>4. /\ \A t \in Shards : readers'[<<table, t>>] =
                                IF t = s THEN readers[<<table, s>>] \cup {c} ELSE readers[<<table, t>>]
        /\ \A m \in Mutexes : m[1] # table => readers'[m] = readers[m]
    <3>1. readers \in [Mutexes -> SUBSET Clients] /\ s \in Shards
      BY <1>s DEF TypeOK
    <3>2. \A t \in Shards : <<table, t>> \in Mutexes /\ <<table, t>>[1] = table
      BY CurrentMutexes
    <3> QED BY <2>1, <3>1, <3>2
  <2>5. Traced(c)'
    BY <2>1, <2>2, <2>3, <2>4 DEF Traced, HeldForWriting, HeldForReading
  <2>6. ASSUME NEW d \in Clients, d # c PROVE Traced(d)'
    BY <2>2, <2>4, <2>6, OthersTraced
  <2> QED BY <2>2, <2>4, <2>5, <2>6, StaysFresh
<1>5. CASE RLockWaits(c)
  <2>1. PICK s \in NextToLock(c) : rwait' = [rwait EXCEPT ![<<table, s>>] = @ \cup {c}]
    BY <1>5 DEF RLockWaits
  <2>2. /\ plan'[c] = plan[c] /\ todo'[c] = todo[c] /\ pc'[c] = "rlock" /\ pc[c] = "locking"
        /\ UNCHANGED <<table, owner, readers, fault>>
    BY <1>5 DEF RLockWaits, TypeOK
  <2>3. Held(c)' = Held(c) /\ NextToLock(c)' = NextToLock(c)
    BY <2>2 DEF Held, Waiting, NextToLock
  <2>4. /\ \A t \in Shards : rwait'[<<table, t>>] =
                                IF t = s THEN rwait[<<table, s>>] \cup {c} ELSE rwait[<<table, t>>]
        /\ \A m \in Mutexes : m[1] # table => rwait'[m] = rwait[m]
    <3>1. rwait \in [Mutexes -> SUBSET Clients] /\ s \in Shards
      BY <1>s DEF TypeOK
    <3>2. \A t \in Shards : <<table, t>> \in Mutexes /\ <<table, t>>[1] = table
      BY CurrentMutexes
    <3> QED BY <2>1, <3>1, <3>2
  <2>5. c \notin readers[<<table, s>>]
    BY <1>s, <1>h, <2>1, <2>2 DEF Traced, HeldForReading
  <2>6. Traced(c)'
    BY <1>s, <2>1, <2>2, <2>3, <2>4, <2>5 DEF Traced, HeldForWriting, HeldForReading
  <2>7. ASSUME NEW d \in Clients, d # c PROVE Traced(d)'
    BY <2>2, <2>4, <2>7, OthersTraced
  <2> QED BY <2>2, <2>4, <2>6, <2>7, StaysFresh
<1>6. CASE RLockReturns(c)
  <2>1. PICK s \in NextToLock(c) : c \notin rwait[<<mu[c], s>>] /\ Acquired(c, s)
    BY <1>6 DEF RLockReturns
  <2>2. pc[c] = "rlock" /\ mu[c] = table /\ UNCHANGED <<table, owner, readers, rwait, fault>>
    BY <1>6, <2>1 DEF RLockReturns, mutex, Acquired, LockedBy, Waiting
  <2>3. s \in plan[c].read
    BY <2>1, <2>2 DEF OrderOf
  <2>4. Held(c)' = Held(c) \cup {s} /\ plan'[c] = plan[c]
    <3>1. pc[c] \in Locking
      BY <2>2 DEF Locking, Waiting
    <3> QED BY <2>1, <3>1, AcquiredHeld
  <2>5. \A t \in Shards : c \notin rwait[<<table, t>>]
    BY <1>s, <2>1, <2>2 DEF Traced
  <2>6. Traced(c)'
    BY <1>s, <2>1, <2>2, <2>3, <2>4, <2>5 DEF Traced, HeldForWriting, HeldForReading
  <2> QED BY <2>2, <2>6, OthersTraced, StaysFresh
<1> QED BY <1>1, <1>2, <1>3, <1>4, <1>5, <1>6 DEF LockStep

\* A client that gives a shard back keeps the others.
LEMMA ReleasedExactly ==
    ASSUME TypeOK, NEW c \in Clients, pc[c] = "unlocking", NEW s \in NextToUnlock(c), Released(c, s)
    PROVE  /\ HeldForWriting(c)' = HeldForWriting(c) \ {s}
           /\ HeldForReading(c)' = HeldForReading(c) \ {s}
<1>1. Held(c) = todo[c] /\ s \in todo[c]
  BY HeldOtherwise DEF NextToUnlock, Highest
<1>2. /\ todo'[c] = todo[c] \ {s}
      /\ pc'[c] = IF todo[c] = {s} THEN "idle" ELSE "unlocking"
      /\ plan'[c] = IF todo[c] = {s} THEN NoPlan ELSE plan[c]
  BY DEF TypeOK, Released
<1>3. CASE todo[c] = {s}
  <2>1. Held(c)' = {}
    BY <1>2, <1>3 DEF Held, Waiting
  <2> QED BY <1>1, <1>3, <2>1 DEF HeldForWriting, HeldForReading
<1>4. CASE todo[c] # {s}
  <2>1. Held(c)' = todo[c] \ {s}
    BY <1>2, <1>4 DEF Held, Waiting
  <2> QED BY <1>1, <1>2, <1>4, <2>1 DEF HeldForWriting, HeldForReading
<1> QED BY <1>3, <1>4

LEMMA TracedUnlock ==
    ASSUME LockInv, ~torn, Fresh, \A d \in Clients : Traced(d),
           NEW c \in Clients, UnlockStep(c), Step(c)
    PROVE  Fresh' /\ \A d \in Clients : Traced(d)'
<1> TypeOK /\ OrderOf(c) /\ LockedBy(c) /\ Traced(c)
  BY DEF LockInv, Ordered, Locked
<1>m. \A t \in Shards : <<table, t>> \in Mutexes /\ <<table, t>>[1] = table
  BY CurrentMutexes
<1>1. CASE Unlock(c)
  <2>1. PICK s \in NextToUnlock(c) :
          LET m == <<table, s>> IN
          /\ s \in plan[c].write
          /\ Released(c, s)
          /\ IF owner[m] # NoClient /\ readers[m] = {}
               THEN /\ owner' = [owner EXCEPT ![m] = NoClient]
                    /\ readers' = [readers EXCEPT ![m] = rwait[m]]
                    /\ rwait' = [rwait EXCEPT ![m] = {}]
                    /\ fault' = fault
               ELSE fault' = TRUE /\ UNCHANGED mutex
    BY <1>1 DEF Unlock
  <2>2. pc[c] = "unlocking" /\ s \in Shards
    BY <1>1, NextFacts DEF Unlock
  <2>3. /\ s \in Held(c) /\ table' = table
        /\ HeldForWriting(c)' = HeldForWriting(c) \ {s}
        /\ HeldForReading(c)' = HeldForReading(c) \ {s}
    BY <2>1, <2>2, ReleasedHeld, ReleasedExactly
  <2>4. owner[<<table, s>>] = c /\ readers[<<table, s>>] = {}
    BY <2>1, <2>3 DEF LockedBy, HeldForWriting
  <2>5. /\ owner' = [owner EXCEPT ![<<table, s>>] = NoClient]
        /\ readers' = [readers EXCEPT ![<<table, s>>] = rwait[<<table, s>>]]
        /\ rwait' = [rwait EXCEPT ![<<table, s>>] = {}]
    BY <2>1, <2>4, ClientsAssumption
  <2>6. \A t \in Shards :
          /\ owner'[<<table, t>>] = IF t = s THEN NoClient ELSE owner[<<table, t>>]
          /\ readers'[<<table, t>>] = IF t = s THEN rwait[<<table, t>>] ELSE readers[<<table, t>>]
          /\ rwait'[<<table, t>>] = IF t = s THEN {} ELSE rwait[<<table, t>>]
    <3> TAKE t \in Shards
    <3> QED BY <1>m, <2>5 DEF TypeOK
  <2>7. \A m \in Mutexes : m[1] # table =>
           owner'[m] = owner[m] /\ readers'[m] = readers[m] /\ rwait'[m] = rwait[m]
    <3> TAKE m \in Mutexes
    <3>1. m[1] # table => m # <<table, s>>
      BY <1>m, <2>2
    <3> QED BY <2>5, <3>1 DEF TypeOK
  <2>8. Traced(c)'
    <3>1. \A t \in Shards : c \notin rwait[<<table, t>>]
      BY <2>2 DEF Traced
    <3> QED BY <2>2, <2>3, <2>6, <3>1, ClientsAssumption DEF Traced
  <2>9. ASSUME NEW d \in Clients, d # c PROVE Traced(d)'
    BY <2>3, <2>6, <2>9, ClientsAssumption, OthersTraced
  <2> QED BY <2>3, <2>7, <2>8, <2>9, StaysFresh
<1>2. CASE RUnlock(c)
  <2>1. PICK s \in NextToUnlock(c) :
          LET m == <<table, s>> IN
          /\ s \in plan[c].read
          /\ Released(c, s)
          /\ IF readers[m] # {}
               THEN /\ \E d \in readers[m] :
                          /\ c \in readers[m] => d = c
                          /\ readers' = [readers EXCEPT ![m] = @ \ {d}]
                    /\ fault' = fault
               ELSE fault' = TRUE /\ UNCHANGED readers
    BY <1>2 DEF RUnlock
  <2>2. pc[c] = "unlocking" /\ s \in Shards /\ UNCHANGED <<owner, rwait>>
    BY <1>2, NextFacts DEF RUnlock
  <2>3. /\ s \in Held(c) /\ table' = table
        /\ HeldForWriting(c)' = HeldForWriting(c) \ {s}
        /\ HeldForReading(c)' = HeldForReading(c) \ {s}
    BY <2>1, <2>2, ReleasedHeld, ReleasedExactly
  <2>4. c \in readers[<<table, s>>] /\ s \notin plan[c].write
    BY <2>1, <2>3 DEF LockedBy, HeldForReading, OrderOf
  <2>5. readers' = [readers EXCEPT ![<<table, s>>] = @ \ {c}]
    BY <2>1, <2>4
  <2>6. \A t \in Shards : readers'[<<table, t>>] =
                             IF t = s THEN readers[<<table, t>>] \ {c} ELSE readers[<<table, t>>]
    <3> TAKE t \in Shards
    <3> QED BY <1>m, <2>5 DEF TypeOK
  <2>7. \A m \in Mutexes : m[1] # table => readers'[m] = readers[m]
    <3> TAKE m \in Mutexes
    <3>1. m[1] # table => m # <<table, s>>
      BY <1>m, <2>2
    <3> QED BY <2>5, <3>1 DEF TypeOK
  <2>8. Traced(c)'
    <3>1. HeldForWriting(c)' = HeldForWriting(c)
      BY <2>3, <2>4 DEF HeldForWriting
    <3>2. \A t \in Shards : c \notin rwait[<<table, t>>]
      BY <2>2 DEF Traced
    <3>3. \A t \in Shards : owner[<<table, t>>] = c => t \in HeldForWriting(c)
      BY <2>2 DEF Traced
    <3>4. \A t \in Shards : c \in readers'[<<table, t>>] => t \in HeldForReading(c) \ {s}
      BY <2>2, <2>6 DEF Traced
    <3> QED BY <2>2, <2>3, <3>1, <3>2, <3>3, <3>4 DEF Traced
  <2>9. ASSUME NEW d \in Clients, d # c PROVE Traced(d)'
    BY <2>2, <2>3, <2>6, <2>9, OthersTraced
  <2> QED BY <2>2, <2>3, <2>7, <2>8, <2>9, StaysFresh
<1> QED BY <1>1, <1>2 DEF UnlockStep

LEMMA TracesNext ==
    ASSUME LockInv, Traces, [Next]_vars
    PROVE  Traces'
<1> TypeOK
  BY DEF LockInv
<1>1. CASE UNCHANGED vars
  BY <1>1 DEF vars, Traces, Fresh, Traced, HeldForWriting, HeldForReading, Held, NextToLock
<1>2. ASSUME NEW c \in Clients, Step(c), ~torn'
      PROVE  Fresh' /\ \A d \in Clients : Traced(d)'
  <2>1. ~torn
    BY <1>2 DEF Step, LockStep, UnlockStep, RWLocks, CallLock, Announce, LockReturns, RLock,
                RLockWaits, RLockReturns, RWUnLocks, Unlock, RUnlock, Clear, Acquired, Released
  <2> Fresh /\ \A d \in Clients : Traced(d)
    BY <2>1 DEF Traces
  <2>2. ASSUME NEW req \in Requests, RWLocks(c, req)
        PROVE  Fresh' /\ \A d \in Clients : Traced(d)'
    <3>1. pc[c] = "idle" /\ UNCHANGED <<table, owner, readers, rwait>>
      BY <2>2 DEF RWLocks, mutex
    <3>2. Held(c) = {}
      BY <3>1, HeldOtherwise
    <3>3. Traced(c)'
      BY <3>1, <3>2 DEF Traced, HeldForWriting, HeldForReading
    <3> QED BY <1>2, <3>1, <3>3, OthersTraced, StaysFresh
  <2>3. CASE LockStep(c)
    BY <1>2, <2>1, <2>3, TracedLock
  <2>4. CASE RWUnLocks(c)
    <3>1. /\ pc[c] = "running" /\ todo'[c] = All(plan[c]) /\ plan'[c] = plan[c]
          /\ UNCHANGED <<table, owner, readers, rwait>>
          /\ pc'[c] = IF All(plan[c]) = {} THEN "idle" ELSE "unlocking"
      BY <2>4 DEF RWUnLocks, TypeOK, mutex
    <3>2. Held(c)' = Held(c)
      BY <3>1 DEF Held, Waiting
    <3>3. Traced(c)'
      BY <3>1, <3>2 DEF Traced, HeldForWriting, HeldForReading
    <3> QED BY <1>2, <3>1, <3>3, OthersTraced, StaysFresh
  <2>5. CASE UnlockStep(c)
    BY <1>2, <2>1, <2>5, TracedUnlock
  <2>6. CASE Clear(c)
    <3>1. /\ table' = table + 1 /\ table < MaxClears
          /\ UNCHANGED <<owner, readers, rwait>>
      BY <2>6 DEF Clear, mutex
    <3>2. table \in Nat /\ table' \in Tables /\ \A t \in Tables : t \in Nat
      BY <3>1, ClearsAssumption DEF Tables, TypeOK
    <3>3. Fresh'
      <4>1. \A t \in Tables : t > table' => t > table
        BY <3>1, <3>2
      <4> QED BY <3>1, <4>1 DEF Fresh
    <3>4. ASSUME NEW d \in Clients PROVE Traced(d)'
      <4>1. \A s \in Shards : /\ owner[<<table', s>>] = NoClient
                              /\ readers[<<table', s>>] = {} /\ rwait[<<table', s>>] = {}
        BY <3>1, <3>2 DEF Fresh
      <4> QED BY <3>1, <4>1, ClientsAssumption DEF Traced
    <3> QED BY <3>3, <3>4
  <2> QED BY <1>2, <2>2, <2>3, <2>4, <2>5, <2>6 DEF Step
<1> QED BY <1>1, <1>2 DEF Next, Traces

LEMMA TracesInit == Init => Traces
<1> SUFFICES ASSUME Init PROVE Fresh /\ \A c \in Clients : Traced(c)
  BY DEF Traces
<1>1. \A t \in Tables, s \in Shards :
        owner[<<t, s>>] = NoClient /\ readers[<<t, s>>] = {} /\ rwait[<<t, s>>] = {}
  BY DEF Init, Mutexes
<1>2. table \in Tables
  BY ClearsAssumption DEF Init, Tables
<1> QED BY <1>1, <1>2, ClientsAssumption DEF Fresh, Traced

\* How far a waiting client has got: the shard it waits for, and whether it
\* has announced itself there.
Level(c) == 2 * (CHOOSE s \in NextToLock(c) : TRUE) + (IF pc[c] = "drain" THEN 1 ELSE 0)

LEMMA LevelFacts ==
    ASSUME TypeOK, NEW c \in Clients, NEW s \in NextToLock(c)
    PROVE  /\ Level(c) = 2 * s + (IF pc[c] = "drain" THEN 1 ELSE 0)
           /\ s \in Nat /\ s < shardCount
<1>1. (CHOOSE t \in NextToLock(c) : TRUE) \in NextToLock(c)
  OBVIOUS
<1>2. (CHOOSE t \in NextToLock(c) : TRUE) = s
  BY <1>1, LowestUnique DEF NextToLock, TypeOK
<1>3. s \in Shards
  BY NextFacts
<1>4. Level(c) = 2 * s + (IF pc[c] = "drain" THEN 1 ELSE 0)
  BY <1>2 DEF Level
<1> QED BY <1>3, <1>4, ShardsAssumption DEF Shards

\* Whoever is waited for and waits itself has got further.
LEMMA WaitedForIsFurther ==
    ASSUME WaitInv, ~torn, NEW c \in Clients, NEW d \in WaitsFor(c), WaitsFor(d) # {}
    PROVE  /\ Level(c) \in 0 .. 2 * shardCount /\ Level(d) \in 0 .. 2 * shardCount
           /\ Level(c) < Level(d)
<1> TypeOK /\ d \in Clients /\ d # c /\ LockedBy(c) /\ Traced(d) /\ OrderOf(d) /\ pc[d] \in Waiting
  BY DEF WaitInv, LockInv, Locked, Traces, Ordered, WaitsFor, Waiting
<1>1. PICK s \in NextToLock(c) :
        \/ pc[c] = "lock" /\ owner[<<mu[c], s>>] = d
        \/ pc[c] = "drain" /\ owner[<<mu[c], s>>] = c /\ d \in readers[<<mu[c], s>>]
        \/ pc[c] = "rlock" /\ c \in rwait[<<mu[c], s>>] /\ owner[<<mu[c], s>>] = d
  BY DEF WaitsFor
<1>2. PICK t \in NextToLock(d) : pc[d] = "rlock" => d \in rwait[<<mu[d], t>>]
  BY DEF WaitsFor
<1>3. mu[c] = table /\ mu[d] = table
  <2>1. LockedBy(d)
    BY DEF WaitInv, LockInv, Locked
  <2> QED BY <1>1, <2>1 DEF LockedBy, Waiting
<1>4. s \in Shards /\ t \in Shards /\ t \in todo[d] /\ \A x \in NextToLock(d) : x = t
  BY NextFacts, LowestUnique DEF NextToLock, TypeOK
<1>5. s \in Held(d) => s < t
  <2>1. pc[d] \in Locking
    BY DEF Locking
  <2>2. Held(d) = All(plan[d]) \ todo[d]
    BY <2>1, HeldLocking
  <2> QED BY <1>4, <2>1, <2>2 DEF OrderOf
<1>6. s < t \/ (s = t /\ pc[d] = "drain" /\ pc[c] # "drain")
  <2>1. CASE owner[<<table, s>>] = d /\ pc[c] # "drain"
    BY <1>4, <1>5, <2>1 DEF Traced, HeldForWriting
  <2>2. CASE d \in readers[<<table, s>>]
    <3>1. s \in Held(d) \/ (pc[d] = "rlock" /\ s = t)
      BY <1>4, <2>2 DEF Traced, HeldForReading
    <3>2. pc[d] = "rlock" => d \notin readers[<<table, t>>]
      BY <1>2, <1>3, <1>4 DEF Traced
    <3> QED BY <1>5, <2>2, <3>1, <3>2
  <2> QED BY <1>1, <1>3, <2>1, <2>2
<1>7. /\ Level(c) = 2 * s + (IF pc[c] = "drain" THEN 1 ELSE 0) /\ s \in Nat /\ s < shardCount
      /\ Level(d) = 2 * t + (IF pc[d] = "drain" THEN 1 ELSE 0) /\ t \in Nat /\ t < shardCount
  BY LevelFacts
<1> QED BY <1>6, <1>7, ShardsAssumption

\* A nonempty set of numbers of 0 .. n has a greatest member.
LEMMA GreatestMember ==
    ASSUME NEW n \in Nat, NEW T \in SUBSET (0 .. n), T # {}
    PROVE  \E x \in T : \A y \in T : y <= x
<1> DEFINE U == {n - x : x \in T}
           R == OpToRel(<, Nat)
<1>1. U \subseteq Nat /\ U # {}
  <2>1. \A x \in T : n - x \in Nat
    OBVIOUS
  <2> QED BY <2>1
<1>2. IsWellFoundedOn(R, Nat)
  BY NatLessThanWellFounded
<1> HIDE DEF R
<1>3. PICK u \in U : \A v \in U : ~ (<<v, u>> \in R)
  BY <1>1, <1>2, WFMin
<1>4. \A v \in U : ~ (v < u)
  BY <1>1, <1>3 DEF R, OpToRel
<1>5. PICK x \in T : u = n - x
  BY <1>3
<1>6. \A y \in T : n - y \in U
  OBVIOUS
<1> HIDE DEF U
<1>7. \A y \in T : ~ (n - y < n - x) /\ x \in Int /\ y \in Int
  BY <1>4, <1>5, <1>6
<1> QED BY <1>7

\* "打破循环等待，不会死锁" (RWLocks): for any number of clients and shards, no
\* set of clients is waiting each for another of the set, as long as Clear has
\* not run while a lock was in use.
THEOREM NobodyWaitsInACircle == Spec => []NoCircularWait
<1>1. Init => WaitInv
  BY TypeInit, OrderInit, LockedInit, TracesInit DEF WaitInv, LockInv
<1>2. WaitInv /\ [Next]_vars => WaitInv'
  BY TypeNext, OrderNext, LockedNext, TracesNext DEF WaitInv, LockInv
<1>3. WaitInv => NoCircularWait
  <2> SUFFICES ASSUME WaitInv, ~torn, NEW S \in SUBSET Clients, S # {},
                      \A c \in S : WaitsFor(c) \cap S # {}
               PROVE  FALSE
    BY DEF NoCircularWait
  <2> DEFINE T == {Level(c) : c \in S}
  <2>1. \A c \in S : \E d \in S : /\ Level(c) \in 0 .. 2 * shardCount
                                  /\ Level(d) \in 0 .. 2 * shardCount /\ Level(c) < Level(d)
    <3> TAKE c \in S
    <3>1. PICK d \in S : d \in WaitsFor(c)
      OBVIOUS
    <3>2. WaitsFor(d) # {}
      OBVIOUS
    <3> QED BY <3>1, <3>2, WaitedForIsFurther
  <2>2. T \in SUBSET (0 .. 2 * shardCount) /\ T # {} /\ 2 * shardCount \in Nat
    BY <2>1, ShardsAssumption
  <2>3. PICK x \in T : \A y \in T : y <= x
    BY <2>2, GreatestMember
  <2>4. PICK c \in S : x = Level(c)
    OBVIOUS
  <2>5. PICK d \in S : /\ Level(c) \in 0 .. 2 * shardCount
                       /\ Level(d) \in 0 .. 2 * shardCount /\ Level(c) < Level(d)
    BY <2>1
  <2>6. Level(d) <= Level(c)
    BY <2>3, <2>4
  <2> QED BY <2>5, <2>6
<1> QED BY <1>1, <1>2, <1>3, PTL DEF Spec
=============================================================================
