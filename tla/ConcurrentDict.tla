--------------------------- MODULE ConcurrentDict ---------------------------
(***************************************************************************)
(* The lock layer of datastruct/dict/concurrent_dict.go: RWLocks takes the *)
(* mutexes of the shards of a command's keys in ascending order, RWUnLocks *)
(* gives them back in descending order, and Clear replaces the table, the  *)
(* mutexes included.  The contents of the shards are in module DB.         *)
(*                                                                         *)
(* A mutex is named by the table it was made for and by its shard.  The    *)
(* code evaluates &dict.table[index].mutex anew for every Lock and Unlock, *)
(* so a client that took a mutex of an old table releases one of the new.  *)
(*                                                                         *)
(* sync.RWMutex is modelled by its contract: a writer first becomes the    *)
(* owner (which makes later readers wait), then waits until the readers    *)
(* that were there before it have left.                                    *)
(***************************************************************************)
EXTENDS Integers, FiniteSets

CONSTANTS
    Clients,      \* the goroutines that execute commands
    NoClient,     \* owner of a mutex nobody has locked for writing
    Keys,
    shardCount,
    spread,       \* the shard of each key
    Requests,     \* the write and read keys the clients ask RWLocks for
    MaxClears     \* bound on the number of calls of Clear

Shards == 0 .. shardCount - 1
Tables == 0 .. MaxClears
Mutexes == Tables \X Shards

ASSUME ClientsAssumption == NoClient \notin Clients
ASSUME ShardsAssumption == shardCount \in Nat \ {0} /\ spread \in [Keys -> Shards]
ASSUME RequestsAssumption == Requests \subseteq [write : SUBSET Keys, read : SUBSET Keys]
ASSUME ClearsAssumption == MaxClears \in Nat

VARIABLES
    pc,       \* where each client is in execNormalCommand
    plan,     \* the shards each client locks, for writing and for reading
    todo,     \* the shards of its plan a client has yet to lock, or to unlock
    mu,       \* the table of the mutex a client is waiting for
    table,    \* the current table: how many times Clear has replaced it
    owner,    \* the writer of each mutex, active or waiting for readers to leave
    readers,  \* the readers that hold each mutex
    rwait,    \* the readers that wait for the writer of each mutex
    fault,    \* a mutex was unlocked that was not locked: the program dies
    torn      \* history: Clear ran while a lock was held or waited for

client == <<pc, plan, todo, mu>>
mutex == <<owner, readers, rwait>>
vars == <<pc, plan, todo, mu, table, owner, readers, rwait, fault, torn>>

Waiting == {"lock", "drain", "rlock"}
PCs == {"idle", "locking", "running", "unlocking"} \cup Waiting
NoPlan == [write |-> {}, read |-> {}]

-----------------------------------------------------------------------------
(* State functions                                                         *)

All(p) == p.write \cup p.read

toLockIndicesOffByOne(req) ==
    LET w == {spread[k] + 1 : k \in req.write}
    IN  [write |-> w, read |-> {spread[k] + 1 : k \in req.read} \ w]

\* toLockIndices: the distinct shards of the keys, those with a write key apart
toLockIndices(req) ==
    LET w == {spread[k] : k \in req.write}
    IN  [write |-> w, read |-> {spread[k] : k \in req.read} \ w]

\* The shards whose lock a client has been given and has not given back.
Held(c) ==
    CASE pc[c] \in {"locking"} \cup Waiting -> All(plan[c]) \ todo[c]
      [] pc[c] = "running"                  -> All(plan[c])
      [] pc[c] = "unlocking"                -> todo[c]
      [] OTHER                              -> {}

HeldForWriting(c) == Held(c) \cap plan[c].write
HeldForReading(c) == Held(c) \cap plan[c].read

Lowest(S) == {s \in S : \A t \in S : s <= t}
Highest(S) == {s \in S : \A t \in S : t <= s}

NextToLockAnyOrder(c) == todo[c]

\* The shards to lock, and to unlock, next: ascending and descending order.
NextToLock(c) == Lowest(todo[c])
NextToUnlock(c) == Highest(todo[c])

-----------------------------------------------------------------------------
(* Locking                                                                 *)

RWLocks(c, req) ==
    /\ pc[c] = "idle"
    /\ LET p == toLockIndices(req) IN
        /\ plan' = [plan EXCEPT ![c] = p]
        /\ todo' = [todo EXCEPT ![c] = All(p)]
        /\ pc' = [pc EXCEPT ![c] = IF All(p) = {} THEN "running" ELSE "locking"]
    /\ UNCHANGED <<mu, table, mutex, fault, torn>>

\* The call of Lock or RLock on the next shard has returned.
Acquired(c, s) ==
    /\ todo' = [todo EXCEPT ![c] = @ \ {s}]
    /\ pc' = [pc EXCEPT ![c] = IF todo[c] = {s} THEN "running" ELSE "locking"]
    /\ UNCHANGED <<plan, table, fault, torn>>

\* mu := &dict.table[index].mutex; mu.Lock() is called
CallLock(c) ==
    /\ pc[c] = "locking"
    /\ \E s \in NextToLock(c) : s \in plan[c].write
    /\ mu' = [mu EXCEPT ![c] = table]
    /\ pc' = [pc EXCEPT ![c] = "lock"]
    /\ UNCHANGED <<plan, todo, table, mutex, fault, torn>>

\* The writer wins the mutex against other writers.
Announce(c) ==
    /\ pc[c] = "lock"
    /\ \E s \in NextToLock(c) :
        /\ owner[<<mu[c], s>>] = NoClient
        /\ owner' = [owner EXCEPT ![<<mu[c], s>>] = c]
    /\ pc' = [pc EXCEPT ![c] = "drain"]
    /\ UNCHANGED <<plan, todo, mu, table, readers, rwait, fault, torn>>

LockReturnsAtOnce(c) ==
    /\ pc[c] = "drain"
    /\ \E s \in NextToLock(c) : Acquired(c, s)
    /\ UNCHANGED <<mu, mutex>>

\* Lock returns when the readers have left.
LockReturns(c) ==
    /\ pc[c] = "drain"
    /\ \E s \in NextToLock(c) :
        /\ owner[<<mu[c], s>>] = c => readers[<<mu[c], s>>] = {}
        /\ Acquired(c, s)
    /\ UNCHANGED <<mu, mutex>>

\* A reader that overtakes a writer which waits for readers to leave.
RLockOvertakes(c) ==
    /\ pc[c] = "locking"
    /\ mu' = [mu EXCEPT ![c] = table]
    /\ \E s \in NextToLock(c) :
        /\ s \in plan[c].read
        /\ \A d \in Clients : owner[<<table, s>>] = d => pc[d] = "drain" /\ s \in todo[d]
        /\ readers' = [readers EXCEPT ![<<table, s>>] = @ \cup {c}]
        /\ Acquired(c, s)
    /\ UNCHANGED <<owner, rwait>>

\* mu := &dict.table[index].mutex; mu.RLock() returns at once without a writer
RLock(c) ==
    /\ pc[c] = "locking"
    /\ mu' = [mu EXCEPT ![c] = table]
    /\ \E s \in NextToLock(c) :
        /\ s \in plan[c].read
        /\ owner[<<table, s>>] = NoClient
        /\ readers' = [readers EXCEPT ![<<table, s>>] = @ \cup {c}]
        /\ Acquired(c, s)
    /\ UNCHANGED <<owner, rwait>>

\* ... and waits behind one that has announced itself.
RLockWaits(c) ==
    /\ pc[c] = "locking"
    /\ mu' = [mu EXCEPT ![c] = table]
    /\ \E s \in NextToLock(c) :
        /\ s \in plan[c].read
        /\ owner[<<table, s>>] # NoClient
        /\ rwait' = [rwait EXCEPT ![<<table, s>>] = @ \cup {c}]
    /\ pc' = [pc EXCEPT ![c] = "rlock"]
    /\ UNCHANGED <<plan, todo, table, owner, readers, fault, torn>>

RLockReturns(c) ==
    /\ pc[c] = "rlock"
    /\ \E s \in NextToLock(c) :
        /\ c \notin rwait[<<mu[c], s>>]
        /\ Acquired(c, s)
    /\ UNCHANGED <<mu, mutex>>

-----------------------------------------------------------------------------
(* Unlocking: the mutexes are those of the current table                   *)

RWUnLocks(c) ==
    /\ pc[c] = "running"
    /\ todo' = [todo EXCEPT ![c] = All(plan[c])]
    /\ pc' = [pc EXCEPT ![c] = IF All(plan[c]) = {} THEN "idle" ELSE "unlocking"]
    /\ UNCHANGED <<plan, mu, table, mutex, fault, torn>>

Released(c, s) ==
    /\ todo' = [todo EXCEPT ![c] = @ \ {s}]
    /\ pc' = [pc EXCEPT ![c] = IF todo[c] = {s} THEN "idle" ELSE "unlocking"]
    /\ plan' = [plan EXCEPT ![c] = IF todo[c] = {s} THEN NoPlan ELSE @]
    /\ UNCHANGED <<mu, table, torn>>

\* RWUnLocks without its test of which shards were locked for writing.
UnlockReadLocksToo(c) ==
    /\ pc[c] = "unlocking"
    /\ \E s \in NextToUnlock(c) :
        LET m == <<table, s>> IN
        /\ Released(c, s)
        /\ IF owner[m] # NoClient /\ readers[m] = {}
             THEN /\ owner' = [owner EXCEPT ![m] = NoClient]
                  /\ readers' = [readers EXCEPT ![m] = rwait[m]]
                  /\ rwait' = [rwait EXCEPT ![m] = {}]
                  /\ fault' = fault
             ELSE fault' = TRUE /\ UNCHANGED mutex

UnlockForgetsReaders(c) ==
    /\ pc[c] = "unlocking"
    /\ \E s \in NextToUnlock(c) :
        LET m == <<table, s>> IN
        /\ s \in plan[c].write
        /\ Released(c, s)
        /\ owner' = [owner EXCEPT ![m] = NoClient]
    /\ UNCHANGED <<readers, rwait, fault>>

\* The writer leaves, whoever it is, and the waiting readers are let in.
Unlock(c) ==
    /\ pc[c] = "unlocking"
    /\ \E s \in NextToUnlock(c) :
        LET m == <<table, s>> IN
        /\ s \in plan[c].write
        /\ Released(c, s)
        /\ IF owner[m] # NoClient /\ readers[m] = {}
             THEN /\ owner' = [owner EXCEPT ![m] = NoClient]
                  /\ readers' = [readers EXCEPT ![m] = rwait[m]]
                  /\ rwait' = [rwait EXCEPT ![m] = {}]
                  /\ fault' = fault
             ELSE fault' = TRUE /\ UNCHANGED mutex

\* One reader leaves: c if it is there, otherwise another is counted out.  (A
\* mutex with none but waiting readers has its counters corrupted by RUnlock
\* without a fatal error; it takes a torn table, and the model stops there.)
RUnlock(c) ==
    /\ pc[c] = "unlocking"
    /\ \E s \in NextToUnlock(c) :
        LET m == <<table, s>> IN
        /\ s \in plan[c].read
        /\ Released(c, s)
        /\ IF readers[m] # {}
             THEN /\ \E d \in readers[m] :
                        /\ c \in readers[m] => d = c
                        /\ readers' = [readers EXCEPT ![m] = @ \ {d}]
                  /\ fault' = fault
             ELSE fault' = TRUE /\ UNCHANGED readers
    /\ UNCHANGED <<owner, rwait>>

-----------------------------------------------------------------------------
(* Clear: *dict = *MakeConcurrentDict(dict.shardCount).  FLUSHDB calls it  *)
(* and its prepare function, writeAllKeys of no keys, asks for no lock.    *)

InUse == \E c \in Clients : Held(c) # {} \/ pc[c] \in Waiting

Clear(c) ==
    /\ pc[c] = "running"
    /\ plan[c] = NoPlan
    /\ table < MaxClears
    /\ table' = table + 1
    /\ torn' = (torn \/ InUse)
    /\ UNCHANGED <<client, mutex, fault>>

-----------------------------------------------------------------------------
Init ==
    /\ pc = [c \in Clients |-> "idle"]
    /\ plan = [c \in Clients |-> NoPlan]
    /\ todo = [c \in Clients |-> {}]
    /\ mu = [c \in Clients |-> 0]
    /\ table = 0
    /\ owner = [m \in Mutexes |-> NoClient]
    /\ readers = [m \in Mutexes |-> {}]
    /\ rwait = [m \in Mutexes |-> {}]
    /\ fault = FALSE
    /\ torn = FALSE

LockStep(c) ==
    \/ CallLock(c)
    \/ Announce(c)
    \/ LockReturns(c)
    \/ RLock(c)
    \/ RLockWaits(c)
    \/ RLockReturns(c)

UnlockStep(c) ==
    \/ Unlock(c)
    \/ RUnlock(c)

Step(c) ==
    \/ \E req \in Requests : RWLocks(c, req)
    \/ LockStep(c)
    \/ RWUnLocks(c)
    \/ UnlockStep(c)
    \/ Clear(c)

\* An unlock of an unlocked mutex is a fatal error: no step follows it.
Next == ~fault /\ \E c \in Clients : Step(c)

Spec == Init /\ [][Next]_vars

(***************************************************************************)
(* Fairness.  A goroutine that can take a step does take one; sync.Mutex   *)
(* hands itself to a writer that has waited long (its starvation mode), so *)
(* a writer does not lose to others for ever.                              *)
(***************************************************************************)
Fairness ==
    \A c \in Clients :
        /\ WF_vars(~fault /\ (LockStep(c) \/ RWUnLocks(c) \/ UnlockStep(c)))
        /\ SF_vars(~fault /\ Announce(c))

FairSpec == Spec /\ Fairness

-----------------------------------------------------------------------------
(* Properties                                                              *)

\* The type of the state: the shards that toLockIndices computes are shards of
\* the table.
TypeOK ==
    /\ pc \in [Clients -> PCs]
    /\ plan \in [Clients -> [write : SUBSET Shards, read : SUBSET Shards]]
    /\ todo \in [Clients -> SUBSET Shards]
    /\ mu \in [Clients -> Tables]
    /\ table \in Tables
    /\ owner \in [Mutexes -> Clients \cup {NoClient}]
    /\ readers \in [Mutexes -> SUBSET Clients]
    /\ rwait \in [Mutexes -> SUBSET Clients]
    /\ fault \in BOOLEAN
    /\ torn \in BOOLEAN

\* Unless Clear pulled the table from under somebody's locks, two clients
\* that have been given the lock of the same shard both have it for reading:
\* what execNormalCommand relies on when it runs a command between RWLocks
\* and RWUnLocks.
MutualExclusion ==
    ~torn =>
        \A c, d \in Clients : c # d =>
            HeldForWriting(c) \cap Held(d) = {}

\* Unless Clear pulled the table, RWUnLocks never unlocks a mutex that is not
\* locked (sync calls it a fatal error, which no recover catches): the two
\* functions agree on which shards are locked and how, duplicate keys and
\* keys that are both read and written included.
UnlocksMatchLocks == ~torn => ~fault

\* Whoever waits in RWLocks holds only shards below the one it waits for.
\* This is the ordering that the comment in RWLocks says breaks circular
\* waits, and it holds across Clear too.
LockOrder ==
    \A c \in Clients : pc[c] \in Waiting =>
        \A s \in Held(c), t \in NextToLock(c) : s < t

\* The clients c waits for, at the mutex it is waiting for.
WaitsFor(c) ==
    {d \in Clients \ {c} : \E s \in NextToLock(c) :
        LET m == <<mu[c], s>> IN
        \/ pc[c] = "lock" /\ owner[m] = d
        \/ pc[c] = "drain" /\ owner[m] = c /\ d \in readers[m]
        \/ pc[c] = "rlock" /\ c \in rwait[m] /\ owner[m] = d}

\* "打破循环等待，不会死锁" (RWLocks): no set of clients is waiting each for
\* another of the set, unless Clear pulled the table.
NoCircularWait ==
    ~torn =>
        \A S \in SUBSET Clients : S # {} =>
            \E c \in S : WaitsFor(c) \cap S = {}

\* A command that asks for its locks gets them: neither the order of the
\* shards nor the preference of sync.RWMutex for writers starves it.
LocksAreGranted ==
    \A c \in Clients : (pc[c] = "locking" \/ pc[c] \in Waiting) ~> (pc[c] = "running" \/ torn)

\* The claim of the documentation that execution is safe under concurrency,
\* without the exception for Clear.
NoFatalUnlock == ~fault
=============================================================================
