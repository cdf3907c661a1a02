------------------------------ MODULE TenantLock ------------------------------
(***************************************************************************)
(* withTenantLock (db-pg.ts): work that must not overlap within a company  *)
(* runs under an advisory lock of PostgreSQL.  The caller keeps a          *)
(* connection of the pool of its process for as long as the work lasts,    *)
(* and the work takes more connections of the same pool.  A semaphore in   *)
(* the process, LOCK_SLOTS, bounds the callers that do so.                 *)
(*                                                                         *)
(* Four routines call it.  runAutomationCycle takes another lock inside    *)
(* its own (maybeAutoTopup); the top-up, the saved-card route and the      *)
(* route that saves a rule take one.                                       *)
(*                                                                         *)
(* Bounds: a piece of work makes at most one query before a nested lock    *)
(* and none after it, one at a time; every caller has one process, one     *)
(* company and one kind of lock.                                           *)
(***************************************************************************)
EXTENDS Naturals, Sequences, FiniteSets

CONSTANTS
    Callers,       \* asynchronous calls of withTenantLock
    Others,        \* requests that only query
    Instances,     \* server and worker processes, each with a pool
    InstanceOf,    \* [Procs -> Instances]
    Tenants,
    TenantOf,      \* [Callers -> Tenants]
    CallOf,        \* [Callers -> Calls]: the kind of lock a caller takes
    PoolMax,       \* POOL_MAX
    Impatient,     \* who may run into connectionTimeoutMillis; the others are served before
    Fragile        \* callers whose sessions the database may end

Procs == Callers \cup Others
Calls == {"cycle", "topup", "card", "rules"}

ASSUME TenantLockAssumption ==
    /\ Callers \cap Others = {}
    /\ IsFiniteSet(Procs)
    /\ InstanceOf \in [Procs -> Instances]
    /\ TenantOf \in [Callers -> Tenants]
    /\ CallOf \in [Callers -> Calls]
    /\ PoolMax \in Nat /\ PoolMax >= 4   \* Math.max(4, ...)
    /\ Impatient \subseteq Procs
    /\ Fragile \subseteq Callers

VARIABLES
    lockHeld,     \* [Instances -> Nat]
    lockWaiters,  \* [Instances -> Seq(Callers)]
    pending,      \* the queue of pg-pool: [Instances -> Seq(Procs)]
    conn,         \* connections in use: <<p, 0>> by a query, <<c, l>> by the lock of level l
    lockQueue,    \* PostgreSQL: [Keys -> Seq(Callers)], the head holds the lock
    lost,         \* [Callers -> SUBSET Levels]: levels whose session broke
    level,        \* [Callers -> {0} \cup Levels]: locks of this call, the nested one included
    pc

vars == <<lockHeld, lockWaiters, pending, conn, lockQueue, lost, level, pc>>
slots == <<lockHeld, lockWaiters>>

\* Faulty variant: a slot is taken for a single connection.
LockSlotsWithoutNesting == PoolMax - 1

\* A slot stands for two connections, its own lock's and a nested one's.
LOCK_SLOTS == IF PoolMax - 1 < 2 THEN 1 ELSE (PoolMax - 1) \div 2

Levels == {1, 2}
Keys == Calls \X Tenants
KeyAt(c, l) == IF l = 1 THEN <<CallOf[c], TenantOf[c]>> ELSE <<"topup", TenantOf[c]>>
Working == {"body", "query", "querying", "after", "last"}
Steps == {"idle", "slot", "connect", "lock", "release"} \cup Working

TypeOK ==
    /\ lockHeld \in [Instances -> Nat]
    /\ lockWaiters \in [Instances -> Seq(Callers)]
    /\ pending \in [Instances -> Seq(Procs)]
    /\ conn \subseteq (Callers \X Levels) \cup (Procs \X {0})
    /\ lockQueue \in [Keys -> Seq(Callers)]
    /\ lost \in [Callers -> SUBSET Levels]
    /\ level \in [Callers -> {0} \cup Levels]
    /\ pc \in [Procs -> Steps]
    /\ \A o \in Others : pc[o] \in {"idle", "query", "querying"}
    /\ \A c \in Callers : level[c] = 0 <=> pc[c] \in {"idle", "slot"}

Init ==
    /\ lockHeld = [i \in Instances |-> 0]
    /\ lockWaiters = [i \in Instances |-> <<>>]
    /\ pending = [i \in Instances |-> <<>>]
    /\ conn = {}
    /\ lockQueue = [k \in Keys |-> <<>>]
    /\ lost = [c \in Callers |-> {}]
    /\ level = [c \in Callers |-> 0]
    /\ pc = [p \in Procs |-> "idle"]

-----------------------------------------------------------------------------
(* The semaphore.                                                          *)

AskConnection(queue, p) == [queue EXCEPT ![InstanceOf[p]] = Append(@, p)]

\* lockBody at level l: pool.connect.
Connects(c, l, queue) ==
    /\ level' = [level EXCEPT ![c] = l]
    /\ pc' = [pc EXCEPT ![c] = "connect"]
    /\ pending' = AskConnection(queue, c)

\* Faulty variant: one caller too many.
SlotFreeOffByOne(i) == lockHeld[i] <= LOCK_SLOTS

SlotFree(i) == lockHeld[i] < LOCK_SLOTS

\* withTenantLock outside of any lock: acquireLockSlot.
Call(c) ==
    LET i == InstanceOf[c]
    IN  /\ pc[c] = "idle"
        /\ \/ /\ SlotFree(i)
              /\ lockHeld' = [lockHeld EXCEPT ![i] = @ + 1]
              /\ Connects(c, 1, pending)
              /\ UNCHANGED lockWaiters
           \/ /\ ~SlotFree(i)
              /\ lockWaiters' = [lockWaiters EXCEPT ![i] = Append(@, c)]
              /\ pc' = [pc EXCEPT ![c] = "slot"]
              /\ UNCHANGED <<lockHeld, pending, level>>
        /\ UNCHANGED <<conn, lockQueue, lost>>

\* Faulty variant: the count goes down although a waiter takes the slot over.
HandOverUncounted(i) == lockHeld' = [lockHeld EXCEPT ![i] = @ - 1]

\* A slot that is handed over stays counted.
HandOver(i) == UNCHANGED lockHeld

\* releaseLockSlot, when the outer call of c is over.
ReleaseSlot(c, queue) ==
    LET i == InstanceOf[c]
        next == Head(lockWaiters[i])
    IN  \/ /\ lockWaiters[i] = <<>>
           /\ lockHeld' = [lockHeld EXCEPT ![i] = @ - 1]
           /\ level' = [level EXCEPT ![c] = 0]
           /\ pc' = [pc EXCEPT ![c] = "idle"]
           /\ pending' = queue
           /\ UNCHANGED lockWaiters
        \/ /\ lockWaiters[i] # <<>>
           /\ HandOver(i)
           /\ lockWaiters' = [lockWaiters EXCEPT ![i] = Tail(@)]
           /\ level' = [level EXCEPT ![c] = 0, ![next] = 1]
           /\ pc' = [pc EXCEPT ![c] = "idle", ![next] = "connect"]
           /\ pending' = AskConnection(queue, next)

\* lockBody is over, with or without an error.  The cycle swallows what its nested
\* top-up throws.
LeaveLevel(c, queue) ==
    \/ /\ level[c] = 1
       /\ ReleaseSlot(c, queue)
    \/ /\ level[c] = 2
       /\ level' = [level EXCEPT ![c] = 1]
       /\ pc' = [pc EXCEPT ![c] = "last"]
       /\ pending' = queue
       /\ UNCHANGED slots

-----------------------------------------------------------------------------
(* The pool and the advisory locks.                                        *)

InUse(i) == {x \in conn : InstanceOf[x[1]] = i}

\* The pool serves the one that waits longest.  With a connection of its own, lockBody
\* begins a transaction and asks for the lock.
Serve(i) ==
    LET p == Head(pending[i])
    IN  /\ pending[i] # <<>>
        /\ Cardinality(InUse(i)) < PoolMax
        /\ pending' = [pending EXCEPT ![i] = Tail(@)]
        /\ \/ /\ pc[p] = "connect"
              /\ conn' = conn \cup {<<p, level[p]>>}
              /\ pc' = [pc EXCEPT ![p] = "lock"]
              /\ lockQueue' = [lockQueue EXCEPT ![KeyAt(p, level[p])] = Append(@, p)]
           \/ /\ pc[p] = "query"
              /\ conn' = conn \cup {<<p, 0>>}
              /\ pc' = [pc EXCEPT ![p] = "querying"]
              /\ UNCHANGED lockQueue
        /\ UNCHANGED <<slots, lost, level>>

\* Faulty variant: pg_try_advisory_xact_lock, its answer unread.
EnterTrying(c) ==
    /\ pc[c] = "lock"
    /\ pc' = [pc EXCEPT ![c] = "body"]
    /\ UNCHANGED <<slots, pending, conn, lockQueue, lost, level>>

\* pg_advisory_xact_lock returns: fn() starts.
Enter(c) ==
    /\ pc[c] = "lock"
    /\ lockQueue[KeyAt(c, level[c])] # <<>>
    /\ c = Head(lockQueue[KeyAt(c, level[c])])
    /\ pc' = [pc EXCEPT ![c] = "body"]
    /\ UNCHANGED <<slots, pending, conn, lockQueue, lost, level>>

Query(p) ==
    /\ pc[p] = IF p \in Others THEN "idle" ELSE "body"
    /\ pc' = [pc EXCEPT ![p] = "query"]
    /\ pending' = AskConnection(pending, p)
    /\ UNCHANGED <<slots, conn, lockQueue, lost, level>>

Answered(p) ==
    /\ pc[p] = "querying"
    /\ pc' = [pc EXCEPT ![p] = IF p \in Others THEN "idle" ELSE "after"]
    /\ conn' = conn \ {<<p, 0>>}
    /\ UNCHANGED <<slots, pending, lockQueue, lost, level>>

\* Faulty variant: a nested call wants a slot of its own.
NestWaiting(c) ==
    LET i == InstanceOf[c]
    IN  /\ pc[c] \in {"body", "after"}
        /\ level[c] = 1 /\ CallOf[c] = "cycle"
        /\ \/ SlotFree(i) /\ Connects(c, 2, pending) /\ UNCHANGED slots
           \/ /\ ~SlotFree(i)
              /\ lockWaiters' = [lockWaiters EXCEPT ![i] = Append(@, c)]
              /\ pc' = [pc EXCEPT ![c] = "slot"]
              /\ UNCHANGED <<lockHeld, pending, level>>
        /\ UNCHANGED <<conn, lockQueue, lost>>

\* maybeAutoTopup inside the cycle: lockSlotHeld is set, no slot is taken.
Nest(c) ==
    /\ pc[c] \in {"body", "after"}
    /\ level[c] = 1 /\ CallOf[c] = "cycle"
    /\ Connects(c, 2, pending)
    /\ UNCHANGED <<slots, conn, lockQueue, lost>>

\* fn() returns or throws: COMMIT or ROLLBACK ends the transaction, and the lock with it.
\* On a broken session both fail, and nobody hears of the second.
Commit(c) ==
    LET k == KeyAt(c, level[c])
    IN  /\ pc[c] \in {"body", "after", "last"}
        /\ pc' = [pc EXCEPT ![c] = "release"]
        /\ lockQueue' = IF level[c] \in lost[c] THEN lockQueue
                        ELSE [lockQueue EXCEPT ![k] = Tail(@)]
        /\ UNCHANGED <<slots, pending, conn, lost, level>>

\* finally: client.release, and the slot if this was the outer call.
Release(c) ==
    /\ pc[c] = "release"
    /\ conn' = conn \ {<<c, level[c]>>}
    /\ lost' = [lost EXCEPT ![c] = @ \ {level[c]}]
    /\ LeaveLevel(c, pending)
    /\ UNCHANGED lockQueue

\* connectionTimeoutMillis.  A query that throws ends fn(); a lockBody that gets no
\* connection has nothing to give back but its slot.
TimesOut(i, n) ==
    LET p == pending[i][n]
        left == [pending EXCEPT ![i] = SubSeq(@, 1, n - 1) \o SubSeq(@, n + 1, Len(@))]
    IN  /\ p \in Impatient
        /\ \/ /\ pc[p] = "connect"
              /\ LeaveLevel(p, left)
           \/ /\ pc[p] = "query"
              /\ pc' = [pc EXCEPT ![p] = IF p \in Others THEN "idle" ELSE "last"]
              /\ pending' = left
              /\ UNCHANGED <<slots, level>>
        /\ UNCHANGED <<conn, lockQueue, lost>>

\* c is in the work of its lock of level l.
Inside(c, l) == (l = 1 /\ level[c] = 2) \/ (l = level[c] /\ pc[c] \in Working)

\* The database ends the session of a holder: the lock is free, the work goes on.
SessionBreaks(c, l) ==
    /\ c \in Fragile
    /\ Inside(c, l)
    /\ l \notin lost[c]
    /\ lost' = [lost EXCEPT ![c] = @ \cup {l}]
    /\ lockQueue' = [lockQueue EXCEPT ![KeyAt(c, l)] = Tail(@)]
    /\ UNCHANGED <<slots, pending, conn, level, pc>>

\* What the process and the pool do on their own.
Advance(p) ==
    \/ p \in Callers /\ (Enter(p) \/ Query(p) \/ Nest(p) \/ Commit(p) \/ Release(p))
    \/ Answered(p)

Next ==
    \/ \E c \in Callers : Call(c)
    \/ \E o \in Others : Query(o)
    \/ \E p \in Procs : Advance(p)
    \/ \E i \in Instances :
         \/ Serve(i)
         \/ \E n \in DOMAIN pending[i] : TimesOut(i, n)
    \/ \E c \in Callers, l \in Levels : SessionBreaks(c, l)

Spec == Init /\ [][Next]_vars

\* Event loop and pool go on, and the work of a lock ends: its calls to the outside have
\* timeouts.  Whoever waits waits in a queue, so that weak fairness is enough.
Fairness ==
    /\ \A p \in Procs : WF_vars(Advance(p))
    /\ \A i \in Instances : WF_vars(Serve(i))

FairSpec == Spec /\ Fairness

-----------------------------------------------------------------------------
(* Properties.                                                             *)

HoldersOf(i) == {c \in Callers : InstanceOf[c] = i /\ level[c] > 0}

\* The semaphore never drifts: it counts the outer calls that are under way, hand-overs,
\* errors and nested calls included, and nobody waits for a slot that is free
\* (db-pg.ts:4539-4549).
SlotsAreCounted ==
    \A i \in Instances :
        /\ lockHeld[i] = Cardinality(HoldersOf(i))
        /\ lockHeld[i] <= LOCK_SLOTS
        /\ lockWaiters[i] # <<>> => lockHeld[i] = LOCK_SLOTS

\* However many locks are nested at once, one connection of each pool stays free for the
\* queries of those who hold them (db-pg.ts:4529-4530).
LocksLeaveAConnection ==
    \A i \in Instances : Cardinality({x \in InUse(i) : x[2] # 0}) < PoolMax

\* Work of the same company and kind never overlaps, between the tasks of a process and
\* between processes, unless a session broke under it (db-pg.ts:4512-4516).
Exclusive ==
    \A c, d \in Callers, l, m \in Levels :
        (c # d /\ Inside(c, l) /\ Inside(d, m) /\ KeyAt(c, l) = KeyAt(d, m))
        => (l \in lost[c] \/ m \in lost[d])

\* No call waits forever, although holders wait for connections of the pool that other
\* holders keep, and nobody's wait is cut short (db-pg.ts:4519-4530).
EveryCallReturns ==
    \A c \in Callers : pc[c] # "idle" ~> pc[c] = "idle"
=============================================================================
