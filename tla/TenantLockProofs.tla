--------------------------- MODULE TenantLockProofs ---------------------------
(***************************************************************************)
(* Proofs about TenantLock, for every number of callers, companies and     *)
(* processes and every size of the pool that the code accepts.             *)
(*                                                                         *)
(* The count of the semaphore, the queue of its waiters and the            *)
(* connections of the locks say something true only together: the          *)
(* invariant is their conjunction with the types.                          *)
(***************************************************************************)
EXTENDS TenantLock, FiniteSetTheorems, TLAPS

\* Only a cycle takes a second lock.
NestsInCycle == \A c \in Callers : level[c] = 2 => CallOf[c] = "cycle"

\* Whoever is inside on a live session is the head of the queue of its lock.
LocksHeld ==
    \A c \in Callers, l \in Levels :
        (Inside(c, l) /\ l \notin lost[c])
        => lockQueue[KeyAt(c, l)] # <<>> /\ Head(lockQueue[KeyAt(c, l)]) = c

\* Who waits for a slot waits once, in the queue of its own process.
WaitersWait ==
    \A i \in Instances : \A n \in 1 .. Len(lockWaiters[i]) :
        /\ pc[lockWaiters[i][n]] = "slot"
        /\ InstanceOf[lockWaiters[i][n]] = i
        /\ \A m \in 1 .. Len(lockWaiters[i]) :
             lockWaiters[i][m] = lockWaiters[i][n] => m = n

\* A lock has a connection only at a level that its caller has reached.
Connected(c, l) == l <= level[c] /\ (pc[c] = "connect" => l # level[c])

ConnectionsMatchLevels ==
    \A c \in Callers, l \in Levels : <<c, l>> \in conn => Connected(c, l)

IInv ==
    /\ TypeOK /\ NestsInCycle /\ LocksHeld
    /\ WaitersWait /\ ConnectionsMatchLevels /\ SlotsAreCounted

-----------------------------------------------------------------------------
(* Keys, slots and the calls that end.                                     *)

LEMMA KeysOfCallers ==
    ASSUME NEW c \in Callers, NEW l \in Levels
    PROVE  /\ KeyAt(c, l) \in Keys
           /\ CallOf[c] = "cycle" => KeyAt(c, 1) # KeyAt(c, 2)
BY TenantLockAssumption DEF KeyAt, Keys, Calls, Procs, Levels

LEMMA SlotsFitPool == LOCK_SLOTS \in Nat /\ 1 <= LOCK_SLOTS /\ 2 * LOCK_SLOTS < PoolMax
BY TenantLockAssumption DEF LOCK_SLOTS

LEMMA HoldersFinite == ASSUME NEW i \in Instances PROVE IsFiniteSet(HoldersOf(i))
<1>1. HoldersOf(i) \subseteq Procs
  BY DEF HoldersOf, Procs
<1> QED BY <1>1, TenantLockAssumption, FS_Subset

\* The next waiter is another caller of the same process, without a lock.
LEMMA NextWaiter ==
    ASSUME IInv, NEW c \in Callers, pc[c] # "slot", lockWaiters[InstanceOf[c]] # <<>>
    PROVE  LET next == Head(lockWaiters[InstanceOf[c]])
           IN  /\ next \in Callers /\ next # c
               /\ pc[next] = "slot" /\ level[next] = 0
               /\ InstanceOf[next] = InstanceOf[c]
<1> DEFINE i == InstanceOf[c]
           next == Head(lockWaiters[i])
<1>1. i \in Instances /\ lockWaiters[i] \in Seq(Callers)
  BY TenantLockAssumption DEF IInv, TypeOK, Procs
<1>2. 1 \in 1 .. Len(lockWaiters[i]) /\ next = lockWaiters[i][1] /\ next \in Callers
  BY <1>1
<1>3. pc[next] = "slot" /\ InstanceOf[next] = i
  BY <1>1, <1>2 DEF IInv, WaitersWait
<1> QED BY <1>2, <1>3 DEF IInv, TypeOK

\* The end of a call of lockBody: back in the cycle, out, or out with a successor.
Back(c, queue) ==
    /\ level[c] = 2
    /\ level' = [level EXCEPT ![c] = 1]
    /\ pc' = [pc EXCEPT ![c] = "last"]
    /\ pending' = queue
    /\ UNCHANGED slots

Out(c, queue) ==
    /\ level[c] = 1
    /\ lockWaiters[InstanceOf[c]] = <<>>
    /\ lockHeld' = [lockHeld EXCEPT ![InstanceOf[c]] = @ - 1]
    /\ level' = [level EXCEPT ![c] = 0]
    /\ pc' = [pc EXCEPT ![c] = "idle"]
    /\ pending' = queue
    /\ UNCHANGED lockWaiters

Succeeded(c, queue, next) ==
    /\ level[c] = 1
    /\ next = Head(lockWaiters[InstanceOf[c]])
    /\ lockWaiters[InstanceOf[c]] # <<>>
    /\ lockWaiters' = [lockWaiters EXCEPT ![InstanceOf[c]] = Tail(@)]
    /\ level' = [level EXCEPT ![c] = 0, ![next] = 1]
    /\ pc' = [pc EXCEPT ![c] = "idle", ![next] = "connect"]
    /\ pending' = AskConnection(queue, next)
    /\ UNCHANGED lockHeld
    /\ next \in Callers /\ next # c
    /\ pc[next] = "slot" /\ level[next] = 0 /\ InstanceOf[next] = InstanceOf[c]

LEMMA Leaving ==
    ASSUME IInv, NEW c \in Callers, pc[c] # "slot", NEW queue, LeaveLevel(c, queue)
    PROVE  Back(c, queue) \/ Out(c, queue) \/ \E next \in Callers : Succeeded(c, queue, next)
<1>1. CASE level[c] = 2
  BY <1>1 DEF LeaveLevel, Back
<1>2. CASE level[c] = 1 /\ lockWaiters[InstanceOf[c]] = <<>>
  BY <1>2 DEF LeaveLevel, ReleaseSlot, Out
<1>3. CASE level[c] = 1 /\ lockWaiters[InstanceOf[c]] # <<>>
  <2> DEFINE next == Head(lockWaiters[InstanceOf[c]])
  <2>1. next \in Callers /\ next # c
        /\ pc[next] = "slot" /\ level[next] = 0 /\ InstanceOf[next] = InstanceOf[c]
    BY <1>3, NextWaiter
  <2>2. Succeeded(c, queue, next)
    BY <1>3, <2>1 DEF LeaveLevel, ReleaseSlot, HandOver, Succeeded
  <2> QED BY <2>1, <2>2
<1> QED BY <1>1, <1>2, <1>3 DEF LeaveLevel

\* What a time-out leaves of the queue of the pool.
LEMMA LeftType ==
    ASSUME NEW s \in Seq(Procs), NEW n \in DOMAIN s
    PROVE  /\ SubSeq(s, 1, n - 1) \o SubSeq(s, n + 1, Len(s)) \in Seq(Procs)
           /\ s[n] \in Procs
<1>1. n \in 1 .. Len(s) /\ s[n] \in Procs
  OBVIOUS
<1>2. SubSeq(s, 1, n - 1) \in Seq(Procs) /\ SubSeq(s, n + 1, Len(s)) \in Seq(Procs)
  BY <1>1
<1> QED BY <1>1, <1>2

-----------------------------------------------------------------------------
(* Types.                                                                  *)

LEMMA AskType ==
    ASSUME NEW queue \in [Instances -> Seq(Procs)], NEW p \in Procs
    PROVE  AskConnection(queue, p) \in [Instances -> Seq(Procs)]
<1>1. InstanceOf[p] \in Instances
  BY TenantLockAssumption
<1> QED BY <1>1 DEF AskConnection

LEMMA LeavingType ==
    ASSUME IInv, NEW c \in Callers, pc[c] \in {"connect", "release"},
           NEW queue \in [Instances -> Seq(Procs)], LeaveLevel(c, queue),
           conn' \subseteq conn, lockQueue' = lockQueue, lost' \in [Callers -> SUBSET Levels]
    PROVE  TypeOK'
<1>0. /\ InstanceOf[c] \in Instances /\ c \in Procs /\ c \notin Others /\ Callers \cap Others = {}
      /\ lockWaiters[InstanceOf[c]] \in Seq(Callers)
      /\ level[c] # 0 /\ pc[c] # "slot"
  BY TenantLockAssumption DEF IInv, TypeOK, Procs
<1> USE DEF Steps, Working, Levels
<1>1. CASE Back(c, queue)
  BY <1>0, <1>1 DEF IInv, TypeOK, Back, slots
<1>2. CASE Out(c, queue)
  <2>1. lockHeld[InstanceOf[c]] >= 1
    <3>0. level[c] \in {1}
      BY <1>2 DEF Out
    <3>1. c \in HoldersOf(InstanceOf[c])
      BY <3>0 DEF HoldersOf
    <3>2. Cardinality(HoldersOf(InstanceOf[c])) \in Nat /\ Cardinality(HoldersOf(InstanceOf[c])) # 0
      BY <1>0, <3>1, HoldersFinite, FS_CardinalityType, FS_EmptySet
    <3> QED BY <1>0, <3>2 DEF IInv, SlotsAreCounted
  <2>2. lockHeld' \in [Instances -> Nat]
    BY <1>0, <1>2, <2>1 DEF IInv, TypeOK, Out
  <2> QED BY <1>0, <1>2, <2>2 DEF IInv, TypeOK, Out
<1>3. CASE \E next \in Callers : Succeeded(c, queue, next)
  <2>1. PICK next \in Callers : Succeeded(c, queue, next)
    BY <1>3
  <2>2. next \in Procs
    BY DEF Procs
  <2>3. pending' \in [Instances -> Seq(Procs)]
    BY <2>1, <2>2, AskType DEF Succeeded
  <2>4. lockWaiters' \in [Instances -> Seq(Callers)]
    BY <1>0, <2>1 DEF Succeeded, IInv, TypeOK
  <2>5. /\ level' \in [Callers -> {0} \cup Levels] /\ level'[c] = 0 /\ level'[next] = 1
        /\ \A d \in Callers \ {c, next} : level'[d] = level[d]
    BY <2>1 DEF Succeeded, IInv, TypeOK
  <2>6. /\ pc' \in [Procs -> Steps] /\ pc'[c] = "idle" /\ pc'[next] = "connect"
        /\ \A p \in Procs \ {c, next} : pc'[p] = pc[p]
    BY <1>0, <2>1, <2>2 DEF Succeeded, IInv, TypeOK
  <2>7. \A o \in Others : pc'[o] \in {"idle", "query", "querying"}
    BY <1>0, <2>1, <2>6 DEF IInv, TypeOK, Procs
  <2>8. \A d \in Callers : level'[d] = 0 <=> pc'[d] \in {"idle", "slot"}
    <3>1. \A d \in Callers : d \in Procs /\ (level[d] = 0 <=> pc[d] \in {"idle", "slot"})
      BY DEF IInv, TypeOK, Procs
    <3>2. \A d \in Callers \ {c, next} : level'[d] = 0 <=> pc'[d] \in {"idle", "slot"}
      BY <2>5, <2>6, <3>1
    <3> QED BY <2>5, <2>6, <3>2
  <2>9. lockHeld' = lockHeld /\ conn' \subseteq (Callers \X Levels) \cup (Procs \X {0})
    BY <2>1 DEF Succeeded, IInv, TypeOK
  <2>10. lockQueue \in [Keys -> Seq(Callers)] /\ lockHeld \in [Instances -> Nat]
    BY DEF IInv, TypeOK
  <2> QED BY <2>3, <2>4, <2>5, <2>6, <2>7, <2>8, <2>9, <2>10 DEF TypeOK
<1> QED BY <1>0, <1>1, <1>2, <1>3, Leaving

\* The two ways a call begins.
CallAtOnce(c) ==
    /\ pc[c] = "idle" /\ lockHeld[InstanceOf[c]] < LOCK_SLOTS
    /\ lockHeld' = [lockHeld EXCEPT ![InstanceOf[c]] = @ + 1]
    /\ Connects(c, 1, pending)
    /\ UNCHANGED <<lockWaiters, conn, lockQueue, lost>>

CallWaiting(c) ==
    /\ pc[c] = "idle" /\ ~(lockHeld[InstanceOf[c]] < LOCK_SLOTS)
    /\ lockWaiters' = [lockWaiters EXCEPT ![InstanceOf[c]] = Append(@, c)]
    /\ pc' = [pc EXCEPT ![c] = "slot"]
    /\ UNCHANGED <<lockHeld, pending, level, conn, lockQueue, lost>>

LEMMA CallCases ==
    ASSUME NEW c \in Callers, Call(c) PROVE CallAtOnce(c) \/ CallWaiting(c)
BY DEF Call, SlotFree, CallAtOnce, CallWaiting

LEMMA TypeStep == ASSUME IInv, [Next]_vars PROVE TypeOK'
<1> USE DEF Steps, Working, Levels
<1>0. TypeOK /\ Callers \cap Others = {} /\ Callers \subseteq Procs /\ Others \subseteq Procs
      /\ \A p \in Procs : InstanceOf[p] \in Instances
  BY TenantLockAssumption DEF IInv, Procs
<1>1. ASSUME NEW c \in Callers, Call(c) PROVE TypeOK'
  <2>1. AskConnection(pending, c) \in [Instances -> Seq(Procs)]
    BY <1>0, AskType DEF TypeOK
  <2>2. CASE CallAtOnce(c)
    BY <1>0, <2>1, <2>2 DEF TypeOK, CallAtOnce, Connects
  <2>3. CASE CallWaiting(c)
    <3>1. InstanceOf[c] \in Instances /\ c \in Procs /\ c \notin Others
      BY <1>0
    <3>2. lockWaiters' \in [Instances -> Seq(Callers)]
      BY <2>3, <3>1, <1>0 DEF TypeOK, CallWaiting
    <3> QED BY <1>0, <2>3, <3>1, <3>2 DEF TypeOK, CallWaiting
  <2> QED BY <1>1, <2>2, <2>3, CallCases
<1>2. ASSUME NEW p \in Procs, Query(p) PROVE TypeOK'
  <2>1. AskConnection(pending, p) \in [Instances -> Seq(Procs)]
    BY <1>0, AskType DEF TypeOK
  <2> QED BY <1>0, <1>2, <2>1 DEF TypeOK, Query, slots
<1>3. ASSUME NEW c \in Callers, Enter(c) PROVE TypeOK'
  BY <1>0, <1>3 DEF TypeOK, Enter, slots
<1>4. ASSUME NEW c \in Callers, Nest(c) PROVE TypeOK'
  <2>1. AskConnection(pending, c) \in [Instances -> Seq(Procs)]
    BY <1>0, AskType DEF TypeOK
  <2> QED BY <1>0, <1>4, <2>1 DEF TypeOK, Nest, Connects, slots
<1>5. ASSUME NEW c \in Callers, Commit(c) PROVE TypeOK'
  <2>1. level[c] \in Levels
    BY <1>0, <1>5 DEF TypeOK, Commit
  <2>2. KeyAt(c, level[c]) \in Keys
    BY <2>1, KeysOfCallers
  <2>3. level[c] \notin lost[c] => Inside(c, level[c])
    BY <1>5, <2>1 DEF Commit, Inside
  <2>4. lockQueue' \in [Keys -> Seq(Callers)]
    <3>1. CASE level[c] \in lost[c]
      BY <1>0, <1>5, <3>1 DEF TypeOK, Commit
    <3>2. CASE level[c] \notin lost[c]
      <4>1. lockQueue[KeyAt(c, level[c])] # <<>> /\ lockQueue[KeyAt(c, level[c])] \in Seq(Callers)
        BY <1>0, <2>1, <2>2, <2>3, <3>2 DEF IInv, LocksHeld, TypeOK
      <4> QED BY <1>0, <1>5, <2>2, <3>2, <4>1 DEF TypeOK, Commit
    <3> QED BY <3>1, <3>2
  <2> QED BY <1>0, <1>5, <2>1, <2>4 DEF TypeOK, Commit, slots
<1>6. ASSUME NEW c \in Callers, Release(c) PROVE TypeOK'
  <2>1. lost' \in [Callers -> SUBSET Levels] /\ conn' \subseteq conn /\ lockQueue' = lockQueue
    BY <1>0, <1>6 DEF TypeOK, Release
  <2> QED BY <1>0, <1>6, <2>1, LeavingType DEF TypeOK, Release
<1>7. ASSUME NEW p \in Procs, Answered(p) PROVE TypeOK'
  BY <1>0, <1>7 DEF TypeOK, Answered, slots
<1>8. ASSUME NEW i \in Instances, Serve(i) PROVE TypeOK'
  <2> DEFINE p == Head(pending[i])
  <2>1. p \in Procs /\ pending[i] \in Seq(Procs) /\ pending[i] # <<>>
    BY <1>0, <1>8 DEF TypeOK, Serve
  <2>2. pending' \in [Instances -> Seq(Procs)]
    BY <1>0, <1>8, <2>1 DEF TypeOK, Serve
  <2>3. CASE pc[p] = "connect" /\ pc' = [pc EXCEPT ![p] = "lock"]
             /\ conn' = conn \cup {<<p, level[p]>>}
             /\ lockQueue' = [lockQueue EXCEPT ![KeyAt(p, level[p])] = Append(@, p)]
    <3>1. p \in Callers /\ level[p] \in Levels
      BY <1>0, <2>1, <2>3 DEF TypeOK, Procs
    <3>2. KeyAt(p, level[p]) \in Keys
      BY <3>1, KeysOfCallers
    <3>3. lockQueue' \in [Keys -> Seq(Callers)]
      BY <1>0, <2>3, <3>1, <3>2 DEF TypeOK
    <3> QED BY <1>0, <1>8, <2>2, <2>3, <3>1, <3>3 DEF TypeOK, Serve, slots
  <2>4. CASE pc[p] = "query" /\ pc' = [pc EXCEPT ![p] = "querying"]
             /\ conn' = conn \cup {<<p, 0>>} /\ lockQueue' = lockQueue
    BY <1>0, <1>8, <2>1, <2>2, <2>4 DEF TypeOK, Serve, slots
  <2> QED BY <1>8, <2>3, <2>4 DEF Serve
<1>9. ASSUME NEW i \in Instances, NEW n \in DOMAIN pending[i], TimesOut(i, n) PROVE TypeOK'
  <2> DEFINE p == pending[i][n]
             left == [pending EXCEPT ![i] = SubSeq(@, 1, n - 1) \o SubSeq(@, n + 1, Len(@))]
  <2>1. pending[i] \in Seq(Procs)
    BY <1>0 DEF TypeOK
  <2>2. p \in Procs /\ left \in [Instances -> Seq(Procs)]
    BY <1>0, <2>1, LeftType DEF TypeOK
  <2>3. CASE pc[p] = "connect" /\ LeaveLevel(p, left)
    <3>1. p \in Callers
      BY <1>0, <2>2, <2>3 DEF TypeOK, Procs
    <3> QED BY <1>0, <1>9, <2>2, <2>3, <3>1, LeavingType DEF TypeOK, TimesOut
  <2>4. CASE /\ pc[p] = "query" /\ pending' = left /\ UNCHANGED <<slots, level>>
             /\ pc' = [pc EXCEPT ![p] = IF p \in Others THEN "idle" ELSE "last"]
    BY <1>0, <1>9, <2>2, <2>4 DEF TypeOK, TimesOut, slots
  <2> QED BY <1>9, <2>3, <2>4 DEF TimesOut
<1>10. ASSUME NEW c \in Callers, NEW l \in Levels, SessionBreaks(c, l) PROVE TypeOK'
  <2>1. KeyAt(c, l) \in Keys
    BY KeysOfCallers
  <2>2. lockQueue[KeyAt(c, l)] # <<>> /\ lockQueue[KeyAt(c, l)] \in Seq(Callers)
    BY <1>0, <1>10, <2>1 DEF IInv, LocksHeld, SessionBreaks, TypeOK
  <2>3. lockQueue' \in [Keys -> Seq(Callers)]
    BY <1>0, <1>10, <2>1, <2>2 DEF TypeOK, SessionBreaks
  <2> QED BY <1>0, <1>10, <2>3 DEF TypeOK, SessionBreaks, slots
<1>11. CASE UNCHANGED vars
  BY <1>0, <1>11 DEF TypeOK, vars
<1> QED BY <1>0, <1>1, <1>2, <1>3, <1>4, <1>5, <1>6, <1>7, <1>8, <1>9, <1>10, <1>11 DEF Next, Advance
-----------------------------------------------------------------------------
(* A step for a step: what each action does, in the cases above.           *)

Serving(i, p) ==
    /\ p = Head(pending[i])
    /\ \/ /\ pc[p] = "connect"
          /\ p \in Callers /\ level[p] \in Levels /\ KeyAt(p, level[p]) \in Keys
          /\ conn' = conn \cup {<<p, level[p]>>}
          /\ pc' = [pc EXCEPT ![p] = "lock"]
          /\ lockQueue' = [lockQueue EXCEPT ![KeyAt(p, level[p])] = Append(@, p)]
       \/ /\ pc[p] = "query"
          /\ conn' = conn \cup {<<p, 0>>}
          /\ pc' = [pc EXCEPT ![p] = "querying"]
          /\ UNCHANGED lockQueue
    /\ UNCHANGED <<slots, lost, level>>

\* A query that gets no connection.
GivesUp(p) ==
    /\ pc[p] = "query"
    /\ pc' = [pc EXCEPT ![p] = IF p \in Others THEN "idle" ELSE "last"]
    /\ UNCHANGED <<slots, conn, lockQueue, lost, level>>

\* A call of lockBody ends, after its release or without a connection.
Ends(c) ==
    /\ \/ pc[c] = "release" /\ conn' = conn \ {<<c, level[c]>>}
                            /\ lost' = [lost EXCEPT ![c] = @ \ {level[c]}]
       \/ pc[c] = "connect" /\ conn' = conn /\ lost' = lost
    /\ UNCHANGED lockQueue
    /\ \E queue \in [Instances -> Seq(Procs)] :
         Back(c, queue) \/ Out(c, queue) \/ \E next \in Callers : Succeeded(c, queue, next)

Step ==
    \/ \E c \in Callers : \/ CallAtOnce(c) \/ CallWaiting(c) \/ Enter(c) \/ Nest(c)
                          \/ Commit(c) \/ Ends(c)
                          \/ \E l \in Levels : SessionBreaks(c, l)
    \/ \E p \in Procs : Query(p) \/ Answered(p) \/ GivesUp(p) \/ \E i \in Instances : Serving(i, p)
    \/ UNCHANGED vars

LEMMA StepCases == ASSUME IInv, [Next]_vars PROVE Step
<1>0. /\ TypeOK /\ Callers \subseteq Procs /\ Others \subseteq Procs
      /\ \A p \in Procs : InstanceOf[p] \in Instances
  BY TenantLockAssumption DEF IInv, Procs
<1>1. ASSUME NEW c \in Callers, Call(c) PROVE Step
  BY <1>1, CallCases DEF Step
<1>2. ASSUME NEW c \in Callers, Release(c) PROVE Step
  <2>1. pending \in [Instances -> Seq(Procs)] /\ pc[c] # "slot"
    BY <1>0, <1>2 DEF TypeOK, Release
  <2>2. Back(c, pending) \/ Out(c, pending) \/ \E next \in Callers : Succeeded(c, pending, next)
    BY <1>2, <2>1, Leaving DEF Release
  <2> QED BY <1>2, <2>1, <2>2 DEF Step, Ends, Release
<1>3. ASSUME NEW i \in Instances, Serve(i) PROVE Step
  <2> DEFINE p == Head(pending[i])
  <2>1. p \in Procs
    BY <1>0, <1>3 DEF TypeOK, Serve
  <2>2. pc[p] = "connect" => p \in Callers /\ level[p] \in Levels
    BY <1>0, <2>1 DEF TypeOK, Procs
  <2>3. pc[p] = "connect" => KeyAt(p, level[p]) \in Keys
    BY <2>2, KeysOfCallers
  <2>4. Serving(i, p)
    BY <1>3, <2>2, <2>3 DEF Serve, Serving
  <2> QED BY <2>1, <2>4 DEF Step
<1>4. ASSUME NEW i \in Instances, NEW n \in DOMAIN pending[i], TimesOut(i, n) PROVE Step
  <2> DEFINE p == pending[i][n]
             left == [pending EXCEPT ![i] = SubSeq(@, 1, n - 1) \o SubSeq(@, n + 1, Len(@))]
  <2>1. p \in Procs /\ left \in [Instances -> Seq(Procs)]
    BY <1>0, LeftType DEF TypeOK
  <2>2. CASE pc[p] = "connect" /\ LeaveLevel(p, left)
    <3>1. p \in Callers
      BY <1>0, <2>1, <2>2 DEF TypeOK, Procs
    <3>2. Back(p, left) \/ Out(p, left) \/ \E next \in Callers : Succeeded(p, left, next)
      BY <2>2, <3>1, Leaving
    <3>3. conn' = conn /\ lost' = lost /\ lockQueue' = lockQueue
      BY <1>4 DEF TimesOut
    <3>4. Ends(p)
      BY <2>1, <2>2, <3>2, <3>3 DEF Ends
    <3> QED BY <3>1, <3>4 DEF Step
  <2>3. CASE /\ pc[p] = "query" /\ UNCHANGED <<slots, level>>
             /\ pc' = [pc EXCEPT ![p] = IF p \in Others THEN "idle" ELSE "last"]
    BY <1>4, <2>1, <2>3 DEF TimesOut, Step, GivesUp
  <2> QED BY <1>4, <2>2, <2>3 DEF TimesOut
<1> QED BY <1>0, <1>1, <1>2, <1>3, <1>4 DEF Next, Advance, Step

-----------------------------------------------------------------------------
(* The levels.                                                             *)

LEMMA NestsStep == ASSUME IInv, Step PROVE NestsInCycle'
<1>0. level \in [Callers -> {0} \cup Levels] /\ NestsInCycle
  BY DEF IInv, TypeOK
<1>1. ASSUME NEW c \in Callers, Ends(c) PROVE NestsInCycle'
  BY <1>0, <1>1 DEF NestsInCycle, Ends, Back, Out, Succeeded
<1>2. ASSUME NEW c \in Callers, CallAtOnce(c) \/ CallWaiting(c) \/ Nest(c) PROVE NestsInCycle'
  BY <1>0, <1>2 DEF NestsInCycle, CallAtOnce, CallWaiting, Nest, Connects
<1>3. ASSUME level' = level PROVE NestsInCycle'
  BY <1>0, <1>3 DEF NestsInCycle
<1> QED
  BY <1>1, <1>2, <1>3 DEF Step, Enter, Commit, SessionBreaks,
     Query, Answered, GivesUp, Serving, vars

LEMMA ConnectionsStep == ASSUME IInv, Step PROVE ConnectionsMatchLevels'
<1>0. /\ level \in [Callers -> {0, 1, 2}] /\ pc \in [Procs -> Steps]
      /\ Callers \subseteq Procs
      /\ \A o \in Others : pc[o] # "connect"
      /\ \A c \in Callers : pc[c] # "connect" => c \notin Others
      /\ \A c \in Callers : c \notin Others
  BY TenantLockAssumption DEF IInv, TypeOK, Levels, Procs
<1> SUFFICES ASSUME NEW d \in Callers, NEW l \in Levels, <<d, l>> \in conn'
             PROVE  Connected(d, l)'
  BY DEF ConnectionsMatchLevels
<1>1. l \in {1, 2} /\ (<<d, l>> \in conn => Connected(d, l))
  BY DEF IInv, ConnectionsMatchLevels, Levels
<1> USE DEF Connected
<1>2. ASSUME NEW c \in Callers, Ends(c) PROVE Connected(d, l)'
  <2>1. <<d, l>> \in conn /\ (pc[c] = "release" => d # c \/ l # level[c])
    BY <1>2 DEF Ends
  <2>2. Connected(d, l) /\ (d = c => l < level[c])
    BY <1>0, <1>1, <1>2, <2>1 DEF Ends
  <2>3. ASSUME NEW queue, Back(c, queue) PROVE Connected(d, l)'
    BY <1>0, <1>1, <2>2, <2>3 DEF Back
  <2>4. ASSUME NEW queue, Out(c, queue) PROVE Connected(d, l)'
    BY <1>0, <1>1, <2>2, <2>4 DEF Out
  <2>5. ASSUME NEW queue, NEW next \in Callers, Succeeded(c, queue, next) PROVE Connected(d, l)'
    BY <1>0, <1>1, <2>2, <2>5 DEF Succeeded
  <2> QED BY <1>2, <2>3, <2>4, <2>5 DEF Ends
<1>3. ASSUME NEW c \in Callers, CallAtOnce(c) PROVE Connected(d, l)'
  <2>1. level[c] = 0
    BY <1>3 DEF IInv, TypeOK, CallAtOnce
  <2> QED BY <1>0, <1>1, <1>3, <2>1 DEF CallAtOnce, Connects
<1>4. ASSUME NEW c \in Callers, Nest(c) PROVE Connected(d, l)'
  BY <1>0, <1>1, <1>4 DEF Nest, Connects
<1>5. ASSUME NEW c \in Callers, CallWaiting(c) \/ Enter(c) \/ Commit(c) \/ \E m \in Levels : SessionBreaks(c, m)
      PROVE  Connected(d, l)'
  BY <1>0, <1>1, <1>5 DEF CallWaiting, Enter, Commit, SessionBreaks
<1>6. ASSUME NEW p \in Procs, Query(p) \/ Answered(p) \/ GivesUp(p) PROVE Connected(d, l)'
  BY <1>0, <1>1, <1>6 DEF Query, Answered, GivesUp
<1>7. ASSUME NEW p \in Procs, NEW i \in Instances, Serving(i, p) PROVE Connected(d, l)'
  <2>1. level' = level /\ \A c \in Procs : pc'[c] = "connect" => pc[c] = "connect" /\ c # p
    BY <1>0, <1>7 DEF Serving
  <2>2. CASE <<d, l>> \in conn
    BY <1>0, <1>1, <2>1, <2>2
  <2>3. CASE <<d, l>> \notin conn
    <3>1. d = p /\ l = level[p]
      BY <1>1, <1>7, <2>3 DEF Serving
    <3> QED BY <1>0, <1>1, <2>1, <3>1
  <2> QED BY <2>2, <2>3
<1>8. CASE UNCHANGED vars
  BY <1>1, <1>8 DEF vars
<1> QED BY <1>2, <1>3, <1>4, <1>5, <1>6, <1>7, <1>8 DEF Step
-----------------------------------------------------------------------------
(* The waiters and the count of the slots.                                 *)

LEMMA WaitersStep == ASSUME IInv, Step PROVE WaitersWait'
<1>0. /\ lockWaiters \in [Instances -> Seq(Callers)] /\ pc \in [Procs -> Steps]
      /\ Callers \subseteq Procs /\ \A p \in Procs : InstanceOf[p] \in Instances
      /\ WaitersWait
  BY TenantLockAssumption DEF IInv, TypeOK, Procs
<1>1. ASSUME NEW i \in Instances, NEW n \in 1 .. Len(lockWaiters[i])
      PROVE  lockWaiters[i][n] \in Callers
  BY <1>0, <1>1
<1>2. ASSUME lockWaiters' = lockWaiters, \A c \in Callers : pc[c] = "slot" => pc'[c] = "slot"
      PROVE  WaitersWait'
  BY <1>0, <1>1, <1>2 DEF WaitersWait
<1>3. ASSUME NEW c \in Callers, CallWaiting(c) PROVE WaitersWait'
  <2>1. InstanceOf[c] \in Instances /\ pc'[c] = "slot" /\ pc[c] = "idle"
        /\ \A d \in Callers : pc[d] = "slot" => pc'[d] = "slot"
    BY <1>0, <1>3 DEF CallWaiting
  <2> SUFFICES ASSUME NEW i \in Instances, NEW n \in 1 .. Len(lockWaiters'[i])
               PROVE  /\ pc'[lockWaiters'[i][n]] = "slot"
                      /\ InstanceOf[lockWaiters'[i][n]] = i
                      /\ \A m \in 1 .. Len(lockWaiters'[i]) :
                           lockWaiters'[i][m] = lockWaiters'[i][n] => m = n
    BY DEF WaitersWait
  <2>2. CASE i # InstanceOf[c]
    <3>1. lockWaiters'[i] = lockWaiters[i]
      BY <1>0, <1>3, <2>2 DEF CallWaiting
    <3> QED BY <1>0, <1>1, <2>1, <3>1 DEF WaitersWait
  <2>3. CASE i = InstanceOf[c]
    <3> DEFINE s == lockWaiters[i]
    <3>1. lockWaiters'[i] = Append(s, c) /\ s \in Seq(Callers)
      BY <1>0, <1>3, <2>3 DEF CallWaiting
    <3>2. \A m \in 1 .. Len(s) : /\ Append(s, c)[m] = s[m] /\ s[m] \in Callers
                                 /\ s[m] # c /\ pc'[s[m]] = "slot" /\ InstanceOf[s[m]] = i
                                 /\ \A k \in 1 .. Len(s) : s[k] = s[m] => k = m
      BY <1>0, <1>1, <2>1, <3>1 DEF WaitersWait
    <3>3. Len(Append(s, c)) = Len(s) + 1 /\ Append(s, c)[Len(s) + 1] = c /\ Len(s) \in Nat
      BY <3>1
    <3>4. \A m \in 1 .. Len(s) + 1 : m \in 1 .. Len(s) \/ m = Len(s) + 1
      BY <3>3
    <3> QED BY <2>1, <2>3, <3>1, <3>2, <3>3, <3>4
  <2> QED BY <2>2, <2>3
<1>4. ASSUME NEW c \in Callers, Ends(c) PROVE WaitersWait'
  <2>1. ASSUME NEW queue, Back(c, queue) \/ Out(c, queue) PROVE WaitersWait'
    BY <1>0, <1>2, <1>4, <2>1 DEF Ends, Back, Out, slots
  <2>2. ASSUME NEW queue, NEW next \in Callers, Succeeded(c, queue, next) PROVE WaitersWait'
    <3>1. /\ InstanceOf[c] \in Instances /\ next = Head(lockWaiters[InstanceOf[c]])
          /\ lockWaiters[InstanceOf[c]] \in Seq(Callers) /\ lockWaiters[InstanceOf[c]] # <<>>
          /\ InstanceOf[next] = InstanceOf[c]
          /\ \A d \in Callers : d # next /\ pc[d] = "slot" => pc'[d] = "slot"
      BY <1>0, <1>4, <2>2 DEF Succeeded, Ends
    <3> SUFFICES ASSUME NEW i \in Instances, NEW n \in 1 .. Len(lockWaiters'[i])
                 PROVE  /\ pc'[lockWaiters'[i][n]] = "slot"
                        /\ InstanceOf[lockWaiters'[i][n]] = i
                        /\ \A m \in 1 .. Len(lockWaiters'[i]) :
                             lockWaiters'[i][m] = lockWaiters'[i][n] => m = n
      BY DEF WaitersWait
    <3>2. CASE i # InstanceOf[c]
      <4>1. lockWaiters'[i] = lockWaiters[i]
        BY <1>0, <2>2, <3>2 DEF Succeeded
      <4> QED BY <1>0, <1>1, <3>1, <3>2, <4>1 DEF WaitersWait
    <3>3. CASE i = InstanceOf[c]
      <4> DEFINE s == lockWaiters[i]
      <4>1. lockWaiters'[i] = Tail(s) /\ s \in Seq(Callers) /\ s # <<>> /\ next = s[1]
        BY <1>0, <2>2, <3>1, <3>3 DEF Succeeded
      <4>2. /\ Len(s) \in Nat /\ Len(Tail(s)) = Len(s) - 1 /\ 1 \in 1 .. Len(s)
            /\ \A m \in 1 .. Len(Tail(s)) : Tail(s)[m] = s[m + 1] /\ m + 1 \in 1 .. Len(s) /\ m + 1 # 1
        BY <4>1
      <4>3. \A m \in 1 .. Len(s) : /\ s[m] \in Callers /\ pc[s[m]] = "slot" /\ InstanceOf[s[m]] = i
                                   /\ \A k \in 1 .. Len(s) : s[k] = s[m] => k = m
        BY <1>0, <1>1 DEF WaitersWait
      <4>4. \A m \in 1 .. Len(Tail(s)) : s[m + 1] # next /\ pc'[s[m + 1]] = "slot"
        BY <3>1, <4>1, <4>2, <4>3
      <4>5. \A m, k \in 1 .. Len(Tail(s)) : s[m + 1] = s[k + 1] => m = k
        BY <4>2, <4>3
      <4>6. n \in 1 .. Len(Tail(s)) /\ lockWaiters'[i][n] = s[n + 1] /\ n + 1 \in 1 .. Len(s)
        BY <4>1, <4>2
      <4>7. pc'[s[n + 1]] = "slot" /\ InstanceOf[s[n + 1]] = i
        BY <4>3, <4>4, <4>6
      <4>8. ASSUME NEW m \in 1 .. Len(lockWaiters'[i]), lockWaiters'[i][m] = lockWaiters'[i][n]
            PROVE  m = n
        <5>1. m \in 1 .. Len(Tail(s)) /\ s[m + 1] = s[n + 1]
          BY <4>1, <4>2, <4>6, <4>8
        <5> QED BY <4>5, <4>6, <5>1
      <4> HIDE DEF s
      <4> QED BY <4>6, <4>7, <4>8
    <3> QED BY <3>2, <3>3
  <2> QED BY <1>4, <2>1, <2>2 DEF Ends
<1>5. ASSUME NEW c \in Callers,
             CallAtOnce(c) \/ Enter(c) \/ Nest(c) \/ Commit(c) \/ \E l \in Levels : SessionBreaks(c, l)
      PROVE  WaitersWait'
  <2>1. lockWaiters' = lockWaiters /\ \A d \in Callers : pc[d] = "slot" => pc'[d] = "slot"
    BY <1>0, <1>5 DEF CallAtOnce, Enter, Nest, Commit, SessionBreaks, Connects, slots
  <2> QED BY <1>2, <2>1
<1>6. ASSUME NEW p \in Procs,
             Query(p) \/ Answered(p) \/ GivesUp(p) \/ \E i \in Instances : Serving(i, p)
      PROVE  WaitersWait'
  <2>1. lockWaiters' = lockWaiters /\ \A d \in Callers : pc[d] = "slot" => pc'[d] = "slot"
    BY <1>0, <1>6 DEF Query, Answered, GivesUp, Serving, slots
  <2> QED BY <1>2, <2>1
<1>7. CASE UNCHANGED vars
  BY <1>2, <1>7 DEF vars
<1> QED BY <1>3, <1>4, <1>5, <1>6, <1>7 DEF Step

LEMMA SlotsStep == ASSUME IInv, Step PROVE SlotsAreCounted'
<1>0. /\ lockHeld \in [Instances -> Nat] /\ lockWaiters \in [Instances -> Seq(Callers)]
      /\ level \in [Callers -> {0, 1, 2}] /\ SlotsAreCounted
      /\ \A c \in Callers : InstanceOf[c] \in Instances
      /\ \A c \in Callers : level[c] = 0 <=> pc[c] \in {"idle", "slot"}
  BY TenantLockAssumption DEF IInv, TypeOK, Levels, Procs
<1> SUFFICES ASSUME NEW i \in Instances
             PROVE  /\ lockHeld'[i] = Cardinality(HoldersOf(i)')
                    /\ lockHeld'[i] <= LOCK_SLOTS
                    /\ lockWaiters'[i] # <<>> => lockHeld'[i] = LOCK_SLOTS
  BY DEF SlotsAreCounted
<1>1. /\ lockHeld[i] = Cardinality(HoldersOf(i)) /\ lockHeld[i] <= LOCK_SLOTS
      /\ lockWaiters[i] # <<>> => lockHeld[i] = LOCK_SLOTS
  BY <1>0 DEF SlotsAreCounted
<1>2. IsFiniteSet(HoldersOf(i)) /\ LOCK_SLOTS \in Nat /\ lockHeld[i] \in Nat
  BY <1>0, HoldersFinite, SlotsFitPool
<1>3. ASSUME lockHeld' = lockHeld, lockWaiters' = lockWaiters,
             \A c \in Callers : level'[c] > 0 <=> level[c] > 0
      PROVE  HoldersOf(i)' = HoldersOf(i)
  BY <1>3 DEF HoldersOf
<1>4. ASSUME NEW c \in Callers, CallAtOnce(c)
      PROVE  /\ lockHeld'[i] = Cardinality(HoldersOf(i)')
             /\ lockHeld'[i] <= LOCK_SLOTS
             /\ lockWaiters'[i] # <<>> => lockHeld'[i] = LOCK_SLOTS
  <2>1. level[c] = 0 /\ lockWaiters' = lockWaiters /\ level' = [level EXCEPT ![c] = 1]
    BY <1>0, <1>4 DEF CallAtOnce, Connects
  <2>2. CASE i = InstanceOf[c]
    <3>1. HoldersOf(i)' = HoldersOf(i) \cup {c} /\ c \notin HoldersOf(i)
      BY <1>0, <2>1, <2>2 DEF HoldersOf
    <3>2. Cardinality(HoldersOf(i)') = Cardinality(HoldersOf(i)) + 1
      BY <1>2, <3>1, FS_AddElement
    <3>3. lockHeld'[i] = lockHeld[i] + 1 /\ lockHeld[i] < LOCK_SLOTS
      BY <1>0, <1>4, <2>2 DEF CallAtOnce
    <3> QED BY <1>1, <1>2, <2>1, <3>2, <3>3
  <2>3. CASE i # InstanceOf[c]
    <3>1. HoldersOf(i)' = HoldersOf(i)
      BY <1>0, <2>1, <2>3 DEF HoldersOf
    <3>2. lockHeld'[i] = lockHeld[i]
      BY <1>0, <1>4, <2>3 DEF CallAtOnce
    <3> QED BY <1>1, <2>1, <3>1, <3>2
  <2> QED BY <2>2, <2>3
<1>5. ASSUME NEW c \in Callers, CallWaiting(c)
      PROVE  /\ lockHeld'[i] = Cardinality(HoldersOf(i)')
             /\ lockHeld'[i] <= LOCK_SLOTS
             /\ lockWaiters'[i] # <<>> => lockHeld'[i] = LOCK_SLOTS
  <2>1. HoldersOf(i)' = HoldersOf(i) /\ lockHeld' = lockHeld
    BY <1>5 DEF HoldersOf, CallWaiting
  <2>2. i = InstanceOf[c] => lockHeld[i] = LOCK_SLOTS
    BY <1>1, <1>2, <1>5 DEF CallWaiting
  <2>3. i # InstanceOf[c] => lockWaiters'[i] = lockWaiters[i]
    BY <1>0, <1>5 DEF CallWaiting
  <2> QED BY <1>1, <2>1, <2>2, <2>3
<1>6. ASSUME NEW c \in Callers, Ends(c)
      PROVE  /\ lockHeld'[i] = Cardinality(HoldersOf(i)')
             /\ lockHeld'[i] <= LOCK_SLOTS
             /\ lockWaiters'[i] # <<>> => lockHeld'[i] = LOCK_SLOTS
  <2>1. ASSUME NEW queue, Back(c, queue)
        PROVE  /\ lockHeld'[i] = Cardinality(HoldersOf(i)')
               /\ lockHeld'[i] <= LOCK_SLOTS
               /\ lockWaiters'[i] # <<>> => lockHeld'[i] = LOCK_SLOTS
    <3>1. lockHeld' = lockHeld /\ lockWaiters' = lockWaiters
      BY <2>1 DEF Back, slots
    <3>2. \A d \in Callers : level'[d] > 0 <=> level[d] > 0
      BY <1>0, <2>1 DEF Back
    <3> QED BY <1>1, <1>3, <3>1, <3>2
  <2>2. ASSUME NEW queue, Out(c, queue)
        PROVE  /\ lockHeld'[i] = Cardinality(HoldersOf(i)')
               /\ lockHeld'[i] <= LOCK_SLOTS
               /\ lockWaiters'[i] # <<>> => lockHeld'[i] = LOCK_SLOTS
    <3>1. CASE i = InstanceOf[c]
      <4>1. c \in HoldersOf(i) /\ HoldersOf(i)' = HoldersOf(i) \ {c}
        BY <1>0, <2>2, <3>1 DEF Out, HoldersOf
      <4>2. Cardinality(HoldersOf(i)') = Cardinality(HoldersOf(i)) - 1
        BY <1>2, <4>1, FS_RemoveElement
      <4>3. lockHeld'[i] = lockHeld[i] - 1 /\ lockWaiters'[i] = <<>>
        BY <1>0, <2>2, <3>1 DEF Out
      <4> QED BY <1>1, <1>2, <4>2, <4>3
    <3>2. CASE i # InstanceOf[c]
      <4>1. HoldersOf(i)' = HoldersOf(i)
        BY <1>0, <2>2, <3>2 DEF Out, HoldersOf
      <4>2. lockHeld'[i] = lockHeld[i] /\ lockWaiters' = lockWaiters
        BY <1>0, <2>2, <3>2 DEF Out
      <4> QED BY <1>1, <4>1, <4>2
    <3> QED BY <3>1, <3>2
  <2>3. ASSUME NEW queue, NEW next \in Callers, Succeeded(c, queue, next)
        PROVE  /\ lockHeld'[i] = Cardinality(HoldersOf(i)')
               /\ lockHeld'[i] <= LOCK_SLOTS
               /\ lockWaiters'[i] # <<>> => lockHeld'[i] = LOCK_SLOTS
    <3>0. lockHeld' = lockHeld /\ InstanceOf[next] = InstanceOf[c] /\ next # c
          /\ level[c] = 1 /\ level[next] = 0 /\ level'[c] = 0 /\ level'[next] = 1
          /\ \A d \in Callers \ {c, next} : level'[d] = level[d]
      BY <1>0, <2>3 DEF Succeeded
    <3>1. CASE i = InstanceOf[c]
      <4>1. c \in HoldersOf(i) /\ next \notin HoldersOf(i) \ {c}
            /\ HoldersOf(i)' = (HoldersOf(i) \ {c}) \cup {next}
        BY <3>0, <3>1 DEF HoldersOf
      <4>2. /\ IsFiniteSet(HoldersOf(i) \ {c})
            /\ Cardinality(HoldersOf(i) \ {c}) = Cardinality(HoldersOf(i)) - 1
        BY <1>2, <4>1, FS_RemoveElement
      <4>3. Cardinality(HoldersOf(i)') = Cardinality(HoldersOf(i) \ {c}) + 1
        BY <4>1, <4>2, FS_AddElement
      <4>4. lockWaiters[i] # <<>>
        BY <2>3, <3>1 DEF Succeeded
      <4> QED BY <1>1, <1>2, <3>0, <4>2, <4>3, <4>4
    <3>2. CASE i # InstanceOf[c]
      <4>1. HoldersOf(i)' = HoldersOf(i)
        BY <3>0, <3>2 DEF HoldersOf
      <4>2. lockWaiters'[i] = lockWaiters[i]
        BY <1>0, <2>3, <3>2 DEF Succeeded
      <4> QED BY <1>1, <3>0, <4>1, <4>2
    <3> QED BY <3>1, <3>2
  <2> QED BY <1>6, <2>1, <2>2, <2>3 DEF Ends
<1>7. ASSUME lockHeld' = lockHeld, lockWaiters' = lockWaiters,
             \A c \in Callers : level'[c] > 0 <=> level[c] > 0
      PROVE  /\ lockHeld'[i] = Cardinality(HoldersOf(i)')
             /\ lockHeld'[i] <= LOCK_SLOTS
             /\ lockWaiters'[i] # <<>> => lockHeld'[i] = LOCK_SLOTS
  BY <1>1, <1>3, <1>7
<1>8. ASSUME NEW c \in Callers, Nest(c)
      PROVE lockHeld' = lockHeld /\ lockWaiters' = lockWaiters
            /\ \A d \in Callers : level'[d] > 0 <=> level[d] > 0
  BY <1>0, <1>8 DEF Nest, Connects, slots
<1>9. ASSUME \/ \E c \in Callers : Enter(c) \/ Commit(c) \/ \E l \in Levels : SessionBreaks(c, l)
             \/ \E p \in Procs : Query(p) \/ Answered(p) \/ GivesUp(p) \/ \E j \in Instances : Serving(j, p)
             \/ UNCHANGED vars
      PROVE  lockHeld' = lockHeld /\ lockWaiters' = lockWaiters /\ level' = level
  BY <1>9 DEF Enter, Commit, SessionBreaks, Query, Answered, GivesUp, Serving, slots, vars
<1> QED BY <1>4, <1>5, <1>6, <1>7, <1>8, <1>9 DEF Step
-----------------------------------------------------------------------------
(* Who is inside holds the lock.                                           *)

\* Two callers inside on live sessions, and one caller at its two levels, have two keys.
LEMMA OneHeadPerKey ==
    ASSUME IInv, NEW c \in Callers, NEW d \in Callers, NEW l \in Levels, NEW m \in Levels,
           Inside(c, l), l \notin lost[c], Inside(d, m), m \notin lost[d],
           KeyAt(c, l) = KeyAt(d, m)
    PROVE  c = d /\ l = m
<1>1. c = d
  BY DEF IInv, LocksHeld
<1>2. ASSUME l # m PROVE FALSE
  <2>1. level[c] = 2
    BY <1>1, <1>2 DEF Inside, Levels
  <2>2. KeyAt(c, 1) # KeyAt(c, 2)
    BY <2>1, KeysOfCallers DEF IInv, NestsInCycle, Levels
  <2> QED BY <1>1, <1>2, <2>2 DEF Levels
<1> QED BY <1>1, <1>2

LEMMA LocksStep == ASSUME IInv, Step PROVE LocksHeld'
<1>0. /\ level \in [Callers -> {0, 1, 2}] /\ pc \in [Procs -> Steps]
      /\ lost \in [Callers -> SUBSET Levels] /\ lockQueue \in [Keys -> Seq(Callers)]
      /\ Callers \subseteq Procs /\ \A c \in Callers : c \notin Others
      /\ \A c \in Callers : level[c] = 0 <=> pc[c] \in {"idle", "slot"}
      /\ LocksHeld
  BY TenantLockAssumption DEF IInv, TypeOK, Levels, Procs
<1> SUFFICES ASSUME NEW d \in Callers, NEW m \in Levels, Inside(d, m)', m \notin lost'[d]
             PROVE  lockQueue'[KeyAt(d, m)] # <<>> /\ Head(lockQueue'[KeyAt(d, m)]) = d
  BY DEF LocksHeld, KeyAt
<1>1. m \in {1, 2} /\ KeyAt(d, m) \in Keys /\ lockQueue[KeyAt(d, m)] \in Seq(Callers)
  BY <1>0, KeysOfCallers DEF Levels
<1>2. ASSUME Inside(d, m), m \notin lost[d]
      PROVE  lockQueue[KeyAt(d, m)] # <<>> /\ Head(lockQueue[KeyAt(d, m)]) = d
  BY <1>0, <1>2 DEF LocksHeld
<1>3. ASSUME lockQueue' = lockQueue, Inside(d, m), m \notin lost[d]
      PROVE  lockQueue'[KeyAt(d, m)] # <<>> /\ Head(lockQueue'[KeyAt(d, m)]) = d
  BY <1>2, <1>3
<1> HIDE DEF IInv
<1>4. ASSUME NEW c \in Callers, NEW l \in Levels, Inside(c, l), l \notin lost[c],
             Inside(d, m), m \notin lost[d], c # d \/ l # m,
             lockQueue' = [lockQueue EXCEPT ![KeyAt(c, l)] = Tail(@)]
      PROVE  lockQueue'[KeyAt(d, m)] # <<>> /\ Head(lockQueue'[KeyAt(d, m)]) = d
  <2>1. KeyAt(c, l) # KeyAt(d, m)
    BY <1>4, OneHeadPerKey
  <2> QED BY <1>0, <1>1, <1>2, <1>4, <2>1
<1> USE DEF Inside, Working
<1>5. ASSUME NEW c \in Callers, CallAtOnce(c) \/ CallWaiting(c)
      PROVE  Inside(d, m) /\ m \notin lost[d] /\ lockQueue' = lockQueue
  <2>1. level[c] = 0 /\ pc'[c] \in {"connect", "slot"} /\ lost' = lost /\ lockQueue' = lockQueue
        /\ level'[c] \in {0, 1} /\ \A e \in Callers \ {c} : level'[e] = level[e] /\ pc'[e] = pc[e]
    BY <1>0, <1>5 DEF CallAtOnce, CallWaiting, Connects
  <2> QED BY <1>1, <2>1
<1>6. ASSUME NEW c \in Callers, Nest(c)
      PROVE  Inside(d, m) /\ m \notin lost[d] /\ lockQueue' = lockQueue
  <2>1. level[c] = 1 /\ pc[c] \in Working /\ level'[c] = 2 /\ pc'[c] = "connect"
        /\ lost' = lost /\ lockQueue' = lockQueue
        /\ \A e \in Callers \ {c} : level'[e] = level[e] /\ pc'[e] = pc[e]
    BY <1>0, <1>6 DEF Nest, Connects
  <2> QED BY <1>1, <2>1
<1>7. ASSUME NEW p \in Procs, Query(p) \/ Answered(p) \/ GivesUp(p)
      PROVE  Inside(d, m) /\ m \notin lost[d] /\ lockQueue' = lockQueue
  <2>1. level' = level /\ lost' = lost /\ lockQueue' = lockQueue
        /\ \A e \in Callers : pc'[e] \in Working => pc[e] \in Working
    BY <1>0, <1>7 DEF Query, Answered, GivesUp
  <2> QED BY <1>1, <2>1
<1>8. ASSUME NEW c \in Callers, Ends(c)
      PROVE  Inside(d, m) /\ m \notin lost[d] /\ lockQueue' = lockQueue
  <2>0. lockQueue' = lockQueue
    BY <1>8 DEF Ends
  <2>1. \A k \in Levels \ {level[c]} : k \notin lost'[c] => k \notin lost[c]
    BY <1>0, <1>8 DEF Ends
  <2>2. \A e \in Callers \ {c} : lost'[e] = lost[e]
    BY <1>0, <1>8 DEF Ends
  <2>3. ASSUME NEW queue, Back(c, queue) PROVE Inside(d, m) /\ m \notin lost[d]
    <3>1. level[c] = 2 /\ level'[c] = 1 /\ \A e \in Callers \ {c} : level'[e] = level[e] /\ pc'[e] = pc[e]
      BY <1>0, <2>3 DEF Back
    <3> QED BY <1>1, <2>1, <2>2, <3>1
  <2>4. ASSUME NEW queue, Out(c, queue) PROVE Inside(d, m) /\ m \notin lost[d]
    <3>1. level'[c] = 0 /\ \A e \in Callers \ {c} : level'[e] = level[e] /\ pc'[e] = pc[e]
          /\ pc'[c] = "idle"
      BY <1>0, <2>4 DEF Out
    <3> QED BY <1>1, <2>2, <3>1
  <2>5. ASSUME NEW queue, NEW next \in Callers, Succeeded(c, queue, next)
        PROVE  Inside(d, m) /\ m \notin lost[d]
    <3>1. /\ level'[c] = 0 /\ level'[next] = 1 /\ pc'[c] = "idle" /\ pc'[next] = "connect"
          /\ \A e \in Callers \ {c, next} : level'[e] = level[e] /\ pc'[e] = pc[e]
      BY <1>0, <2>5 DEF Succeeded
    <3> QED BY <1>1, <2>2, <3>1
  <2> QED BY <1>8, <2>0, <2>3, <2>4, <2>5 DEF Ends
<1>9. ASSUME NEW c \in Callers, Enter(c)
      PROVE  lockQueue'[KeyAt(d, m)] # <<>> /\ Head(lockQueue'[KeyAt(d, m)]) = d
  <2>1. pc[c] = "lock" /\ lost' = lost /\ lockQueue' = lockQueue /\ level' = level
        /\ \A e \in Callers \ {c} : pc'[e] = pc[e]
    BY <1>0, <1>9 DEF Enter
  <2>2. CASE d = c /\ m = level[c]
    BY <1>9, <2>1, <2>2 DEF Enter
  <2>3. CASE d # c \/ m # level[c]
    BY <1>1, <1>3, <2>1, <2>3
  <2> QED BY <2>2, <2>3
<1>10. ASSUME NEW c \in Callers, Commit(c)
       PROVE  lockQueue'[KeyAt(d, m)] # <<>> /\ Head(lockQueue'[KeyAt(d, m)]) = d
  <2>1. pc[c] \in Working /\ level[c] \in Levels /\ level' = level /\ lost' = lost /\ pc'[c] = "release"
        /\ \A e \in Callers \ {c} : pc'[e] = pc[e]
    BY <1>0, <1>10 DEF Commit, Levels
  <2>2. Inside(c, level[c]) /\ Inside(d, m) /\ m \notin lost[d] /\ (c # d \/ level[c] # m)
    BY <1>1, <2>1
  <2> QED BY <1>3, <1>4, <1>10, <2>1, <2>2 DEF Commit
<1>11. ASSUME NEW c \in Callers, NEW l \in Levels, SessionBreaks(c, l)
       PROVE  lockQueue'[KeyAt(d, m)] # <<>> /\ Head(lockQueue'[KeyAt(d, m)]) = d
  <2>1. Inside(c, l) /\ l \notin lost[c] /\ level' = level /\ pc' = pc
        /\ lost' = [lost EXCEPT ![c] = @ \cup {l}]
    BY <1>11 DEF SessionBreaks
  <2>2. Inside(d, m) /\ m \notin lost[d] /\ (c # d \/ l # m)
    BY <1>0, <2>1
  <2> QED BY <1>4, <1>11, <2>1, <2>2 DEF SessionBreaks
<1>12. ASSUME NEW p \in Procs, NEW i \in Instances, Serving(i, p)
       PROVE  lockQueue'[KeyAt(d, m)] # <<>> /\ Head(lockQueue'[KeyAt(d, m)]) = d
  <2>1. Inside(d, m) /\ m \notin lost[d]
    <3>1. level' = level /\ lost' = lost /\ \A e \in Callers : pc'[e] \in Working => pc[e] \in Working
      BY <1>0, <1>12 DEF Serving
    <3> QED BY <1>1, <3>1
  <2>2. CASE lockQueue' = lockQueue
    BY <1>3, <2>1, <2>2
  <2>3. CASE /\ p \in Callers /\ KeyAt(p, level[p]) \in Keys
             /\ lockQueue' = [lockQueue EXCEPT ![KeyAt(p, level[p])] = Append(@, p)]
    <3>1. lockQueue'[KeyAt(d, m)] = lockQueue[KeyAt(d, m)]
          \/ lockQueue'[KeyAt(d, m)] = Append(lockQueue[KeyAt(d, m)], p)
      BY <1>0, <1>1, <2>3
    <3> QED BY <1>1, <1>2, <2>1, <2>3, <3>1
  <2> QED BY <1>12, <2>2, <2>3 DEF Serving
<1>13. CASE UNCHANGED vars
  BY <1>3, <1>13 DEF vars
<1> QED BY <1>3, <1>5, <1>6, <1>7, <1>8, <1>9, <1>10, <1>11, <1>12, <1>13 DEF Step

-----------------------------------------------------------------------------
(* The theorems.                                                           *)

LEMMA InitIInv == Init => IInv
<1> SUFFICES ASSUME Init PROVE IInv
  OBVIOUS
<1>1. TypeOK
  BY TenantLockAssumption DEF Init, TypeOK, Steps, Procs
<1>2. \A i \in Instances : HoldersOf(i) = {}
  BY DEF Init, HoldersOf
<1>3. SlotsAreCounted
  <2>1. \A i \in Instances : Cardinality(HoldersOf(i)) = 0
    BY <1>2, FS_EmptySet
  <2>2. \A i \in Instances : lockHeld[i] = 0 /\ lockWaiters[i] = <<>>
    BY DEF Init
  <2> QED BY <2>1, <2>2, SlotsFitPool DEF SlotsAreCounted
<1>4. NestsInCycle /\ LocksHeld /\ WaitersWait /\ ConnectionsMatchLevels
  BY DEF Init, NestsInCycle, LocksHeld, WaitersWait, ConnectionsMatchLevels, Inside, Working, Procs, Levels
<1> QED BY <1>1, <1>3, <1>4 DEF IInv

LEMMA IInvStep == IInv /\ [Next]_vars => IInv'
BY StepCases, TypeStep, NestsStep, LocksStep, WaitersStep, ConnectionsStep, SlotsStep DEF IInv

LEMMA Invariant == Spec => []IInv
BY InitIInv, IInvStep, PTL DEF Spec

\* Every variable keeps its type; the semaphore of a process never counts below zero.
THEOREM TypeCorrect == Spec => []TypeOK
<1>1. IInv => TypeOK
  BY DEF IInv
<1> QED BY <1>1, Invariant, PTL

\* However calls interleave, fail, nest or hand their slot over, the semaphore counts exactly
\* the calls under way, keeps its bound and lets nobody wait for a free slot
\* (acquireLockSlot and releaseLockSlot, db-pg.ts:4539-4549).
THEOREM SlotAccounting == Spec => []SlotsAreCounted
<1>1. IInv => SlotsAreCounted
  BY DEF IInv
<1> QED BY <1>1, Invariant, PTL

LEMMA LocksFit == IInv => LocksLeaveAConnection
<1> SUFFICES ASSUME IInv, NEW i \in Instances
             PROVE  Cardinality({x \in InUse(i) : x[2] # 0}) < PoolMax
  BY DEF LocksLeaveAConnection
<1> DEFINE ofLocks == {x \in InUse(i) : x[2] # 0}
<1>1. ofLocks \subseteq HoldersOf(i) \X Levels
  <2> SUFFICES ASSUME NEW x \in ofLocks PROVE x \in HoldersOf(i) \X Levels
    OBVIOUS
  <2>1. x \in (Callers \X Levels) \cup (Procs \X {0}) /\ InstanceOf[x[1]] = i /\ x[2] # 0 /\ x \in conn
    BY DEF IInv, TypeOK, InUse
  <2>2. x \in Callers \X Levels
    BY <2>1
  <2>3. PICK c \in Callers, l \in Levels : x = <<c, l>>
    BY <2>2
  <2>4. l <= level[c] /\ l \in {1, 2} /\ level[c] \in {0, 1, 2}
    BY <2>1, <2>3 DEF IInv, TypeOK, ConnectionsMatchLevels, Connected, Levels
  <2> QED BY <2>1, <2>3, <2>4 DEF HoldersOf
<1>2. IsFiniteSet(HoldersOf(i)) /\ Cardinality(HoldersOf(i)) \in Nat
      /\ Cardinality(HoldersOf(i)) <= LOCK_SLOTS
  BY HoldersFinite, FS_CardinalityType DEF IInv, SlotsAreCounted
<1>3. IsFiniteSet(Levels) /\ Cardinality(Levels) = 2
  <2>1. IsFiniteSet({1}) /\ Cardinality({1}) = 1
    BY FS_Singleton
  <2>2. Levels = {1} \cup {2} /\ 2 \notin {1}
    BY DEF Levels
  <2> QED BY <2>1, <2>2, FS_AddElement
<1>4. /\ IsFiniteSet(HoldersOf(i) \X Levels)
      /\ Cardinality(HoldersOf(i) \X Levels) = Cardinality(HoldersOf(i)) * 2
  BY <1>2, <1>3, FS_Product
<1>5. Cardinality(ofLocks) <= Cardinality(HoldersOf(i)) * 2 /\ Cardinality(ofLocks) \in Nat
  BY <1>1, <1>4, FS_Subset, FS_CardinalityType
<1> QED BY <1>2, <1>5, SlotsFitPool, TenantLockAssumption

\* For every size of the pool that the code accepts, the connections that locks keep leave one
\* for queries, nested locks included (LOCK_SLOTS, db-pg.ts:4529-4532).
THEOREM ConnectionAlwaysLeft == Spec => []LocksLeaveAConnection
BY Invariant, LocksFit, PTL

LEMMA OneInside == IInv => Exclusive
<1> SUFFICES ASSUME IInv, NEW c \in Callers, NEW d \in Callers, NEW l \in Levels, NEW m \in Levels,
                    c # d, Inside(c, l), Inside(d, m), KeyAt(c, l) = KeyAt(d, m),
                    l \notin lost[c], m \notin lost[d]
             PROVE  FALSE
  BY DEF Exclusive
<1> QED BY OneHeadPerKey

\* Work under the same lock never overlaps, in one process or in several, as long as the
\* sessions that hold the lock live (withTenantLock, db-pg.ts:4557-4582).
THEOREM MutualExclusion == Spec => []Exclusive
BY Invariant, OneInside, PTL
=============================================================================
