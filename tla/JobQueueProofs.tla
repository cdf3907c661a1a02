---------------------------- MODULE JobQueueProofs ----------------------------
(***************************************************************************)
(* Proofs about JobQueue: its type invariant, the dedupe index, the        *)
(* finality of done rows, the mutual exclusion of runs, the verdicts, and  *)
(* that it implements AbstractQueue.                                       *)
(***************************************************************************)
EXTENDS JobQueue, TLAPS

-----------------------------------------------------------------------------
(* Typing.                                                                 *)

\* Releasing a row keeps the row variables well typed.
LEMMA ReleaseType ==
    ASSUME TypeOK, NEW j \in Jobs, NEW s \in Statuses, NEW t \in Nat, Release(j, s, t)
    PROVE  /\ status' \in [Jobs -> Statuses]
           /\ wait' \in [Jobs -> Nat]
           /\ lockAge' \in [Jobs -> 0..StaleAge]
           /\ holder' \in [Jobs -> Workers \cup {Nobody}]
  BY JobQueueAssumption DEF TypeOK, Release, JobQueueAssumption

\* So does the verdict of failJob, whatever attempts it has read.
LEMMA FailRowType ==
    ASSUME TypeOK, NEW j \in Jobs, NEW read \in Nat, FailRow(j, read)
    PROVE  /\ status' \in [Jobs -> Statuses]
           /\ wait' \in [Jobs -> Nat]
           /\ lockAge' \in [Jobs -> 0..StaleAge]
           /\ holder' \in [Jobs -> Workers \cup {Nobody}]
  <1>1. CASE status[j] # "running"
    BY <1>1 DEF FailRow, TypeOK
  <1>2. CASE status[j] = "running" /\ read >= MaxAttempts[j]
    BY <1>2, ReleaseType DEF FailRow, Statuses
  <1>3. CASE status[j] = "running" /\ ~(read >= MaxAttempts[j])
    <2>1. Backoff[read] \in Nat
      BY <1>3, JobQueueAssumption DEF JobQueueAssumption
    <2> QED BY <1>3, <2>1, ReleaseType DEF FailRow, Statuses
  <1> QED BY <1>1, <1>2, <1>3

\* And completeJob's UPDATE.
LEMMA MarkDoneType ==
    ASSUME TypeOK, NEW j \in Jobs, MarkDone(j)
    PROVE  /\ status' \in [Jobs -> Statuses]
           /\ wait' \in [Jobs -> Nat]
           /\ lockAge' \in [Jobs -> 0..StaleAge]
           /\ holder' \in [Jobs -> Workers \cup {Nobody}]
  <1>1. CASE status[j] = "gone"
    BY <1>1 DEF MarkDone, TypeOK
  <1>2. CASE status[j] # "gone"
    BY <1>2, ReleaseType DEF MarkDone, Statuses
  <1> QED BY <1>1, <1>2

\* The sweep keeps all row variables well typed.
LEMMA SweepType ==
    ASSUME TypeOK, requeueStale
    PROVE  /\ status' \in [Jobs -> Statuses]
           /\ attempts' \in [Jobs -> Nat]
           /\ wait' \in [Jobs -> Nat]
           /\ lockAge' \in [Jobs -> 0..StaleAge]
           /\ holder' \in [Jobs -> Workers \cup {Nobody}]
  BY JobQueueAssumption
  DEF TypeOK, requeueStale, Reclaimed, Statuses, JobQueueAssumption

\* A worker that has nothing left to do is well typed.
LEMMA IdleType ==
    ASSUME TypeOK, NEW w \in Workers, Idle(w)
    PROVE  /\ pc' \in [Workers -> WorkerSteps]
           /\ job' \in [Workers -> Jobs \cup {NoJob}]
           /\ \A v \in Workers : pc'[v] \in Live \cup {"follow"} => job'[v] \in Jobs
           /\ seen' \in [Workers -> Nat]
           /\ beating' \in [Workers -> BOOLEAN]
  BY DEF TypeOK, Idle, WorkerSteps, Live

\* The variables keep their types in every reachable state: in particular a
\* process that settles a row always knows which row (worker.ts:3554-3621).
THEOREM TypeCorrect == Spec => []TypeOK
<1>1. Init => TypeOK
  BY JobQueueAssumption DEF Init, TypeOK, Statuses, WorkerSteps, Live, JobQueueAssumption
<1>2. TypeOK /\ [Next]_vars => TypeOK'
  <2> SUFFICES ASSUME TypeOK, [Next]_vars PROVE TypeOK'
    OBVIOUS
  <2> USE JobQueueAssumption
  <2>1. ASSUME NEW j \in Jobs, enqueue(j) PROVE TypeOK'
    <3>1. PICK d \in Delays : Insert(j, d)
      BY <2>1 DEF enqueue
    <3>2. d \in Nat
      BY DEF JobQueueAssumption
    <3> QED BY <2>1, <3>1, <3>2, ReleaseType DEF enqueue, Insert, TypeOK, Statuses, workerVars
  <2>2. ASSUME NEW j \in Jobs, DeleteRow(j) PROVE TypeOK'
    BY <2>2, ReleaseType DEF DeleteRow, TypeOK, Statuses, workerVars
  <2>3. ASSUME NEW j \in Jobs, RetryFailed(j) PROVE TypeOK'
    BY <2>3, ReleaseType DEF RetryFailed, TypeOK, Statuses, workerVars
  <2>4. ASSUME NEW w \in Workers, NEW j \in Jobs, claimJob(w, j) PROVE TypeOK'
    BY <2>4 DEF claimJob, Claimable, Lock, TypeOK, Statuses, WorkerSteps, Live, JobQueueAssumption
  <2>5. ASSUME NEW w \in Workers, NEW j \in Jobs, ClaimReplyLost(w, j) PROVE TypeOK'
    BY <2>5 DEF ClaimReplyLost, Lock, TypeOK, Statuses, workerVars, JobQueueAssumption
  <2>6. ASSUME NEW w \in Workers, heartbeatJob(w) PROVE TypeOK'
    <3>1. job[w] \in Jobs
      BY <2>6 DEF heartbeatJob, TypeOK, Live
    <3>2. lockAge' \in [Jobs -> 0..StaleAge]
      BY <2>6, <3>1 DEF heartbeatJob, TypeOK, JobQueueAssumption
    <3>3. holder' \in [Jobs -> Workers \cup {Nobody}]
      BY <2>6, <3>1 DEF heartbeatJob, TypeOK
    <3>4. beating' \in [Workers -> BOOLEAN]
      BY <2>6 DEF heartbeatJob, TypeOK
    <3> QED BY <2>6, <3>2, <3>3, <3>4 DEF heartbeatJob, TypeOK
  <2>7. ASSUME NEW w \in Workers, HandlerEnds(w) PROVE TypeOK'
    BY <2>7 DEF HandlerEnds, TypeOK, WorkerSteps, Live, rowVars
  <2>8. ASSUME NEW w \in Workers, completeJob(w) PROVE TypeOK'
    <3>1. job[w] \in Jobs
      BY <2>8 DEF completeJob, TypeOK, Live
    <3>2. CASE Idle(w)
      BY <2>8, <3>1, <3>2, MarkDoneType, IdleType DEF completeJob, TypeOK
    <3>3. CASE pc' = [pc EXCEPT ![w] = "follow"] /\ UNCHANGED <<job, seen, beating>>
      <4>1. /\ pc' \in [Workers -> WorkerSteps]
            /\ \A v \in Workers : pc'[v] \in Live \cup {"follow"} => job'[v] \in Jobs
        BY <3>1, <3>3 DEF TypeOK, WorkerSteps, Live
      <4> QED BY <2>8, <3>1, <3>3, <4>1, MarkDoneType DEF completeJob, TypeOK
    <3> QED BY <2>8, <3>2, <3>3 DEF completeJob
  <2>9. ASSUME NEW w \in Workers, CompleteThrows(w) PROVE TypeOK'
    <3>1. job[w] \in Jobs
      BY <2>9 DEF CompleteThrows, TypeOK, Live
    <3>2. /\ status' \in [Jobs -> Statuses]
          /\ wait' \in [Jobs -> Nat]
          /\ lockAge' \in [Jobs -> 0..StaleAge]
          /\ holder' \in [Jobs -> Workers \cup {Nobody}]
      <4>1. CASE MarkDone(job[w])
        BY <3>1, <4>1, MarkDoneType
      <4>2. CASE UNCHANGED <<status, wait, lockAge, holder>>
        BY <4>2 DEF TypeOK
      <4> QED BY <2>9, <4>1, <4>2 DEF CompleteThrows
    <3> QED BY <2>9, <3>1, <3>2 DEF CompleteThrows, TypeOK, WorkerSteps, Live
  <2>10. ASSUME NEW w \in Workers, EnqueueFollowUp(w) PROVE TypeOK'
    <3>1. /\ status' \in [Jobs -> Statuses]
          /\ wait' \in [Jobs -> Nat]
          /\ lockAge' \in [Jobs -> 0..StaleAge]
          /\ holder' \in [Jobs -> Workers \cup {Nobody}]
      <4>1. CASE \E j \in Jobs, d \in Delays : Insert(j, d)
        <5>1. PICK j \in Jobs, d \in Delays : Insert(j, d)
          BY <4>1
        <5>2. d \in Nat
          BY DEF JobQueueAssumption
        <5> QED BY <5>1, <5>2, ReleaseType DEF Insert, Statuses
      <4>2. CASE UNCHANGED <<status, wait, lockAge, holder>>
        BY <4>2 DEF TypeOK
      <4> QED BY <2>10, <4>1, <4>2 DEF EnqueueFollowUp
    <3> QED BY <2>10, <3>1, IdleType DEF EnqueueFollowUp, TypeOK
  <2>11. ASSUME NEW w \in Workers, FailJobRead(w) PROVE TypeOK'
    <3>1. job[w] \in Jobs
      BY <2>11 DEF FailJobRead, TypeOK, Live
    <3>2. CASE status[job[w]] = "gone"
      BY <2>11, <3>2, IdleType DEF FailJobRead, TypeOK, rowVars
    <3>3. CASE status[job[w]] # "gone"
      BY <2>11, <3>1, <3>3 DEF FailJobRead, TypeOK, WorkerSteps, Live, rowVars
    <3> QED BY <3>2, <3>3
  <2>12. ASSUME NEW w \in Workers, FailJobWrite(w) PROVE TypeOK'
    <3>1. job[w] \in Jobs /\ seen[w] \in Nat
      BY <2>12 DEF FailJobWrite, TypeOK, Live
    <3> QED BY <2>12, <3>1, FailRowType, IdleType DEF FailJobWrite, TypeOK
  <2>13. ASSUME NEW w \in Workers, Crash(w) PROVE TypeOK'
    BY <2>13 DEF Crash, TypeOK, WorkerSteps, Live
  <2>14. ASSUME NEW w \in Workers, Boot(w) PROVE TypeOK'
    BY <2>14, SweepType, IdleType DEF Boot, TypeOK
  <2>15. ASSUME StaleTick PROVE TypeOK'
    BY <2>15, SweepType DEF StaleTick, TypeOK, workerVars
  <2>16. ASSUME PurgeReset PROVE TypeOK'
    BY <2>16 DEF PurgeReset, TypeOK, Statuses, workerVars, JobQueueAssumption
  <2>17. ASSUME NEW t \in Tenants, Suspend(t) \/ Resume(t) PROVE TypeOK'
    BY <2>17 DEF Suspend, Resume, TypeOK, rowVars, workerVars
  <2>18. ASSUME Tick PROVE TypeOK'
    BY <2>18 DEF Tick, TypeOK, workerVars, JobQueueAssumption
  <2>19. CASE UNCHANGED vars
    BY <2>19 DEF vars, rowVars, workerVars, TypeOK
  <2> QED BY <2>1, <2>2, <2>3, <2>4, <2>5, <2>6, <2>7, <2>8, <2>9, <2>10, <2>11,
             <2>12, <2>13, <2>14, <2>15, <2>16, <2>17, <2>18, <2>19 DEF Next
<1> QED BY <1>1, <1>2, PTL DEF Spec

-----------------------------------------------------------------------------
(* The dedupe index.                                                       *)

\* A row that becomes in flight without an in-flight twin, while no other row
\* does, keeps the keys of the in-flight rows unique.
LEMMA IndexKept ==
    ASSUME OneInFlightPerKey,
           NEW j \in Jobs,
           \A i \in Jobs \ {j} : InFlight(i)' => InFlight(i),
           InFlight(j)' => InFlight(j) \/ ~KeyTaken(j)
    PROVE  OneInFlightPerKey'
  BY DEF OneInFlightPerKey, KeyTaken, InFlight

\* A step after which no more rows are in flight than before keeps them unique.
LEMMA IndexShrinks ==
    ASSUME OneInFlightPerKey, \A i \in Jobs : InFlight(i)' => InFlight(i)
    PROVE  OneInFlightPerKey'
  BY DEF OneInFlightPerKey, InFlight

\* No sequence of claims, failures, sweeps, retries and purges puts two rows of
\* one dedupe key in flight: the statements that bring a row back to pending
\* either start from an in-flight row or go through the index (queue.ts:165-172,
\* index.ts:1480-1482).
THEOREM DedupeKeysAreUnique == Spec => []OneInFlightPerKey
<1>1. Init => OneInFlightPerKey
  BY DEF Init, OneInFlightPerKey, InFlight
<1>2. TypeOK /\ OneInFlightPerKey /\ [Next]_vars => OneInFlightPerKey'
  <2> SUFFICES ASSUME TypeOK, OneInFlightPerKey, [Next]_vars
               PROVE  OneInFlightPerKey'
    OBVIOUS
  <2>1. ASSUME NEW j \in Jobs, NEW d \in Delays, Insert(j, d)
        PROVE  OneInFlightPerKey'
    BY <2>1, IndexKept DEF Insert, Release, InFlight, TypeOK
  <2>2. ASSUME NEW j \in Jobs, DeleteRow(j) PROVE OneInFlightPerKey'
    BY <2>2, IndexShrinks DEF DeleteRow, Release, InFlight, TypeOK
  <2>3. ASSUME NEW j \in Jobs, RetryFailed(j) PROVE OneInFlightPerKey'
    BY <2>3, IndexKept DEF RetryFailed, Release, InFlight, TypeOK
  <2>4. ASSUME NEW w \in Workers, NEW j \in Jobs, claimJob(w, j) \/ ClaimReplyLost(w, j)
        PROVE  OneInFlightPerKey'
    BY <2>4, IndexShrinks DEF claimJob, ClaimReplyLost, Claimable, Lock, InFlight, TypeOK
  <2>5. ASSUME NEW w \in Workers, completeJob(w) \/ CompleteThrows(w)
        PROVE  OneInFlightPerKey'
    <3>1. MarkDone(job[w]) \/ UNCHANGED status
      BY <2>5 DEF completeJob, CompleteThrows
    <3>2. \A i \in Jobs : InFlight(i)' => InFlight(i)
      BY <3>1 DEF MarkDone, Release, InFlight, TypeOK
    <3> QED BY <3>2, IndexShrinks
  <2>6. ASSUME NEW w \in Workers, EnqueueFollowUp(w) PROVE OneInFlightPerKey'
    <3>1. CASE UNCHANGED status
      BY <3>1, IndexShrinks DEF InFlight
    <3>2. CASE \E j \in Jobs, d \in Delays : Insert(j, d)
      BY <3>2, <2>1
    <3> QED BY <2>6, <3>1, <3>2 DEF EnqueueFollowUp
  <2>7. ASSUME NEW w \in Workers, FailJobWrite(w) PROVE OneInFlightPerKey'
    <3>1. \A i \in Jobs : InFlight(i)' => InFlight(i)
      BY <2>7 DEF FailJobWrite, FailRow, Release, InFlight, TypeOK
    <3> QED BY <3>1, IndexShrinks
  <2>8. ASSUME requeueStale PROVE OneInFlightPerKey'
    BY <2>8, IndexShrinks DEF requeueStale, Stale, InFlight, TypeOK
  <2>9. ASSUME PurgeReset PROVE OneInFlightPerKey'
    BY <2>9, IndexShrinks DEF PurgeReset, InFlight, TypeOK
  <2>10. CASE UNCHANGED status
    BY <2>10, IndexShrinks DEF InFlight
  <2>11. ASSUME NEW w \in Workers,
                \/ heartbeatJob(w) \/ HandlerEnds(w) \/ FailJobRead(w) \/ Crash(w)
         PROVE  UNCHANGED status
    BY <2>11 DEF heartbeatJob, HandlerEnds, FailJobRead, Crash, rowVars
  <2>12. ASSUME NEW t \in Tenants, Suspend(t) \/ Resume(t) PROVE UNCHANGED status
    BY <2>12 DEF Suspend, Resume, rowVars
  <2>13. Tick => UNCHANGED status
    BY DEF Tick
  <2>14. UNCHANGED vars => UNCHANGED status
    BY DEF vars, rowVars
  <2> QED BY <2>1, <2>2, <2>3, <2>4, <2>5, <2>6, <2>7, <2>8, <2>9, <2>10, <2>11,
             <2>12, <2>13, <2>14 DEF Next, enqueue, Boot, StaleTick
<1> QED BY <1>1, <1>2, TypeCorrect, PTL DEF Spec

-----------------------------------------------------------------------------
(* Finished jobs.                                                          *)

\* No straggler, sweep or console action takes a row out of "done" except by
\* deleting it: a finished upload or render is not run again (queue.ts:337-339).
THEOREM DoneStaysDone == Spec => DoneIsFinal
<1> DEFINE Final == \A j \in Jobs : status[j] = "done" => status'[j] \in {"done", "gone"}
<1>1. TypeOK /\ [Next]_vars => [Final]_vars
  <2> SUFFICES ASSUME TypeOK, Next PROVE Final
    BY DEF vars
  <2>1. ASSUME NEW j \in Jobs, NEW d \in Delays, Insert(j, d) PROVE Final
    BY <2>1 DEF Insert, Release, TypeOK
  <2>2. ASSUME NEW j \in Jobs, DeleteRow(j) \/ RetryFailed(j) PROVE Final
    BY <2>2 DEF DeleteRow, RetryFailed, Release, TypeOK
  <2>3. ASSUME NEW w \in Workers, NEW j \in Jobs, claimJob(w, j) \/ ClaimReplyLost(w, j)
        PROVE  Final
    BY <2>3 DEF claimJob, ClaimReplyLost, Claimable, Lock, TypeOK
  <2>4. ASSUME NEW w \in Workers, completeJob(w) \/ CompleteThrows(w) PROVE Final
    <3>1. MarkDone(job[w]) \/ UNCHANGED status
      BY <2>4 DEF completeJob, CompleteThrows
    <3> QED BY <3>1 DEF MarkDone, Release, TypeOK
  <2>5. ASSUME NEW w \in Workers, FailJobWrite(w) PROVE Final
    BY <2>5 DEF FailJobWrite, FailRow, Release, TypeOK
  <2>6. ASSUME requeueStale PROVE Final
    BY <2>6 DEF requeueStale, Stale, TypeOK
  <2>7. ASSUME PurgeReset PROVE Final
    BY <2>7 DEF PurgeReset, InFlight, TypeOK
  <2>8. CASE UNCHANGED status
    BY <2>8
  <2>9. ASSUME NEW w \in Workers,
               \/ heartbeatJob(w) \/ HandlerEnds(w) \/ FailJobRead(w) \/ Crash(w)
        PROVE  UNCHANGED status
    BY <2>9 DEF heartbeatJob, HandlerEnds, FailJobRead, Crash, rowVars
  <2>10. ASSUME NEW w \in Workers, EnqueueFollowUp(w) PROVE Final
    <3>1. CASE \E j \in Jobs, d \in Delays : Insert(j, d)
      BY <3>1, <2>1
    <3> QED BY <2>10, <3>1, <2>8 DEF EnqueueFollowUp
  <2>11. ASSUME NEW t \in Tenants, Suspend(t) \/ Resume(t) PROVE UNCHANGED status
    BY <2>11 DEF Suspend, Resume, rowVars
  <2>12. Tick => UNCHANGED status
    BY DEF Tick
  <2> HIDE DEF Final
  <2> QED BY <2>1, <2>2, <2>3, <2>4, <2>5, <2>6, <2>7, <2>8, <2>9, <2>10, <2>11, <2>12
          DEF Next, enqueue, Boot, StaleTick
<1> QED BY <1>1, TypeCorrect, PTL DEF Spec, DoneIsFinal

-----------------------------------------------------------------------------
(* Mutual exclusion of the runs.                                           *)

\* Process w runs a job that the console cannot reset.
Executes(w) == pc[w] \in Live /\ job[w] \in Jobs \ MediaJobs

\* The strengthening: the row of an executed job is locked by the process that
\* executes it, and the lock is younger than the longest silence.
LockHeld(w) ==
    /\ status[job[w]] = "running"
    /\ holder[job[w]] = w
    /\ lockAge[job[w]] <= MaxSilence

RunsAreLocked == \A w \in Workers : Executes(w) => LockHeld(w)

\* What a step of process u must leave alone: the other processes and the rows
\* they run.
LEMMA OthersKeepTheirLocks ==
    ASSUME RunsAreLocked,
           NEW u \in Workers,
           \A w \in Workers \ {u} : pc'[w] = pc[w] /\ job'[w] = job[w],
           \A j \in Jobs : status[j] = "running" /\ holder[j] # u =>
                             /\ status'[j] = status[j]
                             /\ holder'[j] = holder[j]
                             /\ lockAge'[j] = lockAge[j],
           Executes(u)' => LockHeld(u)'
    PROVE  RunsAreLocked'
  BY DEF RunsAreLocked, Executes, LockHeld

\* The same for a step of the console or the sweep: it may touch the rows that
\* no process runs.
LEMMA LocksAreLeftAlone ==
    ASSUME RunsAreLocked,
           UNCHANGED <<pc, job>>,
           \A j \in Jobs \ MediaJobs : status[j] = "running" /\ lockAge[j] <= MaxSilence =>
                             /\ status'[j] = status[j]
                             /\ holder'[j] = holder[j]
                             /\ lockAge'[j] = lockAge[j]
    PROVE  RunsAreLocked'
  BY DEF RunsAreLocked, Executes, LockHeld

\* RunsAreLocked and the dedupe index together give the mutual exclusion.
LEMMA LockedRunsExclude == TypeOK /\ RunsAreLocked /\ OneInFlightPerKey => RunExclusive
  <1> SUFFICES ASSUME TypeOK, RunsAreLocked, OneInFlightPerKey,
                      NEW v \in Workers, NEW w \in Workers,
                      NEW i \in Jobs \ MediaJobs, NEW j \in Jobs \ MediaJobs,
                      Running(v, i), Running(w, j), v # w
               PROVE  i # j /\ (DedupeKey[i] = NoKey \/ DedupeKey[i] # DedupeKey[j])
    BY DEF RunExclusive
  <1>1. /\ status[i] = "running" /\ holder[i] = v
        /\ status[j] = "running" /\ holder[j] = w
    BY DEF Running, RunsAreLocked, Executes, LockHeld
  <1>2. i # j
    BY <1>1
  <1> QED BY <1>1, <1>2 DEF OneInFlightPerKey, InFlight

\* While live processes keep their heartbeats and no statement is lost, neither the
\* sweep, nor a retry, nor a verdict takes a row from the process that runs it.
LEMMA RunsStayLocked ==
    ASSUME MaxSilence < StaleAge, DbFaults = FALSE
    PROVE  Spec => []RunsAreLocked
<1> USE JobQueueAssumption DEF JobQueueAssumption
<1>1. Init => RunsAreLocked
  BY DEF Init, RunsAreLocked, Executes, Live
<1>2. TypeOK /\ RunsAreLocked /\ [Next]_vars => RunsAreLocked'
  <2> SUFFICES ASSUME TypeOK, RunsAreLocked, [Next]_vars PROVE RunsAreLocked'
    OBVIOUS
  <2>1. ASSUME NEW j \in Jobs, enqueue(j) \/ DeleteRow(j) \/ RetryFailed(j)
        PROVE  RunsAreLocked'
    <3>1. UNCHANGED <<pc, job>>
      BY <2>1 DEF enqueue, DeleteRow, RetryFailed, workerVars
    <3>2. \A i \in Jobs \ MediaJobs : status[i] = "running" =>
             /\ status'[i] = status[i] /\ holder'[i] = holder[i] /\ lockAge'[i] = lockAge[i]
      BY <2>1 DEF enqueue, Insert, DeleteRow, RetryFailed, Release, TypeOK
    <3> QED BY <3>1, <3>2, LocksAreLeftAlone
  <2>2. ASSUME NEW w \in Workers, NEW j \in Jobs, claimJob(w, j) PROVE RunsAreLocked'
    <3>1. Executes(w)' => LockHeld(w)'
      BY <2>2 DEF claimJob, Lock, Executes, LockHeld, TypeOK
    <3>2. \A v \in Workers \ {w} : pc'[v] = pc[v] /\ job'[v] = job[v]
      BY <2>2 DEF claimJob, TypeOK
    <3>3. \A i \in Jobs : status[i] = "running" =>
             /\ status'[i] = status[i] /\ holder'[i] = holder[i] /\ lockAge'[i] = lockAge[i]
      BY <2>2 DEF claimJob, Claimable, Lock, TypeOK
    <3> QED BY <3>1, <3>2, <3>3, OthersKeepTheirLocks
  <2>3. ASSUME NEW w \in Workers, heartbeatJob(w) PROVE RunsAreLocked'
    <3>1. Executes(w)' => LockHeld(w)'
      BY <2>3 DEF heartbeatJob, Executes, LockHeld, RunsAreLocked, TypeOK
    <3>2. job[w] \in Jobs /\ UNCHANGED <<pc, job, status, holder>>
      BY <2>3 DEF heartbeatJob, TypeOK, Live
    <3>3. \A i \in Jobs : holder[i] # w => lockAge'[i] = lockAge[i]
      BY <2>3, <3>2 DEF heartbeatJob, TypeOK
    <3> QED BY <3>1, <3>2, <3>3, OthersKeepTheirLocks
  <2>4. ASSUME NEW w \in Workers, HandlerEnds(w) PROVE RunsAreLocked'
    <3>1. /\ job[w] \in Jobs \ MediaJobs => Executes(w)
          /\ UNCHANGED <<status, holder, lockAge, job>>
      BY <2>4 DEF HandlerEnds, Executes, Live, rowVars
    <3>2. Executes(w)' => LockHeld(w)'
      BY <3>1 DEF RunsAreLocked, Executes, LockHeld
    <3>3. \A v \in Workers \ {w} : pc'[v] = pc[v] /\ job'[v] = job[v]
      BY <2>4 DEF HandlerEnds, TypeOK
    <3> QED BY <3>1, <3>2, <3>3, OthersKeepTheirLocks
  <2>5. ASSUME NEW w \in Workers, completeJob(w) \/ EnqueueFollowUp(w) \/ FailJobWrite(w)
        PROVE  RunsAreLocked'
    <3>1. ~Executes(w)'
      BY <2>5 DEF completeJob, EnqueueFollowUp, FailJobWrite, Idle, Executes, Live, TypeOK
    <3>2. \A v \in Workers \ {w} : pc'[v] = pc[v] /\ job'[v] = job[v]
      BY <2>5 DEF completeJob, EnqueueFollowUp, FailJobWrite, Idle, TypeOK
    <3> DEFINE Row(i) == /\ status'[i] = status[i]
                         /\ holder'[i] = holder[i]
                         /\ lockAge'[i] = lockAge[i]
    <3>3. \A i \in Jobs : i # job[w] /\ status[i] = "running" => Row(i)
      <4>1. CASE completeJob(w)
        BY <4>1 DEF completeJob, MarkDone, Release, TypeOK
      <4>2. CASE EnqueueFollowUp(w)
        BY <4>2 DEF EnqueueFollowUp, Insert, Release, TypeOK
      <4>3. CASE FailJobWrite(w)
        BY <4>3 DEF FailJobWrite, FailRow, Release, TypeOK
      <4> QED BY <2>5, <4>1, <4>2, <4>3
    <3>4. ASSUME NEW v \in Workers, Executes(v)'
          PROVE  LockHeld(v)'
      <4>1. v # w /\ Executes(v) /\ LockHeld(v)
        BY <3>1, <3>2, <3>4 DEF RunsAreLocked, Executes
      <4>2. CASE job[v] # job[w]
        BY <3>2, <3>3, <4>1, <4>2 DEF LockHeld, Executes
      <4>3. CASE job[v] = job[w]
        <5>1. CASE EnqueueFollowUp(w)
          BY <3>2, <4>1, <5>1 DEF EnqueueFollowUp, Insert, Release, TypeOK, LockHeld, Executes
        <5>2. CASE ~EnqueueFollowUp(w)
          BY <2>5, <4>1, <4>3, <5>2
          DEF completeJob, FailJobWrite, RunsAreLocked, Executes, LockHeld, Live
        <5> QED BY <5>1, <5>2
      <4> QED BY <4>2, <4>3
    <3> QED BY <3>4 DEF RunsAreLocked
  <2>6. ASSUME NEW w \in Workers, FailJobRead(w) PROVE RunsAreLocked'
    <3>1. UNCHANGED <<status, holder, lockAge>>
      BY <2>6 DEF FailJobRead, rowVars
    <3>2. \A v \in Workers : Executes(v)' => Executes(v) /\ job'[v] = job[v]
      BY <2>6 DEF FailJobRead, Idle, Executes, Live, TypeOK
    <3> QED BY <3>1, <3>2 DEF RunsAreLocked, LockHeld
  <2>7. ASSUME NEW w \in Workers, Crash(w) PROVE RunsAreLocked'
    <3>1. ~Executes(w)' /\ UNCHANGED <<status, lockAge>>
      BY <2>7 DEF Crash, Executes, Live, TypeOK
    <3>2. \A v \in Workers \ {w} : pc'[v] = pc[v] /\ job'[v] = job[v]
      BY <2>7 DEF Crash, TypeOK
    <3>3. \A i \in Jobs : holder[i] # w => holder'[i] = holder[i]
      BY <2>7 DEF Crash
    <3> QED BY <3>1, <3>2, <3>3, OthersKeepTheirLocks
  <2>8. requeueStale =>
          \A i \in Jobs \ MediaJobs : status[i] = "running" /\ lockAge[i] <= MaxSilence =>
            /\ status'[i] = status[i] /\ holder'[i] = holder[i] /\ lockAge'[i] = lockAge[i]
    BY DEF requeueStale, Stale, TypeOK
  <2>9. CASE StaleTick
    BY <2>8, <2>9, LocksAreLeftAlone DEF StaleTick, workerVars
  <2>10. ASSUME NEW w \in Workers, Boot(w) PROVE RunsAreLocked'
    <3>1. ~Executes(w)'
      BY <2>10 DEF Boot, Idle, Executes, Live, TypeOK
    <3>2. \A v \in Workers \ {w} : pc'[v] = pc[v] /\ job'[v] = job[v]
      BY <2>10 DEF Boot, Idle, TypeOK
    <3> QED BY <2>8, <2>10, <3>1, <3>2 DEF Boot, RunsAreLocked, Executes, LockHeld
  <2>11. CASE PurgeReset
    BY <2>11, LocksAreLeftAlone DEF PurgeReset, workerVars, TypeOK
  <2>12. ASSUME NEW t \in Tenants, Suspend(t) \/ Resume(t) PROVE RunsAreLocked'
    BY <2>12 DEF Suspend, Resume, rowVars, workerVars, RunsAreLocked, Executes, LockHeld
  <2>13. CASE Tick
    <3>1. \A w \in Workers : Executes(w) =>
             lockAge[job[w]] < MaxSilence /\ lockAge'[job[w]] <= MaxSilence
      BY <2>13 DEF Tick, RunsAreLocked, Executes, LockHeld, TypeOK
    <3> QED BY <2>13, <3>1 DEF Tick, workerVars, RunsAreLocked, Executes, LockHeld
  <2>14. CASE UNCHANGED vars
    BY <2>14 DEF vars, rowVars, workerVars, RunsAreLocked, Executes, LockHeld
  <2>15. ASSUME NEW w \in Workers, CompleteThrows(w) PROVE RunsAreLocked'
    BY <2>15 DEF CompleteThrows
  <2>16. ASSUME NEW w \in Workers, NEW j \in Jobs, ClaimReplyLost(w, j) PROVE RunsAreLocked'
    BY <2>16 DEF ClaimReplyLost
  <2> HIDE JobQueueAssumption DEF JobQueueAssumption
  <2> QED BY <2>1, <2>2, <2>3, <2>4, <2>5, <2>6, <2>7, <2>9, <2>10, <2>11, <2>12,
             <2>13, <2>14, <2>15, <2>16 DEF Next
<1> QED BY <1>1, <1>2, TypeCorrect, PTL DEF Spec

\* While live processes keep their heartbeats and no statement is lost, a job (or
\* another job of its key) is never executed by two workers: neither the sweep,
\* nor a retry, nor a verdict takes a row from the process that runs it
\* (queue.ts:298-319 and 354-379, worker.ts:3556-3576).
THEOREM RunsExcludeEachOther ==
    ASSUME MaxSilence < StaleAge, DbFaults = FALSE
    PROVE  Spec => []RunExclusive
<1>1. Spec => []RunsAreLocked
  BY RunsStayLocked
<1> QED BY <1>1, TypeCorrect, DedupeKeysAreUnique, LockedRunsExclude, PTL

-----------------------------------------------------------------------------
(* Verdicts.                                                               *)

\* The strengthening: no row is run more often than it may be, and what failJob has read
\* is still true when it writes.
VerdictInv ==
    /\ VerdictMatchesAttempts
    /\ \A j \in Jobs : attempts[j] <= MaxAttempts[j] /\ (status[j] = "absent" => attempts[j] = 0)
    /\ \A w \in Workers : pc[w] = "failing" => seen[w] = attempts[job[w]]

\* A worker in a run knows its row.
LEMMA LiveRow ==
    ASSUME TypeOK, RunsAreLocked, MediaJobs = {}, NEW w \in Workers, pc[w] \in Live
    PROVE  /\ job[w] \in Jobs /\ status[job[w]] = "running" /\ holder[job[w]] = w
           /\ lockAge[job[w]] <= MaxSilence
BY DEF TypeOK, RunsAreLocked, Executes, LockHeld

LEMMA VerdictStep ==
    ASSUME TypeOK, RunsAreLocked, VerdictInv, [Next]_vars, MediaJobs = {}, DbFaults = FALSE
    PROVE  VerdictInv'
<1> USE JobQueueAssumption DEF JobQueueAssumption
<1> DEFINE Same(w) == pc'[w] = pc[w] /\ job'[w] = job[w] /\ seen'[w] = seen[w]
\* Steps that leave the attempts alone.
<1>1. ASSUME UNCHANGED attempts,
             \A j \in Jobs : \/ status'[j] = status[j]
                             \/ status'[j] \in {"done", "gone", "running"}
                             \/ status'[j] = "pending" /\ attempts[j] < MaxAttempts[j]
                             \/ status'[j] = "failed" /\ attempts[j] = MaxAttempts[j],
             \A w \in Workers : Same(w) \/ pc'[w] # "failing"
      PROVE  VerdictInv'
  BY <1>1 DEF VerdictInv, VerdictMatchesAttempts, TypeOK
<1>2. ASSUME NEW j \in Jobs, NEW d \in Delays, Insert(j, d)
      PROVE  \A i \in Jobs : status'[i] = status[i] \/ (status'[i] = "pending" /\ attempts[i] < MaxAttempts[i])
  BY <1>2 DEF Insert, Release, VerdictInv, TypeOK
<1>3. ASSUME NEW j \in Jobs, enqueue(j) PROVE VerdictInv'
  BY <1>1, <1>2, <1>3 DEF enqueue, Insert, workerVars
<1>4. ASSUME NEW j \in Jobs, DeleteRow(j) PROVE VerdictInv'
  BY <1>1, <1>4 DEF DeleteRow, Release, TypeOK, workerVars
<1>5. ASSUME NEW j \in Jobs, RetryFailed(j) PROVE VerdictInv'
  <2>1. \A w \in Workers : pc[w] = "failing" => job[w] # j
    BY <1>5, LiveRow DEF RetryFailed, Live
  <2> QED BY <1>5, <2>1 DEF RetryFailed, Release, TypeOK, VerdictInv, VerdictMatchesAttempts, workerVars
<1>6. ASSUME NEW w \in Workers, NEW j \in Jobs, claimJob(w, j) PROVE VerdictInv'
  <2>1. \A v \in Workers : pc[v] = "failing" => job[v] # j
    BY <1>6, LiveRow DEF claimJob, Claimable, Live
  <2>2. /\ attempts' = [attempts EXCEPT ![j] = @ + 1] /\ attempts[j] < MaxAttempts[j]
        /\ status' = [status EXCEPT ![j] = "running"]
    BY <1>6 DEF claimJob, Claimable, Lock
  <2>3. \A v \in Workers : pc'[v] = "failing" => Same(v) /\ pc[v] = "failing"
    BY <1>6 DEF claimJob, TypeOK
  <2>4. \A v \in Workers : pc'[v] = "failing" => seen'[v] = attempts'[job'[v]]
    BY <2>1, <2>2, <2>3, LiveRow DEF VerdictInv, TypeOK, Live
  <2>5. \A i \in Jobs : attempts'[i] <= MaxAttempts[i] /\ (status'[i] = "absent" => attempts'[i] = 0)
    BY <2>2 DEF VerdictInv, TypeOK
  <2>6. VerdictMatchesAttempts'
    BY <2>2 DEF VerdictInv, VerdictMatchesAttempts, TypeOK
  <2> QED BY <2>4, <2>5, <2>6 DEF VerdictInv
<1>7. ASSUME NEW w \in Workers, heartbeatJob(w) PROVE VerdictInv'
  BY <1>1, <1>7 DEF heartbeatJob
<1>8. ASSUME NEW w \in Workers, HandlerEnds(w) PROVE VerdictInv'
  BY <1>1, <1>8 DEF HandlerEnds, rowVars, TypeOK
<1>9. ASSUME NEW w \in Workers, completeJob(w) PROVE VerdictInv'
  <2>1. \A j \in Jobs : status'[j] = status[j] \/ status'[j] = "done"
    BY <1>9 DEF completeJob, MarkDone, Release, TypeOK
  <2>2. \A v \in Workers : Same(v) \/ pc'[v] # "failing"
    BY <1>9 DEF completeJob, Idle, TypeOK
  <2> QED BY <1>1, <1>9, <2>1, <2>2 DEF completeJob
<1>10. ASSUME NEW w \in Workers, EnqueueFollowUp(w) PROVE VerdictInv'
  <2>1. \A i \in Jobs : status'[i] = status[i] \/ (status'[i] = "pending" /\ attempts[i] < MaxAttempts[i])
    BY <1>2, <1>10 DEF EnqueueFollowUp
  <2>2. \A v \in Workers : Same(v) \/ pc'[v] # "failing"
    BY <1>10 DEF EnqueueFollowUp, Idle, TypeOK
  <2> QED BY <1>1, <1>10, <2>1, <2>2 DEF EnqueueFollowUp
<1>11. ASSUME NEW w \in Workers, FailJobRead(w) PROVE VerdictInv'
  <2>1. pc[w] \in Live /\ status[job[w]] = "running"
    BY <1>11, LiveRow DEF FailJobRead, Live
  <2>2. /\ seen' = [seen EXCEPT ![w] = attempts[job[w]]] /\ pc' = [pc EXCEPT ![w] = "failing"]
        /\ UNCHANGED <<job, status, attempts>>
    BY <1>11, <2>1 DEF FailJobRead, rowVars
  <2> QED BY <2>2 DEF VerdictInv, VerdictMatchesAttempts, TypeOK
<1>12. ASSUME NEW w \in Workers, FailJobWrite(w) PROVE VerdictInv'
  <2>1. job[w] \in Jobs /\ seen[w] = attempts[job[w]] /\ attempts[job[w]] <= MaxAttempts[job[w]]
        /\ attempts[job[w]] \in Nat /\ MaxAttempts[job[w]] \in Nat
    BY <1>12, LiveRow DEF FailJobWrite, VerdictInv, Live, TypeOK
  <2>2. \A j \in Jobs : \/ status'[j] = status[j]
                        \/ status'[j] = "pending" /\ attempts[j] < MaxAttempts[j]
                        \/ status'[j] = "failed" /\ attempts[j] = MaxAttempts[j]
    BY <1>12, <2>1 DEF FailJobWrite, FailRow, Release, TypeOK
  <2>3. \A v \in Workers : Same(v) \/ pc'[v] # "failing"
    BY <1>12 DEF FailJobWrite, Idle, TypeOK
  <2> QED BY <1>1, <1>12, <2>2, <2>3 DEF FailJobWrite
<1>13. ASSUME NEW w \in Workers, Crash(w) PROVE VerdictInv'
  BY <1>1, <1>13 DEF Crash, TypeOK
<1>14. ASSUME requeueStale, UNCHANGED workerVars \/ (\E w \in Workers : Idle(w)) PROVE VerdictInv'
  <2>1. \A j \in Jobs : \/ status'[j] = status[j]
                        \/ status'[j] = "pending" /\ attempts[j] < MaxAttempts[j]
                        \/ status'[j] = "failed" /\ attempts[j] = MaxAttempts[j]
    <3>1. ASSUME NEW j \in Jobs
          PROVE  attempts[j] \in Nat /\ MaxAttempts[j] \in Nat /\ attempts[j] <= MaxAttempts[j]
      BY DEF VerdictInv, TypeOK
    <3>2. ASSUME NEW j \in Jobs PROVE status'[j] = IF Stale(j) THEN Reclaimed(j) ELSE status[j]
      BY <1>14 DEF requeueStale
    <3> QED BY <3>1, <3>2 DEF Reclaimed
  <2>2. \A v \in Workers : Same(v) \/ pc'[v] # "failing"
    BY <1>14 DEF Idle, TypeOK, workerVars
  <2> QED BY <1>1, <1>14, <2>1, <2>2 DEF requeueStale
<1>15. CASE UNCHANGED <<status, attempts, workerVars>>
  BY <1>1, <1>15 DEF workerVars
<1>16. ~PurgeReset
  BY DEF PurgeReset
<1> HIDE JobQueueAssumption DEF JobQueueAssumption
<1> QED BY <1>3, <1>4, <1>5, <1>6, <1>7, <1>8, <1>9, <1>10, <1>11, <1>12, <1>13, <1>14, <1>15, <1>16
        DEF Next, ClaimReplyLost, CompleteThrows, Boot, StaleTick, Suspend, Resume, Tick, vars, rowVars

LEMMA VerdictsStay ==
    ASSUME MaxSilence < StaleAge, DbFaults = FALSE, MediaJobs = {}
    PROVE  Spec => []VerdictInv
<1>1. Init => VerdictInv
  BY JobQueueAssumption DEF Init, VerdictInv, VerdictMatchesAttempts, JobQueueAssumption
<1>2. TypeOK /\ RunsAreLocked /\ VerdictInv /\ [Next]_vars => VerdictInv'
  BY VerdictStep
<1>3. Spec => []RunsAreLocked
  BY RunsStayLocked
<1> QED BY <1>1, <1>2, <1>3, TypeCorrect, PTL DEF Spec

\* Under the same conditions every status agrees with the attempts: no row waits that no
\* claim will take, and none is given up early (queue.ts:321-372).
THEOREM VerdictsFollowAttempts ==
    ASSUME MaxSilence < StaleAge, DbFaults = FALSE, MediaJobs = {}
    PROVE  Spec => []VerdictMatchesAttempts
<1>1. Spec => []VerdictInv
  BY VerdictsStay
<1>2. VerdictInv => VerdictMatchesAttempts
  BY DEF VerdictInv
<1> QED BY <1>1, <1>2, PTL

-----------------------------------------------------------------------------
(* What the users of the queue are told.                                   *)

\* The mapped steps: who runs what
LEMMA RunsStay ==
    ASSUME \A w \in Workers : (pc'[w] \in Live <=> pc[w] \in Live)
                              /\ (pc[w] \in Live => job'[w] = job[w])
    PROVE  Runs' = Runs
BY DEF Runs, Running

LEMMA RunEnds ==
    ASSUME TypeOK, RunsAreLocked, MediaJobs = {}, NEW w \in Workers, pc[w] \in Live, pc'[w] \notin Live,
           \A v \in Workers \ {w} : pc'[v] = pc[v] /\ job'[v] = job[v]
    PROVE  Promise!Ends(job[w])
<1> DEFINE j == job[w]
<1>1. j \in Jobs /\ \A v \in Workers : Running(v, j) => v = w
  BY LiveRow DEF Running
<1>2. w \in Runs[j]
  BY <1>1 DEF Runs, Running
<1>3. Runs' = [Runs EXCEPT ![j] = {}]
  <2>1. ASSUME NEW i \in Jobs PROVE Runs'[i] = IF i = j THEN {} ELSE Runs[i]
    <3>1. Runs'[i] = {v \in Workers : Running(v, i)'} /\ Runs[i] = {v \in Workers : Running(v, i)}
      BY DEF Runs
    <3>2. \A v \in Workers : Running(v, i)' <=> v # w /\ Running(v, i)
      BY DEF Running
    <3> QED BY <1>1, <3>1, <3>2 DEF Running
  <2>2. Runs' = [i \in Jobs |-> Runs'[i]] /\ DOMAIN Runs = Jobs
    BY DEF Runs
  <2> QED BY <2>1, <2>2
<1> QED BY <1>2, <1>3 DEF Promise!Ends

LEMMA QueueStep ==
    ASSUME TypeOK, RunsAreLocked, VerdictInv, [Next]_vars, MaxSilence < StaleAge, MediaJobs = {},
           DbFaults = FALSE
    PROVE  [Promise!Next]_(Promise!vars)
<1> USE JobQueueAssumption DEF JobQueueAssumption
<1>1. ASSUME UNCHANGED <<status, attempts>>, Runs' = Runs PROVE UNCHANGED Promise!vars
  BY <1>1 DEF Promise!vars
<1>2. ASSUME NEW j \in Jobs, NEW d \in Delays, Insert(j, d), Runs' = Runs PROVE Promise!Submit(j)
  BY <1>2 DEF Insert, Release, KeyTaken, InFlight, Promise!Submit, Promise!KeyIsFree, Promise!Turns
<1>3. ASSUME NEW j \in Jobs, enqueue(j) PROVE Promise!Submit(j)
  <2>1. Runs' = Runs
    BY <1>3, RunsStay DEF enqueue, workerVars
  <2> QED BY <1>2, <1>3, <2>1 DEF enqueue
<1>4. ASSUME NEW j \in Jobs, DeleteRow(j) PROVE Promise!Remove(j)
  <2>1. Runs' = Runs
    BY <1>4, RunsStay DEF DeleteRow, workerVars
  <2> QED BY <1>4, <2>1 DEF DeleteRow, Release, Promise!Remove, Promise!Turns
<1>5. ASSUME NEW j \in Jobs, RetryFailed(j) PROVE Promise!RetryByHand(j)
  <2>1. Runs' = Runs
    BY <1>5, RunsStay DEF RetryFailed, workerVars
  <2> QED BY <1>5, <2>1 DEF RetryFailed, Release, KeyTaken, InFlight, Promise!RetryByHand,
                            Promise!KeyIsFree, Promise!Turns
<1>6. ASSUME NEW w \in Workers, NEW j \in Jobs, claimJob(w, j) PROVE Promise!Start(j, w)
  <2>1. Runs[j] = {} /\ \A i \in Jobs : w \notin Runs[i]
    <3>1. ASSUME NEW v \in Workers, Running(v, j) PROVE FALSE
      BY <1>6, <3>1, LiveRow DEF claimJob, Claimable, Running
    <3>2. \A i \in Jobs : ~Running(w, i)
      BY <1>6 DEF claimJob, Claimable, Running, Live
    <3> QED BY <3>1, <3>2 DEF Runs
  <2>2. Runs' = [Runs EXCEPT ![j] = {w}]
    <3>1. \A v \in Workers \ {w} : pc'[v] = pc[v] /\ job'[v] = job[v]
      BY <1>6 DEF claimJob, TypeOK
    <3>2. pc'[w] \in Live /\ job'[w] = j
      BY <1>6 DEF claimJob, TypeOK, Live
    <3>3. ASSUME NEW i \in Jobs PROVE Runs'[i] = IF i = j THEN {w} ELSE Runs[i]
      <4>1. Runs'[i] = {v \in Workers : Running(v, i)'} /\ Runs[i] = {v \in Workers : Running(v, i)}
        BY DEF Runs
      <4>2. \A v \in Workers : Running(v, i)' <=> IF v = w THEN i = j ELSE Running(v, i)
        BY <3>1, <3>2 DEF Running
      <4> QED BY <2>1, <4>1, <4>2
    <3>4. Runs' = [i \in Jobs |-> Runs'[i]] /\ DOMAIN Runs = Jobs
      BY DEF Runs
    <3> QED BY <3>3, <3>4
  <2> QED BY <1>6, <2>1, <2>2 DEF claimJob, Claimable, Lock, Promise!Start, Promise!Turns
<1>7. ASSUME NEW w \in Workers, heartbeatJob(w) PROVE UNCHANGED Promise!vars
  BY <1>1, <1>7, RunsStay DEF heartbeatJob
<1>8. ASSUME NEW w \in Workers, HandlerEnds(w) PROVE UNCHANGED Promise!vars
  <2>1. Runs' = Runs
    BY <1>8, RunsStay DEF HandlerEnds, Live, TypeOK
  <2> QED BY <1>1, <1>8, <2>1 DEF HandlerEnds, rowVars
<1>9. ASSUME NEW w \in Workers, completeJob(w) PROVE Promise!Succeed(job[w])
  <2>1. pc[w] \in Live /\ pc'[w] \notin Live
    BY <1>9 DEF completeJob, Idle, Live, TypeOK
  <2>2. \A v \in Workers \ {w} : pc'[v] = pc[v] /\ job'[v] = job[v]
    BY <1>9 DEF completeJob, Idle, TypeOK
  <2>3. status[job[w]] = "running"
    BY <2>1, LiveRow
  <2> QED BY <1>9, <2>1, <2>2, <2>3, RunEnds
          DEF completeJob, MarkDone, Release, Promise!Succeed, Promise!Turns
<1>10. ASSUME NEW w \in Workers, EnqueueFollowUp(w)
       PROVE  UNCHANGED Promise!vars \/ \E j \in Jobs : Promise!Submit(j)
  <2>1. Runs' = Runs
    BY <1>10, RunsStay DEF EnqueueFollowUp, Idle, Live, TypeOK
  <2> QED BY <1>1, <1>2, <1>10, <2>1 DEF EnqueueFollowUp
<1>11. ASSUME NEW w \in Workers, FailJobRead(w) PROVE UNCHANGED Promise!vars
  <2>1. pc[w] \in Live /\ status[job[w]] = "running"
    BY <1>11, LiveRow DEF FailJobRead, Live
  <2>2. Runs' = Runs
    BY <1>11, <2>1, RunsStay DEF FailJobRead, Live, TypeOK
  <2> QED BY <1>1, <1>11, <2>2 DEF FailJobRead, rowVars
<1>12. ASSUME NEW w \in Workers, FailJobWrite(w) PROVE Promise!Fail(job[w])
  <2>1. pc[w] \in Live /\ pc'[w] \notin Live
    BY <1>12 DEF FailJobWrite, Idle, Live, TypeOK
  <2>2. \A v \in Workers \ {w} : pc'[v] = pc[v] /\ job'[v] = job[v]
    BY <1>12 DEF FailJobWrite, Idle, TypeOK
  <2>3. /\ job[w] \in Jobs /\ status[job[w]] = "running" /\ seen[w] = attempts[job[w]]
        /\ attempts[job[w]] \in Nat /\ MaxAttempts[job[w]] \in Nat
    BY <1>12, <2>1, LiveRow DEF FailJobWrite, VerdictInv, TypeOK
  <2>4. status' = [status EXCEPT ![job[w]] = Promise!Verdict(job[w])]
    BY <1>12, <2>3 DEF FailJobWrite, FailRow, Release, Promise!Verdict
  <2> QED BY <1>12, <2>1, <2>2, <2>4, RunEnds DEF FailJobWrite, Promise!Fail, Promise!Turns
<1>13. ASSUME NEW w \in Workers, Crash(w)
       PROVE  UNCHANGED Promise!vars \/ \E j \in Jobs : Promise!Abandon(j)
  <2>1. /\ pc'[w] \notin Live
        /\ \A v \in Workers \ {w} : pc'[v] = pc[v] /\ job'[v] = job[v]
    BY <1>13 DEF Crash, Live, TypeOK
  <2>2. CASE pc[w] \in Live
    <3>1. Promise!Ends(job[w]) /\ job[w] \in Jobs
      BY <2>1, <2>2, RunEnds, LiveRow
    <3> QED BY <1>13, <3>1 DEF Crash, Promise!Abandon
  <2>3. CASE pc[w] \notin Live
    <3>1. Runs' = Runs
      BY <2>1, <2>3, RunsStay
    <3> QED BY <1>1, <1>13, <3>1 DEF Crash
  <2> QED BY <2>2, <2>3
<1>14. ASSUME requeueStale, Runs' = Runs PROVE \E S \in SUBSET Jobs : Promise!Recover(S)
  <2> DEFINE S == {j \in Jobs : Stale(j)}
  <2>1. \A j \in S : status[j] = "running" /\ Runs[j] = {}
    <3>1. ASSUME NEW j \in S, NEW w \in Workers, Running(w, j) PROVE FALSE
      BY <3>1, LiveRow DEF Stale, Running, TypeOK
    <3> QED BY <3>1 DEF Stale, Runs
  <2>2. status' = [j \in Jobs |-> IF j \in S THEN Promise!Verdict(j) ELSE status[j]]
    <3>1. \A j \in Jobs : attempts[j] \in Nat /\ MaxAttempts[j] \in Nat
      BY DEF TypeOK
    <3> QED BY <1>14, <3>1 DEF requeueStale, Reclaimed, Promise!Verdict
  <2>3. Promise!Recover(S)
    BY <1>14, <2>1, <2>2 DEF requeueStale, Promise!Recover
  <2> QED BY <2>3
<1>15. ASSUME NEW w \in Workers, Boot(w) PROVE \E S \in SUBSET Jobs : Promise!Recover(S)
  <2>1. Runs' = Runs
    BY <1>15, RunsStay DEF Boot, Idle, Live, TypeOK
  <2> QED BY <1>14, <1>15, <2>1 DEF Boot
<1>16. CASE StaleTick
  <2>1. Runs' = Runs
    BY <1>16, RunsStay DEF StaleTick, workerVars
  <2> QED BY <1>14, <1>16, <2>1 DEF StaleTick, Promise!Next
<1>17. CASE UNCHANGED <<status, attempts, workerVars>>
  <2>1. Runs' = Runs
    BY <1>17, RunsStay DEF workerVars
  <2> QED BY <1>1, <1>17, <2>1
<1>18. ~PurgeReset
  BY DEF PurgeReset
<1>19. \A w \in Workers : pc[w] \in Live => job[w] \in Jobs
  BY LiveRow
<1>20. ASSUME NEW w \in Workers, completeJob(w) \/ FailJobWrite(w) PROVE job[w] \in Jobs
  BY <1>19, <1>20 DEF completeJob, FailJobWrite, Live
<1> HIDE JobQueueAssumption DEF JobQueueAssumption
<1> QED
  BY <1>3, <1>4, <1>5, <1>6, <1>7, <1>8, <1>9, <1>10, <1>11, <1>12, <1>13, <1>15, <1>16, <1>17, <1>18,
     <1>20
  DEF Next, ClaimReplyLost, CompleteThrows, Suspend, Resume, Tick, vars, rowVars, Promise!Next

LEMMA QueueInit == Init => Promise!Init
<1> SUFFICES ASSUME Init PROVE Promise!Init
  OBVIOUS
<1>1. \A w \in Workers, j \in Jobs : ~Running(w, j)
  BY DEF Init, Running, Live
<1>2. Runs = [j \in Jobs |-> {}]
  BY <1>1 DEF Runs
<1> QED BY <1>2 DEF Init, Promise!Init

\* Under the same conditions the queue is AbstractQueue: every step of a worker, the sweep
\* or the console is one step of it or none, for any jobs, keys, workers and times
\* (docs/ops/worker-queue.md:46-52).
THEOREM QueueImplemented ==
    ASSUME MaxSilence < StaleAge, DbFaults = FALSE, MediaJobs = {}
    PROVE  Spec => ImplementsQueue
<1>1. Init => Promise!Init
  BY QueueInit
<1>2. TypeOK /\ RunsAreLocked /\ VerdictInv /\ [Next]_vars => [Promise!Next]_(Promise!vars)
  BY QueueStep
<1>3. Spec => []RunsAreLocked /\ []VerdictInv
  BY RunsStayLocked, VerdictsStay, PTL
<1> QED BY <1>1, <1>2, <1>3, TypeCorrect, PTL DEF Spec, ImplementsQueue, Promise!Spec

-----------------------------------------------------------------------------
(* The queue as those see it who enqueue under a key.                      *)

\* The lemmas of AbstractQueue for the mapped rows; its steps are those of Promise.
Mapped == INSTANCE AbstractQueueProofs WITH state <- status, tries <- attempts, runs <- Runs

LEMMA MappedStep == [Promise!Next]_(Promise!vars) => [Mapped!Next]_(Mapped!vars)
  BY DEF Promise!Next, Promise!vars, Promise!Submit, Promise!Succeed, Promise!Fail,
         Promise!Abandon, Promise!RetryByHand, Promise!Remove, Promise!Start, Promise!Recover,
         Promise!Ends, Promise!Turns, Promise!Verdict, Promise!KeyIsFree,
         Mapped!Next, Mapped!vars, Mapped!Submit, Mapped!Succeed, Mapped!Fail, Mapped!Abandon,
         Mapped!RetryByHand, Mapped!Remove, Mapped!Start, Mapped!Recover, Mapped!Ends,
         Mapped!Turns, Mapped!Verdict, Mapped!KeyIsFree

SameView ==
    /\ Mapped!KeyState = Promise!KeyState /\ Mapped!KeyFailed = Promise!KeyFailed
    /\ Mapped!KeyRunner = Promise!KeyRunner /\ Mapped!Keyed = Promise!Keyed

LEMMA MappedView == SameView /\ SameView'
  BY DEF SameView, Mapped!KeyState, Mapped!KeyFailed, Mapped!KeyRunner, Mapped!Keyed, Mapped!Has,
         Promise!KeyState, Promise!KeyFailed, Promise!KeyRunner, Promise!Keyed, Promise!Has

LEMMA MappedKeys == [Mapped!ByKey!Next]_(Mapped!ByKey!vars) => [Promise!ByKey!Next]_(Promise!ByKey!vars)
  BY MappedView
  DEF SameView, Promise!ByKey!Submit, Promise!ByKey!Take, Promise!ByKey!Ends, Promise!ByKey!Done,
      Promise!ByKey!Fail, Promise!ByKey!Lose, Promise!ByKey!Recover,
      Promise!ByKey!RetryByHand, Promise!ByKey!Remove, Promise!ByKey!Sweep,
      Promise!ByKey!Turns, Promise!ByKey!Next, Promise!ByKey!vars,
      Mapped!ByKey!Submit, Mapped!ByKey!Take, Mapped!ByKey!Ends, Mapped!ByKey!Done,
      Mapped!ByKey!Fail, Mapped!ByKey!Lose, Mapped!ByKey!Recover, Mapped!ByKey!RetryByHand,
      Mapped!ByKey!Remove, Mapped!ByKey!Sweep, Mapped!ByKey!Turns, Mapped!ByKey!Next,
      Mapped!ByKey!vars

LEMMA MappedInit == Init => Mapped!KeyInv /\ Promise!ByKey!Init
<1>1. Init => Mapped!Init
  BY QueueInit DEF Promise!Init, Mapped!Init
<1>2. Mapped!Init => Mapped!KeyInv /\ Mapped!ByKey!Init
  BY Mapped!KeyInit
<1>3. Mapped!ByKey!Init => Promise!ByKey!Init
  BY MappedView DEF SameView, Mapped!ByKey!Init, Promise!ByKey!Init
<1> QED BY <1>1, <1>2, <1>3

\* Under the same conditions the rows of every dedupe key, however many there have been,
\* are one job to those who enqueue under the key: absent, waiting or run by one process,
\* and it is ended by that process, the sweep or the console only. Publish is modelled over
\* this queue (queue.ts:165-172).
THEOREM KeyQueueImplemented ==
    ASSUME MaxSilence < StaleAge, DbFaults = FALSE, MediaJobs = {}
    PROVE  Spec => ImplementsKeyQueue
<1> DEFINE Good == TypeOK /\ RunsAreLocked /\ VerdictInv
<1>1. Good /\ Mapped!KeyInv /\ [Next]_vars
        => Mapped!KeyInv' /\ [Promise!ByKey!Next]_(Promise!ByKey!vars)
  <2> SUFFICES ASSUME Good, Mapped!KeyInv, [Next]_vars
               PROVE  Mapped!KeyInv' /\ [Promise!ByKey!Next]_(Promise!ByKey!vars)
    OBVIOUS
  <2>1. [Mapped!Next]_(Mapped!vars)
    BY QueueStep, MappedStep
  <2>2. Mapped!KeyInv' /\ [Mapped!ByKey!Next]_(Mapped!ByKey!vars)
    BY <2>1, Mapped!KeyNext, Mapped!KeyStep
  <2> QED BY <2>2, MappedKeys
<1>2. Spec => []Good
  BY RunsStayLocked, VerdictsStay, TypeCorrect, PTL
<1> HIDE DEF Good
<1> QED BY <1>1, <1>2, MappedInit, PTL DEF Spec, ImplementsKeyQueue, Promise!ByKey!Spec
=============================================================================
