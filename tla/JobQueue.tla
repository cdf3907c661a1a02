------------------------------- MODULE JobQueue -------------------------------
(***************************************************************************)
(* The Postgres job queue (pipeline/queue.ts) and the workers that drain   *)
(* it (worker.ts: loop, runJob, main).                                     *)
(*                                                                         *)
(* One SQL statement is one atomic step; everything a worker does between  *)
(* two statements can interleave with the other workers, with the 15-min   *)
(* stale sweep and with the operator console.  A row is a member of Jobs   *)
(* and is used once: a deleted row stays "gone".                           *)
(*                                                                         *)
(* Time is relative.  wait[j] counts the ticks until runAfter and          *)
(* lockAge[j] the ticks since lockedAt was written; lockAge saturates at   *)
(* StaleAge, the age at which requeueStale takes a row back.               *)
(*                                                                         *)
(* lockedAt is compared for equality only, with the value a worker wrote   *)
(* last (ownedLock), and every write stores a fresh timestamp.  holder[j]  *)
(* keeps what that comparison can tell: the worker whose ownedLock equals  *)
(* the row's lockedAt, or Nobody.                                          *)
(*                                                                         *)
(* Which of the claimable rows a claim takes (ORDER BY) is left open.      *)
(***************************************************************************)
EXTENDS Naturals, FiniteSets

CONSTANTS
    Jobs,         \* rows that may ever be inserted
    Workers,      \* worker processes
    Tenants,      \* companies that can be suspended
    NoKey,        \* dedupeKey IS NULL
    Nobody,       \* no worker owns the lock
    NoJob,        \* a worker that runs nothing
    DedupeKey,    \* [Jobs -> keys or NoKey]
    TenantOf,     \* [Jobs -> tenants, or the system scope '*']
    Lane,         \* [Workers -> SUBSET Jobs]: CLAIM_TYPES of the process
    MaxAttempts,  \* [Jobs -> Nat \ {0}]
    Backoff,      \* [attempt -> ticks until the retry]
    Delays,       \* values of opts.delayMs, in ticks
    StaleAge,     \* STALE_LOCK_MS, in ticks
    MaxSilence,   \* longest time a live process leaves its lock untouched
    MediaJobs,    \* content.analyze rows: the purge and media deletion reach them
    DbFaults      \* may a statement fail, or its reply be lost after commit?

ASSUME JobQueueAssumption ==
    /\ Nobody \notin Workers
    /\ NoJob \notin Jobs
    /\ StaleAge \in Nat \ {0}
    /\ MaxSilence \in Nat
    /\ Delays \subseteq Nat
    /\ MaxAttempts \in [Jobs -> Nat \ {0}]
    /\ \A j \in Jobs : \A a \in 0..MaxAttempts[j] : Backoff[a] \in Nat
    /\ Lane \in [Workers -> SUBSET Jobs]
    /\ MediaJobs \subseteq Jobs
    /\ DbFaults \in BOOLEAN

VARIABLES
    status,     \* [Jobs -> Statuses]
    attempts,   \* [Jobs -> Nat]
    wait,       \* [Jobs -> Nat]: runAfter - now, never below 0
    lockAge,    \* [Jobs -> 0..StaleAge]: now - lockedAt while running
    holder,     \* [Jobs -> Workers or Nobody]
    pc,         \* [Workers -> WorkerSteps]
    job,        \* [Workers -> Jobs or NoJob]
    seen,       \* [Workers -> Nat]: the attempts failJob has SELECTed
    beating,    \* [Workers -> BOOLEAN]: the heartbeat interval is armed
    suspended   \* companies whose status is not 'active'

rowVars == <<status, attempts, wait, lockAge, holder>>
workerVars == <<pc, job, seen, beating>>
vars == <<rowVars, workerVars, suspended>>

Statuses == {"absent", "pending", "running", "done", "failed", "gone"}
WorkerSteps == {"down", "idle", "run", "complete", "follow", "fail", "failing"}

\* The steps at which a process is inside runJob with the row still to settle.
Live == {"run", "complete", "fail", "failing"}

TypeOK ==
    /\ status \in [Jobs -> Statuses]
    /\ attempts \in [Jobs -> Nat]
    /\ wait \in [Jobs -> Nat]
    /\ lockAge \in [Jobs -> 0..StaleAge]
    /\ holder \in [Jobs -> Workers \cup {Nobody}]
    /\ pc \in [Workers -> WorkerSteps]
    /\ job \in [Workers -> Jobs \cup {NoJob}]
    /\ \A w \in Workers : pc[w] \in Live \cup {"follow"} => job[w] \in Jobs
    /\ seen \in [Workers -> Nat]
    /\ beating \in [Workers -> BOOLEAN]
    /\ suspended \subseteq Tenants

Init ==
    /\ status = [j \in Jobs |-> "absent"]
    /\ attempts = [j \in Jobs |-> 0]
    /\ wait = [j \in Jobs |-> 0]
    /\ lockAge = [j \in Jobs |-> 0]
    /\ holder = [j \in Jobs |-> Nobody]
    /\ pc = [w \in Workers |-> "idle"]
    /\ job = [w \in Workers |-> NoJob]
    /\ seen = [w \in Workers |-> 0]
    /\ beating = [w \in Workers |-> FALSE]
    /\ suspended = {}

-----------------------------------------------------------------------------
(* Rows.                                                                   *)

InFlight(j) == status[j] \in {"pending", "running"}

\* Faulty variant: an index that covers the waiting rows only.
KeyTakenPendingOnly(j) ==
    /\ DedupeKey[j] # NoKey
    /\ \E i \in Jobs : i # j /\ DedupeKey[i] = DedupeKey[j] /\ status[i] = "pending"

\* The partial unique index on dedupeKey counts in-flight rows only.
KeyTaken(j) ==
    /\ DedupeKey[j] # NoKey
    /\ \E i \in Jobs : i # j /\ DedupeKey[i] = DedupeKey[j] /\ InFlight(i)

\* lockedAt = NULL and a new status; runAfter is t ticks away.
Release(j, s, t) ==
    /\ status' = [status EXCEPT ![j] = s]
    /\ wait' = [wait EXCEPT ![j] = t]
    /\ lockAge' = [lockAge EXCEPT ![j] = 0]
    /\ holder' = [holder EXCEPT ![j] = Nobody]

\* INSERT ... ON CONFLICT DO NOTHING, when no identical job is in flight.
Insert(j, d) ==
    /\ status[j] = "absent"
    /\ ~KeyTaken(j)
    /\ Release(j, "pending", d)
    /\ UNCHANGED attempts

enqueue(j) ==
    /\ \E d \in Delays : Insert(j, d)
    /\ UNCHANGED <<workerVars, suspended>>

-----------------------------------------------------------------------------
(* A worker.                                                               *)

Idle(w) ==
    /\ pc' = [pc EXCEPT ![w] = "idle"]
    /\ job' = [job EXCEPT ![w] = NoJob]
    /\ seen' = [seen EXCEPT ![w] = 0]
    /\ beating' = [beating EXCEPT ![w] = FALSE]

Claimable(w, j) ==
    /\ pc[w] = "idle"
    /\ j \in Lane[w]
    /\ status[j] = "pending"
    /\ wait[j] = 0
    /\ attempts[j] < MaxAttempts[j]
    /\ TenantOf[j] \notin suspended

\* The claiming UPDATE; o is the process that learns the new lockedAt.
Lock(j, o) ==
    /\ status' = [status EXCEPT ![j] = "running"]
    /\ attempts' = [attempts EXCEPT ![j] = @ + 1]
    /\ lockAge' = [lockAge EXCEPT ![j] = 0]
    /\ holder' = [holder EXCEPT ![j] = o]
    /\ UNCHANGED wait

claimJob(w, j) ==
    /\ Claimable(w, j)
    /\ Lock(j, w)
    /\ pc' = [pc EXCEPT ![w] = "run"]
    /\ job' = [job EXCEPT ![w] = j]
    /\ beating' = [beating EXCEPT ![w] = TRUE]
    /\ UNCHANGED <<seen, suspended>>

\* The claim committed but the reply was lost: loop() logs and polls again.
ClaimReplyLost(w, j) ==
    /\ DbFaults
    /\ Claimable(w, j)
    /\ Lock(j, Nobody)
    /\ UNCHANGED <<workerVars, suspended>>

\* The 5-min beat.  No row matches: the lock is lost and beating stops.
heartbeatJob(w) ==
    /\ pc[w] = "run"
    /\ beating[w]
    /\ \/ /\ status[job[w]] = "running"
          /\ holder[job[w]] = w
          /\ lockAge' = [lockAge EXCEPT ![job[w]] = 0]
          /\ UNCHANGED <<holder, beating>>
       \/ /\ ~(status[job[w]] = "running" /\ holder[job[w]] = w)
          /\ beating' = [beating EXCEPT ![w] = FALSE]
          /\ UNCHANGED <<lockAge, holder>>
       \/ /\ DbFaults    \* the beat committed, ownedLock was not advanced
          /\ status[job[w]] = "running"
          /\ holder[job[w]] = w
          /\ lockAge' = [lockAge EXCEPT ![job[w]] = 0]
          /\ holder' = [holder EXCEPT ![job[w]] = Nobody]
          /\ UNCHANGED beating
    /\ UNCHANGED <<status, attempts, wait, pc, job, seen, suspended>>

\* Faulty variant: the job is forgotten before its row is settled.
HandlerEndsForgetting(w) ==
    /\ pc[w] = "run"
    /\ \E next \in {"complete", "fail"} : pc' = [pc EXCEPT ![w] = next]
    /\ job' = [job EXCEPT ![w] = NoJob]
    /\ beating' = [beating EXCEPT ![w] = FALSE]
    /\ UNCHANGED <<rowVars, seen, suspended>>

\* handle(job) returns, or finds the channel's token revoked (the channel is
\* parked and the job completes); or it throws anything else.
HandlerEnds(w) ==
    /\ pc[w] = "run"
    /\ \E next \in {"complete", "fail"} : pc' = [pc EXCEPT ![w] = next]
    /\ beating' = [beating EXCEPT ![w] = FALSE]
    /\ UNCHANGED <<rowVars, job, seen, suspended>>

\* UPDATE ... SET status = 'done' WHERE id: no condition on status or lock.
MarkDone(j) ==
    IF status[j] = "gone"
    THEN UNCHANGED <<status, wait, lockAge, holder>>
    ELSE Release(j, "done", 0)

completeJob(w) ==
    /\ pc[w] = "complete"
    /\ MarkDone(job[w])
    /\ \/ Idle(w)
       \/ /\ pc' = [pc EXCEPT ![w] = "follow"]    \* the handler asked for a successor
          /\ UNCHANGED <<job, seen, beating>>
    /\ UNCHANGED <<attempts, suspended>>

\* completeJob throws, before or after its commit: runJob's catch calls failJob.
CompleteThrows(w) ==
    /\ DbFaults
    /\ pc[w] = "complete"
    /\ \/ MarkDone(job[w])
       \/ UNCHANGED <<status, wait, lockAge, holder>>
    /\ pc' = [pc EXCEPT ![w] = "fail"]
    /\ UNCHANGED <<attempts, job, seen, beating, suspended>>

\* A successor under the same key, enqueued once the row is done; deduped when
\* an identical job is in flight, dropped when the INSERT throws.
EnqueueFollowUp(w) ==
    /\ pc[w] = "follow"
    /\ \/ \E j \in Jobs, d \in Delays :
            /\ DedupeKey[j] = DedupeKey[job[w]]
            /\ Insert(j, d)
       \/ /\ DbFaults \/ \A j \in Jobs : ~(/\ DedupeKey[j] = DedupeKey[job[w]]
                                           /\ status[j] = "absent"
                                           /\ ~KeyTaken(j))
          /\ UNCHANGED <<status, wait, lockAge, holder>>
    /\ Idle(w)
    /\ UNCHANGED <<attempts, suspended>>

\* failJob, first statement: read the attempts.
FailJobRead(w) ==
    /\ pc[w] = "fail"
    /\ IF status[job[w]] = "gone"
       THEN Idle(w)
       ELSE /\ pc' = [pc EXCEPT ![w] = "failing"]
            /\ seen' = [seen EXCEPT ![w] = attempts[job[w]]]
            /\ UNCHANGED <<job, beating>>
    /\ UNCHANGED <<rowVars, suspended>>

\* Faulty variant: without WHERE status = 'running'.
FailRowUnguarded(j, read) ==
    IF read >= MaxAttempts[j]
    THEN Release(j, "failed", 0)
    ELSE Release(j, "pending", Backoff[read])

\* failJob, second statement: the verdict on what was read, WHERE status = 'running'.
FailRow(j, read) ==
    IF status[j] # "running"
    THEN UNCHANGED <<status, wait, lockAge, holder>>
    ELSE IF read >= MaxAttempts[j]
         THEN Release(j, "failed", 0)
         ELSE Release(j, "pending", Backoff[read])

FailJobWrite(w) ==
    /\ pc[w] = "failing"
    /\ FailRow(job[w], seen[w])
    /\ Idle(w)
    /\ UNCHANGED <<attempts, suspended>>

\* The process dies anywhere: OOM, spot preemption, an exception out of loop().
Crash(w) ==
    /\ pc[w] # "down"
    /\ pc' = [pc EXCEPT ![w] = "down"]
    /\ job' = [job EXCEPT ![w] = NoJob]
    /\ seen' = [seen EXCEPT ![w] = 0]
    /\ beating' = [beating EXCEPT ![w] = FALSE]
    /\ holder' = [j \in Jobs |-> IF holder[j] = w THEN Nobody ELSE holder[j]]
    /\ UNCHANGED <<status, attempts, wait, lockAge, suspended>>

-----------------------------------------------------------------------------
(* Recovery, the console and time.                                         *)

\* Faulty variant: the sweep does not look at the age of the lock.
StaleAtAnyAge(j) == status[j] = "running"

Stale(j) == status[j] = "running" /\ lockAge[j] = StaleAge

\* Faulty variant: only failJob knows that the attempts are spent.
ReclaimedAsPending(j) == "pending"

\* A crash never reaches failJob, so exhaustion is judged here too.
Reclaimed(j) == IF attempts[j] >= MaxAttempts[j] THEN "failed" ELSE "pending"

\* One UPDATE over every stale row.
requeueStale ==
    /\ status' = [j \in Jobs |-> IF Stale(j) THEN Reclaimed(j) ELSE status[j]]
    /\ lockAge' = [j \in Jobs |-> IF Stale(j) THEN 0 ELSE lockAge[j]]
    /\ holder' = [j \in Jobs |-> IF Stale(j) THEN Nobody ELSE holder[j]]
    /\ UNCHANGED <<attempts, wait>>

\* The tick of a resident worker.
StaleTick ==
    /\ \E j \in Jobs : Stale(j)
    /\ \E w \in Workers : pc[w] # "down"
    /\ requeueStale
    /\ UNCHANGED <<workerVars, suspended>>

\* main(): the process boots, sweeps the stale rows once and starts to poll.
Boot(w) ==
    /\ pc[w] = "down"
    /\ requeueStale
    /\ Idle(w)
    /\ UNCHANGED suspended

\* pruneDoneJobs, the console's DELETE and the media cascade.  Only the last
\* one reaches a running row.
DeleteRow(j) ==
    /\ \/ status[j] \in {"done", "pending", "failed"}
       \/ status[j] = "running" /\ j \in MediaJobs
    /\ Release(j, "gone", 0)
    /\ UNCHANGED <<attempts, workerVars, suspended>>

\* The console's retry of a failed row; the unique index can refuse it.
RetryFailed(j) ==
    /\ status[j] = "failed"
    /\ ~KeyTaken(j)
    /\ Release(j, "pending", 0)
    /\ attempts' = [attempts EXCEPT ![j] = 0]
    /\ UNCHANGED <<workerVars, suspended>>

\* POST /api/admin/queue/purge: every in-flight content.analyze row starts over.
PurgeReset ==
    LET freed == {j \in MediaJobs : InFlight(j)}
    IN  /\ freed # {}
        /\ status' = [j \in Jobs |-> IF j \in freed THEN "pending" ELSE status[j]]
        /\ attempts' = [j \in Jobs |-> IF j \in freed THEN 0 ELSE attempts[j]]
        /\ wait' = [j \in Jobs |-> IF j \in freed THEN 0 ELSE wait[j]]
        /\ lockAge' = [j \in Jobs |-> IF j \in freed THEN 0 ELSE lockAge[j]]
        /\ holder' = [j \in Jobs |-> IF j \in freed THEN Nobody ELSE holder[j]]
        /\ UNCHANGED <<workerVars, suspended>>

Suspend(t) ==
    /\ t \notin suspended
    /\ suspended' = suspended \cup {t}
    /\ UNCHANGED <<rowVars, workerVars>>

Resume(t) ==
    /\ t \in suspended
    /\ suspended' = suspended \ {t}
    /\ UNCHANGED <<rowVars, workerVars>>

\* A process that still owns its lock beats, or writes its verdict, before
\* MaxSilence is over.  MaxSilence > StaleAge leaves the event loop free to stall.
Tick ==
    /\ \A w \in Workers :
         (pc[w] \in Live /\ holder[job[w]] = w) => lockAge[job[w]] < MaxSilence
    /\ wait' = [j \in Jobs |-> IF wait[j] = 0 THEN 0 ELSE wait[j] - 1]
    /\ lockAge' = [j \in Jobs |->
                     IF status[j] = "running" /\ lockAge[j] < StaleAge
                     THEN lockAge[j] + 1 ELSE lockAge[j]]
    /\ UNCHANGED <<status, attempts, holder, workerVars, suspended>>

-----------------------------------------------------------------------------
Next ==
    \/ \E j \in Jobs : enqueue(j) \/ DeleteRow(j) \/ RetryFailed(j)
    \/ \E w \in Workers, j \in Jobs : claimJob(w, j) \/ ClaimReplyLost(w, j)
    \/ \E w \in Workers :
         \/ heartbeatJob(w) \/ HandlerEnds(w)
         \/ completeJob(w) \/ CompleteThrows(w) \/ EnqueueFollowUp(w)
         \/ FailJobRead(w) \/ FailJobWrite(w)
         \/ Crash(w) \/ Boot(w)
    \/ StaleTick
    \/ PurgeReset
    \/ \E t \in Tenants : Suspend(t) \/ Resume(t)
    \/ Tick

Spec == Init /\ [][Next]_vars

\* What the deployment guarantees: time passes, a process that is up makes
\* progress (every handler ends: each has its own timeouts), a dead one is
\* started again (systemd, Cloud Scheduler), and a row that is claimable again
\* and again is claimed (a worker polls every five seconds, oldest row first).
Fairness ==
    /\ WF_vars(Tick)
    /\ WF_vars(StaleTick)
    /\ \A w \in Workers :
         /\ WF_vars(heartbeatJob(w))
         /\ WF_vars(HandlerEnds(w))
         /\ WF_vars(completeJob(w) \/ CompleteThrows(w))
         /\ WF_vars(EnqueueFollowUp(w))
         /\ WF_vars(FailJobRead(w))
         /\ WF_vars(FailJobWrite(w))
         /\ WF_vars(Boot(w))
    /\ \A j \in Jobs : SF_vars(\E w \in Workers : claimJob(w, j))

FairSpec == Spec /\ Fairness

-----------------------------------------------------------------------------
(* Properties.                                                             *)

\* The dedupe index holds: no two in-flight rows carry the same key, whatever
\* stragglers, sweeps, retries and purges do to the rows (queue.ts:165-172).
OneInFlightPerKey ==
    \A i, j \in Jobs :
        (i # j /\ DedupeKey[i] # NoKey /\ DedupeKey[i] = DedupeKey[j])
        => ~(InFlight(i) /\ InFlight(j))

\* A finished job is never run again: a done row can only be deleted, even when
\* failJob comes after completeJob (queue.ts:337-339).
DoneIsFinal ==
    [][\A j \in Jobs : status[j] = "done" => status'[j] \in {"done", "gone"}]_vars

\* The row's status agrees with its attempts: a pending row can still be claimed
\* (else it waits forever and blocks its key) and a failed row has spent them all.
VerdictMatchesAttempts ==
    \A j \in Jobs :
        /\ status[j] = "pending" => attempts[j] < MaxAttempts[j]
        /\ status[j] = "failed" => attempts[j] = MaxAttempts[j]

\* A worker executes w's handler for j.
Running(w, j) == pc[w] \in Live /\ job[w] = j

\* While the processes keep their heartbeats, two of them never execute the same
\* job, nor two jobs with the same key; rows the console resets are exempt.
RunExclusive ==
    \A v, w \in Workers : \A i, j \in Jobs \ MediaJobs :
        (Running(v, i) /\ Running(w, j) /\ v # w)
        => i # j /\ (DedupeKey[i] = NoKey \/ DedupeKey[i] # DedupeKey[j])

Runs == [j \in Jobs |-> {w \in Workers : Running(w, j)}]
Promise == INSTANCE AbstractQueue WITH state <- status, tries <- attempts, runs <- Runs

\* While the processes keep their heartbeats and no statement is lost, rows behave as the
\* queue's users are told: a row is taken from nobody who still runs it, its verdict follows
\* from its attempts, and a finished one is final (queue.ts:1-12, docs/ops/worker-queue.md).
ImplementsQueue == Promise!Spec

\* Under the same conditions those who enqueue under a dedupe key may take all its rows, one
\* after the other, for a single job that is absent, waiting or running, and that only its
\* own process, the sweep or the console ends (queue.ts:165-172, publish-dispatch.ts:307-321).
ImplementsKeyQueue == Promise!ByKey!Spec

\* Every job that is enqueued is eventually finished, given up or deleted,
\* through crashes and crash loops, once its company stays active (queue.ts:354-358).
EveryJobSettles ==
    (<>[](suspended = {})) => \A j \in Jobs : InFlight(j) ~> ~InFlight(j)
=============================================================================
