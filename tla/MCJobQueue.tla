----------------------------- MODULE MCJobQueue -----------------------------
(***************************************************************************)
(* Small instances of JobQueue.  One tick is the unit of the backoff; the  *)
(* other times keep their order: a beat is due after one tick, a lock is   *)
(* stale after two, the backoff is capped at two.                          *)
(***************************************************************************)
EXTENDS JobQueue, TLC

CONSTANTS j1, j2, j3, w1, w2, t1, k1

\* j1 and j2 share a dedupe key (a job and its successor), j3 has none.
KeysShared == [j \in Jobs |-> IF j \in {j1, j2} THEN k1 ELSE NoKey]
NoKeys == [j \in Jobs |-> NoKey]
OneTenant == [j \in Jobs |-> t1]
AllLanes == [w \in Workers |-> Jobs]
TwoAttempts == [j \in Jobs |-> 2]
\* The pair of one key may be retried, the third job not (automation.cycle:
\* maxAttempts 1).
OnceForTheThird == [j \in Jobs |-> IF j = j3 THEN 1 ELSE 2]

\* min(BASE_BACKOFF_MS * 2^(attempts-1), MAX_BACKOFF_MS), in whole ticks.  A
\* straggler can read attempts = 0 (after a reset): half the base, below a tick.
BASE_BACKOFF == 1
MAX_BACKOFF == 2
ExpBackoff ==
    [a \in 0..2 |->
        LET doubled == (BASE_BACKOFF * 2^a) \div 2
        IN  IF doubled < MAX_BACKOFF THEN doubled ELSE MAX_BACKOFF]

WorkerSymmetry == Permutations(Workers)
=============================================================================
