----------------------------- MODULE AbstractQueue -----------------------------
(***************************************************************************)
(* What the job queue promises to those who enqueue rows and to the        *)
(* handlers that run them, without times, locks, sweeps or statements: a   *)
(* row is run by one process at a time, it is taken from nobody who still  *)
(* runs it, every verdict follows from the attempts, and a finished row is *)
(* never run again.                                                        *)
(***************************************************************************)
EXTENDS Naturals

CONSTANTS Jobs, Workers, NoKey, DedupeKey, MaxAttempts

VARIABLES
    state,   \* [Jobs -> {"absent", "pending", "running", "done", "failed", "gone"}]
    tries,   \* [Jobs -> Nat]: runs begun since the row was enqueued or retried by hand
    runs     \* [Jobs -> SUBSET Workers]: who executes its handler

vars == <<state, tries, runs>>

Init ==
    /\ state = [j \in Jobs |-> "absent"]
    /\ tries = [j \in Jobs |-> 0]
    /\ runs = [j \in Jobs |-> {}]

KeyIsFree(j) ==
    DedupeKey[j] = NoKey
    \/ \A i \in Jobs : DedupeKey[i] = DedupeKey[j] => state[i] \notin {"pending", "running"}

Turns(j, s) == state' = [state EXCEPT ![j] = s]

Submit(j) ==
    /\ state[j] = "absent"
    /\ KeyIsFree(j)
    /\ Turns(j, "pending")
    /\ UNCHANGED <<tries, runs>>

\* Nobody else runs the row, and the process runs no other.
Start(j, w) ==
    /\ state[j] = "pending"
    /\ tries[j] < MaxAttempts[j]
    /\ runs[j] = {} /\ \A i \in Jobs : w \notin runs[i]
    /\ Turns(j, "running")
    /\ tries' = [tries EXCEPT ![j] = @ + 1]
    /\ runs' = [runs EXCEPT ![j] = {w}]

Ends(j) == runs[j] # {} /\ runs' = [runs EXCEPT ![j] = {}]

Verdict(j) == IF tries[j] < MaxAttempts[j] THEN "pending" ELSE "failed"

Succeed(j) == Ends(j) /\ Turns(j, "done") /\ UNCHANGED tries
Fail(j) == Ends(j) /\ Turns(j, Verdict(j)) /\ UNCHANGED tries

\* A process that dies leaves its row to be found.
Abandon(j) == Ends(j) /\ UNCHANGED <<state, tries>>

\* Abandoned rows are found, several at a time.
Recover(S) ==
    /\ \A j \in S : state[j] = "running" /\ runs[j] = {}
    /\ state' = [j \in Jobs |-> IF j \in S THEN Verdict(j) ELSE state[j]]
    /\ UNCHANGED <<tries, runs>>

RetryByHand(j) ==
    /\ state[j] = "failed"
    /\ KeyIsFree(j)
    /\ Turns(j, "pending")
    /\ tries' = [tries EXCEPT ![j] = 0]
    /\ UNCHANGED runs

Remove(j) ==
    /\ state[j] \in {"pending", "done", "failed"}
    /\ Turns(j, "gone")
    /\ UNCHANGED <<tries, runs>>

Next ==
    \/ \E j \in Jobs :
         \/ Submit(j) \/ Succeed(j) \/ Fail(j) \/ Abandon(j) \/ RetryByHand(j) \/ Remove(j)
         \/ \E w \in Workers : Start(j, w)
    \/ \E S \in SUBSET Jobs : Recover(S)

Spec == Init /\ [][Next]_vars

-----------------------------------------------------------------------------
(* The queue as the users of a dedupe key see it.                          *)

Keyed == {DedupeKey[j] : j \in Jobs} \ {NoKey}
Has(k, s) == \E j \in Jobs : DedupeKey[j] = k /\ state[j] = s

KeyState == [k \in Keyed |-> IF Has(k, "running") THEN "running"
                             ELSE IF Has(k, "pending") THEN "queued" ELSE "none"]
KeyFailed == {k \in Keyed : Has(k, "failed")}
KeyRunner == [k \in Keyed |-> {w \in Workers : \E j \in Jobs : DedupeKey[j] = k /\ w \in runs[j]}]

ByKey == INSTANCE KeyQueue WITH
             Keys <- Keyed, state <- KeyState, failed <- KeyFailed, runner <- KeyRunner
=============================================================================
