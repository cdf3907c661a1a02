-------------------------------- MODULE KeyQueue --------------------------------
(***************************************************************************)
(* The job queue as those see it who enqueue under a dedupe key and do not *)
(* count rows: a key has a job in flight or none, one process at a time    *)
(* runs it, and a job that was given up can be started again by hand.      *)
(***************************************************************************)
CONSTANTS Keys, Workers

VARIABLES
    state,   \* [Keys -> {"none", "queued", "running"}]: the row in flight
    failed,  \* the keys with a row that was given up
    runner   \* [Keys -> SUBSET Workers]: who executes the handler

vars == <<state, failed, runner>>

Init ==
    /\ state = [k \in Keys |-> "none"]
    /\ failed = {}
    /\ runner = [k \in Keys |-> {}]

Turns(k, s) == state' = [state EXCEPT ![k] = s]

Submit(k) ==
    /\ state[k] = "none"
    /\ Turns(k, "queued")
    /\ UNCHANGED <<failed, runner>>

\* Nobody else runs the key, and the process runs no other.
Take(k, w) ==
    /\ state[k] = "queued"
    /\ runner[k] = {} /\ \A i \in Keys : w \notin runner[i]
    /\ Turns(k, "running")
    /\ runner' = [runner EXCEPT ![k] = {w}]
    /\ UNCHANGED failed

Ends(k) == state[k] = "running" /\ runner[k] # {} /\ runner' = [runner EXCEPT ![k] = {}]

Done(k) == Ends(k) /\ Turns(k, "none") /\ UNCHANGED failed

\* The handler failed: the job waits for its next attempt, or has none left.
Fail(k) ==
    /\ Ends(k)
    /\ \/ Turns(k, "queued") /\ UNCHANGED failed
       \/ Turns(k, "none") /\ failed' = failed \cup {k}

\* A process that dies leaves its job to be found.
Lose(k) == Ends(k) /\ UNCHANGED <<state, failed>>

\* The jobs of S are found, those of G have no attempts left.
Recover(S, G) ==
    /\ \A k \in S : state[k] = "running" /\ runner[k] = {}
    /\ state' = [k \in Keys |-> IF k \in G THEN "none" ELSE IF k \in S THEN "queued" ELSE state[k]]
    /\ failed' = failed \cup G
    /\ UNCHANGED runner

\* The key may have other rows that were given up.
RetryByHand(k) ==
    /\ state[k] = "none" /\ k \in failed
    /\ Turns(k, "queued")
    /\ failed' \in {failed, failed \ {k}}
    /\ UNCHANGED runner

\* A row that waits, or one that was given up, is deleted.
Remove(k) ==
    /\ \/ state[k] = "queued" /\ Turns(k, "none") /\ UNCHANGED failed
       \/ k \in failed /\ failed' = failed \ {k} /\ UNCHANGED state
    /\ UNCHANGED runner

Sweep == \E S \in SUBSET Keys : \E G \in SUBSET S : Recover(S, G)

Next ==
    \/ Sweep
    \/ \E k \in Keys :
         \/ Submit(k) \/ Done(k) \/ Fail(k) \/ Lose(k) \/ RetryByHand(k) \/ Remove(k)
         \/ \E w \in Workers : Take(k, w)

Spec == Init /\ [][Next]_vars
=============================================================================
