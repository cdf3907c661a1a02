-------------------------- MODULE AbstractQueueProofs --------------------------
(***************************************************************************)
(* Proofs about AbstractQueue: the rows of a dedupe key behave, one after  *)
(* the other, as the single job of KeyQueue.                               *)
(***************************************************************************)
EXTENDS AbstractQueue, TLAPS

States == {"absent", "pending", "running", "done", "failed", "gone"}
Open == {"pending", "running"}

\* Rows that are run are running, and a key has one row in flight.
KeyInv ==
    /\ state \in [Jobs -> States]
    /\ runs \in [Jobs -> SUBSET Workers]
    /\ \A j \in Jobs : runs[j] # {} => state[j] = "running"
    /\ \A i, j \in Jobs : (i # j /\ DedupeKey[i] # NoKey /\ DedupeKey[i] = DedupeKey[j])
                          => ~(state[i] \in Open /\ state[j] \in Open)

\* No other row of the key is in flight.
Alone(j) == \A i \in Jobs \ {j} : DedupeKey[i] = DedupeKey[j] => state[i] \notin Open

\* What the key shows of the row in flight.
View(s) == IF s = "running" THEN "running" ELSE IF s = "pending" THEN "queued" ELSE "none"

LEMMA OpenAlone ==
    ASSUME KeyInv, NEW j \in Jobs, DedupeKey[j] # NoKey, state[j] \in Open
    PROVE  Alone(j)
  BY DEF KeyInv, Alone

LEMMA FreeAlone ==
    ASSUME NEW j \in Jobs, DedupeKey[j] # NoKey, KeyIsFree(j)
    PROVE  Alone(j) /\ state[j] \notin Open
  BY DEF KeyIsFree, Alone, Open

-----------------------------------------------------------------------------
(* One row changes.                                                        *)

LEMMA VerdictOpen == \A j : Verdict(j) \in {"pending", "failed"}
  BY DEF Verdict

\* A row that turns, in flight or not, keeps the index.
LEMMA TurnsKeep ==
    ASSUME KeyInv, NEW j \in Jobs, NEW s \in States, Turns(j, s),
           DedupeKey[j] # NoKey /\ s \in Open => Alone(j),
           runs' \in [Jobs -> SUBSET Workers],
           \A i \in Jobs \ {j} : runs'[i] # {} => runs[i] # {},
           runs'[j] # {} => s = "running"
    PROVE  KeyInv'
  BY DEF KeyInv, Turns, Alone

LEMMA KeyNext == KeyInv /\ [Next]_vars => KeyInv'
<1> SUFFICES ASSUME KeyInv, [Next]_vars PROVE KeyInv'
  OBVIOUS
<1>1. ASSUME NEW j \in Jobs, Submit(j) PROVE KeyInv'
  BY <1>1, FreeAlone, TurnsKeep DEF Submit, States, Open, KeyInv
<1>2. ASSUME NEW j \in Jobs, NEW w \in Workers, Start(j, w) PROVE KeyInv'
  BY <1>2, OpenAlone, TurnsKeep DEF Start, States, Open, KeyInv
<1>3. ASSUME NEW j \in Jobs, Succeed(j) PROVE KeyInv'
  BY <1>3, TurnsKeep DEF Succeed, Ends, States, Open, KeyInv
<1>4. ASSUME NEW j \in Jobs, Fail(j) PROVE KeyInv'
  <2>1. state[j] \in Open /\ Verdict(j) \in States
    BY <1>4, VerdictOpen DEF Fail, Ends, KeyInv, Open, States
  <2> QED
    BY <1>4, <2>1, OpenAlone, TurnsKeep DEF Fail, Ends, KeyInv
<1>5. ASSUME NEW j \in Jobs, Abandon(j) PROVE KeyInv'
  BY <1>5 DEF Abandon, Ends, KeyInv
<1>6. ASSUME NEW j \in Jobs, RetryByHand(j) PROVE KeyInv'
  BY <1>6, FreeAlone, TurnsKeep DEF RetryByHand, States, Open, KeyInv
<1>7. ASSUME NEW j \in Jobs, Remove(j) PROVE KeyInv'
  BY <1>7, TurnsKeep DEF Remove, States, Open, KeyInv
<1>8. ASSUME NEW S \in SUBSET Jobs, Recover(S) PROVE KeyInv'
  <2>1. \A j \in Jobs : /\ state'[j] = IF j \in S THEN Verdict(j) ELSE state[j]
                        /\ j \in S => state[j] = "running" /\ runs[j] = {}
    BY <1>8 DEF Recover
  <2>2. \A j \in Jobs : state'[j] \in States /\ (state'[j] \in Open => state[j] \in Open)
    BY <2>1, VerdictOpen DEF KeyInv, States, Open
  <2>3. state' \in [Jobs -> States] /\ runs' = runs
    BY <1>8, <2>2 DEF Recover
  <2> QED
    BY <2>1, <2>2, <2>3 DEF KeyInv
<1>9. CASE UNCHANGED vars
  BY <1>9 DEF vars, KeyInv
<1> QED
  BY <1>1, <1>2, <1>3, <1>4, <1>5, <1>6, <1>7, <1>8, <1>9 DEF Next

-----------------------------------------------------------------------------
(* What the key shows of it.                                               *)

\* A row without a key is not seen.
LEMMA KeylessUnseen ==
    ASSUME KeyInv, NEW j \in Jobs, DedupeKey[j] = NoKey,
           \A i \in Jobs \ {j} : state'[i] = state[i] /\ runs'[i] = runs[i]
    PROVE  UNCHANGED ByKey!vars
<1>1. \A k \in Keyed, s \in States : Has(k, s)' <=> Has(k, s)
  BY DEF Keyed, Has
<1>2. KeyState' = KeyState
  BY <1>1 DEF KeyState, States
<1>3. KeyFailed' = KeyFailed
  BY <1>1 DEF KeyFailed, States
<1>4. KeyRunner' = KeyRunner
  BY DEF KeyRunner, Keyed
<1> QED
  BY <1>2, <1>3, <1>4 DEF ByKey!vars

\* The row that is alone in flight is what its key shows.
LEMMA Shows ==
    ASSUME KeyInv, NEW j \in Jobs, NEW k \in Keyed, k = DedupeKey[j], Alone(j)
    PROVE  /\ KeyState[k] = View(state[j])
           /\ KeyRunner[k] = runs[j]
<1>1. \A s \in Open : Has(k, s) <=> state[j] = s
  BY DEF Has, Alone
<1>2. KeyState[k] = View(state[j])
  BY <1>1 DEF KeyState, View, Open
<1>3. \A i \in Jobs \ {j} : DedupeKey[i] = k => runs[i] = {}
  BY DEF Alone, KeyInv, Open
<1>4. KeyRunner[k] = {w \in Workers : \E i \in Jobs : DedupeKey[i] = k /\ w \in runs[i]}
  BY DEF KeyRunner
<1>5. runs[j] \subseteq Workers
  BY DEF KeyInv
<1> QED
  BY <1>2, <1>3, <1>4, <1>5

LEMMA ShowsNext ==
    ASSUME KeyInv, NEW j \in Jobs, NEW k \in Keyed, k = DedupeKey[j], Alone(j),
           NEW s \in States, Turns(j, s)
    PROVE  KeyState' = [KeyState EXCEPT ![k] = View(s)]
<1>1. \A i \in Jobs : state'[i] = IF i = j THEN s ELSE state[i]
  BY DEF Turns, KeyInv
<1>2. \A t \in Open : Has(k, t)' <=> s = t
  BY <1>1 DEF Has, Alone
<1>3. \A l \in Keyed \ {k}, t \in Open : Has(l, t)' <=> Has(l, t)
  BY <1>1 DEF Has
<1>4. ASSUME NEW l \in Keyed PROVE KeyState'[l] = IF l = k THEN View(s) ELSE KeyState[l]
  BY <1>2, <1>3 DEF KeyState, View, Open
<1>5. KeyState' = [l \in Keyed |-> KeyState'[l]] /\ KeyState = [l \in Keyed |-> KeyState[l]]
  BY DEF KeyState
<1> QED
  BY <1>4, <1>5

\* A row that neither was nor is in flight is not seen in the key's state.
LEMMA RestHidden ==
    ASSUME KeyInv, NEW j \in Jobs, NEW s \in States, Turns(j, s), s \notin Open, state[j] \notin Open
    PROVE  KeyState' = KeyState
<1>1. \A i \in Jobs : state'[i] = IF i = j THEN s ELSE state[i]
  BY DEF Turns, KeyInv
<1>2. \A l \in Keyed, t \in Open : Has(l, t)' <=> Has(l, t)
  BY <1>1 DEF Has
<1> QED
  BY <1>2 DEF KeyState, Open

\* The rows that were given up.
LEMMA FailedNext ==
    ASSUME KeyInv, NEW j \in Jobs, NEW k \in Keyed, k = DedupeKey[j], NEW s \in States, Turns(j, s)
    PROVE  /\ s = "failed" => KeyFailed' = KeyFailed \cup {k}
           /\ s # "failed" /\ state[j] # "failed" => KeyFailed' = KeyFailed
           /\ state[j] = "failed" => k \in KeyFailed
           /\ s # "failed" => KeyFailed' \in {KeyFailed, KeyFailed \ {k}}
<1>1. \A i \in Jobs : state'[i] = IF i = j THEN s ELSE state[i]
  BY DEF Turns, KeyInv
<1>2. \A l \in Keyed \ {k} : Has(l, "failed")' <=> Has(l, "failed")
  BY <1>1 DEF Has
<1>3. s = "failed" => Has(k, "failed")'
  BY <1>1 DEF Has
<1>4. s # "failed" /\ state[j] # "failed" => (Has(k, "failed")' <=> Has(k, "failed"))
  BY <1>1 DEF Has
<1>5. s # "failed" /\ Has(k, "failed")' => Has(k, "failed")
  BY <1>1 DEF Has
<1>6. state[j] = "failed" => Has(k, "failed")
  BY DEF Has
<1>7. KeyFailed \subseteq Keyed /\ KeyFailed' \subseteq Keyed
  BY DEF KeyFailed
<1>8. \A l \in Keyed : (l \in KeyFailed <=> Has(l, "failed")) /\ (l \in KeyFailed' <=> Has(l, "failed")')
  BY DEF KeyFailed
<1>9. ASSUME s # "failed" PROVE KeyFailed' \in {KeyFailed, KeyFailed \ {k}}
  <2>1. CASE Has(k, "failed")'
    <3>1. \A l \in Keyed : l \in KeyFailed' <=> l \in KeyFailed
      BY <1>2, <1>5, <1>8, <1>9, <2>1
    <3> QED
      BY <1>7, <3>1
  <2>2. CASE ~Has(k, "failed")'
    <3>1. \A l \in Keyed : l \in KeyFailed' <=> l \in KeyFailed /\ l # k
      BY <1>2, <1>8, <2>2
    <3>2. KeyFailed' = KeyFailed \ {k}
      BY <1>7, <3>1
    <3> QED
      BY <3>2
  <2> QED
    BY <2>1, <2>2
<1>10. s = "failed" => KeyFailed' = KeyFailed \cup {k}
  <2>1. s = "failed" => \A l \in Keyed : l \in KeyFailed' <=> l \in KeyFailed \/ l = k
    BY <1>2, <1>3, <1>8
  <2> QED
    BY <1>7, <2>1
<1>11. s # "failed" /\ state[j] # "failed" => KeyFailed' = KeyFailed
  <2>1. s # "failed" /\ state[j] # "failed" => \A l \in Keyed : l \in KeyFailed' <=> l \in KeyFailed
    BY <1>2, <1>4, <1>8
  <2> QED
    BY <1>7, <2>1
<1> QED
  BY <1>6, <1>8, <1>9, <1>10, <1>11

\* Who runs the key.
LEMMA RunnerNext ==
    ASSUME KeyInv, NEW j \in Jobs, NEW k \in Keyed, k = DedupeKey[j], Alone(j),
           NEW R \in SUBSET Workers, runs' = [runs EXCEPT ![j] = R]
    PROVE  KeyRunner' = [KeyRunner EXCEPT ![k] = R]
<1>1. \A i \in Jobs : runs'[i] = IF i = j THEN R ELSE runs[i]
  BY DEF KeyInv
<1>2. \A i \in Jobs \ {j} : DedupeKey[i] = k => runs[i] = {}
  BY DEF Alone, KeyInv, Open
<1>3. ASSUME NEW l \in Keyed PROVE KeyRunner'[l] = IF l = k THEN R ELSE KeyRunner[l]
  <2>1. /\ KeyRunner'[l] = {w \in Workers : \E i \in Jobs : DedupeKey[i] = l /\ w \in runs'[i]}
        /\ KeyRunner[l] = {w \in Workers : \E i \in Jobs : DedupeKey[i] = l /\ w \in runs[i]}
    BY DEF KeyRunner
  <2> QED
    BY <1>1, <1>2, <2>1
<1>4. KeyRunner' = [l \in Keyed |-> KeyRunner'[l]] /\ KeyRunner = [l \in Keyed |-> KeyRunner[l]]
  BY DEF KeyRunner
<1> QED
  BY <1>3, <1>4

-----------------------------------------------------------------------------
(* Every step of the rows is a step of their key, or none.                 *)

\* The rows of a key are taken together: those of S are found by the sweep
LEMMA RecoverStep ==
    ASSUME KeyInv, NEW S \in SUBSET Jobs, Recover(S)
    PROVE  ByKey!Sweep
<1> DEFINE F == {k \in Keyed : \E j \in S : DedupeKey[j] = k}
           G == {k \in Keyed : \E j \in S : DedupeKey[j] = k /\ Verdict(j) = "failed"}
<1>1. \A j \in Jobs : /\ state'[j] = IF j \in S THEN Verdict(j) ELSE state[j]
                      /\ j \in S => state[j] = "running" /\ runs[j] = {}
  BY DEF Recover
<1>2. ASSUME NEW j \in S, NEW k \in Keyed, DedupeKey[j] = k
      PROVE  /\ KeyState[k] = "running" /\ KeyRunner[k] = {}
             /\ \A i \in Jobs \ {j} : DedupeKey[i] = k => state[i] \notin Open /\ i \notin S
  <2>1. Alone(j)
    BY <1>1, <1>2, OpenAlone DEF Open, Keyed
  <2> QED
    BY <1>1, <1>2, <2>1, Shows DEF View, Alone, Open
<1>3. ASSUME NEW k \in Keyed
      PROVE  KeyState'[k] = IF k \in G THEN "none" ELSE IF k \in F THEN "queued" ELSE KeyState[k]
  <2>1. CASE k \in F
    <3>1. PICK j \in S : DedupeKey[j] = k
      BY <2>1
    <3>2. state'[j] = Verdict(j) /\ \A i \in Jobs \ {j} : DedupeKey[i] = k => state'[i] \notin Open
      BY <1>1, <1>2, <3>1
    <3>3. Has(k, "running")' <=> FALSE
      BY <3>1, <3>2, VerdictOpen DEF Has, Open
    <3>4. Has(k, "pending")' <=> Verdict(j) = "pending"
      BY <3>1, <3>2 DEF Has, Open
    <3>5. k \in G <=> Verdict(j) = "failed"
      BY <1>2, <3>1
    <3> QED
      BY <2>1, <3>3, <3>4, <3>5, VerdictOpen DEF KeyState
  <2>2. CASE k \notin F
    <3>1. \A i \in Jobs : DedupeKey[i] = k => state'[i] = state[i]
      BY <1>1, <2>2
    <3>2. \A t \in Open : Has(k, t)' <=> Has(k, t)
      BY <3>1 DEF Has
    <3> QED
      BY <2>2, <3>2 DEF KeyState, Open
  <2> QED
    BY <2>1, <2>2
<1>4. KeyState' = [k \in Keyed |-> IF k \in G THEN "none" ELSE IF k \in F THEN "queued" ELSE KeyState[k]]
  <2>1. KeyState' = [k \in Keyed |-> KeyState'[k]]
    BY DEF KeyState
  <2> QED
    BY <1>3, <2>1
<1>5. KeyFailed' = KeyFailed \cup G
  <2>1. ASSUME NEW k \in Keyed PROVE Has(k, "failed")' <=> Has(k, "failed") \/ k \in G
    BY <1>1 DEF Has
  <2> QED
    BY <2>1 DEF KeyFailed
<1>6. KeyRunner' = KeyRunner
  BY DEF Recover, KeyRunner
<1>7. ByKey!Recover(F, G)
  BY <1>2, <1>4, <1>5, <1>6 DEF ByKey!Recover
<1>8. F \in SUBSET Keyed /\ G \in SUBSET F
  OBVIOUS
<1> QED
  BY <1>7, <1>8 DEF ByKey!Sweep

LEMMA KeyStep == KeyInv /\ [Next]_vars => [ByKey!Next]_(ByKey!vars)
<1> SUFFICES ASSUME KeyInv, [Next]_vars PROVE [ByKey!Next]_(ByKey!vars)
  OBVIOUS
<1> DEFINE Key(j) == DedupeKey[j]
<1>1. ASSUME NEW j \in Jobs, Key(j) = NoKey,
             \/ Submit(j) \/ Succeed(j) \/ Fail(j) \/ Abandon(j) \/ RetryByHand(j) \/ Remove(j)
             \/ \E w \in Workers : Start(j, w)
      PROVE  UNCHANGED ByKey!vars
  <2>1. \A i \in Jobs \ {j} : state'[i] = state[i] /\ runs'[i] = runs[i]
    BY <1>1 DEF Submit, Succeed, Fail, Abandon, RetryByHand, Remove, Start, Ends, Turns, KeyInv
  <2> QED
    BY <1>1, <2>1, KeylessUnseen
<1>2. ASSUME NEW j \in Jobs, Key(j) # NoKey PROVE Key(j) \in Keyed
  BY <1>2 DEF Keyed
<1>3. ASSUME NEW j \in Jobs, Key(j) # NoKey, Submit(j) PROVE ByKey!Submit(Key(j))
  <2>1. Alone(j) /\ state[j] = "absent" /\ Turns(j, "pending") /\ runs' = runs
    BY <1>3, FreeAlone DEF Submit
  <2>2. KeyState[Key(j)] = "none" /\ KeyState' = [KeyState EXCEPT ![Key(j)] = "queued"]
    BY <1>2, <1>3, <2>1, Shows, ShowsNext DEF View, States
  <2>3. KeyFailed' = KeyFailed
    BY <1>2, <1>3, <2>1, FailedNext DEF States
  <2>4. KeyRunner' = KeyRunner
    BY <2>1 DEF KeyRunner
  <2> QED
    BY <2>2, <2>3, <2>4 DEF ByKey!Submit, ByKey!Turns
<1>4. ASSUME NEW j \in Jobs, NEW w \in Workers, Key(j) # NoKey, Start(j, w)
      PROVE  ByKey!Take(Key(j), w)
  <2>1. /\ state[j] = "pending" /\ Turns(j, "running") /\ runs' = [runs EXCEPT ![j] = {w}]
        /\ runs[j] = {} /\ \A i \in Jobs : w \notin runs[i]
    BY <1>4 DEF Start
  <2>2. Alone(j)
    BY <1>4, <2>1, OpenAlone DEF Open
  <2>3. KeyState[Key(j)] = "queued" /\ KeyState' = [KeyState EXCEPT ![Key(j)] = "running"]
    BY <1>2, <1>4, <2>1, <2>2, Shows, ShowsNext DEF View, States
  <2>4. KeyFailed' = KeyFailed
    BY <1>2, <1>4, <2>1, FailedNext DEF States
  <2>5. KeyRunner[Key(j)] = {} /\ KeyRunner' = [KeyRunner EXCEPT ![Key(j)] = {w}]
    <3>1. {w} \in SUBSET Workers
      OBVIOUS
    <3>2. KeyRunner' = [KeyRunner EXCEPT ![Key(j)] = {w}]
      BY <1>2, <1>4, <2>1, <2>2, <3>1, RunnerNext
    <3> QED
      BY <1>2, <1>4, <2>1, <2>2, <3>2, Shows
  <2>6. \A k \in Keyed : w \notin KeyRunner[k]
    BY <2>1 DEF KeyRunner
  <2> QED
    BY <2>3, <2>4, <2>5, <2>6 DEF ByKey!Take, ByKey!Turns
<1>5. ASSUME NEW j \in Jobs, Key(j) # NoKey, Ends(j)
      PROVE  Alone(j) /\ state[j] = "running" /\ ByKey!Ends(Key(j))
  <2>1. state[j] = "running" /\ runs[j] # {} /\ runs' = [runs EXCEPT ![j] = {}]
    BY <1>5 DEF Ends, KeyInv
  <2>2. Alone(j)
    BY <1>5, <2>1, OpenAlone DEF Open
  <2>3. KeyState[Key(j)] = "running" /\ KeyRunner[Key(j)] # {}
    BY <1>2, <1>5, <2>1, <2>2, Shows DEF View
  <2>4. KeyRunner' = [KeyRunner EXCEPT ![Key(j)] = {}]
    BY <1>2, <1>5, <2>1, <2>2, RunnerNext
  <2> QED
    BY <2>1, <2>2, <2>3, <2>4 DEF ByKey!Ends
<1>6. ASSUME NEW j \in Jobs, Key(j) # NoKey, Succeed(j) PROVE ByKey!Done(Key(j))
  <2>1. Ends(j) /\ Turns(j, "done")
    BY <1>6 DEF Succeed
  <2>2. KeyState' = [KeyState EXCEPT ![Key(j)] = "none"] /\ KeyFailed' = KeyFailed
    BY <1>2, <1>5, <1>6, <2>1, ShowsNext, FailedNext DEF View, States
  <2> QED
    BY <1>5, <1>6, <2>1, <2>2 DEF ByKey!Done, ByKey!Turns
<1>7. ASSUME NEW j \in Jobs, Key(j) # NoKey, Fail(j) PROVE ByKey!Fail(Key(j))
  <2>1. Ends(j) /\ Turns(j, Verdict(j)) /\ Verdict(j) \in {"pending", "failed"}
    BY <1>7, VerdictOpen DEF Fail
  <2>2. CASE Verdict(j) = "pending"
    <3>1. KeyState' = [KeyState EXCEPT ![Key(j)] = "queued"] /\ KeyFailed' = KeyFailed
      BY <1>2, <1>5, <1>7, <2>1, <2>2, ShowsNext, FailedNext DEF View, States
    <3> QED
      BY <1>5, <1>7, <2>1, <3>1 DEF ByKey!Fail, ByKey!Turns
  <2>3. CASE Verdict(j) = "failed"
    <3>1. KeyState' = [KeyState EXCEPT ![Key(j)] = "none"] /\ KeyFailed' = KeyFailed \cup {Key(j)}
      BY <1>2, <1>5, <1>7, <2>1, <2>3, ShowsNext, FailedNext DEF View, States
    <3> QED
      BY <1>5, <1>7, <2>1, <3>1 DEF ByKey!Fail, ByKey!Turns
  <2> QED
    BY <2>1, <2>2, <2>3
<1>8. ASSUME NEW j \in Jobs, Key(j) # NoKey, Abandon(j) PROVE ByKey!Lose(Key(j))
  <2>1. Ends(j) /\ state' = state
    BY <1>8 DEF Abandon
  <2>2. KeyState' = KeyState /\ KeyFailed' = KeyFailed
    BY <2>1 DEF KeyState, KeyFailed, Has
  <2> QED
    BY <1>5, <1>8, <2>1, <2>2 DEF ByKey!Lose
<1>9. ASSUME NEW j \in Jobs, Key(j) # NoKey, RetryByHand(j) PROVE ByKey!RetryByHand(Key(j))
  <2>1. Alone(j) /\ state[j] = "failed" /\ Turns(j, "pending") /\ runs' = runs
    BY <1>9, FreeAlone DEF RetryByHand
  <2>2. KeyState[Key(j)] = "none" /\ KeyState' = [KeyState EXCEPT ![Key(j)] = "queued"]
    BY <1>2, <1>9, <2>1, Shows, ShowsNext DEF View, States
  <2>3. Key(j) \in KeyFailed /\ KeyFailed' \in {KeyFailed, KeyFailed \ {Key(j)}}
    BY <1>2, <1>9, <2>1, FailedNext DEF States
  <2>4. KeyRunner' = KeyRunner
    BY <2>1 DEF KeyRunner
  <2> QED
    BY <2>2, <2>3, <2>4 DEF ByKey!RetryByHand, ByKey!Turns
<1>10. ASSUME NEW j \in Jobs, Key(j) # NoKey, Remove(j)
       PROVE  ByKey!Remove(Key(j)) \/ UNCHANGED ByKey!vars
  <2>1. state[j] \in {"pending", "done", "failed"} /\ Turns(j, "gone") /\ runs' = runs
    BY <1>10 DEF Remove
  <2>2. KeyRunner' = KeyRunner
    BY <2>1 DEF KeyRunner
  <2>3. CASE state[j] = "pending"
    <3>1. Alone(j)
      BY <1>10, <2>3, OpenAlone DEF Open
    <3>2. /\ KeyState[Key(j)] = "queued" /\ KeyState' = [KeyState EXCEPT ![Key(j)] = "none"]
          /\ KeyFailed' = KeyFailed
      BY <1>2, <1>10, <2>1, <2>3, <3>1, Shows, ShowsNext, FailedNext DEF View, States
    <3> QED
      BY <2>2, <3>2 DEF ByKey!Remove, ByKey!Turns
  <2>4. CASE state[j] # "pending"
    <3>1. KeyState' = KeyState
      BY <2>1, <2>4, RestHidden DEF States, Open
    <3>2. /\ KeyFailed' \in {KeyFailed, KeyFailed \ {Key(j)}}
          /\ state[j] = "failed" => Key(j) \in KeyFailed
          /\ state[j] # "failed" => KeyFailed' = KeyFailed
      BY <1>2, <1>10, <2>1, FailedNext DEF States
    <3>3. KeyFailed' = KeyFailed \/ (Key(j) \in KeyFailed /\ KeyFailed' = KeyFailed \ {Key(j)})
      BY <3>2
    <3> QED
      BY <2>2, <3>1, <3>3 DEF ByKey!Remove, ByKey!vars
  <2> QED
    BY <2>3, <2>4
<1>11. ASSUME NEW S \in SUBSET Jobs, Recover(S) PROVE ByKey!Sweep
  BY <1>11, RecoverStep
<1>12. CASE UNCHANGED vars
  BY <1>12 DEF vars, ByKey!vars, KeyState, KeyFailed, KeyRunner, Has
<1>13. ASSUME NEW j \in Jobs,
              \/ Submit(j) \/ Succeed(j) \/ Fail(j) \/ Abandon(j) \/ RetryByHand(j) \/ Remove(j)
              \/ \E w \in Workers : Start(j, w)
       PROVE  [ByKey!Next]_(ByKey!vars)
  <2>1. CASE Key(j) = NoKey
    BY <1>1, <1>13, <2>1
  <2>2. CASE Key(j) # NoKey
    <3> HIDE DEF Key
    <3> QED
      BY <1>2, <1>3, <1>4, <1>6, <1>7, <1>8, <1>9, <1>10, <1>13, <2>2 DEF ByKey!Next
  <2> QED
    BY <2>1, <2>2
<1> QED
  BY <1>11, <1>12, <1>13 DEF Next, ByKey!Next

LEMMA KeyInit == Init => KeyInv /\ ByKey!Init
<1> SUFFICES ASSUME Init PROVE KeyInv /\ ByKey!Init
  OBVIOUS
<1>1. KeyInv
  BY DEF Init, KeyInv, States, Open
<1>2. \A k \in Keyed : \A s \in {"pending", "running", "failed"} : ~Has(k, s)
  BY DEF Init, Has
<1>3. KeyState = [k \in Keyed |-> "none"] /\ KeyFailed = {}
  BY <1>2 DEF KeyState, KeyFailed
<1>4. KeyRunner = [k \in Keyed |-> {}]
  BY DEF Init, KeyRunner
<1> QED
  BY <1>1, <1>3, <1>4 DEF ByKey!Init

\* The promise of the queue about rows contains the one about keys: whatever rows a key
\* has had, their runs follow each other as those of a single job
\* (queue.ts:165-172).
THEOREM KeysFollowRows == Spec => ByKey!Spec
  BY KeyInit, KeyNext, KeyStep, PTL DEF Spec, ByKey!Spec
=============================================================================
