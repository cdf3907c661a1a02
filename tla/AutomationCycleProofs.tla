------------------------- MODULE AutomationCycleProofs -------------------------
(***************************************************************************)
(* Proofs about AutomationCycle, for any recommendations, rules, plans,    *)
(* accounts and askers of rounds.                                          *)
(***************************************************************************)
EXTENDS AutomationCycle, FiniteSetTheorems, SequenceTheorems, TLAPS

\* What a round does itself,
Moves(p) ==
    Call(p) \/ Advance(p) \/ Hindered(p) \/ CutShort(p) \/ \E c \in Recs : Refresh(p, c)

\* and what workers, humans and the clock do.
Outside ==
    \/ \E x \in Pairs : Uploaded(x) \/ UploadFails(x) \/ NoteFailure(x) \/ PublishByHand(x)
    \/ \E c \in Recs : AdoptByHand(c)
    \/ \E x \in Rules \X Recs, verdict \in {"released", "rejected"} : Settle(x, verdict)
    \/ Tick \/ Midnight

-----------------------------------------------------------------------------
(* Where a round is in its loops, and what it then has in hand.            *)

Channel == {"clips", "held", "approve", "hold", "dispatch", "note"}
Handling == {"held", "approve", "hold", "dispatch", "note"}
Busy(me) == me.pc \notin {"idle", "wait"}

Placed(me) ==
    /\ me.pc \in {"adopt", "channels"} \cup Channel => me.rule \in Rules
    /\ me.pc \in Channel =>
         /\ me.account \in Accounts /\ me.account \notin me.accounts
         /\ DOMAIN me.claim = 1 .. Len(Plan[me.rule])
    /\ me.pc \in Handling => me.clip \in Recs /\ me.clip \notin me.todo /\ me.left > 0

PlaceInv == \A p \in Rounds : Placed(round[p])

-----------------------------------------------------------------------------
(* Types.                                                                  *)

LEMMA IdleTyped == Idle \in Locals /\ Placed(Idle)
BY SMT DEF Idle, Locals, Steps, Placed, Channel, Handling, Pairs

LEMMA LocalsTyped ==
    ASSUME NEW me \in Locals
    PROVE  /\ me.pc \in Steps /\ me.known \in SUBSET Recs /\ me.rules \in SUBSET Rules
           /\ me.rule \in Rules \cup {Nobody} /\ me.picks \in SUBSET Recs
           /\ me.free \in SUBSET Pairs /\ me.accounts \in SUBSET Accounts
           /\ me.account \in Accounts \cup {Nobody} /\ me.claim \in Seq(Nat) /\ me.left \in Nat
           /\ me.todo \in SUBSET Recs /\ me.clip \in Recs \cup {Nobody} /\ me.held \in BOOLEAN
BY DEF Locals

LEMMA GoesTyped ==
    ASSUME round \in [Rounds -> Locals], NEW p \in Rounds, NEW me, Goes(p, me)
    PROVE  /\ me \in Locals => round' \in [Rounds -> Locals]
           /\ round'[p] = me
           /\ \A q \in Rounds : q # p => round'[q] = round[q]
BY DEF Goes

\* Entries of one share are as many as the clips.
LEMMA ShareIsFinite ==
    ASSUME NEW r \in Rules, NEW a \in Accounts, NEW i \in Nat, NEW S \in SUBSET Entries
    PROVE  LET T == {e \in S : e.rule = r /\ e.account = a /\ e.slot = i}
           IN  IsFiniteSet(T) /\ Cardinality(T) \in Nat
<1> DEFINE f == [c \in Recs |-> [rule |-> r, clip |-> c, account |-> a, slot |-> i]]
           All == {e \in Entries : e.rule = r /\ e.account = a /\ e.slot = i}
           T == {e \in S : e.rule = r /\ e.account = a /\ e.slot = i}
<1>1. f \in [Recs -> All]
  BY DEF Entries
<1>2. \A e \in All : e.clip \in Recs /\ f[e.clip] = e
  BY DEF Entries
<1>3. f \in Surjection(Recs, All)
  BY <1>1, <1>2 DEF Surjection
<1>4. IsFiniteSet(All)
  BY <1>3, FS_Surjection, AutomationAssumption
<1>5. T \in SUBSET All
  OBVIOUS
<1> QED BY <1>4, <1>5, FS_Subset, FS_CardinalityType

LEMMA CountedIsFinite ==
    ASSUME TypeOK, NEW r \in Rules, NEW a \in Accounts, NEW i \in Nat
    PROVE  IsFiniteSet(Counted(r, a, i)) /\ Cardinality(Counted(r, a, i)) \in Nat
<1> DEFINE T == {e \in runs : e.rule = r /\ e.account = a /\ e.slot = i}
<1>1. IsFiniteSet(T)
  BY ShareIsFinite DEF TypeOK
<1>2. Counted(r, a, i) \in SUBSET T
  BY DEF Counted
<1> QED BY <1>1, <1>2, FS_Subset, FS_CardinalityType

LEMMA PlanTyped ==
    ASSUME NEW r \in Rules
    PROVE  /\ Plan[r] \in Seq(Shares) /\ Len(Plan[r]) \in Nat
           /\ \A i \in 1 .. Len(Plan[r]) : Plan[r][i].count \in Nat /\ Plan[r][i].count > 0
<1>1. Plan[r] \in Seq(Shares) /\ Len(Plan[r]) \in Nat
  BY AutomationAssumption
<1>2. \A i \in 1 .. Len(Plan[r]) : Plan[r][i] \in Shares
  BY <1>1, ElementOfSeq
<1> QED BY <1>1, <1>2 DEF Shares

LEMMA ClaimableTyped ==
    ASSUME TypeOK, NEW r \in Rules, NEW a \in Accounts
    PROVE  /\ Claimable(r, a) \in Seq(Nat)
           /\ DOMAIN Claimable(r, a) = 1 .. Len(Plan[r])
           /\ \A i \in 1 .. Len(Plan[r]) :
                 \/ Claimable(r, a)[i] = 0
                 \/ Claimable(r, a)[i] + Cardinality(Counted(r, a, i)) = Plan[r][i].count
<1>1. Len(Plan[r]) \in Nat
  BY PlanTyped
<1>2. ASSUME NEW i \in 1 .. Len(Plan[r])
      PROVE  /\ Claimable(r, a)[i] \in Nat
             /\ \/ Claimable(r, a)[i] = 0
                \/ Claimable(r, a)[i] + Cardinality(Counted(r, a, i)) = Plan[r][i].count
  <2> DEFINE done == Cardinality(Counted(r, a, i))
             count == Plan[r][i].count
             open == IsOpen(r, i, done)
  <2>1. done \in Nat /\ count \in Nat
    <3>1. i \in Nat /\ count \in Nat
      BY <1>1, PlanTyped
    <3> QED BY <3>1, CountedIsFinite
  <2>2. Claimable(r, a)[i] = IF open /\ done < count THEN count - done ELSE 0
    BY <1>2 DEF Claimable
  <2> HIDE DEF done, count, open
  <2>3. Claimable(r, a)[i] \in Nat
        /\ (Claimable(r, a)[i] = 0 \/ Claimable(r, a)[i] + done = count)
    BY <2>1, <2>2
  <2> QED BY <2>3 DEF done, count
<1>3. Claimable(r, a) \in [1 .. Len(Plan[r]) -> Nat]
  BY <1>2 DEF Claimable
<1> QED BY <1>1, <1>2, <1>3, SeqDef

LEMMA NextClipTyped ==
    ASSUME NEW p \in Rounds, round[p] \in Locals
    PROVE  /\ NextClip(p) \in Locals /\ NextClip(p).pc = "clips"
           /\ NextClip(p).rule = round[p].rule /\ NextClip(p).account = round[p].account
           /\ NextClip(p).accounts = round[p].accounts /\ NextClip(p).free = round[p].free
           /\ NextClip(p).known = round[p].known /\ NextClip(p).rules = round[p].rules
           /\ NextClip(p).picks = round[p].picks /\ NextClip(p).todo = round[p].todo
           /\ NextClip(p).claim = round[p].claim /\ NextClip(p).left = round[p].left
BY DEF NextClip, Locals, Steps

\* What each step of a round leaves in its own state.
LEMMA StepTyped ==
    ASSUME TypeOK, PlaceInv, NEW p \in Rounds, Moves(p)
    PROVE  \E me \in Locals : Goes(p, me) /\ Placed(me)
<1> DEFINE old == round[p]
           Done == \E me \in Locals : Goes(p, me) /\ Placed(me)
<1>1. old \in Locals /\ Placed(old)
  BY DEF TypeOK, PlaceInv
<1>2. CASE Call(p)
  <2> DEFINE me == [Idle EXCEPT !.pc = "wait"]
  <2>8. me \in Locals
    BY <1>1, <1>2, IdleTyped DEF Call, At, Locals, Steps, Placed, Channel, Handling, Pairs
  <2>9. Goes(p, me) /\ Placed(me)
    BY <1>1, <1>2, IdleTyped DEF Call, At, Locals, Placed, Channel, Handling
  <2> QED BY <2>8, <2>9
<1>3. CASE Begin(p)
  <2> DEFINE me == [Idle EXCEPT !.pc = "rules", !.rules = enabled,
                         !.known = {c \in Recs : owner[c] # Nobody}]
  <2>8. me \in Locals
    BY <1>1, <1>3, IdleTyped DEF Begin, TypeOK, At, Locals, Steps, Placed, Channel, Handling, Pairs
  <2>9. Goes(p, me) /\ Placed(me)
    BY <1>1, <1>3, IdleTyped DEF Begin, TypeOK, At, Locals, Placed, Channel, Handling
  <2> QED BY <2>8, <2>9
<1>4. CASE Prepare(p)
  <2> DEFINE me == [old EXCEPT !.pc = "channels", !.accounts = Accounts,
                         !.free = {x \in Pairs : owner[x[1]] = old.rule /\ row[x] = "none"}]
  <2>8. me \in Locals
    BY <1>1, <1>4 DEF Prepare, At, Locals, Steps, Placed, Channel, Handling, Pairs
  <2>9. Goes(p, me) /\ Placed(me)
    BY <1>1, <1>4 DEF Prepare, At, Locals, Placed, Channel, Handling
  <2> QED BY <2>8, <2>9
<1>5. CASE CloseChannel(p) \/ NoCredit(p)
  <2> DEFINE me == NextChannel(p)
  <2>1. NextClip(p) \in Locals /\ NextClip(p).rule = old.rule
    BY <1>1, NextClipTyped
  <2>2. <<>> \in Seq(Nat)
    OBVIOUS
  <2>8. me \in Locals
    BY <2>1, <2>2 DEF NextChannel, Locals, Steps
  <2>9. Goes(p, me) /\ Placed(me)
    BY <1>1, <1>5, <2>1 DEF CloseChannel, NoCredit, NextChannel, At, Locals, Placed, Channel, Handling
  <2> QED BY <2>8, <2>9
<1>6. CASE ReadHeld(p)
  <2> DEFINE me == [old EXCEPT !.pc = "approve", !.held = (Verdict(p) = "open")]
  <2>8. me \in Locals
    BY <1>1, <1>6 DEF ReadHeld, At, Locals, Steps, Placed, Channel, Handling, Pairs
  <2>9. Goes(p, me) /\ Placed(me)
    BY <1>1, <1>6 DEF ReadHeld, At, Locals, Placed, Channel, Handling
  <2> QED BY <2>8, <2>9
<1>7. CASE Decide(p)
  <2> DEFINE me == [old EXCEPT !.pc = IF MustHold(p) THEN "hold" ELSE "dispatch"]
  <2>8. me \in Locals
    BY <1>1, <1>7 DEF Decide, At, Locals, Steps, Placed, Channel, Handling, Pairs
  <2>9. Goes(p, me) /\ Placed(me)
    BY <1>1, <1>7 DEF Decide, At, Locals, Placed, Channel, Handling
  <2> QED BY <2>8, <2>9
<1>8. CASE HoldClip(p) \/ NoMetadata(p)
  <2> DEFINE me == NextClip(p)
  <2>8. me \in Locals
    BY <1>1, <1>8 DEF HoldClip, NoMetadata, NextClip, At, Locals, Steps, Placed, Channel, Handling, Pairs
  <2>9. Goes(p, me) /\ Placed(me)
    BY <1>1, <1>8 DEF HoldClip, NoMetadata, NextClip, At, Locals, Placed, Channel, Handling
  <2> QED BY <2>8, <2>9
<1>9. CASE Refused(p)
  <2> DEFINE me == [old EXCEPT !.pc = "hold", !.held = FALSE]
  <2>8. me \in Locals
    BY <1>1, <1>9 DEF Refused, At, Locals, Steps, Placed, Channel, Handling, Pairs
  <2>9. Goes(p, me) /\ Placed(me)
    BY <1>1, <1>9 DEF Refused, At, Locals, Placed, Channel, Handling
  <2> QED BY <2>8, <2>9
<1>10. CASE LeaveRule(p)
  <2> DEFINE me == [Idle EXCEPT !.pc = "rules", !.rules = old.rules, !.known = old.known]
  <2>8. me \in Locals
    BY <1>1, <1>10, IdleTyped DEF LeaveRule, At, Locals, Steps, Placed, Channel, Handling, Pairs
  <2>9. Goes(p, me) /\ Placed(me)
    BY <1>1, <1>10, IdleTyped DEF LeaveRule, At, Locals, Placed, Channel, Handling
  <2> QED BY <2>8, <2>9
<1>11. CASE Finish(p) \/ Stops(p) \/ CutShort(p)
  BY <1>11, IdleTyped DEF Finish, Stops, CutShort
<1>12. ASSUME NEW r \in Rules, PassOver(p, r) PROVE Done
  <2> DEFINE me == [old EXCEPT !.rules = @ \ {r}]
  <2>8. me \in Locals
    BY <1>1, <1>12 DEF PassOver, At, Locals, Steps, Placed, Channel, Handling, Pairs
  <2>9. Goes(p, me) /\ Placed(me)
    BY <1>1, <1>12 DEF PassOver, At, Locals, Placed, Channel, Handling
  <2> QED BY <2>8, <2>9
<1>13. ASSUME NEW r \in Rules, Evaluate(p, r) PROVE Done
  <2>1. PICK S \in Chosen(r, old.known) :
          Goes(p, [old EXCEPT !.pc = "adopt", !.rules = @ \ {r}, !.rule = r, !.picks = S])
    BY <1>13 DEF Evaluate
  <2>2. S \in SUBSET Recs
    BY AutomationAssumption DEF Chosen
  <2> DEFINE me == [old EXCEPT !.pc = "adopt", !.rules = @ \ {r}, !.rule = r, !.picks = S]
  <2>8. me \in Locals
    BY <1>1, <2>2 DEF Locals, Steps
  <2>9. Placed(me)
    BY <1>1 DEF Placed, Locals, Channel, Handling
  <2> QED BY <2>1, <2>8, <2>9
<1>14. ASSUME NEW c \in Recs, Adopt(p, c), owner[c] = Nobody PROVE Done
  <2> DEFINE me == [old EXCEPT !.picks = @ \ {c}, !.known = @ \cup {c}]
  <2>8. me \in Locals
    BY <1>1, <1>14 DEF Adopt, At, Locals, Steps, Placed, Channel, Handling, Pairs
  <2>9. Goes(p, me) /\ Placed(me)
    BY <1>1, <1>14 DEF Adopt, At, Locals, Placed, Channel, Handling
  <2> QED BY <2>8, <2>9
<1>15. ASSUME NEW c \in Recs, Adopt(p, c), owner[c] # Nobody PROVE Done
  <2> DEFINE me == [old EXCEPT !.picks = @ \ {c}]
  <2>8. me \in Locals
    BY <1>1, <1>15 DEF Adopt, At, Locals, Steps, Placed, Channel, Handling, Pairs
  <2>9. Goes(p, me) /\ Placed(me)
    BY <1>1, <1>15 DEF Adopt, At, Locals, Placed, Channel, Handling
  <2> QED BY <2>8, <2>9
<1>16. ASSUME NEW c \in Recs, Look(p, c), hold[<<old.rule, c>>] # "rejected" PROVE Done
  <2> DEFINE me == [old EXCEPT !.todo = @ \ {c}, !.pc = "held", !.clip = c]
  <2>8. me \in Locals
    BY <1>1, <1>16 DEF Look, MaySend, At, Locals, Steps, Placed, Channel, Handling, Pairs
  <2>9. Goes(p, me) /\ Placed(me)
    BY <1>1, <1>16 DEF Look, MaySend, At, Locals, Placed, Channel, Handling
  <2> QED BY <2>8, <2>9
<1>17. ASSUME NEW c \in Recs, Ineligible(p, c) \/ (Look(p, c) /\ hold[<<old.rule, c>>] = "rejected") PROVE Done
  <2> DEFINE me == [old EXCEPT !.todo = @ \ {c}]
  <2>8. me \in Locals
    BY <1>1, <1>17 DEF Ineligible, Look, MaySend, At, Locals, Steps, Placed, Channel, Handling, Pairs
  <2>9. Goes(p, me) /\ Placed(me)
    BY <1>1, <1>17 DEF Ineligible, Look, MaySend, At, Locals, Placed, Channel, Handling
  <2> QED BY <2>8, <2>9
<1>18. ASSUME NEW c \in Recs, Refresh(p, c) PROVE Done
  <2> DEFINE me == [old EXCEPT !.free = (@ \ {x \in old.free : x[1] = c})
                                  \cup {x \in Pairs : x[1] = c /\ row[x] = "none"}]
  <2>8. me \in Locals
    BY <1>1, <1>18 DEF Refresh, At, Locals, Steps, Placed, Channel, Handling, Pairs
  <2>9. Goes(p, me) /\ Placed(me)
    BY <1>1, <1>18 DEF Refresh, At, Locals, Placed, Channel, Handling
  <2> QED BY <2>8, <2>9
<1>19. ASSUME NEW a \in Accounts, OpenChannel(p, a) PROVE Done
  <2> DEFINE me == [old EXCEPT !.pc = "clips", !.accounts = @ \ {a}, !.account = a,
                         !.todo = {c \in Recs : <<c, a>> \in old.free},
                         !.claim = Claimable(old.rule, a), !.left = PerTick[old.rule]]
  <2>1. old.rule \in Rules
    BY <1>1, <1>19 DEF OpenChannel, At, Placed
  <2>2. Claimable(old.rule, a) \in Seq(Nat)
        /\ DOMAIN Claimable(old.rule, a) = 1 .. Len(Plan[old.rule])
    BY <2>1, ClaimableTyped
  <2>3. PerTick[old.rule] \in Nat
    BY <2>1, AutomationAssumption
  <2>8. me \in Locals
    BY <1>1, <1>19, <2>2, <2>3 DEF OpenChannel, At, Locals, Steps, Placed, Channel, Handling, Pairs
  <2>9. Goes(p, me) /\ Placed(me)
    BY <1>1, <1>19, <2>2, <2>3 DEF OpenChannel, At, Locals, Placed, Channel, Handling
  <2> QED BY <2>8, <2>9
<1>20. ASSUME NEW a \in Accounts, GateOff(p, a) PROVE Done
  <2> DEFINE me == [old EXCEPT !.accounts = @ \ {a}]
  <2>8. me \in Locals
    BY <1>1, <1>20 DEF GateOff, At, Locals, Steps, Placed, Channel, Handling, Pairs
  <2>9. Goes(p, me) /\ Placed(me)
    BY <1>1, <1>20 DEF GateOff, At, Locals, Placed, Channel, Handling
  <2> QED BY <2>8, <2>9
<1>21. ASSUME NEW i \in DOMAIN old.claim, Queued(p, i) PROVE Done
  <2> DEFINE me == [old EXCEPT !.pc = "note"]
  <2>8. me \in Locals
    BY <1>1, <1>21 DEF Queued, At, Locals, Steps, Placed, Channel, Handling, Pairs
  <2>9. Goes(p, me) /\ Placed(me)
    BY <1>1, <1>21 DEF Queued, At, Locals, Placed, Channel, Handling
  <2> QED BY <2>8, <2>9
<1>22. ASSUME NEW i \in DOMAIN old.claim, Note(p, i) PROVE Done
  <2> DEFINE me == [NextClip(p) EXCEPT !.claim = Spend(@, i), !.left = @ - 1]
  <2>1. old.claim \in Seq(Nat) /\ old.claim[i] > 0
    BY <1>1, <1>22, LocalsTyped DEF Note, IsCursor
  <2>2. Spend(old.claim, i) \in Seq(Nat) /\ DOMAIN Spend(old.claim, i) = DOMAIN old.claim
    BY <2>1, <1>22 DEF Spend
  <2>3. NextClip(p) \in Locals /\ NextClip(p).left - 1 \in Nat /\ NextClip(p).claim = old.claim
    BY <1>1, <1>22, NextClipTyped DEF Note, At, Placed, Handling, Locals
  <2>8. me \in Locals
    BY <2>2, <2>3 DEF Locals
  <2>9. Goes(p, me) /\ Placed(me)
    BY <1>1, <1>22, <2>2, NextClipTyped DEF Note, At, Locals, Placed, Channel, Handling
  <2> QED BY <2>8, <2>9
<1> QED
  BY <1>2, <1>3, <1>4, <1>5, <1>6, <1>7, <1>8, <1>9, <1>10, <1>11, <1>12, <1>13, <1>14, <1>15, <1>16, <1>17, <1>18, <1>19, <1>20, <1>21, <1>22
     DEF Moves, Advance, Hindered, Look, Adopt

LEMMA TypeStep ==
    ASSUME TypeOK, PlaceInv, [Next]_vars
    PROVE  TypeOK' /\ PlaceInv'
<1>1. CASE UNCHANGED vars
  BY <1>1, SMT DEF TypeOK, PlaceInv, Placed, vars
<1>2. ASSUME NEW p \in Rounds, Moves(p) PROVE TypeOK' /\ PlaceInv'
  <2>1. PICK me \in Locals : Goes(p, me) /\ Placed(me)
    BY <1>2, StepTyped
  <2>2. round' \in [Rounds -> Locals] /\ PlaceInv'
    BY <2>1, GoesTyped DEF TypeOK, PlaceInv, Placed
  <2>3. round[p] \in Locals /\ Placed(round[p])
    BY DEF TypeOK, PlaceInv
  <2>4. CASE UNCHANGED <<owner, row, hold, books, lock, ghosts>>
    BY <2>2, <2>4 DEF TypeOK, books, ghosts
  <2>5. CASE Begin(p) \/ Finish(p)
    BY <2>2, <2>5 DEF TypeOK, books, ghosts, Begin, Finish, TakesLock
  <2>6. CASE Refused(p)
    BY <2>2, <2>6, AutomationAssumption DEF TypeOK, ghosts, Refused
  <2>7. CASE CutShort(p)
    BY <2>2, <2>7, AutomationAssumption DEF TypeOK, CutShort
  <2>8. ASSUME NEW c \in Recs, Adopt(p, c) PROVE TypeOK'
    <3>1. round[p].rule \in Rules
      BY <2>3, <2>8 DEF Adopt, At, Placed
    <3> QED BY <2>2, <2>8, <3>1 DEF TypeOK, books, ghosts, Adopt
  <2>9. CASE HoldClip(p)
    <3>1. <<round[p].rule, round[p].clip>> \in Rules \X Recs
      BY <2>3, <2>9 DEF HoldClip, At, Placed, Channel, Handling
    <3>2. hold' \in [Rules \X Recs -> Holds]
      BY <2>9, <3>1 DEF HoldClip, TypeOK, Holds
    <3> QED BY <2>2, <2>9, <3>2 DEF TypeOK, books, ghosts, HoldClip
  <2>10. ASSUME NEW i \in DOMAIN round[p].claim PROVE i \in Nat
    BY <2>3, LocalsTyped
  <2>12. ASSUME NEW i \in DOMAIN round[p].claim, Queued(p, i) PROVE TypeOK'
    <3>1. <<round[p].clip, round[p].account>> \in Pairs
      BY <2>3, <2>12 DEF Queued, At, Placed, Channel, Handling, Pairs
    <3>2. Entry(p, i) \in Entries
      BY <2>3, <2>10, <2>12 DEF Queued, At, Placed, Channel, Handling, Entry, Entries
    <3>3. row' \in [Pairs -> Rows]
      BY <2>12, <3>1 DEF Queued, TypeOK, Rows
    <3> QED BY <2>2, <2>12, <3>1, <3>2, <3>3 DEF TypeOK, books, Queued
  <2>13. ASSUME NEW i \in DOMAIN round[p].claim, Note(p, i) PROVE TypeOK'
    <3>1. Entry(p, i) \in Entries
      BY <2>3, <2>10, <2>13 DEF Note, At, Placed, Channel, Handling, Entry, Entries
    <3> QED BY <2>2, <2>13, <3>1 DEF TypeOK, ghosts, Note
  <2> QED
    BY <1>2, <2>2, <2>4, <2>5, <2>6, <2>7, <2>8, <2>9, <2>12, <2>13
    DEF Moves, Advance, Hindered, Call, Stops, Evaluate, PassOver, Prepare, Refresh, OpenChannel,
        GateOff, CloseChannel, Look, Ineligible, ReadHeld, Decide, NoMetadata, NoCredit, LeaveRule
<1>3. CASE Outside
  <2>1. PlaceInv' /\ round' \in [Rounds -> Locals]
    BY <1>3 DEF Outside, Uploaded, UploadFails, NoteFailure, PublishByHand, AdoptByHand, Settle,
                Tick, Midnight, TypeOK, PlaceInv, Placed
  <2>2. ASSUME NEW x \in Pairs, Uploaded(x) \/ PublishByHand(x) PROVE TypeOK'
    BY <2>1, <2>2 DEF TypeOK, Uploaded, PublishByHand, Rows, books, ghosts
  <2>3. ASSUME NEW x \in Pairs, UploadFails(x) PROVE TypeOK'
    BY <2>1, <2>3 DEF TypeOK, UploadFails, Rows
  <2>4. ASSUME NEW x \in Pairs, NoteFailure(x) PROVE TypeOK'
    BY <2>1, <2>4 DEF TypeOK, NoteFailure
  <2>5. ASSUME NEW c \in Recs, AdoptByHand(c) PROVE TypeOK'
    BY <2>1, <2>5 DEF TypeOK, AdoptByHand, books, ghosts
  <2>6. ASSUME NEW x \in Rules \X Recs, NEW v \in {"released", "rejected"}, Settle(x, v) PROVE TypeOK'
    BY <2>1, <2>6 DEF TypeOK, Settle, Holds, books, ghosts
  <2>7. CASE Tick \/ Midnight
    BY <2>1, <2>7, AutomationAssumption DEF TypeOK, Tick, Midnight, RunsOfToday, ghosts
  <2> QED BY <1>3, <2>1, <2>2, <2>3, <2>4, <2>5, <2>6, <2>7 DEF Outside
<1> QED BY <1>1, <1>2, <1>3 DEF Next, Moves, Outside

\* Everything the round, the books and the row hold has its type.
THEOREM TypeCorrect == Spec => []TypeOK
<1>1. Init => TypeOK /\ PlaceInv
  BY IdleTyped, AutomationAssumption DEF Init, TypeOK, PlaceInv, Rows, Holds
<1>2. TypeOK /\ PlaceInv /\ [Next]_vars => TypeOK' /\ PlaceInv'
  BY TypeStep
<1> QED BY <1>1, <1>2, PTL DEF Spec

-----------------------------------------------------------------------------
(* What a round under way may rely on.                                     *)

\* Under approve_first the human has released the clip, and cannot take it back.
ApprovedAt(me) ==
    me.pc = "dispatch" /\ me.rule \in ApproveFirst => hold[<<me.rule, me.clip>>] = "released"

\* No round has dispatched what this one still may.
FreshAt(me) ==
    /\ \A c \in Recs, a \in me.accounts : <<c, a>> \in me.free => <<c, a>> \notin ever
    /\ me.pc \in Channel => \A c \in me.todo : <<c, me.account>> \notin ever
    /\ me.pc \in Handling /\ me.pc # "note" => <<me.clip, me.account>> \notin ever

\* What was noted of a share and what it may still send fit into it.
SharesAt(me) ==
    me.pc \in Channel =>
        \A i \in 1 .. Len(Plan[me.rule]) :
            \/ me.claim[i] = 0
            \/ me.claim[i] + Cardinality(Counted(me.rule, me.account, i)) <= Plan[me.rule][i].count

Owned(r) == {c \in Recs : owner[c] = r}

\* It knows the clips of all rules, and adopts no more than its rule may have.
AdoptsAt(me) ==
    /\ \A c \in Recs : owner[c] \in Rules => c \in me.known
    /\ me.pc = "adopt" /\ me.picks # {} =>
         Cardinality(Owned(me.rule)) + Cardinality(me.picks) <= Cap[me.rule]

Good(me) == ApprovedAt(me) /\ FreshAt(me) /\ SharesAt(me) /\ AdoptsAt(me)

LocalInv == \A p \in Rounds : Busy(round[p]) => lock = p /\ Good(round[p])

\* What was dispatched has a row, for good.
EverInv == \A x \in ever : row[x] # "none"

\* No share is overdrawn by what was noted,
CountInv ==
    \A r \in Rules, a \in Accounts : \A i \in 1 .. Len(Plan[r]) :
        Cardinality(Counted(r, a, i)) <= Plan[r][i].count

Noted(e) == e \in runs /\ ~(e.rule \in ByQuota /\ e \in undone)
InHand(me, e) ==
    /\ me.pc = "note"
    /\ e.rule = me.rule /\ e.clip = me.clip /\ e.account = me.account
    /\ IsCursor(me.claim, e.slot)

\* and what was sent is noted, or about to be.
SentInv == \A e \in sent \ lost : Noted(e) \/ \E p \in Rounds : InHand(round[p], e)

IInv == TypeOK /\ PlaceInv /\ LocalInv /\ EverInv /\ CountInv /\ SentInv /\ AdoptedWithinCap

-----------------------------------------------------------------------------
(* Rounds exclude each other.                                              *)

world == <<enabled, owner, row, hold, runs, undone, failing, clock, sent, lost, ever, faults>>

\* A round that has not begun changes nothing but itself and the lock,
LEMMA IdleStands ==
    ASSUME NEW p \in Rounds, Moves(p), ~Busy(round[p])
    PROVE  UNCHANGED world /\ (lock' = lock \/ (lock = Nobody /\ lock' = p))
<1>1. Call(p) \/ Begin(p) \/ Stops(p)
  BY DEF Moves, Advance, Hindered, Busy, At, Evaluate, PassOver, Prepare, Refresh, OpenChannel,
         GateOff, CloseChannel, Look, Ineligible, ReadHeld, Decide, NoMetadata, NoCredit, LeaveRule,
         HoldClip, Refused, Finish, Adopt, Queued, Note, CutShort
<1> QED BY <1>1 DEF Call, Begin, Stops, TakesLock, world, books, ghosts

\* and whoever else is under way is left alone.
LEMMA OthersStand ==
    ASSUME TypeOK, LocalInv, NEW p \in Rounds, Moves(p), NEW q \in Rounds, q # p, Busy(round[q])
    PROVE  UNCHANGED world /\ lock' = lock /\ round'[q] = round[q]
<1>1. lock = q /\ lock # Nobody
  BY AutomationAssumption DEF LocalInv
<1>2. ~Busy(round[p])
  BY <1>1 DEF LocalInv
<1>3. PICK me : Goes(p, me)
  BY StepTyped, <1>2 DEF Moves, Advance, Hindered, Call, Begin, Stops, Busy, At, Evaluate, PassOver,
         Prepare, Refresh, OpenChannel, GateOff, CloseChannel, Look, Ineligible, ReadHeld, Decide,
         NoMetadata, NoCredit, LeaveRule, HoldClip, Refused, Finish, Adopt, Queued, Note, CutShort
<1> QED BY <1>1, <1>2, <1>3, IdleStands, GoesTyped DEF TypeOK

-----------------------------------------------------------------------------
(* A step of a round keeps what it may rely on.                            *)

\* A step that starts nothing and counts nothing.
LEMMA Carries ==
    ASSUME NEW old, NEW me, Good(old), UNCHANGED <<owner, runs, undone, ever>>,
           me.known = old.known, me.pc # "adopt",
           me.accounts = {} \/ (me.accounts \subseteq old.accounts /\ me.free = old.free),
           me.pc \in Channel =>
              /\ old.pc \in Channel /\ me.rule = old.rule /\ me.account = old.account
              /\ me.claim = old.claim /\ me.todo \subseteq old.todo,
           me.pc \in Handling /\ me.pc # "note" => <<me.clip, me.account>> \notin ever,
           ApprovedAt(me)'
    PROVE  Good(me)'
<1>1. FreshAt(me)'
  BY DEF Good, FreshAt
<1>2. SharesAt(me)'
  BY DEF Good, SharesAt, Counted
<1>3. AdoptsAt(me)'
  BY DEF Good, AdoptsAt
<1> QED BY <1>1, <1>2, <1>3 DEF Good

LEMMA AlreadyOwned ==
    ASSUME TypeOK, NEW me \in Locals, AdoptsAt(me), NEW r \in Rules
    PROVE  Already(r, me.known) = Owned(r)
<1>1. me.known \subseteq Recs
  BY LocalsTyped
<1> QED BY <1>1 DEF Already, Owned, AdoptsAt

LEMMA FiniteRecs ==
    ASSUME NEW S \in SUBSET Recs
    PROVE  IsFiniteSet(S) /\ Cardinality(S) \in Nat
BY FS_Subset, FS_CardinalityType, AutomationAssumption

\* What is picked fits under the cap.
LEMMA PicksFit ==
    ASSUME TypeOK, NEW me \in Locals, AdoptsAt(me), NEW r \in Rules, NEW S \in Chosen(r, me.known),
           S # {}
    PROVE  Cardinality(Owned(r)) + Cardinality(S) <= Cap[r]
<1> DEFINE cands == Wants[r] \ me.known
           owned == Cardinality(Owned(r))
           room == IF owned < Cap[r] THEN Cap[r] - owned ELSE 0
           left == Cardinality(cands)
<1>1. cands \in SUBSET Recs /\ Cap[r] \in Nat
  BY AutomationAssumption
<1>2. S \in SUBSET Recs /\ Cardinality(S) = IF left < room THEN left ELSE room
  BY <1>1, AlreadyOwned DEF Chosen
<1>3. left \in Nat /\ owned \in Nat
  BY <1>1, FiniteRecs DEF Owned
<1>4. Cardinality(S) # 0 /\ Cardinality(S) \in Nat
  BY <1>2, FiniteRecs, FS_EmptySet
<1> HIDE DEF cands, owned, left
<1>5. owned + Cardinality(S) <= Cap[r]
  BY <1>1, <1>2, <1>3, <1>4
<1> QED BY <1>5 DEF owned

\* Noting an entry takes one of its share, and none of another.
LEMMA NoteCounts ==
    ASSUME TypeOK, TypeOK', NEW p \in Rounds, NEW i \in Nat, Note(p, i),
           NEW r \in Rules, NEW a \in Accounts, NEW j \in Nat
    PROVE  /\ Cardinality(Counted(r, a, j))' <= Cardinality(Counted(r, a, j)) + 1
           /\ \/ r = round[p].rule /\ a = round[p].account /\ j = i
              \/ Cardinality(Counted(r, a, j))' <= Cardinality(Counted(r, a, j))
<1> DEFINE e == Entry(p, i)
           old == Counted(r, a, j)
           new == Counted(r, a, j)'
<1>1. IsFiniteSet(old) /\ Cardinality(old) \in Nat
  BY CountedIsFinite
<1>2. IsFiniteSet(new) /\ Cardinality(new) \in Nat
  <2>1. IsFiniteSet({x \in runs' : x.rule = r /\ x.account = a /\ x.slot = j})
    BY ShareIsFinite DEF TypeOK
  <2>2. new \in SUBSET {x \in runs' : x.rule = r /\ x.account = a /\ x.slot = j}
    BY DEF Counted
  <2> QED BY <2>1, <2>2, FS_Subset, FS_CardinalityType
<1>3. runs' = runs \cup {e} /\ undone' = undone \ {e}
  BY DEF Note
<1>4. e.rule = round[p].rule /\ e.account = round[p].account /\ e.slot = i
  BY DEF Entry
<1> HIDE DEF e
<1>5. new \subseteq old \cup {e}
  BY <1>3 DEF Counted
<1>6. (r = round[p].rule /\ a = round[p].account /\ j = i) \/ new \subseteq old
  BY <1>3, <1>4 DEF Counted
<1> HIDE DEF old, new
<1>7. IsFiniteSet(old \cup {e}) /\ Cardinality(old \cup {e}) <= Cardinality(old) + 1
      /\ Cardinality(old \cup {e}) \in Nat
  <2>1. IsFiniteSet(old \cup {e})
    BY <1>1, FS_AddElement
  <2>2. Cardinality(old \cup {e}) \in {Cardinality(old), Cardinality(old) + 1}
    BY <1>1, FS_AddElement
  <2> QED BY <1>1, <2>1, <2>2
<1>8. Cardinality(new) <= Cardinality(old \cup {e})
  BY <1>5, <1>7, FS_Subset
<1>9. Cardinality(new) <= Cardinality(old) + 1
  BY <1>1, <1>2, <1>7, <1>8
<1>10. new \subseteq old => Cardinality(new) <= Cardinality(old)
  BY <1>1, FS_Subset
<1> QED BY <1>6, <1>9, <1>10 DEF old, new

LEMMA IdleFields ==
    /\ Idle.pc = "idle" /\ Idle.accounts = {} /\ Idle.free = {} /\ Idle.picks = {}
    /\ Idle.known = {} /\ Idle.rules = {}
BY DEF Idle

LEMMA GoodStep ==
    ASSUME IInv, TypeOK', NEW p \in Rounds, Moves(p), Busy(round[p])'
    PROVE  lock' = p /\ Good(round[p])'
<1>1. PICK me \in Locals : Goes(p, me) /\ Placed(me)
  BY StepTyped DEF IInv
<1>2. PICK old \in Locals : old = round[p] /\ Placed(old)
  BY DEF IInv, TypeOK, PlaceInv
<1>3. round'[p] = me /\ Busy(me)
  BY <1>1, GoesTyped DEF IInv, TypeOK, Busy
<1>4. ASSUME NEW x, Goes(p, x) PROVE me = x
  BY <1>3, <1>4, GoesTyped DEF IInv, TypeOK
<1> SUFFICES lock' = p /\ Good(me)'
  BY <1>3 DEF Good, ApprovedAt, FreshAt, SharesAt, AdoptsAt
<1>5. CASE Begin(p)
  <2>1. me = [Idle EXCEPT !.pc = "rules", !.rules = enabled,
                          !.known = {c \in Recs : owner[c] # Nobody}]
    BY <1>4, <1>5 DEF Begin
  <2>2. me.pc = "rules" /\ me.accounts = {} /\ me.known = {c \in Recs : owner[c] # Nobody}
    BY <2>1, IdleTyped, IdleFields DEF Locals
  <2> QED BY <1>5, <2>2, AutomationAssumption
          DEF Begin, TakesLock, Good, ApprovedAt, FreshAt, SharesAt, AdoptsAt, Channel, Handling
<1>6. CASE ~Begin(p)
  <2>0. Busy(old) /\ ~(Call(p) \/ Stops(p) \/ Finish(p) \/ CutShort(p))
    <3>1. ~Call(p)
      <4>1. CASE Call(p)
        <5>1. me = [Idle EXCEPT !.pc = "wait"]
          BY <1>4, <4>1 DEF Call
        <5>2. me.pc = "wait"
          BY <5>1, IdleTyped DEF Locals
        <5> QED BY <1>3, <5>2 DEF Busy
      <4> QED BY <4>1
    <3>2. ~(Stops(p) \/ Finish(p) \/ CutShort(p))
      BY <1>3, <1>4, IdleFields DEF Stops, Finish, CutShort, Busy
    <3> QED
      BY <1>2, <1>6, <3>1, <3>2
      DEF Moves, Advance, Hindered, Busy, At, Evaluate, PassOver, Prepare, Refresh, OpenChannel,
          GateOff, CloseChannel, Look, Ineligible, ReadHeld, Decide, NoMetadata, NoCredit,
          LeaveRule, HoldClip, Refused, Adopt, Queued, Note
  <2>1. lock = p /\ Good(old)
    BY <1>2, <2>0 DEF IInv, LocalInv
  <2>2. ApprovedAt(old) /\ FreshAt(old) /\ SharesAt(old) /\ AdoptsAt(old)
    BY <2>1 DEF Good
  <2>3. CASE CloseChannel(p) \/ NoCredit(p)
    <3>1. me = NextChannel(p)
      BY <1>4, <2>3 DEF CloseChannel, NoCredit
    <3>2. me.pc = "channels" /\ me.accounts = old.accounts /\ me.free = old.free
          /\ me.known = old.known
      BY <1>2, <3>1, NextClipTyped DEF NextChannel, Locals
    <3> QED BY <2>1, <2>3, <3>2, Carries
            DEF CloseChannel, NoCredit, books, ghosts, ApprovedAt, Channel, Handling
  <2>4. CASE HoldClip(p) \/ NoMetadata(p)
    <3>1. me = NextClip(p)
      BY <1>4, <2>4 DEF HoldClip, NoMetadata
    <3>2. /\ me.pc = "clips" /\ me.accounts = old.accounts /\ me.free = old.free
          /\ me.known = old.known /\ me.rule = old.rule /\ me.account = old.account
          /\ me.claim = old.claim /\ me.todo = old.todo
      BY <1>2, <3>1, NextClipTyped
    <3> QED BY <1>2, <2>1, <2>4, <3>2, Carries
            DEF HoldClip, NoMetadata, At, books, ghosts, ApprovedAt, Channel, Handling
  <2>5. CASE LeaveRule(p)
    <3>1. me = [Idle EXCEPT !.pc = "rules", !.rules = old.rules, !.known = old.known]
      BY <1>2, <1>4, <2>5 DEF LeaveRule
    <3>2. me.pc = "rules" /\ me.accounts = {} /\ me.known = old.known
      BY <3>1, IdleTyped, IdleFields DEF Locals
    <3> QED BY <2>1, <2>5, <3>2, Carries
            DEF LeaveRule, books, ghosts, ApprovedAt, Channel, Handling
  <2>6. CASE ReadHeld(p)
    <3>1. me = [old EXCEPT !.pc = "approve", !.held = (Verdict(p) = "open")]
      BY <1>2, <1>4, <2>6 DEF ReadHeld
    <3>2. /\ me.pc = "approve" /\ me.accounts = old.accounts /\ me.free = old.free
          /\ me.known = old.known /\ me.rule = old.rule /\ me.account = old.account
          /\ me.claim = old.claim /\ me.todo = old.todo /\ me.clip = old.clip
      BY <3>1 DEF Locals
    <3>3. old.pc = "held"
      BY <1>2, <2>6 DEF ReadHeld, At
    <3> QED BY <2>1, <2>2, <2>6, <3>2, <3>3, Carries
            DEF ReadHeld, books, ghosts, ApprovedAt, FreshAt, Channel, Handling
  <2>7. CASE Decide(p)
    <3>1. me = [old EXCEPT !.pc = IF MustHold(p) THEN "hold" ELSE "dispatch"]
      BY <1>2, <1>4, <2>7 DEF Decide
    <3>2. /\ me.pc = (IF MustHold(p) THEN "hold" ELSE "dispatch")
          /\ me.accounts = old.accounts /\ me.free = old.free
          /\ me.known = old.known /\ me.rule = old.rule /\ me.account = old.account
          /\ me.claim = old.claim /\ me.todo = old.todo /\ me.clip = old.clip
      BY <3>1 DEF Locals
    <3>3. old.pc = "approve"
      BY <1>2, <2>7 DEF Decide, At
    <3>4. ApprovedAt(me)'
      BY <1>2, <2>7, <3>2 DEF Decide, ApprovedAt, MustHold, Approved, Verdict
    <3> QED BY <2>1, <2>2, <2>7, <3>2, <3>3, <3>4, Carries
            DEF Decide, books, ghosts, FreshAt, Channel, Handling
  <2>8. CASE Refused(p)
    <3>1. me = [old EXCEPT !.pc = "hold", !.held = FALSE]
      BY <1>2, <1>4, <2>8 DEF Refused
    <3>2. /\ me.pc = "hold" /\ me.accounts = old.accounts /\ me.free = old.free
          /\ me.known = old.known /\ me.rule = old.rule /\ me.account = old.account
          /\ me.claim = old.claim /\ me.todo = old.todo /\ me.clip = old.clip
      BY <3>1 DEF Locals
    <3>3. old.pc = "dispatch"
      BY <1>2, <2>8 DEF Refused, At
    <3> QED BY <2>1, <2>2, <2>8, <3>2, <3>3, Carries
            DEF Refused, ghosts, ApprovedAt, FreshAt, Channel, Handling
  <2>9. ASSUME NEW r \in Rules, PassOver(p, r) PROVE lock' = p /\ Good(me)'
    <3>1. me = [old EXCEPT !.rules = @ \ {r}]
      BY <1>2, <1>4, <2>9 DEF PassOver
    <3>2. me.pc = old.pc /\ me.accounts = old.accounts /\ me.free = old.free
          /\ me.known = old.known
      BY <3>1 DEF Locals
    <3>3. old.pc = "rules"
      BY <1>2, <2>9 DEF PassOver, At
    <3> QED BY <2>1, <2>9, <3>2, <3>3, Carries
            DEF PassOver, books, ghosts, ApprovedAt, Channel, Handling
  <2>10. ASSUME NEW a \in Accounts, GateOff(p, a) PROVE lock' = p /\ Good(me)'
    <3>1. me = [old EXCEPT !.accounts = @ \ {a}]
      BY <1>2, <1>4, <2>10 DEF GateOff
    <3>2. me.pc = old.pc /\ me.accounts \subseteq old.accounts /\ me.free = old.free
          /\ me.known = old.known
      BY <3>1 DEF Locals
    <3>3. old.pc = "channels"
      BY <1>2, <2>10 DEF GateOff, At
    <3> QED BY <2>1, <2>10, <3>2, <3>3, Carries
            DEF GateOff, books, ghosts, ApprovedAt, Channel, Handling
  <2>11. ASSUME NEW c \in Recs, Ineligible(p, c) \/ (Look(p, c) /\ hold[<<old.rule, c>>] = "rejected")
         PROVE  lock' = p /\ Good(me)'
    <3>1. me = [old EXCEPT !.todo = @ \ {c}]
      BY <1>2, <1>4, <2>11 DEF Ineligible, Look
    <3>2. /\ me.pc = old.pc /\ me.accounts = old.accounts /\ me.free = old.free
          /\ me.known = old.known /\ me.rule = old.rule /\ me.account = old.account
          /\ me.claim = old.claim /\ me.todo \subseteq old.todo
      BY <3>1 DEF Locals
    <3>3. old.pc = "clips"
      BY <1>2, <2>11 DEF Ineligible, Look, At
    <3> QED BY <2>1, <2>11, <3>2, <3>3, Carries
            DEF Ineligible, Look, books, ghosts, ApprovedAt, Channel, Handling
  <2>12. ASSUME NEW c \in Recs, Look(p, c), hold[<<old.rule, c>>] # "rejected"
         PROVE  lock' = p /\ Good(me)'
    <3>1. me = [old EXCEPT !.todo = @ \ {c}, !.pc = "held", !.clip = c]
      BY <1>2, <1>4, <2>12 DEF Look
    <3>2. /\ me.pc = "held" /\ me.accounts = old.accounts /\ me.free = old.free
          /\ me.known = old.known /\ me.rule = old.rule /\ me.account = old.account
          /\ me.claim = old.claim /\ me.todo \subseteq old.todo /\ me.clip = c
      BY <3>1 DEF Locals
    <3>3. old.pc = "clips" /\ c \in old.todo
      BY <1>2, <2>12 DEF Look, At
    <3> QED BY <2>1, <2>2, <2>12, <3>2, <3>3, Carries
            DEF Look, books, ghosts, ApprovedAt, FreshAt, Channel, Handling
  <2>13. ASSUME NEW r \in Rules, Evaluate(p, r) PROVE lock' = p /\ Good(me)'
    <3>1. PICK S \in Chosen(r, old.known) :
            me = [old EXCEPT !.pc = "adopt", !.rules = @ \ {r}, !.rule = r, !.picks = S]
      BY <1>2, <1>4, <2>13 DEF Evaluate
    <3>2. /\ me.pc = "adopt" /\ me.accounts = old.accounts /\ me.free = old.free
          /\ me.known = old.known /\ me.rule = r /\ me.picks = S
      BY <3>1 DEF Locals
    <3>3. S # {} => Cardinality(Owned(r)) + Cardinality(S) <= Cap[r]
      BY <2>2, PicksFit DEF IInv
    <3>4. AdoptsAt(me)'
      BY <2>2, <2>13, <3>2, <3>3 DEF Evaluate, AdoptsAt, Owned
    <3> QED BY <2>1, <2>2, <2>13, <3>2, <3>4
            DEF Evaluate, books, ghosts, Good, ApprovedAt, FreshAt, SharesAt, Channel, Handling
  <2>14. ASSUME NEW c \in Recs, Adopt(p, c), owner[c] = Nobody PROVE lock' = p /\ Good(me)'
    <3>1. me = [old EXCEPT !.picks = @ \ {c}, !.known = @ \cup {c}]
      BY <1>2, <1>4, <2>14 DEF Adopt
    <3>2. /\ me.pc = old.pc /\ me.accounts = old.accounts /\ me.free = old.free
          /\ me.known = old.known \cup {c} /\ me.rule = old.rule /\ me.picks = old.picks \ {c}
      BY <3>1 DEF Locals
    <3>3. old.pc = "adopt" /\ c \in old.picks /\ old.rule \in Rules
      BY <1>2, <2>14 DEF Adopt, At, Placed
    <3>4. owner' = [owner EXCEPT ![c] = old.rule] /\ owner \in [Recs -> Rules \cup {Human, Nobody}]
      BY <1>2, <2>14 DEF Adopt, IInv, TypeOK
    <3>5. Owned(old.rule)' = Owned(old.rule) \cup {c} /\ c \notin Owned(old.rule)
      BY <2>14, <3>3, <3>4, AutomationAssumption DEF Owned
    <3>6. Cardinality(Owned(old.rule))' = Cardinality(Owned(old.rule)) + 1
      BY <3>5, FiniteRecs, FS_AddElement DEF Owned
    <3>7. Cardinality(me.picks) = Cardinality(old.picks) - 1
      BY <3>2, <3>3, FiniteRecs, LocalsTyped, FS_RemoveElement
    <3>8. Cardinality(Owned(old.rule)) \in Nat /\ Cardinality(old.picks) \in Nat /\ Cap[old.rule] \in Nat
      BY <3>3, FiniteRecs, LocalsTyped, AutomationAssumption DEF Owned
    <3>9. Cardinality(Owned(old.rule)) + Cardinality(old.picks) <= Cap[old.rule]
      BY <2>2, <3>3 DEF AdoptsAt
    <3>10. Cardinality(Owned(me.rule))' + Cardinality(me.picks) <= Cap[me.rule]
      BY <3>2, <3>6, <3>7, <3>8, <3>9
    <3>11. \A d \in Recs : owner'[d] \in Rules => d \in me.known
      BY <2>2, <3>2, <3>4 DEF AdoptsAt
    <3>12. AdoptsAt(me)'
      BY <3>10, <3>11 DEF AdoptsAt
    <3> QED BY <2>1, <2>2, <2>14, <3>2, <3>3, <3>12
            DEF Adopt, books, ghosts, Good, ApprovedAt, FreshAt, SharesAt, Channel, Handling
  <2>15. ASSUME NEW c \in Recs, Adopt(p, c), owner[c] # Nobody PROVE lock' = p /\ Good(me)'
    <3>1. me = [old EXCEPT !.picks = @ \ {c}]
      BY <1>2, <1>4, <2>15 DEF Adopt
    <3>2. /\ me.pc = old.pc /\ me.accounts = old.accounts /\ me.free = old.free
          /\ me.known = old.known /\ me.rule = old.rule /\ me.picks = old.picks \ {c}
      BY <3>1 DEF Locals
    <3>3. old.pc = "adopt" /\ c \in old.picks /\ old.rule \in Rules /\ UNCHANGED owner
      BY <1>2, <2>15 DEF Adopt, At, Placed
    <3>4. Cardinality(me.picks) = Cardinality(old.picks) - 1
      <4>1. IsFiniteSet(old.picks)
        BY LocalsTyped, FiniteRecs
      <4> QED BY <3>2, <3>3, <4>1, FS_RemoveElement
    <3>5. Cardinality(Owned(old.rule)) \in Nat /\ Cardinality(old.picks) \in Nat /\ Cap[old.rule] \in Nat
      BY <3>3, FiniteRecs, LocalsTyped, AutomationAssumption DEF Owned
    <3>6. Cardinality(Owned(old.rule)) + Cardinality(old.picks) <= Cap[old.rule]
      BY <2>2, <3>3 DEF AdoptsAt
    <3>7. Cardinality(Owned(me.rule)) + Cardinality(me.picks) <= Cap[me.rule]
      BY <3>2, <3>4, <3>5, <3>6
    <3>8. AdoptsAt(me)'
      BY <2>2, <3>2, <3>3, <3>7 DEF AdoptsAt, Owned
    <3> QED BY <2>1, <2>2, <2>15, <3>2, <3>3, <3>8
            DEF Adopt, books, ghosts, Good, ApprovedAt, FreshAt, SharesAt, Channel, Handling
  <2>16. CASE Prepare(p)
    <3>1. me = [old EXCEPT !.pc = "channels", !.accounts = Accounts,
                  !.free = {x \in Pairs : owner[x[1]] = old.rule /\ row[x] = "none"}]
      BY <1>2, <1>4, <2>16 DEF Prepare
    <3>2. /\ me.pc = "channels" /\ me.known = old.known
          /\ me.free = {x \in Pairs : owner[x[1]] = old.rule /\ row[x] = "none"}
      BY <3>1 DEF Locals
    <3>3. \A x \in me.free : x \notin ever
      BY <3>2 DEF IInv, EverInv
    <3>4. FreshAt(me)'
      BY <2>16, <3>2, <3>3 DEF Prepare, ghosts, FreshAt, Channel, Handling
    <3> QED BY <2>1, <2>2, <2>16, <3>2, <3>4
            DEF Prepare, books, ghosts, Good, ApprovedAt, SharesAt, AdoptsAt, Channel, Handling
  <2>17. ASSUME NEW c \in Recs, Refresh(p, c) PROVE lock' = p /\ Good(me)'
    <3>1. me = [old EXCEPT !.free = (@ \ {x \in old.free : x[1] = c})
                                    \cup {x \in Pairs : x[1] = c /\ row[x] = "none"}]
      BY <1>2, <1>4, <2>17 DEF Refresh
    <3>2. /\ me.pc = old.pc /\ me.known = old.known /\ me.accounts = old.accounts
          /\ me.rule = old.rule /\ me.account = old.account /\ me.claim = old.claim
          /\ me.todo = old.todo /\ me.clip = old.clip /\ me.picks = old.picks
          /\ me.free = (old.free \ {x \in old.free : x[1] = c})
                                    \cup {x \in Pairs : x[1] = c /\ row[x] = "none"}
      BY <3>1 DEF Locals
    <3>3. \A x \in me.free : x \in old.free \/ x \notin ever
      BY <3>2 DEF IInv, EverInv
    <3>4. FreshAt(me)'
      BY <2>2, <2>17, <3>2, <3>3 DEF Refresh, ghosts, FreshAt
    <3>5. UNCHANGED <<owner, hold, runs, undone, lock>>
      BY <2>17 DEF Refresh, books
    <3> QED BY <2>1, <2>2, <3>2, <3>4, <3>5
            DEF Good, ApprovedAt, SharesAt, Counted, AdoptsAt, Owned
  <2>18. ASSUME NEW a \in Accounts, OpenChannel(p, a) PROVE lock' = p /\ Good(me)'
    <3>1. me = [old EXCEPT !.pc = "clips", !.accounts = @ \ {a}, !.account = a,
                  !.todo = {c \in Recs : <<c, a>> \in old.free},
                  !.claim = Claimable(old.rule, a), !.left = PerTick[old.rule]]
      BY <1>2, <1>4, <2>18 DEF OpenChannel
    <3>2. /\ me.pc = "clips" /\ me.known = old.known /\ me.accounts \subseteq old.accounts
          /\ me.rule = old.rule /\ me.account = a /\ me.claim = Claimable(old.rule, a)
          /\ me.todo = {c \in Recs : <<c, a>> \in old.free} /\ me.free = old.free
      BY <3>1 DEF Locals
    <3>3. a \in old.accounts /\ old.rule \in Rules /\ UNCHANGED <<owner, hold, runs, undone, lock, ever>>
      BY <1>2, <2>18 DEF OpenChannel, At, Placed, books, ghosts
    <3>4. FreshAt(me)'
      BY <2>2, <3>2, <3>3 DEF FreshAt, Handling
    <3>5. \A i \in 1 .. Len(Plan[me.rule]) :
            \/ me.claim[i] = 0
            \/ me.claim[i] + Cardinality(Counted(me.rule, me.account, i)) = Plan[me.rule][i].count
      BY <3>2, <3>3, ClaimableTyped DEF IInv
    <3>6. SharesAt(me)'
      <4>1. SUFFICES ASSUME NEW i \in 1 .. Len(Plan[me.rule]), me.claim[i] # 0
                     PROVE  me.claim[i] + Cardinality(Counted(me.rule, me.account, i)') <= Plan[me.rule][i].count
        BY DEF SharesAt
      <4>2. Counted(me.rule, me.account, i)' = Counted(me.rule, me.account, i)
        BY <3>3 DEF Counted
      <4>3. Plan[me.rule][i].count \in Nat
        BY <3>2, <3>3, PlanTyped
      <4>4. me.claim[i] + Cardinality(Counted(me.rule, me.account, i)) = Plan[me.rule][i].count
        BY <3>5, <4>1
      <4> HIDE DEF Counted
      <4> QED BY <4>2, <4>3, <4>4
    <3> QED BY <2>1, <2>2, <3>2, <3>3, <3>4, <3>6
            DEF Good, ApprovedAt, AdoptsAt
  <2>19. ASSUME NEW i \in DOMAIN old.claim, Queued(p, i) PROVE lock' = p /\ Good(me)'
    <3>1. me = [old EXCEPT !.pc = "note"]
      BY <1>2, <1>4, <2>19 DEF Queued
    <3>2. /\ me.pc = "note" /\ me.known = old.known /\ me.accounts = old.accounts
          /\ me.rule = old.rule /\ me.account = old.account /\ me.claim = old.claim
          /\ me.todo = old.todo /\ me.free = old.free
      BY <3>1 DEF Locals
    <3>3. /\ old.pc = "dispatch" /\ ever' = ever \cup {<<old.clip, old.account>>}
          /\ UNCHANGED <<owner, runs, undone, lock>>
      BY <1>2, <2>19 DEF Queued, At, books
    <3>4. old.account \notin old.accounts /\ old.clip \notin old.todo
      BY <1>2, <3>3 DEF Placed, Channel, Handling
    <3>5. FreshAt(me)'
      BY <2>2, <3>2, <3>3, <3>4 DEF FreshAt, Channel, Handling
    <3> QED BY <2>1, <2>2, <3>2, <3>3, <3>5
            DEF Good, ApprovedAt, SharesAt, Counted, AdoptsAt, Channel
  <2>20. ASSUME NEW i \in DOMAIN old.claim, Note(p, i) PROVE lock' = p /\ Good(me)'
    <3>1. me = [NextClip(p) EXCEPT !.claim = Spend(@, i), !.left = @ - 1]
      BY <1>4, <2>20 DEF Note
    <3>2. /\ me.pc = "clips" /\ me.known = old.known /\ me.accounts = old.accounts
          /\ me.rule = old.rule /\ me.account = old.account /\ me.claim = Spend(old.claim, i)
          /\ me.todo = old.todo /\ me.free = old.free
      BY <1>2, <3>1, NextClipTyped DEF Locals
    <3>3. old.pc = "note" /\ old.claim[i] > 0 /\ UNCHANGED <<owner, lock, ever>>
      BY <1>2, <2>20 DEF Note, At, IsCursor, ghosts
    <3>4. /\ old.rule \in Rules /\ old.account \in Accounts /\ DOMAIN old.claim = 1 .. Len(Plan[old.rule])
          /\ old.claim \in Seq(Nat)
      BY <1>2, <3>3, LocalsTyped DEF Placed, Channel
    <3>5. SharesAt(me)'
      <4>1. SUFFICES ASSUME NEW j \in 1 .. Len(Plan[old.rule]), me.claim[j] # 0
                     PROVE  me.claim[j] + Cardinality(Counted(old.rule, old.account, j)') <= Plan[old.rule][j].count
        BY <3>2 DEF SharesAt
      <4> DEFINE was == Cardinality(Counted(old.rule, old.account, j))
                 is == Cardinality(Counted(old.rule, old.account, j))'
                 count == Plan[old.rule][j].count
      <4>2. j \in Nat /\ i \in Nat
        BY <3>4, PlanTyped
      <4>3. was \in Nat
        BY <3>4, <4>2, CountedIsFinite DEF IInv
      <4>4. is \in Nat
        <5>1. IsFiniteSet({x \in runs' : x.rule = old.rule /\ x.account = old.account /\ x.slot = j})
          BY <3>4, <4>2, ShareIsFinite DEF TypeOK
        <5>2. Counted(old.rule, old.account, j)' \in
                SUBSET {x \in runs' : x.rule = old.rule /\ x.account = old.account /\ x.slot = j}
          BY DEF Counted
        <5> QED BY <5>1, <5>2, FS_Subset, FS_CardinalityType
      <4>5. is <= was + 1 /\ (j = i \/ is <= was)
        BY <1>2, <2>20, <3>4, <4>2, NoteCounts DEF IInv
      <4>6. me.claim[j] = IF j = i THEN old.claim[i] - 1 ELSE old.claim[j]
        BY <2>20, <3>2, <3>4 DEF Spend
      <4>7. old.claim[j] # 0
        BY <3>3, <4>1, <4>6
      <4>8. old.claim[j] + was <= count
        BY <2>2, <3>3, <4>7 DEF SharesAt, Channel
      <4>9. old.claim[j] \in Nat /\ count \in Nat
        BY <3>4, PlanTyped
      <4> HIDE DEF was, is, count
      <4>10. me.claim[j] + is <= count
        BY <4>3, <4>4, <4>5, <4>6, <4>8, <4>9
      <4> QED BY <4>10 DEF is, count
    <3> QED BY <2>1, <2>2, <3>2, <3>3, <3>5
            DEF Good, ApprovedAt, FreshAt, AdoptsAt, Channel, Handling
  <2> QED
    BY <1>6, <2>0, <2>3, <2>4, <2>5, <2>6, <2>7, <2>8, <2>9, <2>10, <2>11, <2>12, <2>13, <2>14,
       <2>15, <2>16, <2>17, <2>18, <1>2, <2>19, <2>20
    DEF Moves, Advance, Hindered, Look, Adopt
<1> QED BY <1>5, <1>6

-----------------------------------------------------------------------------
(* The invariant is inductive.                                             *)

\* The steps that the books see.
LEMMA MoveKinds ==
    ASSUME NEW p \in Rounds, Moves(p)
    PROVE  /\ \/ \E i \in DOMAIN round[p].claim : Queued(p, i) \/ Note(p, i)
              \/ CutShort(p)
              \/ ~At(p, "note") /\ UNCHANGED <<row, runs, undone, sent, lost, ever>>
           /\ UNCHANGED owner \/ \E c \in Recs : Adopt(p, c)
<1>1. ASSUME NEW i \in DOMAIN round[p].claim, Queued(p, i) \/ Note(p, i) PROVE UNCHANGED owner
  BY <1>1 DEF Queued, Note
<1>2. CutShort(p) => UNCHANGED owner
  BY DEF CutShort
<1>3. ASSUME NEW c \in Recs, Adopt(p, c)
      PROVE  ~At(p, "note") /\ UNCHANGED <<row, runs, undone, sent, lost, ever>>
  BY <1>3 DEF Adopt, At, books, ghosts
<1>4. ASSUME \/ Call(p) \/ Begin(p) \/ Stops(p) \/ Prepare(p) \/ CloseChannel(p) \/ ReadHeld(p)
             \/ Decide(p) \/ HoldClip(p) \/ Refused(p) \/ LeaveRule(p) \/ Finish(p) \/ NoMetadata(p)
             \/ NoCredit(p)
      PROVE  ~At(p, "note") /\ UNCHANGED <<owner, row, runs, undone, sent, lost, ever>>
  BY <1>4 DEF Call, Begin, Stops, Prepare, CloseChannel, ReadHeld, Decide, HoldClip, Refused,
              LeaveRule, Finish, NoMetadata, NoCredit, At, books, ghosts
<1>5. ASSUME \/ \E r \in Rules : Evaluate(p, r) \/ PassOver(p, r)
             \/ \E a \in Accounts : OpenChannel(p, a) \/ GateOff(p, a)
             \/ \E c \in Recs : Look(p, c) \/ Ineligible(p, c) \/ Refresh(p, c)
      PROVE  ~At(p, "note") /\ UNCHANGED <<owner, row, runs, undone, sent, lost, ever>>
  BY <1>5 DEF Evaluate, PassOver, OpenChannel, GateOff, Look, Ineligible, Refresh, At, books, ghosts
<1> QED BY <1>1, <1>2, <1>3, <1>4, <1>5 DEF Moves, Advance, Hindered

LEMMA GoodStands ==
    ASSUME NEW me, Good(me), UNCHANGED <<owner, hold, runs, undone, ever>>
    PROVE  Good(me)'
BY DEF Good, ApprovedAt, FreshAt, SharesAt, Counted, AdoptsAt, Owned

\* A share is not taken from by giving entries back or forgetting them.
LEMMA CountedShrinks ==
    ASSUME TypeOK, runs' \subseteq runs, \A e \in runs' : e \in undone => e \in undone',
           NEW r \in Rules, NEW a \in Accounts, NEW i \in Nat
    PROVE  /\ Cardinality(Counted(r, a, i)) \in Nat
           /\ Cardinality(Counted(r, a, i))' \in Nat
           /\ Cardinality(Counted(r, a, i))' <= Cardinality(Counted(r, a, i))
<1>1. IsFiniteSet(Counted(r, a, i)) /\ Cardinality(Counted(r, a, i)) \in Nat
  BY CountedIsFinite
<1>2. Counted(r, a, i)' \subseteq Counted(r, a, i)
  BY DEF Counted
<1> HIDE DEF Counted
<1>3. IsFiniteSet(Counted(r, a, i)')
      /\ Cardinality(Counted(r, a, i)') <= Cardinality(Counted(r, a, i))
  BY <1>1, <1>2, FS_Subset
<1>4. Cardinality(Counted(r, a, i)') \in Nat
  BY <1>3, FS_CardinalityType
<1> QED BY <1>1, <1>3, <1>4

\* What goes on outside takes nothing from a round.
LEMMA GoodLess ==
    ASSUME TypeOK, NEW me \in Locals, Placed(me), Good(me), UNCHANGED ever,
           \A x \in Rules \X Recs : hold[x] = "released" => hold'[x] = "released",
           \A c \in Recs, r \in Rules : owner'[c] = r <=> owner[c] = r,
           runs' \subseteq runs, \A e \in runs' : e \in undone => e \in undone'
    PROVE  Good(me)'
<1>1. ApprovedAt(me) /\ FreshAt(me) /\ SharesAt(me) /\ AdoptsAt(me)
  BY DEF Good
<1>2. ApprovedAt(me)'
  BY <1>1 DEF ApprovedAt, Placed, Channel, Handling
<1>3. FreshAt(me)'
  BY <1>1 DEF FreshAt
<1>4. SharesAt(me)'
  <2>1. SUFFICES ASSUME me.pc \in Channel, NEW i \in 1 .. Len(Plan[me.rule]), me.claim[i] # 0
                 PROVE  me.claim[i] + Cardinality(Counted(me.rule, me.account, i)') <= Plan[me.rule][i].count
    BY DEF SharesAt
  <2>2. me.rule \in Rules /\ me.account \in Accounts /\ me.claim \in Seq(Nat)
        /\ DOMAIN me.claim = 1 .. Len(Plan[me.rule])
    BY <2>1, LocalsTyped DEF Placed
  <2>3. i \in Nat /\ me.claim[i] \in Nat /\ Plan[me.rule][i].count \in Nat
    BY <2>2, PlanTyped
  <2> DEFINE was == Cardinality(Counted(me.rule, me.account, i))
             is == Cardinality(Counted(me.rule, me.account, i))'
  <2>4. was \in Nat /\ is \in Nat /\ is <= was
    BY <2>2, <2>3, CountedShrinks
  <2>5. me.claim[i] + was <= Plan[me.rule][i].count
    BY <1>1, <2>1 DEF SharesAt
  <2> HIDE DEF was, is
  <2>6. me.claim[i] + is <= Plan[me.rule][i].count
    BY <2>3, <2>4, <2>5
  <2> QED BY <2>6 DEF is
<1>5. AdoptsAt(me)'
  <2>1. \A c \in Recs : owner'[c] \in Rules => c \in me.known
    BY <1>1 DEF AdoptsAt
  <2>2. me.pc = "adopt" => Owned(me.rule)' = Owned(me.rule)
    BY DEF Owned, Placed
  <2> QED BY <1>1, <2>1, <2>2 DEF AdoptsAt
<1> QED BY <1>2, <1>3, <1>4, <1>5 DEF Good

\* Of two rounds under way one is the other.
LEMMA OneIsBusy ==
    ASSUME LocalInv, NEW p \in Rounds, NEW q \in Rounds, Busy(round[p]), Busy(round[q])
    PROVE  p = q
BY DEF LocalInv

LEMMA CursorIsOne ==
    ASSUME NEW claim \in Seq(Nat), NEW i, NEW j, IsCursor(claim, i), IsCursor(claim, j)
    PROVE  i = j
<1>1. i \in Nat /\ j \in Nat /\ i >= 1 /\ j >= 1
  BY DEF IsCursor
<1>2. claim[i] > 0 /\ claim[j] > 0 /\ (\A k \in 1 .. i - 1 : claim[k] = 0)
      /\ (\A k \in 1 .. j - 1 : claim[k] = 0)
  BY DEF IsCursor
<1>3. ~(i < j) /\ ~(j < i)
  BY <1>1, <1>2
<1> QED BY <1>1, <1>3

LEMMA LocalMoves ==
    ASSUME IInv, TypeOK', NEW p \in Rounds, Moves(p)
    PROVE  LocalInv'
<1> SUFFICES ASSUME NEW q \in Rounds, Busy(round[q])' PROVE lock' = q /\ Good(round[q])'
  BY DEF LocalInv
<1>1. CASE q = p
  BY <1>1, GoodStep
<1>2. CASE q # p
  <2>1. PICK me \in Locals : Goes(p, me)
    BY StepTyped DEF IInv
  <2>2. round'[q] = round[q] /\ Busy(round[q])
    BY <1>2, <2>1, GoesTyped DEF IInv, TypeOK, Busy
  <2>3. PICK my \in Locals : my = round[q]
    BY DEF IInv, TypeOK
  <2>4. UNCHANGED world /\ lock' = lock
    BY <1>2, <2>2, OthersStand DEF IInv
  <2>5. lock = q /\ Good(my)
    BY <2>2, <2>3 DEF IInv, LocalInv
  <2>6. Good(my)'
    BY <2>4, <2>5, GoodStands DEF world
  <2>7. Good(round[q])'
    BY <2>2, <2>3, <2>6 DEF Good, ApprovedAt, FreshAt, SharesAt, AdoptsAt
  <2> QED BY <2>4, <2>5, <2>7
<1> QED BY <1>1, <1>2

LEMMA EverMoves ==
    ASSUME IInv, NEW p \in Rounds, Moves(p)
    PROVE  EverInv'
<1>1. CASE UNCHANGED <<row, ever>>
  BY <1>1 DEF IInv, EverInv
<1>2. ASSUME NEW i \in DOMAIN round[p].claim, Queued(p, i) PROVE EverInv'
  <2>1. ever \subseteq Pairs /\ row \in [Pairs -> Rows]
    BY DEF IInv, TypeOK
  <2>2. <<round[p].clip, round[p].account>> \in Pairs
    BY <1>2 DEF IInv, PlaceInv, Placed, Queued, At, Channel, Handling, Pairs
  <2> QED BY <1>2, <2>1, <2>2 DEF Queued, IInv, EverInv
<1>3. ASSUME NEW i \in DOMAIN round[p].claim, Note(p, i) PROVE EverInv'
  BY <1>1, <1>3 DEF Note, ghosts
<1>4. CASE CutShort(p)
  BY <1>1, <1>4 DEF CutShort
<1> QED BY <1>1, <1>2, <1>3, <1>4, MoveKinds

LEMMA CountMoves ==
    ASSUME IInv, TypeOK', NEW p \in Rounds, Moves(p)
    PROVE  CountInv'
<1>1. CASE UNCHANGED <<runs, undone>>
  BY <1>1 DEF IInv, CountInv, Counted
<1>2. ASSUME NEW i \in DOMAIN round[p].claim, Note(p, i) PROVE CountInv'
  <2> DEFINE me == round[p]
  <2>1. me \in Locals /\ Placed(me) /\ me.pc = "note" /\ me.claim[i] > 0
    BY <1>2 DEF IInv, TypeOK, PlaceInv, Note, At, IsCursor
  <2>2. /\ me.rule \in Rules /\ me.account \in Accounts
        /\ me.claim \in Seq(Nat) /\ DOMAIN me.claim = 1 .. Len(Plan[me.rule])
    BY <2>1, LocalsTyped DEF Placed, Channel
  <2>3. i \in Nat /\ me.claim[i] \in Nat
    BY <2>2
  <2>4. me.claim[i] + Cardinality(Counted(me.rule, me.account, i)) <= Plan[me.rule][i].count
    BY <2>1, <2>2 DEF IInv, LocalInv, Busy, Good, SharesAt, Channel
  <2> SUFFICES ASSUME NEW r \in Rules, NEW a \in Accounts, NEW j \in 1 .. Len(Plan[r])
               PROVE  Cardinality(Counted(r, a, j)') <= Plan[r][j].count
    BY DEF CountInv
  <2>5. j \in Nat /\ Plan[r][j].count \in Nat
    BY PlanTyped
  <2> DEFINE was == Cardinality(Counted(r, a, j))
             is == Cardinality(Counted(r, a, j))'
  <2>6. was \in Nat /\ was <= Plan[r][j].count
    BY <2>5, CountedIsFinite DEF IInv, CountInv
  <2>7. is <= was + 1 /\ ((r = me.rule /\ a = me.account /\ j = i) \/ is <= was)
    BY <1>2, <2>3, <2>5, NoteCounts DEF IInv
  <2>8. is \in Nat
    <3>1. IsFiniteSet({x \in runs' : x.rule = r /\ x.account = a /\ x.slot = j})
      BY <2>5, ShareIsFinite DEF TypeOK
    <3>2. Counted(r, a, j)' \in SUBSET {x \in runs' : x.rule = r /\ x.account = a /\ x.slot = j}
      BY DEF Counted
    <3> QED BY <3>1, <3>2, FS_Subset, FS_CardinalityType
  <2>9. r = me.rule /\ a = me.account /\ j = i => me.claim[i] + was <= Plan[r][j].count
    BY <2>4
  <2> HIDE DEF was, is, me
  <2>10. is <= Plan[r][j].count
    BY <2>1, <2>3, <2>5, <2>6, <2>7, <2>8, <2>9
  <2> QED BY <2>10 DEF is
<1>3. ASSUME NEW i \in DOMAIN round[p].claim, Queued(p, i) PROVE CountInv'
  BY <1>1, <1>3 DEF Queued, books
<1>4. CASE CutShort(p)
  BY <1>1, <1>4 DEF CutShort
<1> QED BY <1>1, <1>2, <1>3, <1>4, MoveKinds

LEMMA SentMoves ==
    ASSUME IInv, TypeOK', NEW p \in Rounds, Moves(p)
    PROVE  SentInv'
<1>1. PICK me \in Locals : Goes(p, me)
  BY StepTyped DEF IInv
<1>2. /\ round'[p] = me
      /\ \A q \in Rounds : q # p => round'[q] = round[q]
  BY <1>1, GoesTyped DEF IInv, TypeOK
\* Whoever else has something in hand keeps it.
<1>3. ASSUME NEW q \in Rounds, q # p, NEW e, InHand(round[q], e) PROVE InHand(round[q], e)'
  BY <1>2, <1>3 DEF InHand, IsCursor
<1> SUFFICES ASSUME NEW e \in sent' \ lost'
             PROVE  Noted(e)' \/ \E q \in Rounds : InHand(round[q], e)'
  BY DEF SentInv
<1>4. CASE ~At(p, "note") /\ UNCHANGED <<runs, undone, sent, lost>>
  <2>1. Noted(e) \/ \E q \in Rounds : InHand(round[q], e)
    BY <1>4 DEF IInv, SentInv
  <2>2. ~InHand(round[p], e)
    BY <1>4 DEF InHand, At
  <2> QED BY <1>3, <1>4, <2>1, <2>2 DEF Noted
<1>5. ASSUME NEW i \in DOMAIN round[p].claim, Queued(p, i)
      PROVE  Noted(e)' \/ \E q \in Rounds : InHand(round[q], e)'
  <2>1. CASE e = Entry(p, i)
    <3>1. me = [round[p] EXCEPT !.pc = "note"] /\ round[p] \in Locals
      BY <1>2, <1>5, <1>1, GoesTyped DEF Queued, Goes, IInv, TypeOK
    <3>2. me.pc = "note" /\ me.rule = round[p].rule /\ me.clip = round[p].clip
          /\ me.account = round[p].account /\ me.claim = round[p].claim
      BY <3>1 DEF Locals
    <3>3. InHand(round'[p], e)
      BY <1>2, <1>5, <2>1, <3>2 DEF InHand, Entry, Queued
    <3> QED BY <3>3 DEF InHand, IsCursor
  <2>2. CASE e # Entry(p, i)
    <3>1. e \in sent \ lost /\ UNCHANGED <<runs, undone>> /\ ~At(p, "note")
      BY <1>5, <2>2 DEF Queued, books, At
    <3>2. Noted(e) \/ \E q \in Rounds : InHand(round[q], e)
      BY <3>1 DEF IInv, SentInv
    <3>3. ~InHand(round[p], e)
      BY <3>1 DEF InHand, At
    <3> QED BY <1>3, <3>1, <3>2, <3>3 DEF Noted
  <2> QED BY <2>1, <2>2
<1>6. ASSUME NEW i \in DOMAIN round[p].claim, Note(p, i)
      PROVE  Noted(e)' \/ \E q \in Rounds : InHand(round[q], e)'
  <2>1. /\ e \in sent \ lost /\ e \in Entries
        /\ runs' = runs \cup {Entry(p, i)} /\ undone' = undone \ {Entry(p, i)}
    BY <1>6 DEF Note, ghosts, IInv, TypeOK
  <2>2. CASE Noted(e)
    BY <2>1, <2>2 DEF Noted
  <2>3. CASE InHand(round[p], e)
    <3>1. e.slot = i
      <4>1. round[p].claim \in Seq(Nat)
        BY LocalsTyped DEF IInv, TypeOK
      <4>2. IsCursor(round[p].claim, i) /\ IsCursor(round[p].claim, e.slot)
        BY <1>6, <2>3 DEF Note, InHand
      <4> QED BY <4>1, <4>2, CursorIsOne
    <3>2. e = Entry(p, i)
      BY <2>1, <2>3, <3>1 DEF InHand, Entry, Entries
    <3> QED BY <2>1, <3>2 DEF Noted
  <2>4. ASSUME NEW q \in Rounds, q # p, InHand(round[q], e) PROVE InHand(round[q], e)'
    BY <1>3, <2>4
  <2> QED BY <2>1, <2>2, <2>3, <2>4 DEF IInv, SentInv
<1>7. CASE CutShort(p)
  <2>1. e \in sent \ lost /\ UNCHANGED <<runs, undone>>
    BY <1>7 DEF CutShort
  <2>2. ~InHand(round[p], e)
    BY <1>7, <2>1 DEF CutShort, InHand, At
  <2>3. Noted(e) \/ \E q \in Rounds : InHand(round[q], e)
    BY <2>1 DEF IInv, SentInv
  <2> QED BY <1>3, <2>1, <2>2, <2>3 DEF Noted
<1> QED BY <1>4, <1>5, <1>6, <1>7, MoveKinds

LEMMA CapMoves ==
    ASSUME IInv, NEW p \in Rounds, Moves(p)
    PROVE  AdoptedWithinCap'
<1>1. CASE UNCHANGED owner
  BY <1>1 DEF IInv, AdoptedWithinCap
<1>2. ASSUME NEW c \in Recs, Adopt(p, c) PROVE AdoptedWithinCap'
  <2>0. PICK me \in Locals : me = round[p]
    BY DEF IInv, TypeOK
  <2>1. Placed(me) /\ me.pc = "adopt" /\ c \in me.picks /\ me.rule \in Rules
    BY <1>2, <2>0 DEF IInv, PlaceInv, Placed, Adopt, At
  <2>2. Cardinality(Owned(me.rule)) + Cardinality(me.picks) <= Cap[me.rule]
    BY <2>0, <2>1 DEF IInv, LocalInv, Busy, Good, AdoptsAt
  <2>3. Cardinality(me.picks) \in Nat /\ Cardinality(me.picks) # 0
        /\ Cardinality(Owned(me.rule)) \in Nat /\ Cap[me.rule] \in Nat
    BY <2>1, FiniteRecs, LocalsTyped, FS_EmptySet, AutomationAssumption DEF Owned
  <2>4. CASE owner[c] = Nobody
    <3>1. owner' = [owner EXCEPT ![c] = me.rule] /\ owner \in [Recs -> Rules \cup {Human, Nobody}]
      BY <1>2, <2>0, <2>4 DEF Adopt, IInv, TypeOK
    <3>2. Owned(me.rule)' = Owned(me.rule) \cup {c} /\ c \notin Owned(me.rule)
      BY <2>1, <2>4, <3>1, AutomationAssumption DEF Owned
    <3>3. \A r \in Rules : r # me.rule => Owned(r)' = Owned(r)
      BY <2>1, <2>4, <3>1, AutomationAssumption DEF Owned
    <3>4. IsFiniteSet(Owned(me.rule))
      BY FiniteRecs DEF Owned
    <3>5. Cardinality(Owned(me.rule))' = Cardinality(Owned(me.rule)) + 1
      BY <3>2, <3>4, FS_AddElement
    <3>6. Cardinality(Owned(me.rule))' <= Cap[me.rule]
      BY <2>2, <2>3, <3>5
    <3>7. ASSUME NEW r \in Rules PROVE Cardinality(Owned(r))' <= Cap[r]
      <4>1. CASE r = me.rule
        BY <3>6, <4>1 DEF Owned
      <4>2. CASE r # me.rule
        BY <3>3, <4>2 DEF IInv, AdoptedWithinCap, Owned
      <4> QED BY <4>1, <4>2
    <3> QED BY <3>7 DEF AdoptedWithinCap, Owned
  <2> QED BY <1>1, <1>2, <2>4 DEF Adopt
<1> QED BY <1>1, <1>2, MoveKinds

\* What goes on outside,
LEMMA OutsideLess ==
    ASSUME IInv, Outside
    PROVE  /\ UNCHANGED <<round, lock, ever>>
           /\ runs' \subseteq runs /\ \A e \in runs' : e \in undone => e \in undone'
           /\ \A x \in Rules \X Recs : hold[x] = "released" => hold'[x] = "released"
           /\ \A c \in Recs, r \in Rules : owner'[c] = r <=> owner[c] = r
           /\ \A x \in Pairs : row[x] # "none" => row'[x] # "none"
<1> DEFINE Less ==
        /\ UNCHANGED <<round, lock, ever>>
        /\ runs' \subseteq runs /\ \A e \in runs' : e \in undone => e \in undone'
        /\ \A x \in Rules \X Recs : hold[x] = "released" => hold'[x] = "released"
        /\ \A c \in Recs, r \in Rules : owner'[c] = r <=> owner[c] = r
        /\ \A x \in Pairs : row[x] # "none" => row'[x] # "none"
<1>1. /\ row \in [Pairs -> Rows] /\ hold \in [Rules \X Recs -> Holds]
      /\ owner \in [Recs -> Rules \cup {Human, Nobody}]
  BY DEF IInv, TypeOK
<1>2. ASSUME NEW x \in Pairs, Uploaded(x) \/ UploadFails(x) \/ PublishByHand(x) PROVE Less
  BY <1>1, <1>2 DEF Uploaded, UploadFails, PublishByHand, books, ghosts
<1>3. ASSUME NEW x \in Pairs, NoteFailure(x) PROVE Less
  BY <1>3 DEF NoteFailure
<1>4. ASSUME NEW c \in Recs, AdoptByHand(c) PROVE Less
  BY <1>1, <1>4, AutomationAssumption DEF AdoptByHand, books, ghosts
<1>5. ASSUME NEW x \in Rules \X Recs, NEW verdict \in {"released", "rejected"}, Settle(x, verdict)
      PROVE  Less
  BY <1>1, <1>5 DEF Settle, books, ghosts
<1>6. CASE Tick \/ Midnight
  BY <1>6 DEF Tick, Midnight, RunsOfToday, ghosts
<1> QED BY <1>2, <1>3, <1>4, <1>5, <1>6 DEF Outside

\* and what it does to what was sent.
LEMMA OutsideSent ==
    ASSUME IInv, Outside
    PROVE  SentInv'
<1>1. UNCHANGED round
  BY OutsideLess
<1>2. ASSUME NEW p \in Rounds, NEW e, InHand(round[p], e) PROVE InHand(round[p], e)'
  BY <1>1, <1>2 DEF InHand, IsCursor
<1> SUFFICES ASSUME NEW e \in sent' \ lost'
             PROVE  Noted(e)' \/ \E p \in Rounds : InHand(round[p], e)'
  BY DEF SentInv
<1>3. CASE UNCHANGED <<runs, undone, lost>> /\ sent' \subseteq sent
  <2>1. Noted(e) \/ \E p \in Rounds : InHand(round[p], e)
    BY <1>3 DEF IInv, SentInv
  <2> QED BY <1>2, <1>3, <2>1 DEF Noted
<1>4. ASSUME NEW x \in Pairs, NoteFailure(x)
      PROVE  Noted(e)' \/ \E p \in Rounds : InHand(round[p], e)'
  <2>1. e \in sent \ lost
    BY <1>4 DEF NoteFailure
  <2>2. Noted(e) \/ \E p \in Rounds : InHand(round[p], e)
    BY <2>1 DEF IInv, SentInv
  <2>3. Noted(e) => Noted(e)'
    BY <1>4 DEF NoteFailure, Noted
  <2> QED BY <1>2, <2>2, <2>3
<1>5. CASE Midnight
  BY <1>5 DEF Midnight
<1>6. \/ UNCHANGED <<runs, undone, lost>> /\ sent' \subseteq sent
      \/ \E x \in Pairs : NoteFailure(x)
      \/ Midnight
  BY DEF Outside, Uploaded, UploadFails, PublishByHand, AdoptByHand, Settle, Tick, books, ghosts
<1> QED BY <1>3, <1>4, <1>5, <1>6

LEMMA OutsideKeeps ==
    ASSUME IInv, TypeOK', PlaceInv', Outside
    PROVE  IInv'
<1>1. LocalInv'
  <2>1. SUFFICES ASSUME NEW p \in Rounds, Busy(round[p])' PROVE lock' = p /\ Good(round[p])'
    BY DEF LocalInv
  <2>2. PICK me \in Locals : me = round[p]
    BY DEF IInv, TypeOK
  <2>3. lock = p /\ Good(me) /\ Placed(me)
    BY <2>1, <2>2, OutsideLess DEF IInv, LocalInv, PlaceInv, Busy
  <2>4. Good(me)'
    BY <2>3, OutsideLess, GoodLess DEF IInv
  <2> QED BY <2>2, <2>3, <2>4, OutsideLess DEF Good, ApprovedAt, FreshAt, SharesAt, AdoptsAt
<1>2. EverInv'
  BY OutsideLess DEF IInv, EverInv, TypeOK
<1>3. CountInv'
  <2> SUFFICES ASSUME NEW r \in Rules, NEW a \in Accounts, NEW i \in 1 .. Len(Plan[r])
               PROVE  Cardinality(Counted(r, a, i))' <= Plan[r][i].count
    BY DEF CountInv
  <2>1. i \in Nat /\ Plan[r][i].count \in Nat
    BY PlanTyped
  <2>2. /\ Cardinality(Counted(r, a, i)) \in Nat
        /\ Cardinality(Counted(r, a, i))' \in Nat
        /\ Cardinality(Counted(r, a, i))' <= Cardinality(Counted(r, a, i))
    BY <2>1, OutsideLess, CountedShrinks DEF IInv
  <2>3. Cardinality(Counted(r, a, i)) <= Plan[r][i].count
    BY DEF IInv, CountInv
  <2> QED BY <2>1, <2>2, <2>3
<1>4. AdoptedWithinCap'
  <2>1. \A r \in Rules : {c \in Recs : owner'[c] = r} = {c \in Recs : owner[c] = r}
    BY OutsideLess
  <2> QED BY <2>1 DEF IInv, AdoptedWithinCap
<1> QED BY <1>1, <1>2, <1>3, <1>4, OutsideSent DEF IInv

LEMMA Invariance == Spec => []IInv
<1>1. Init => IInv
  <2> SUFFICES ASSUME Init PROVE IInv
    OBVIOUS
  <2>1. TypeOK /\ PlaceInv
    BY IdleTyped, AutomationAssumption DEF Init, TypeOK, PlaceInv, Rows, Holds
  <2>2. LocalInv
    BY IdleFields DEF Init, LocalInv, Busy
  <2>3. EverInv /\ SentInv
    BY DEF Init, EverInv, SentInv
  <2>4. CountInv
    <3>1. \A r \in Rules, a \in Accounts : \A i \in 1 .. Len(Plan[r]) : Counted(r, a, i) = {}
      BY DEF Init, Counted
    <3>2. Cardinality({}) = 0
      BY FS_EmptySet
    <3>3. \A r \in Rules : \A i \in 1 .. Len(Plan[r]) : 0 <= Plan[r][i].count
      BY PlanTyped
    <3> QED BY <3>1, <3>2, <3>3 DEF CountInv
  <2>5. AdoptedWithinCap
    <3>1. \A r \in Rules : {c \in Recs : owner[c] = r} = {}
      BY AutomationAssumption DEF Init
    <3>2. Cardinality({}) = 0
      BY FS_EmptySet
    <3>3. \A r \in Rules : 0 <= Cap[r]
      BY AutomationAssumption
    <3> QED BY <3>1, <3>2, <3>3 DEF AdoptedWithinCap
  <2> QED BY <2>1, <2>2, <2>3, <2>4, <2>5 DEF IInv
<1>2. IInv /\ [Next]_vars => IInv'
  <2> SUFFICES ASSUME IInv, [Next]_vars PROVE IInv'
    OBVIOUS
  <2>1. TypeOK' /\ PlaceInv'
    BY TypeStep DEF IInv
  <2>2. CASE UNCHANGED vars
    <3>1. ASSUME NEW p \in Rounds, Busy(round[p])' PROVE lock' = p /\ Good(round[p])'
      <4>1. lock = p /\ Good(round[p])
        BY <2>2, <3>1 DEF IInv, LocalInv, Busy, vars
      <4>2. PICK me \in Locals : me = round[p]
        BY DEF IInv, TypeOK
      <4>3. Good(me)'
        BY <2>2, <4>1, <4>2, GoodStands DEF vars
      <4> QED BY <2>2, <4>1, <4>2, <4>3 DEF vars, Good, ApprovedAt, FreshAt, SharesAt, AdoptsAt
    <3>2. LocalInv'
      BY <3>1 DEF LocalInv
    <3>3. EverInv' /\ AdoptedWithinCap'
      BY <2>2 DEF vars, IInv, EverInv, AdoptedWithinCap
    <3>4. CountInv'
      BY <2>2 DEF vars, IInv, CountInv, Counted
    <3>5. SentInv'
      BY <2>2 DEF vars, IInv, SentInv, Noted, InHand, IsCursor
    <3> QED BY <2>1, <3>2, <3>3, <3>4, <3>5 DEF IInv
  <2>3. ASSUME NEW p \in Rounds, Moves(p) PROVE IInv'
    BY <2>1, <2>3, LocalMoves, EverMoves, CountMoves, SentMoves, CapMoves DEF IInv
  <2>4. CASE Outside
    BY <2>1, <2>4, OutsideKeeps
  <2> QED BY <2>2, <2>3, <2>4 DEF Next, Moves, Outside
<1> QED BY <1>1, <1>2, PTL DEF Spec

-----------------------------------------------------------------------------
(* What follows.                                                           *)

\* However rounds, restarts and the console overlap, a round dispatches no clip to an account
\* that a round has dispatched it to before.
THEOREM NeverSentTwice == Spec => []SentOnce
<1>1. IInv => SentOnce
  BY DEF IInv, LocalInv, Busy, Good, FreshAt, Channel, Handling, SentOnce, At
<1> QED BY <1>1, Invariance, PTL

\* No rule ever has more clips than its cap.
THEOREM CapIsKept == Spec => []AdoptedWithinCap
<1>1. IInv => AdoptedWithinCap
  BY DEF IInv
<1> QED BY <1>1, Invariance, PTL

\* A clip of an approve_first rule goes out only while a human's release stands.
THEOREM ApprovalHolds == Spec => ApprovedWhenSent
<1> DEFINE Step == \A e \in sent' \ sent : e.rule \in ApproveFirst => hold[<<e.rule, e.clip>>] = "released"
<1>1. IInv /\ [Next]_vars => Step \/ UNCHANGED vars
  <2> SUFFICES ASSUME IInv, Next PROVE Step
    OBVIOUS
  <2>1. CASE sent' \subseteq sent
    BY <2>1
  <2>2. ASSUME NEW p \in Rounds, NEW i \in DOMAIN round[p].claim, Queued(p, i) PROVE Step
    <3>1. Busy(round[p]) /\ round[p].pc = "dispatch"
      BY <2>2 DEF Queued, At, Busy
    <3>2. ApprovedAt(round[p])
      BY <3>1 DEF IInv, LocalInv, Good
    <3> QED BY <2>2, <3>1, <3>2 DEF Queued, Entry, ApprovedAt
  <2>3. ASSUME NEW p \in Rounds, Moves(p) PROVE Step
    BY <2>1, <2>2, <2>3, MoveKinds DEF Note, CutShort, ghosts
  <2>4. CASE Outside
    BY <2>1, <2>4 DEF Outside, Uploaded, UploadFails, NoteFailure, PublishByHand, AdoptByHand,
                      Settle, Tick, Midnight, ghosts
  <2> QED BY <2>3, <2>4 DEF Next, Moves, Outside
<1> QED BY <1>1, Invariance, PTL DEF Spec, ApprovedWhenSent

\* Of one share of a day no more goes out than it holds, whatever is cut short or fails.
THEOREM SharesAreKept == Spec => []SharesHold
<1>1. IInv => SharesHold
  <2> SUFFICES ASSUME IInv, NEW r \in Rules, NEW a \in Accounts, NEW i \in 1 .. Len(Plan[r])
               PROVE  Cardinality({e \in sent \ lost : e.rule = r /\ e.account = a /\ e.slot = i})
                        <= Plan[r][i].count
    BY DEF SharesHold
  <2> DEFINE T == {e \in sent \ lost : e.rule = r /\ e.account = a /\ e.slot = i}
             C == Counted(r, a, i)
  <2>1. i \in Nat /\ Plan[r][i].count \in Nat
    BY PlanTyped
  <2>2. IsFiniteSet(C) /\ Cardinality(C) \in Nat /\ Cardinality(C) <= Plan[r][i].count
    BY <2>1, CountedIsFinite DEF IInv, CountInv
  <2>3. IsFiniteSet(T) /\ Cardinality(T) \in Nat
    <3>1. sent \ lost \in SUBSET Entries
      BY DEF IInv, TypeOK
    <3> QED BY <2>1, <3>1, ShareIsFinite
  <2>4. \A e \in T : e \in C \/ \E p \in Rounds : InHand(round[p], e)
    BY DEF IInv, SentInv, Noted, Counted
  <2>5. CASE T \subseteq C
    <3> HIDE DEF T, C
    <3>1. Cardinality(T) <= Cardinality(C)
      BY <2>2, <2>5, FS_Subset
    <3>2. Cardinality(T) <= Plan[r][i].count
      BY <2>1, <2>2, <2>3, <3>1
    <3> QED BY <3>2 DEF T
  <2>6. ASSUME NEW d \in T, d \notin C
        PROVE  Cardinality(T) <= Plan[r][i].count
    <3>1. PICK p \in Rounds : InHand(round[p], d)
      BY <2>4, <2>6
    <3>2. ASSUME NEW e \in T, e \notin C PROVE e = d
      <4>1. PICK q \in Rounds : InHand(round[q], e)
        BY <2>4, <3>2
      <4>2. q = p
        BY <3>1, <4>1, OneIsBusy DEF InHand, Busy, IInv
      <4>3. e.rule = d.rule /\ e.clip = d.clip /\ e.account = d.account /\ e.slot = d.slot
        BY <3>1, <4>1, <4>2 DEF InHand
      <4>4. e \in Entries /\ d \in Entries
        BY DEF IInv, TypeOK
      <4> QED BY <4>3, <4>4 DEF Entries
    <3>3. T \subseteq C \cup {d}
      BY <3>2
    <3>4. /\ round[p].pc = "note" /\ round[p].rule = r /\ round[p].account = a
          /\ round[p].claim[i] > 0
      BY <3>1, <2>6 DEF InHand, IsCursor
    <3>5. round[p].claim[i] + Cardinality(C) <= Plan[r][i].count
      BY <3>4 DEF IInv, LocalInv, Busy, Good, SharesAt, Channel
    <3>6. round[p].claim \in Seq(Nat) /\ DOMAIN round[p].claim = 1 .. Len(Plan[r])
      BY <3>4, LocalsTyped DEF IInv, TypeOK, PlaceInv, Placed, Channel
    <3>7. round[p].claim[i] \in Nat
      BY <3>6
    <3> HIDE DEF T, C
    <3>8. IsFiniteSet(C \cup {d}) /\ Cardinality(C \cup {d}) = Cardinality(C) + 1
      BY <2>2, <2>6, FS_AddElement
    <3>9. Cardinality(T) <= Cardinality(C) + 1
      BY <3>3, <3>8, FS_Subset
    <3> QED BY <2>1, <2>2, <2>3, <3>4, <3>5, <3>7, <3>9
  <2> QED BY <2>5, <2>6
<1> QED BY <1>1, Invariance, PTL
=============================================================================
