-------------------------- MODULE CreditTopupProofs ---------------------------
(***************************************************************************)
(* Theorems about CreditTopup, for any number of handlers, payments, keys, *)
(* windows, slots and days.                                                *)
(***************************************************************************)
EXTENDS CreditTopup, FiniteSetTheorems, TLAPS

-----------------------------------------------------------------------------
(* The inductive invariants.                                               *)

\* Where a run keeps which payment.
PayInv ==
    /\ \A c \in CardRuns : pc[c] # "idle" => pay[c] \in CardPays
    /\ \A a \in AutoRuns : pay[a] \in AutoPays \cup {NoPay}
    /\ \A a \in AutoRuns : todo[a] \subseteq AutoPays
    /\ \A a \in AutoRuns : pc[a] \in {"list", "reconcile"} => attempts[a] < MaxSlot

\* A payment that reached the provider has an order, and without late answers only
\* the window is decided later.
ProviderInv ==
    /\ \A p \in Payments : pg[p] # "none" => order[p] # "none"
    /\ \A r \in Runs : pc[r] \in {"charge", "declined", "verify", "credit", "mark"}
                       => order[pay[r]] # "none"
    /\ ~LateApproval => \A p \in Payments : pg[p] = "sent" => p \in WindowPays

\* What the books may say of a payment, and what a run between two statements knows.
BooksInv ==
    /\ \A p \in Payments : ledger[p] \in {0, 1}
    /\ \A p \in Payments : ledger[p] = 1 => pg[p] = "paid"
    /\ \A p \in Payments : order[p] = "paid" => ledger[p] = 1
    /\ \A r \in Runs : pc[r] = "credit" => pg[pay[r]] = "paid"
    /\ \A r \in Runs : pc[r] = "mark" => ledger[pay[r]] = 1

IInv == TypeOK /\ PayInv /\ ProviderInv /\ BooksInv

\* The section that withTenantLock protects.
Inside == Steps \ {"idle", "wait"}

\* The automatic runs exclude each other, and so do the card runs.
LockInv ==
    /\ \A a \in AutoRuns : pc[a] \in Inside => autoLock = a
    /\ \A c \in CardRuns : pc[c] \in Inside => cardLock = c

\* A run that reconciles still has every captured payment to look at that is not credited
\* and that its query could show.
ReconcileInv ==
    \A a \in AutoRuns :
        pc[a] = "reconcile"
        => /\ todo[a] \subseteq listed[a]
           /\ \A q \in AutoPays : (pg[q] = "paid" /\ ledger[q] = 0) => q \in todo[a] \/ BeyondList(a, q)

\* With every answer of a charge, an order that failed was refused by the provider.
RefusedInv ==
    /\ \A p \in CardPays : order[p] = "failed" => pg[p] = "failed"
    /\ \A c \in CardRuns : pc[c] = "declined" => pg[pay[c]] = "failed"
    /\ \A k \in Keys, s \in 1..MaxSlot :
         order[CardId(k, s)] # "none" => \A t \in 1..(s - 1) : order[CardId(k, t)] = "failed"

-----------------------------------------------------------------------------
(* Facts about the constants and the operators.                            *)

LEMMA Ids ==
    /\ \A p \in AutoPays : p \in Payments /\ p \notin CardPays /\ p \notin WindowPays
    /\ \A p \in CardPays : p \in Payments /\ p \notin WindowPays /\ p[2] \in Keys
    /\ \A p \in WindowPays : p \in Payments
    /\ NoPay \notin Payments
    /\ \A d \in 1..MaxDay, s \in 1..MaxSlot : AutoId(d, s) \in AutoPays
    /\ \A k \in Keys, s \in 1..MaxSlot : CardId(k, s) \in CardPays
    /\ \A w \in Windows : WindowId(w) \in WindowPays
BY CreditTopupAssumption DEF Payments, AutoPays, CardPays, WindowPays, AutoId, CardId, WindowId

LEMMA AutoPaysFinite == IsFiniteSet(AutoPays)
<1> DEFINE S == (1..MaxDay) \X (1..MaxSlot)
           f == [x \in S |-> AutoId(x[1], x[2])]
<1>1. IsFiniteSet(S)
  <2>1. IsFiniteSet(1..MaxDay) /\ IsFiniteSet(1..MaxSlot)
    BY FS_Interval, CreditTopupAssumption
  <2> QED
    BY <2>1, FS_Product
<1>2. f \in Surjection(S, AutoPays)
  <2>1. \A x \in S : f[x] \in AutoPays
    BY Ids
  <2>2. ASSUME NEW p \in AutoPays PROVE \E x \in S : f[x] = p
    <3>1. PICK d \in 1..MaxDay, s \in 1..MaxSlot : p = AutoId(d, s)
      BY DEF AutoPays
    <3>2. <<d, s>> \in S /\ f[<<d, s>>] = p
      BY <3>1
    <3> QED
      BY <3>2
  <2> QED
    BY <2>1, <2>2 DEF Surjection
<1> QED
  BY <1>1, <1>2, FS_Surjection DEF ExistsSurjection

LEMMA CountsAreNat ==
    /\ Cardinality(todayAttempts) \in Nat
    /\ Cardinality({q \in AutoPays : order[q] # "none"}) \in Nat
<1>1. todayAttempts \subseteq AutoPays
  BY DEF todayAttempts
<1> QED
  BY <1>1, AutoPaysFinite, FS_Subset, FS_CardinalityType

\* What the query of the unsettled orders returns, and what it may leave out.
LEMMA ListShows ==
    ASSUME day \in 1..MaxDay, created \in [AutoPays -> Nat],
           NEW ps \in listUnsettledAutoTopups
    PROVE  /\ ps \subseteq Unpaid
           /\ \A q \in Unpaid : \/ q \in ps
                                \/ day >= q[2] + ListDays
                                \/ Cardinality(ps) = ListLimit /\ \A p \in ps : created[p] < created[q]
<1>1. PICK cut : ps \subseteq Recent(cut) /\ IsHead(ps, Recent(cut))
  BY DEF listUnsettledAutoTopups
<1>2. ASSUME NEW q \in Unpaid, q \notin ps, ~(day >= q[2] + ListDays)
      PROVE  Cardinality(ps) = ListLimit /\ \A p \in ps : created[p] < created[q]
  <2>1. day < q[2] + ListDays
    <3>1. q[2] \in Nat
      BY <1>2 DEF Unpaid, AutoPays, AutoId
    <3> QED
      BY <1>2, <3>1, CreditTopupAssumption
  <2>2. q \in Recent(cut) \ ps
    BY <1>2, <2>1 DEF Recent
  <2> QED
    BY <1>1, <2>2 DEF IsHead
<1> QED
  BY <1>1, <1>2 DEF Recent

-----------------------------------------------------------------------------
(* Types.                                                                  *)

LEMMA TypeInit == Init => TypeOK /\ PayInv
BY CreditTopupAssumption DEF Init, TypeOK, PayInv, OrderStatus, PgStatus, Steps, Runs

LEMMA TypeNext == TypeOK /\ PayInv /\ [Next]_vars => TypeOK' /\ PayInv'
<1> SUFFICES ASSUME TypeOK, PayInv, [Next]_vars PROVE TypeOK' /\ PayInv'
  OBVIOUS
<1> USE Ids, CreditTopupAssumption DEF TypeOK, PayInv, OrderStatus, PgStatus, Steps, Runs, Goto, Finish, LeaveLoop, Unlock, books, provider, world, locks, locals, lists, judged
<1>1. ASSUME NEW a \in AutoRuns, AutoStart(a) PROVE TypeOK' /\ PayInv'
  BY <1>1 DEF AutoStart
<1>2. ASSUME NEW a \in AutoRuns, AutoLock(a) PROVE TypeOK' /\ PayInv'
  BY <1>2 DEF AutoLock
<1>3. ASSUME NEW a \in AutoRuns, AutoJudge(a) PROVE TypeOK' /\ PayInv'
  <2>1. CASE Low(need[a]) /\ Cardinality(todayAttempts) < MaxSlot
    <3>1. Cardinality(todayAttempts) \in Nat
      BY CountsAreNat
    <3>2. /\ attempts' = [attempts EXCEPT ![a] = Cardinality(todayAttempts)]
          /\ pc' = [pc EXCEPT ![a] = "list"]
          /\ UNCHANGED <<books, provider, world, locks, pay, lists, need, paidSeen>>
      BY <1>3, <2>1 DEF AutoJudge
    <3> QED
      BY <2>1, <3>1, <3>2
  <2>2. CASE ~(Low(need[a]) /\ Cardinality(todayAttempts) < MaxSlot)
    <3>1. Finish(a) /\ UNCHANGED <<books, provider, world>>
      BY <1>3, <2>2 DEF AutoJudge
    <3> QED
      BY <3>1
  <2> QED
    BY <2>1, <2>2
<1>4. ASSUME NEW a \in AutoRuns, AutoList(a) PROVE TypeOK' /\ PayInv'
  <2>1. PICK ps \in listUnsettledAutoTopups :
          listed' = [listed EXCEPT ![a] = ps] /\ todo' = [todo EXCEPT ![a] = ps]
    BY <1>4 DEF AutoList
  <2>2. ps \subseteq AutoPays
    BY ListShows DEF Unpaid
  <2> QED
    BY <1>4, <2>1, <2>2 DEF AutoList
<1>5. ASSUME NEW a \in AutoRuns, AutoReconcile(a) PROVE TypeOK' /\ PayInv'
  BY <1>5 DEF AutoReconcile, Settles
<1>6. ASSUME NEW a \in AutoRuns, AutoCreate(a) PROVE TypeOK' /\ PayInv'
  <2> DEFINE p == AutoId(day, attempts[a] + 1)
  <2>1. pc[a] = "reconcile" /\ UNCHANGED <<ledger, provider, used, day>>
    BY <1>6 DEF AutoCreate
  <2>2. p \in AutoPays
    BY <2>1
  <2>3. CASE order[p] = "none"
    <3>1. /\ order' = [order EXCEPT ![p] = "pending"]
          /\ created' = [created EXCEPT ![p] =
                           Cardinality({q \in AutoPays : order[q] # "none"}) + 1]
          /\ pay' = [pay EXCEPT ![a] = p]
          /\ pc' = [pc EXCEPT ![a] = "charge"]
          /\ LeaveLoop(a)
          /\ UNCHANGED <<locks, judged, paidSeen>>
      BY <1>6, <2>3 DEF AutoCreate, createTopup
    <3>2. Cardinality({q \in AutoPays : order[q] # "none"}) + 1 \in Nat
      BY CountsAreNat
    <3> HIDE DEF p
    <3> QED
      BY <2>1, <2>2, <3>1, <3>2
  <2>4. CASE order[p] # "none"
    <3>1. Finish(a) /\ UNCHANGED <<order, created>>
      BY <1>6, <2>4 DEF AutoCreate, createTopup
    <3> QED
      BY <2>1, <3>1
  <2> QED
    BY <2>3, <2>4
<1>7. ASSUME NEW c \in CardRuns, CardStart(c) PROVE TypeOK' /\ PayInv'
  BY <1>7 DEF CardStart
<1>8. ASSUME NEW c \in CardRuns, CardLock(c) PROVE TypeOK' /\ PayInv'
  BY <1>8 DEF CardLock
<1>9. ASSUME NEW c \in CardRuns, CardPick(c) PROVE TypeOK' /\ PayInv'
  <2>1. pc[c] = "pick" /\ UNCHANGED <<ledger, provider, world>>
    BY <1>9 DEF CardPick
  <2>2. PICK s \in 1..MaxSlot :
          LET p == CardId(pay[c][2], s)
          IN  IF order[p] = "paid"
              THEN Finish(c) /\ UNCHANGED order
              ELSE /\ createTopup(p) \/ (order[p] # "none" /\ UNCHANGED order)
                   /\ pay' = [pay EXCEPT ![c] = p]
                   /\ Goto(c, "charge")
                   /\ UNCHANGED <<locks, lists, judged, paidSeen>>
    BY <1>9 DEF CardPick
  <2> DEFINE p == CardId(pay[c][2], s)
  <2>3. p \in CardPays
    BY <2>1
  <2>4. CASE order[p] = "paid"
    <3>1. Finish(c) /\ UNCHANGED order
      BY <2>2, <2>4
    <3> QED
      BY <2>1, <3>1
  <2>5. CASE order[p] # "paid"
    BY <2>1, <2>2, <2>3, <2>5 DEF createTopup
  <2> QED
    BY <2>4, <2>5
<1>10. ASSUME NEW r \in AutoRuns \cup CardRuns, ChargeApproved(r) PROVE TypeOK' /\ PayInv'
  BY <1>10 DEF ChargeApproved, Execute
<1>11. ASSUME NEW r \in AutoRuns \cup CardRuns, ChargeRefused(r) PROVE TypeOK' /\ PayInv'
  BY <1>11 DEF ChargeRefused, Execute
<1>12. ASSUME NEW r \in AutoRuns \cup CardRuns, ChargeUnanswered(r) PROVE TypeOK' /\ PayInv'
  BY <1>12 DEF ChargeUnanswered, Execute, Unanswered
<1>13. ASSUME NEW r \in AutoRuns \cup CardRuns, CrashInCharge(r) PROVE TypeOK' /\ PayInv'
  BY <1>13 DEF CrashInCharge, Execute, Unanswered
<1>14. ASSUME NEW r \in AutoRuns \cup CardRuns, MarkFailed(r) PROVE TypeOK' /\ PayInv'
  BY <1>14 DEF MarkFailed, markTopupPaid
<1>15. ASSUME NEW r \in AutoRuns \cup CardRuns, Verify(r) PROVE TypeOK' /\ PayInv'
  <2>1. CASE Goto(r, "credit") /\ UNCHANGED <<locks, locals>>
    BY <1>15, <2>1 DEF Verify
  <2>2. CASE Finish(r)
    BY <1>15, <2>2 DEF Verify
  <2> QED
    BY <1>15, <2>1, <2>2 DEF Verify
<1>16. ASSUME NEW r \in Runs, Credit(r) PROVE TypeOK' /\ PayInv'
  BY <1>16 DEF Credit, addCreditEntry
<1>17. ASSUME NEW r \in Runs, MarkPaid(r) PROVE TypeOK' /\ PayInv'
  BY <1>17 DEF MarkPaid, markTopupPaid
<1>18. ASSUME NEW r \in Runs, Crash(r) PROVE TypeOK' /\ PayInv'
  BY <1>18 DEF Crash
<1>19. ASSUME NEW h \in Hooks, NEW p \in Payments, WebhookStart(h, p) PROVE TypeOK' /\ PayInv'
  BY <1>19 DEF WebhookStart
<1>20. ASSUME NEW h \in Hooks, WebhookSettles(h) PROVE TypeOK' /\ PayInv'
  BY <1>20 DEF WebhookSettles
<1>21. ASSUME NEW h \in Hooks, WebhookCloses(h) PROVE TypeOK' /\ PayInv'
  BY <1>21 DEF WebhookCloses
<1>22. ASSUME NEW h \in Hooks, WebhookRetries(h) PROVE TypeOK' /\ PayInv'
  BY <1>22 DEF WebhookRetries
<1>23. ASSUME NEW w \in Windows, OpenWindow(w) PROVE TypeOK' /\ PayInv'
  BY <1>23 DEF OpenWindow, createTopup
<1>24. ASSUME NEW p \in Payments, Decide(p) PROVE TypeOK' /\ PayInv'
  BY <1>24 DEF Decide
<1>25. CASE Use
  BY <1>25 DEF Use
<1>26. CASE Midnight
  BY <1>26 DEF Midnight
<1>27. CASE UNCHANGED vars
  BY <1>27 DEF vars
<1> QED
  BY <1>1, <1>2, <1>3, <1>4, <1>5, <1>6, <1>7, <1>8, <1>9, <1>10, <1>11, <1>12, <1>13, <1>14, <1>15, <1>16, <1>17, <1>18, <1>19, <1>20, <1>21, <1>22, <1>23, <1>24, <1>25, <1>26, <1>27 DEF Next

\* The orders, the ledger, the provider and the runs keep their types
\* (db-pg.ts:4584-4673, auto-topup.ts:77-287, index.ts:7229-7382 and 7637-7759).
THEOREM TypeCorrect == Spec => []TypeOK
<1>1. Spec => [](TypeOK /\ PayInv)
  BY TypeInit, TypeNext, PTL DEF Spec
<1> QED
  BY <1>1, PTL

-----------------------------------------------------------------------------
(* The books.                                                              *)

LEMMA ProviderNext == TypeOK /\ PayInv /\ ProviderInv /\ [Next]_vars => ProviderInv'
<1> SUFFICES ASSUME TypeOK, PayInv, ProviderInv, [Next]_vars PROVE ProviderInv'
  OBVIOUS
<1> USE Ids, CreditTopupAssumption DEF TypeOK, PayInv, ProviderInv, Runs, Goto, Finish, LeaveLoop, books, provider, world, locks, locals, lists, judged
<1>1. ASSUME NEW a \in AutoRuns, AutoStart(a) PROVE ProviderInv'
  BY <1>1 DEF AutoStart
<1>2. ASSUME NEW a \in AutoRuns, AutoLock(a) PROVE ProviderInv'
  BY <1>2 DEF AutoLock
<1>3. ASSUME NEW a \in AutoRuns, AutoJudge(a) PROVE ProviderInv'
  BY <1>3 DEF AutoJudge
<1>4. ASSUME NEW a \in AutoRuns, AutoList(a) PROVE ProviderInv'
  BY <1>4 DEF AutoList
<1>5. ASSUME NEW a \in AutoRuns, AutoReconcile(a) PROVE ProviderInv'
  BY <1>5 DEF AutoReconcile, Settles
<1>6. ASSUME NEW a \in AutoRuns, AutoCreate(a) PROVE ProviderInv'
  BY <1>6 DEF AutoCreate, createTopup
<1>7. ASSUME NEW c \in CardRuns, CardStart(c) PROVE ProviderInv'
  BY <1>7 DEF CardStart
<1>8. ASSUME NEW c \in CardRuns, CardLock(c) PROVE ProviderInv'
  BY <1>8 DEF CardLock
<1>9. ASSUME NEW c \in CardRuns, CardPick(c) PROVE ProviderInv'
  BY <1>9 DEF CardPick, createTopup
<1>10. ASSUME NEW r \in AutoRuns \cup CardRuns, ChargeApproved(r) PROVE ProviderInv'
  BY <1>10 DEF ChargeApproved, Execute
<1>11. ASSUME NEW r \in AutoRuns \cup CardRuns, ChargeRefused(r) PROVE ProviderInv'
  BY <1>11 DEF ChargeRefused, Execute
<1>12. ASSUME NEW r \in AutoRuns \cup CardRuns, ChargeUnanswered(r) PROVE ProviderInv'
  BY <1>12 DEF ChargeUnanswered, Execute, Unanswered
<1>13. ASSUME NEW r \in AutoRuns \cup CardRuns, CrashInCharge(r) PROVE ProviderInv'
  BY <1>13 DEF CrashInCharge, Execute, Unanswered
<1>14. ASSUME NEW r \in AutoRuns \cup CardRuns, MarkFailed(r) PROVE ProviderInv'
  BY <1>14 DEF MarkFailed, markTopupPaid
<1>15. ASSUME NEW r \in AutoRuns \cup CardRuns, Verify(r) PROVE ProviderInv'
  BY <1>15 DEF Verify, Settles
<1>16. ASSUME NEW r \in Runs, Credit(r) PROVE ProviderInv'
  BY <1>16 DEF Credit, addCreditEntry
<1>17. ASSUME NEW r \in Runs, MarkPaid(r) PROVE ProviderInv'
  BY <1>17 DEF MarkPaid, markTopupPaid
<1>18. ASSUME NEW r \in Runs, Crash(r) PROVE ProviderInv'
  BY <1>18 DEF Crash
<1>19. ASSUME NEW h \in Hooks, NEW p \in Payments, WebhookStart(h, p) PROVE ProviderInv'
  BY <1>19 DEF WebhookStart
<1>20. ASSUME NEW h \in Hooks, WebhookSettles(h) PROVE ProviderInv'
  BY <1>20 DEF WebhookSettles, Settles
<1>21. ASSUME NEW h \in Hooks, WebhookCloses(h) PROVE ProviderInv'
  BY <1>21 DEF WebhookCloses
<1>22. ASSUME NEW h \in Hooks, WebhookRetries(h) PROVE ProviderInv'
  BY <1>22 DEF WebhookRetries
<1>23. ASSUME NEW w \in Windows, OpenWindow(w) PROVE ProviderInv'
  BY <1>23 DEF OpenWindow, createTopup
<1>24. ASSUME NEW p \in Payments, Decide(p) PROVE ProviderInv'
  BY <1>24 DEF Decide
<1>25. CASE Use
  BY <1>25 DEF Use
<1>26. CASE Midnight
  BY <1>26 DEF Midnight
<1>27. CASE UNCHANGED vars
  BY <1>27 DEF vars
<1> QED
  BY <1>1, <1>2, <1>3, <1>4, <1>5, <1>6, <1>7, <1>8, <1>9, <1>10, <1>11, <1>12, <1>13, <1>14, <1>15, <1>16, <1>17, <1>18, <1>19, <1>20, <1>21, <1>22, <1>23, <1>24, <1>25, <1>26, <1>27 DEF Next

LEMMA BooksNext == IInv /\ [Next]_vars => BooksInv'
<1> SUFFICES ASSUME TypeOK, PayInv, ProviderInv, BooksInv, [Next]_vars PROVE BooksInv'
  BY DEF IInv
<1> USE Ids, CreditTopupAssumption DEF TypeOK, PayInv, ProviderInv, BooksInv, Runs, Goto, Finish, LeaveLoop, books, provider, world, locks, locals, lists, judged
<1>1. ASSUME NEW a \in AutoRuns, AutoStart(a) PROVE BooksInv'
  BY <1>1 DEF AutoStart
<1>2. ASSUME NEW a \in AutoRuns, AutoLock(a) PROVE BooksInv'
  BY <1>2 DEF AutoLock
<1>3. ASSUME NEW a \in AutoRuns, AutoJudge(a) PROVE BooksInv'
  BY <1>3 DEF AutoJudge
<1>4. ASSUME NEW a \in AutoRuns, AutoList(a) PROVE BooksInv'
  BY <1>4 DEF AutoList
<1>5. ASSUME NEW a \in AutoRuns, AutoReconcile(a) PROVE BooksInv'
  BY <1>5 DEF AutoReconcile, Settles
<1>6. ASSUME NEW a \in AutoRuns, AutoCreate(a) PROVE BooksInv'
  BY <1>6 DEF AutoCreate, createTopup
<1>7. ASSUME NEW c \in CardRuns, CardStart(c) PROVE BooksInv'
  BY <1>7 DEF CardStart
<1>8. ASSUME NEW c \in CardRuns, CardLock(c) PROVE BooksInv'
  BY <1>8 DEF CardLock
<1>9. ASSUME NEW c \in CardRuns, CardPick(c) PROVE BooksInv'
  BY <1>9 DEF CardPick, createTopup
<1>10. ASSUME NEW r \in AutoRuns \cup CardRuns, ChargeApproved(r) PROVE BooksInv'
  BY <1>10 DEF ChargeApproved, Execute
<1>11. ASSUME NEW r \in AutoRuns \cup CardRuns, ChargeRefused(r) PROVE BooksInv'
  BY <1>11 DEF ChargeRefused, Execute
<1>12. ASSUME NEW r \in AutoRuns \cup CardRuns, ChargeUnanswered(r) PROVE BooksInv'
  BY <1>12 DEF ChargeUnanswered, Execute, Unanswered
<1>13. ASSUME NEW r \in AutoRuns \cup CardRuns, CrashInCharge(r) PROVE BooksInv'
  BY <1>13 DEF CrashInCharge, Execute, Unanswered
<1>14. ASSUME NEW r \in AutoRuns \cup CardRuns, MarkFailed(r) PROVE BooksInv'
  BY <1>14 DEF MarkFailed, markTopupPaid
<1>15. ASSUME NEW r \in AutoRuns \cup CardRuns, Verify(r) PROVE BooksInv'
  BY <1>15 DEF Verify, Settles
<1>16. ASSUME NEW r \in Runs, Credit(r) PROVE BooksInv'
  BY <1>16 DEF Credit, addCreditEntry
<1>17. ASSUME NEW r \in Runs, MarkPaid(r) PROVE BooksInv'
  BY <1>17 DEF MarkPaid, markTopupPaid
<1>18. ASSUME NEW r \in Runs, Crash(r) PROVE BooksInv'
  BY <1>18 DEF Crash
<1>19. ASSUME NEW h \in Hooks, NEW p \in Payments, WebhookStart(h, p) PROVE BooksInv'
  BY <1>19 DEF WebhookStart
<1>20. ASSUME NEW h \in Hooks, WebhookSettles(h) PROVE BooksInv'
  BY <1>20 DEF WebhookSettles, Settles
<1>21. ASSUME NEW h \in Hooks, WebhookCloses(h) PROVE BooksInv'
  BY <1>21 DEF WebhookCloses
<1>22. ASSUME NEW h \in Hooks, WebhookRetries(h) PROVE BooksInv'
  BY <1>22 DEF WebhookRetries
<1>23. ASSUME NEW w \in Windows, OpenWindow(w) PROVE BooksInv'
  BY <1>23 DEF OpenWindow, createTopup
<1>24. ASSUME NEW p \in Payments, Decide(p) PROVE BooksInv'
  BY <1>24 DEF Decide
<1>25. CASE Use
  BY <1>25 DEF Use
<1>26. CASE Midnight
  BY <1>26 DEF Midnight
<1>27. CASE UNCHANGED vars
  BY <1>27 DEF vars
<1> QED
  BY <1>1, <1>2, <1>3, <1>4, <1>5, <1>6, <1>7, <1>8, <1>9, <1>10, <1>11, <1>12, <1>13, <1>14, <1>15, <1>16, <1>17, <1>18, <1>19, <1>20, <1>21, <1>22, <1>23, <1>24, <1>25, <1>26, <1>27 DEF Next

LEMMA Inductive == Spec => []IInv
<1>1. Init => IInv
  BY TypeInit, CreditTopupAssumption DEF Init, IInv, ProviderInv, BooksInv
<1>2. IInv /\ [Next]_vars => IInv'
  BY TypeNext, ProviderNext, BooksNext DEF IInv
<1> QED
  BY <1>1, <1>2, PTL DEF Spec

\* A payment is credited at most once and only when it was captured for the exact
\* amount, for any faults (db-pg.ts:4218-4228, credits.ts:228-247).
THEOREM CreditsAreCaptures == Spec => []CreditsMatchCaptures
<1>1. IInv => CreditsMatchCaptures
  BY DEF IInv, BooksInv, CreditsMatchCaptures
<1> QED
  BY <1>1, Inductive, PTL

\* An order that is paid has its entry in the ledger, for any faults: the ledger is
\* written first (index.ts:7358-7372, 7730-7747, auto-topup.ts:263-274).
THEOREM PaidIsCredited == Spec => []PaidOrdersAreCredited
<1>1. IInv => PaidOrdersAreCredited
  BY DEF IInv, BooksInv, PaidOrdersAreCredited
<1> QED
  BY <1>1, Inductive, PTL

-----------------------------------------------------------------------------
(* The handlers implement Purchase.                                        *)

LEMMA PurchaseStep == IInv /\ [Next]_vars => [Buying!Next]_(Buying!vars)
<1> SUFFICES ASSUME IInv, [Next]_vars PROVE [Buying!Next]_(Buying!vars)
  OBVIOUS
<1> USE Ids, CreditTopupAssumption DEF IInv, TypeOK, PayInv, ProviderInv, BooksInv, Runs, books, provider, world, Captured, Closed, Buying!Next, Buying!vars, Buying!Capture, Buying!Credit, Buying!Close
<1>1. ASSUME NEW a \in AutoRuns, AutoStart(a) PROVE [Buying!Next]_(Buying!vars)
  BY <1>1 DEF AutoStart
<1>2. ASSUME NEW a \in AutoRuns, AutoLock(a) PROVE [Buying!Next]_(Buying!vars)
  BY <1>2 DEF AutoLock
<1>3. ASSUME NEW a \in AutoRuns, AutoJudge(a) PROVE [Buying!Next]_(Buying!vars)
  BY <1>3 DEF AutoJudge
<1>4. ASSUME NEW a \in AutoRuns, AutoList(a) PROVE [Buying!Next]_(Buying!vars)
  BY <1>4 DEF AutoList
<1>5. ASSUME NEW a \in AutoRuns, AutoReconcile(a) PROVE [Buying!Next]_(Buying!vars)
  BY <1>5 DEF AutoReconcile, Settles
<1>6. ASSUME NEW a \in AutoRuns, AutoCreate(a) PROVE [Buying!Next]_(Buying!vars)
  BY <1>6 DEF AutoCreate, createTopup
<1>7. ASSUME NEW c \in CardRuns, CardStart(c) PROVE [Buying!Next]_(Buying!vars)
  BY <1>7 DEF CardStart
<1>8. ASSUME NEW c \in CardRuns, CardLock(c) PROVE [Buying!Next]_(Buying!vars)
  BY <1>8 DEF CardLock
<1>9. ASSUME NEW c \in CardRuns, CardPick(c) PROVE [Buying!Next]_(Buying!vars)
  BY <1>9 DEF CardPick, createTopup
<1>10. ASSUME NEW r \in AutoRuns \cup CardRuns, ChargeApproved(r) PROVE [Buying!Next]_(Buying!vars)
  BY <1>10 DEF ChargeApproved, Execute
<1>11. ASSUME NEW r \in AutoRuns \cup CardRuns, ChargeRefused(r) PROVE [Buying!Next]_(Buying!vars)
  BY <1>11 DEF ChargeRefused, Execute
<1>12. ASSUME NEW r \in AutoRuns \cup CardRuns, ChargeUnanswered(r) PROVE [Buying!Next]_(Buying!vars)
  BY <1>12 DEF ChargeUnanswered, Execute, Unanswered
<1>13. ASSUME NEW r \in AutoRuns \cup CardRuns, CrashInCharge(r) PROVE [Buying!Next]_(Buying!vars)
  BY <1>13 DEF CrashInCharge, Execute, Unanswered
<1>14. ASSUME NEW r \in AutoRuns \cup CardRuns, MarkFailed(r) PROVE [Buying!Next]_(Buying!vars)
  BY <1>14 DEF MarkFailed, markTopupPaid
<1>15. ASSUME NEW r \in AutoRuns \cup CardRuns, Verify(r) PROVE [Buying!Next]_(Buying!vars)
  BY <1>15 DEF Verify, Settles
<1>16. ASSUME NEW r \in Runs, Credit(r) PROVE [Buying!Next]_(Buying!vars)
  <2>1. CASE ledger[pay[r]] = 0
    <3>1. Buying!Credit(pay[r])
      BY <1>16, <2>1 DEF Credit, addCreditEntry
    <3> QED
      BY <1>16, <3>1 DEF Credit
  <2>2. CASE ledger[pay[r]] = 1
    BY <1>16, <2>2 DEF Credit, addCreditEntry
  <2> QED
    BY <1>16, <2>1, <2>2 DEF Credit
<1>17. ASSUME NEW r \in Runs, MarkPaid(r) PROVE [Buying!Next]_(Buying!vars)
  BY <1>17 DEF MarkPaid, markTopupPaid
<1>18. ASSUME NEW r \in Runs, Crash(r) PROVE [Buying!Next]_(Buying!vars)
  BY <1>18 DEF Crash
<1>19. ASSUME NEW h \in Hooks, NEW p \in Payments, WebhookStart(h, p) PROVE [Buying!Next]_(Buying!vars)
  BY <1>19 DEF WebhookStart
<1>20. ASSUME NEW h \in Hooks, WebhookSettles(h) PROVE [Buying!Next]_(Buying!vars)
  BY <1>20 DEF WebhookSettles, Settles
<1>21. ASSUME NEW h \in Hooks, WebhookCloses(h) PROVE [Buying!Next]_(Buying!vars)
  BY <1>21 DEF WebhookCloses
<1>22. ASSUME NEW h \in Hooks, WebhookRetries(h) PROVE [Buying!Next]_(Buying!vars)
  BY <1>22 DEF WebhookRetries
<1>23. ASSUME NEW w \in Windows, OpenWindow(w) PROVE [Buying!Next]_(Buying!vars)
  BY <1>23 DEF OpenWindow, createTopup
<1>24. ASSUME NEW p \in Payments, Decide(p) PROVE [Buying!Next]_(Buying!vars)
  BY <1>24 DEF Decide
<1>25. CASE Use
  BY <1>25 DEF Use
<1>26. CASE Midnight
  BY <1>26 DEF Midnight
<1>27. CASE UNCHANGED vars
  BY <1>27 DEF vars
<1> QED
  BY <1>1, <1>2, <1>3, <1>4, <1>5, <1>6, <1>7, <1>8, <1>9, <1>10, <1>11, <1>12, <1>13, <1>14, <1>15, <1>16, <1>17, <1>18, <1>19, <1>20, <1>21, <1>22, <1>23, <1>24, <1>25, <1>26, <1>27 DEF Next

\* The automatic run, the card route, the checkout window and the webhook together
\* implement the purchase of credits: capture, credit once, close, nothing taken back
\* (auto-topup.ts:77-287, index.ts:7229-7382, 7592-7624 and 7637-7759).
THEOREM PurchaseImplemented == Spec => ImplementsPurchase
<1>1. Init => Buying!Init
  BY DEF Init, Buying!Init, Captured, Closed
<1> QED
  BY <1>1, PurchaseStep, Inductive, PTL DEF Spec, ImplementsPurchase, Buying!Spec

-----------------------------------------------------------------------------
(* The lock and the reconciliation.                                        *)

LEMMA LockNext == TypeOK /\ LockInv /\ [Next]_vars => LockInv'
<1> SUFFICES ASSUME TypeOK, LockInv, [Next]_vars PROVE LockInv'
  OBVIOUS
<1> USE CreditTopupAssumption DEF TypeOK, LockInv, Inside, Steps, Unlock, Runs, Goto, Finish, LeaveLoop, books, provider, world, locks, locals, lists, judged
<1>1. ASSUME NEW a \in AutoRuns, AutoStart(a) PROVE LockInv'
  BY <1>1 DEF AutoStart
<1>2. ASSUME NEW a \in AutoRuns, AutoLock(a) PROVE LockInv'
  BY <1>2 DEF AutoLock
<1>3. ASSUME NEW a \in AutoRuns, AutoJudge(a) PROVE LockInv'
  BY <1>3 DEF AutoJudge
<1>4. ASSUME NEW a \in AutoRuns, AutoList(a) PROVE LockInv'
  BY <1>4 DEF AutoList
<1>5. ASSUME NEW a \in AutoRuns, AutoReconcile(a) PROVE LockInv'
  BY <1>5 DEF AutoReconcile, Settles
<1>6. ASSUME NEW a \in AutoRuns, AutoCreate(a) PROVE LockInv'
  BY <1>6 DEF AutoCreate, createTopup
<1>7. ASSUME NEW c \in CardRuns, CardStart(c) PROVE LockInv'
  BY <1>7 DEF CardStart
<1>8. ASSUME NEW c \in CardRuns, CardLock(c) PROVE LockInv'
  BY <1>8 DEF CardLock
<1>9. ASSUME NEW c \in CardRuns, CardPick(c) PROVE LockInv'
  BY <1>9 DEF CardPick, createTopup
<1>10. ASSUME NEW r \in AutoRuns \cup CardRuns, ChargeApproved(r) PROVE LockInv'
  BY <1>10 DEF ChargeApproved, Execute
<1>11. ASSUME NEW r \in AutoRuns \cup CardRuns, ChargeRefused(r) PROVE LockInv'
  BY <1>11 DEF ChargeRefused, Execute
<1>12. ASSUME NEW r \in AutoRuns \cup CardRuns, ChargeUnanswered(r) PROVE LockInv'
  BY <1>12 DEF ChargeUnanswered, Execute, Unanswered
<1>13. ASSUME NEW r \in AutoRuns \cup CardRuns, CrashInCharge(r) PROVE LockInv'
  BY <1>13 DEF CrashInCharge, Execute, Unanswered
<1>14. ASSUME NEW r \in AutoRuns \cup CardRuns, MarkFailed(r) PROVE LockInv'
  BY <1>14 DEF MarkFailed, markTopupPaid
<1>15. ASSUME NEW r \in AutoRuns \cup CardRuns, Verify(r) PROVE LockInv'
  BY <1>15 DEF Verify, Settles
<1>16. ASSUME NEW r \in Runs, Credit(r) PROVE LockInv'
  BY <1>16 DEF Credit, addCreditEntry
<1>17. ASSUME NEW r \in Runs, MarkPaid(r) PROVE LockInv'
  BY <1>17 DEF MarkPaid, markTopupPaid
<1>18. ASSUME NEW r \in Runs, Crash(r) PROVE LockInv'
  BY <1>18 DEF Crash
<1>19. ASSUME NEW h \in Hooks, NEW p \in Payments, WebhookStart(h, p) PROVE LockInv'
  BY <1>19 DEF WebhookStart
<1>20. ASSUME NEW h \in Hooks, WebhookSettles(h) PROVE LockInv'
  BY <1>20 DEF WebhookSettles, Settles
<1>21. ASSUME NEW h \in Hooks, WebhookCloses(h) PROVE LockInv'
  BY <1>21 DEF WebhookCloses
<1>22. ASSUME NEW h \in Hooks, WebhookRetries(h) PROVE LockInv'
  BY <1>22 DEF WebhookRetries
<1>23. ASSUME NEW w \in Windows, OpenWindow(w) PROVE LockInv'
  BY <1>23 DEF OpenWindow, createTopup
<1>24. ASSUME NEW p \in Payments, Decide(p) PROVE LockInv'
  BY <1>24 DEF Decide
<1>25. CASE Use
  BY <1>25 DEF Use
<1>26. CASE Midnight
  BY <1>26 DEF Midnight
<1>27. CASE UNCHANGED vars
  BY <1>27 DEF vars
<1> QED
  BY <1>1, <1>2, <1>3, <1>4, <1>5, <1>6, <1>7, <1>8, <1>9, <1>10, <1>11, <1>12, <1>13, <1>14, <1>15, <1>16, <1>17, <1>18, <1>19, <1>20, <1>21, <1>22, <1>23, <1>24, <1>25, <1>26, <1>27 DEF Next

LEMMA LocksHeld == Spec => []LockInv
<1>1. Init => LockInv
  BY DEF Init, LockInv, Inside, Steps, Runs
<1> QED
  BY <1>1, LockNext, Inductive, PTL DEF Spec, IInv

\* A step in which the runs that reconcile keep what they read, and nothing is captured.
ReconcileKept ==
    /\ created' = created
    /\ day' \in Nat /\ day' >= day
    /\ \A a \in AutoRuns :
         pc'[a] = "reconcile"
         => /\ pc[a] = "reconcile" /\ todo'[a] = todo[a] /\ listed'[a] = listed[a]
            /\ \A q \in AutoPays : pg'[q] = "paid" /\ ledger'[q] = 0 => pg[q] = "paid" /\ ledger[q] = 0

LEMMA KeptIsEnough ==
    ASSUME TypeOK, ReconcileInv, ReconcileKept
    PROVE  ReconcileInv'
<1> SUFFICES ASSUME NEW a \in AutoRuns, pc'[a] = "reconcile"
             PROVE  /\ todo'[a] \subseteq listed'[a]
                    /\ \A q \in AutoPays : (pg'[q] = "paid" /\ ledger'[q] = 0)
                                           => q \in todo'[a] \/ BeyondList(a, q)'
  BY DEF ReconcileInv
<1>1. todo'[a] = todo[a] /\ listed'[a] = listed[a] /\ todo[a] \subseteq listed[a]
  BY DEF ReconcileKept, ReconcileInv
<1>2. ASSUME NEW q \in AutoPays, pg'[q] = "paid", ledger'[q] = 0, q \notin todo'[a]
      PROVE  BeyondList(a, q)'
  <2>1. BeyondList(a, q)
    BY <1>1, <1>2 DEF ReconcileKept, ReconcileInv
  <2>2. day \in Nat /\ day' \in Nat /\ day' >= day /\ q[2] \in Nat /\ ListDays \in Nat
    BY CreditTopupAssumption DEF ReconcileKept, TypeOK, AutoPays, AutoId
  <2> QED
    BY <1>1, <2>1, <2>2 DEF BeyondList, ReconcileKept
<1> QED
  BY <1>1, <1>2

LEMMA ReconcileNext ==
    ASSUME ~LateApproval, ~LostLookups,
           IInv, LockInv, ReconcileInv, [Next]_vars
    PROVE  ReconcileInv'
<1> USE Ids, CreditTopupAssumption DEF IInv, TypeOK, PayInv, ProviderInv, BooksInv, LockInv, Inside, Steps, Runs, Goto, Finish, LeaveLoop, books, provider, world, locks, locals, lists, judged, OrderStatus
<1>1. ASSUME NEW a \in AutoRuns, AutoStart(a) PROVE ReconcileInv'
  <2>1. ReconcileKept
    BY <1>1 DEF AutoStart, ReconcileKept
  <2> QED
    BY <2>1, KeptIsEnough
<1>2. ASSUME NEW a \in AutoRuns, AutoLock(a) PROVE ReconcileInv'
  <2>1. ReconcileKept
    BY <1>2 DEF AutoLock, ReconcileKept
  <2> QED
    BY <2>1, KeptIsEnough
<1>3. ASSUME NEW a \in AutoRuns, AutoJudge(a) PROVE ReconcileInv'
  <2>1. ReconcileKept
    BY <1>3 DEF AutoJudge, ReconcileKept
  <2> QED
    BY <2>1, KeptIsEnough
<1>4. ASSUME NEW a \in AutoRuns, AutoList(a) PROVE ReconcileInv'
  <2>1. PICK ps \in listUnsettledAutoTopups :
          listed' = [listed EXCEPT ![a] = ps] /\ todo' = [todo EXCEPT ![a] = ps]
    BY <1>4 DEF AutoList
  <2>2. pc' = [pc EXCEPT ![a] = "reconcile"] /\ UNCHANGED <<books, provider, world>>
    BY <1>4 DEF AutoList
  <2>3. ASSUME NEW b \in AutoRuns, pc'[b] = "reconcile"
        PROVE  b = a
    <3>1. autoLock = a /\ (b # a => autoLock = b)
      BY <1>4, <2>2, <2>3 DEF AutoList
    <3> QED
      BY <3>1
  <2>4. ASSUME NEW q \in AutoPays, pg[q] = "paid", ledger[q] = 0, q \notin ps
        PROVE  BeyondList(a, q)'
    <3>1. q \in Unpaid
      BY <2>4 DEF Unpaid
    <3>2. \/ day >= q[2] + ListDays
          \/ Cardinality(ps) = ListLimit /\ \A p \in ps : created[p] < created[q]
      BY <2>4, <3>1, ListShows
    <3> QED
      BY <2>1, <2>2, <2>4, <3>2 DEF BeyondList
  <2> QED
    BY <2>1, <2>2, <2>3, <2>4 DEF ReconcileInv
<1>5. ASSUME NEW a \in AutoRuns, AutoReconcile(a) PROVE ReconcileInv'
  <2>1. PICK p \in todo[a] :
          \/ pc' = [pc EXCEPT ![a] = "credit"] /\ LeaveLoop(a)
          \/ /\ pg[p] # "paid"
             /\ todo' = [todo EXCEPT ![a] = @ \ {p}]
             /\ UNCHANGED <<pc, listed>>
    BY <1>5 DEF AutoReconcile, Settles
  <2>2. pc[a] = "reconcile" /\ UNCHANGED <<books, provider, world>>
    BY <1>5 DEF AutoReconcile
  <2>3. CASE pc' = [pc EXCEPT ![a] = "credit"] /\ LeaveLoop(a)
    <3>1. ReconcileKept
      BY <2>2, <2>3 DEF ReconcileKept
    <3> QED
      BY <3>1, KeptIsEnough
  <2>4. CASE pg[p] # "paid" /\ todo' = [todo EXCEPT ![a] = @ \ {p}] /\ UNCHANGED <<pc, listed>>
    BY <2>2, <2>4 DEF ReconcileInv, BeyondList
  <2> QED
    BY <2>1, <2>3, <2>4
<1>6. ASSUME NEW a \in AutoRuns, AutoCreate(a) PROVE ReconcileInv'
  <2>1. pc[a] = "reconcile" /\ \E s \in {"charge", "idle"} : pc' = [pc EXCEPT ![a] = s]
    BY <1>6 DEF AutoCreate
  <2>2. ASSUME NEW b \in AutoRuns PROVE pc'[b] # "reconcile"
    BY <2>1
  <2> QED
    BY <2>2 DEF ReconcileInv
<1>7. ASSUME NEW c \in CardRuns, CardStart(c) PROVE ReconcileInv'
  <2>1. ReconcileKept
    BY <1>7 DEF CardStart, ReconcileKept
  <2> QED
    BY <2>1, KeptIsEnough
<1>8. ASSUME NEW c \in CardRuns, CardLock(c) PROVE ReconcileInv'
  <2>1. ReconcileKept
    BY <1>8 DEF CardLock, ReconcileKept
  <2> QED
    BY <2>1, KeptIsEnough
<1>9. ASSUME NEW c \in CardRuns, CardPick(c) PROVE ReconcileInv'
  <2>1. ReconcileKept
    BY <1>9 DEF CardPick, createTopup, ReconcileKept
  <2> QED
    BY <2>1, KeptIsEnough
<1>10. ASSUME NEW r \in AutoRuns \cup CardRuns, ChargeApproved(r) PROVE ReconcileInv'
  <2>1. ReconcileKept
    BY <1>10 DEF ChargeApproved, Execute, ReconcileKept
  <2> QED
    BY <2>1, KeptIsEnough
<1>11. ASSUME NEW r \in AutoRuns \cup CardRuns, ChargeRefused(r) PROVE ReconcileInv'
  <2>1. ReconcileKept
    BY <1>11 DEF ChargeRefused, Execute, ReconcileKept
  <2> QED
    BY <2>1, KeptIsEnough
<1>12. ASSUME NEW r \in AutoRuns \cup CardRuns, ChargeUnanswered(r) PROVE ReconcileInv'
  <2>1. ReconcileKept
    BY <1>12 DEF ChargeUnanswered, Execute, Unanswered, ReconcileKept
  <2> QED
    BY <2>1, KeptIsEnough
<1>13. ASSUME NEW r \in AutoRuns \cup CardRuns, CrashInCharge(r) PROVE ReconcileInv'
  <2>1. ReconcileKept
    BY <1>13 DEF CrashInCharge, Execute, Unanswered, ReconcileKept
  <2> QED
    BY <2>1, KeptIsEnough
<1>14. ASSUME NEW r \in AutoRuns \cup CardRuns, MarkFailed(r) PROVE ReconcileInv'
  <2>1. ReconcileKept
    BY <1>14 DEF MarkFailed, markTopupPaid, ReconcileKept
  <2> QED
    BY <2>1, KeptIsEnough
<1>15. ASSUME NEW r \in AutoRuns \cup CardRuns, Verify(r) PROVE ReconcileInv'
  <2>1. ReconcileKept
    BY <1>15 DEF Verify, Settles, ReconcileKept
  <2> QED
    BY <2>1, KeptIsEnough
<1>16. ASSUME NEW r \in Runs, Credit(r) PROVE ReconcileInv'
  <2>1. ReconcileKept
    BY <1>16 DEF Credit, addCreditEntry, ReconcileKept
  <2> QED
    BY <2>1, KeptIsEnough
<1>17. ASSUME NEW r \in Runs, MarkPaid(r) PROVE ReconcileInv'
  <2>1. ReconcileKept
    BY <1>17 DEF MarkPaid, markTopupPaid, ReconcileKept
  <2> QED
    BY <2>1, KeptIsEnough
<1>18. ASSUME NEW r \in Runs, Crash(r) PROVE ReconcileInv'
  <2>1. ReconcileKept
    BY <1>18 DEF Crash, ReconcileKept
  <2> QED
    BY <2>1, KeptIsEnough
<1>19. ASSUME NEW h \in Hooks, NEW p \in Payments, WebhookStart(h, p) PROVE ReconcileInv'
  <2>1. ReconcileKept
    BY <1>19 DEF WebhookStart, ReconcileKept
  <2> QED
    BY <2>1, KeptIsEnough
<1>20. ASSUME NEW h \in Hooks, WebhookSettles(h) PROVE ReconcileInv'
  <2>1. ReconcileKept
    BY <1>20 DEF WebhookSettles, Settles, ReconcileKept
  <2> QED
    BY <2>1, KeptIsEnough
<1>21. ASSUME NEW h \in Hooks, WebhookCloses(h) PROVE ReconcileInv'
  <2>1. ReconcileKept
    BY <1>21 DEF WebhookCloses, ReconcileKept
  <2> QED
    BY <2>1, KeptIsEnough
<1>22. ASSUME NEW h \in Hooks, WebhookRetries(h) PROVE ReconcileInv'
  <2>1. ReconcileKept
    BY <1>22 DEF WebhookRetries, ReconcileKept
  <2> QED
    BY <2>1, KeptIsEnough
<1>23. ASSUME NEW w \in Windows, OpenWindow(w) PROVE ReconcileInv'
  <2>1. ReconcileKept
    BY <1>23 DEF OpenWindow, createTopup, ReconcileKept
  <2> QED
    BY <2>1, KeptIsEnough
<1>24. ASSUME NEW p \in Payments, Decide(p) PROVE ReconcileInv'
  <2>1. ReconcileKept
    BY <1>24 DEF Decide, ReconcileKept
  <2> QED
    BY <2>1, KeptIsEnough
<1>25. CASE Use
  <2>1. ReconcileKept
    BY <1>25 DEF Use, ReconcileKept
  <2> QED
    BY <2>1, KeptIsEnough
<1>26. CASE Midnight
  <2>1. ReconcileKept
    BY <1>26 DEF Midnight, ReconcileKept
  <2> QED
    BY <2>1, KeptIsEnough
<1>27. CASE UNCHANGED vars
  <2>1. ReconcileKept
    BY <1>27 DEF vars, ReconcileKept
  <2> QED
    BY <2>1, KeptIsEnough
<1> QED
  BY <1>1, <1>2, <1>3, <1>4, <1>5, <1>6, <1>7, <1>8, <1>9, <1>10, <1>11, <1>12, <1>13, <1>14, <1>15, <1>16, <1>17, <1>18, <1>19, <1>20, <1>21, <1>22, <1>23, <1>24, <1>25, <1>26, <1>27 DEF Next

\* Only AutoCreate goes from the list to a charge, and with its list emptied.
OpensEmptied == \A a \in AutoRuns : Opens(a) => todo[a] = {}

LEMMA OpenStep ==
    ASSUME IInv, [Next]_vars
    PROVE  OpensEmptied
<1> USE Ids, CreditTopupAssumption DEF IInv, TypeOK, PayInv, Runs, Goto, Finish, LeaveLoop, locks, locals, lists, judged, Opens, OpensEmptied
<1>1. ASSUME NEW a \in AutoRuns, AutoStart(a) PROVE OpensEmptied
  BY <1>1 DEF AutoStart
<1>2. ASSUME NEW a \in AutoRuns, AutoLock(a) PROVE OpensEmptied
  BY <1>2 DEF AutoLock
<1>3. ASSUME NEW a \in AutoRuns, AutoJudge(a) PROVE OpensEmptied
  BY <1>3 DEF AutoJudge
<1>4. ASSUME NEW a \in AutoRuns, AutoList(a) PROVE OpensEmptied
  BY <1>4 DEF AutoList
<1>5. ASSUME NEW a \in AutoRuns, AutoReconcile(a) PROVE OpensEmptied
  BY <1>5 DEF AutoReconcile, Settles
<1>6. ASSUME NEW a \in AutoRuns, AutoCreate(a) PROVE OpensEmptied
  BY <1>6 DEF AutoCreate, createTopup
<1>7. ASSUME NEW c \in CardRuns, CardStart(c) PROVE OpensEmptied
  BY <1>7 DEF CardStart
<1>8. ASSUME NEW c \in CardRuns, CardLock(c) PROVE OpensEmptied
  BY <1>8 DEF CardLock
<1>9. ASSUME NEW c \in CardRuns, CardPick(c) PROVE OpensEmptied
  BY <1>9 DEF CardPick, createTopup
<1>10. ASSUME NEW r \in AutoRuns \cup CardRuns, ChargeApproved(r) PROVE OpensEmptied
  BY <1>10 DEF ChargeApproved, Execute
<1>11. ASSUME NEW r \in AutoRuns \cup CardRuns, ChargeRefused(r) PROVE OpensEmptied
  BY <1>11 DEF ChargeRefused, Execute
<1>12. ASSUME NEW r \in AutoRuns \cup CardRuns, ChargeUnanswered(r) PROVE OpensEmptied
  BY <1>12 DEF ChargeUnanswered, Execute, Unanswered
<1>13. ASSUME NEW r \in AutoRuns \cup CardRuns, CrashInCharge(r) PROVE OpensEmptied
  BY <1>13 DEF CrashInCharge, Execute, Unanswered
<1>14. ASSUME NEW r \in AutoRuns \cup CardRuns, MarkFailed(r) PROVE OpensEmptied
  BY <1>14 DEF MarkFailed, markTopupPaid
<1>15. ASSUME NEW r \in AutoRuns \cup CardRuns, Verify(r) PROVE OpensEmptied
  BY <1>15 DEF Verify, Settles
<1>16. ASSUME NEW r \in Runs, Credit(r) PROVE OpensEmptied
  BY <1>16 DEF Credit, addCreditEntry
<1>17. ASSUME NEW r \in Runs, MarkPaid(r) PROVE OpensEmptied
  BY <1>17 DEF MarkPaid, markTopupPaid
<1>18. ASSUME NEW r \in Runs, Crash(r) PROVE OpensEmptied
  BY <1>18 DEF Crash
<1>19. ASSUME NEW h \in Hooks, NEW p \in Payments, WebhookStart(h, p) PROVE OpensEmptied
  BY <1>19 DEF WebhookStart
<1>20. ASSUME NEW h \in Hooks, WebhookSettles(h) PROVE OpensEmptied
  BY <1>20 DEF WebhookSettles, Settles
<1>21. ASSUME NEW h \in Hooks, WebhookCloses(h) PROVE OpensEmptied
  BY <1>21 DEF WebhookCloses
<1>22. ASSUME NEW h \in Hooks, WebhookRetries(h) PROVE OpensEmptied
  BY <1>22 DEF WebhookRetries
<1>23. ASSUME NEW w \in Windows, OpenWindow(w) PROVE OpensEmptied
  BY <1>23 DEF OpenWindow, createTopup
<1>24. ASSUME NEW p \in Payments, Decide(p) PROVE OpensEmptied
  BY <1>24 DEF Decide
<1>25. CASE Use
  BY <1>25 DEF Use
<1>26. CASE Midnight
  BY <1>26 DEF Midnight
<1>27. CASE UNCHANGED vars
  BY <1>27 DEF vars
<1> QED
  BY <1>1, <1>2, <1>3, <1>4, <1>5, <1>6, <1>7, <1>8, <1>9, <1>10, <1>11, <1>12, <1>13, <1>14, <1>15, <1>16, <1>17, <1>18, <1>19, <1>20, <1>21, <1>22, <1>23, <1>24, <1>25, <1>26, <1>27 DEF Next

\* When lookups answer and no charge is decided late, the reconciliation is complete up
\* to what its query shows: an automatic run opens a new payment over one that was
\* captured but not credited only if that order is ListDays old or behind ListLimit older
\* unpaid ones, for any number of concurrent runs, webhooks, crashes and lost answers
\* (auto-topup.ts:168-215, db-pg.ts:4498-4507).
THEOREM ReconciliationIsComplete ==
    ASSUME ~LateApproval, ~LostLookups
    PROVE  Spec => NoChargeOverCapture
<1>1. Init => ReconcileInv
  BY DEF Init, ReconcileInv, Runs
<1>2. IInv /\ LockInv /\ ReconcileInv /\ [Next]_vars => ReconcileInv'
  BY ReconcileNext
<1>3. IInv /\ ReconcileInv /\ [Next]_vars
      => [\A a \in AutoRuns : Opens(a) =>
             \A p \in AutoPays : pg[p] = "paid" /\ ledger[p] = 0 => BeyondList(a, p)]_vars
  <2> SUFFICES ASSUME IInv, ReconcileInv, [Next]_vars, NEW a \in AutoRuns, Opens(a),
                      NEW p \in AutoPays, pg[p] = "paid", ledger[p] = 0
               PROVE  BeyondList(a, p)
    OBVIOUS
  <2>1. todo[a] = {} /\ pc[a] = "reconcile"
    BY OpenStep DEF OpensEmptied, Opens
  <2> QED
    BY <2>1 DEF ReconcileInv
<1> QED
  BY <1>1, <1>2, <1>3, Inductive, LocksHeld, PTL DEF Spec, NoChargeOverCapture

-----------------------------------------------------------------------------
(* The idempotency key.                                                    *)

LEMMA CardIdsDiffer ==
    \A k, l \in Keys, s, t \in 1..MaxSlot : CardId(k, s) = CardId(l, t) => k = l /\ s = t
BY DEF CardId

LEMMA RefusedNext ==
    ASSUME ~LostReplies, ~LateApproval, IInv, RefusedInv, [Next]_vars
    PROVE  RefusedInv'
<1> USE Ids, CardIdsDiffer, CreditTopupAssumption DEF IInv, TypeOK, PayInv, ProviderInv, BooksInv, RefusedInv, Runs, Goto, Finish, LeaveLoop, books, provider, world, locks, locals, lists, judged
<1>1. ASSUME NEW a \in AutoRuns, AutoStart(a) PROVE RefusedInv'
  BY <1>1 DEF AutoStart
<1>2. ASSUME NEW a \in AutoRuns, AutoLock(a) PROVE RefusedInv'
  BY <1>2 DEF AutoLock
<1>3. ASSUME NEW a \in AutoRuns, AutoJudge(a) PROVE RefusedInv'
  BY <1>3 DEF AutoJudge
<1>4. ASSUME NEW a \in AutoRuns, AutoList(a) PROVE RefusedInv'
  BY <1>4 DEF AutoList
<1>5. ASSUME NEW a \in AutoRuns, AutoReconcile(a) PROVE RefusedInv'
  BY <1>5 DEF AutoReconcile, Settles
<1>6. ASSUME NEW a \in AutoRuns, AutoCreate(a) PROVE RefusedInv'
  <2>1. \A q \in CardPays : order'[q] = order[q]
    BY <1>6 DEF AutoCreate, createTopup
  <2>2. pg' = pg /\ \A c \in CardRuns : pc'[c] = pc[c] /\ pay'[c] = pay[c]
    BY <1>6 DEF AutoCreate
  <2> QED
    BY <2>1, <2>2
<1>7. ASSUME NEW c \in CardRuns, CardStart(c) PROVE RefusedInv'
  BY <1>7 DEF CardStart
<1>8. ASSUME NEW c \in CardRuns, CardLock(c) PROVE RefusedInv'
  BY <1>8 DEF CardLock
<1>9. ASSUME NEW c \in CardRuns, CardPick(c) PROVE RefusedInv'
  BY <1>9 DEF CardPick, createTopup, SlotOf
<1>10. ASSUME NEW r \in AutoRuns \cup CardRuns, ChargeApproved(r) PROVE RefusedInv'
  BY <1>10 DEF ChargeApproved, Execute
<1>11. ASSUME NEW r \in AutoRuns \cup CardRuns, ChargeRefused(r) PROVE RefusedInv'
  BY <1>11 DEF ChargeRefused, Execute
<1>12. ASSUME NEW r \in AutoRuns \cup CardRuns, ChargeUnanswered(r) PROVE RefusedInv'
  BY <1>12 DEF ChargeUnanswered, Execute, Unanswered
<1>13. ASSUME NEW r \in AutoRuns \cup CardRuns, CrashInCharge(r) PROVE RefusedInv'
  BY <1>13 DEF CrashInCharge, Execute, Unanswered
<1>14. ASSUME NEW r \in AutoRuns \cup CardRuns, MarkFailed(r) PROVE RefusedInv'
  BY <1>14 DEF MarkFailed, markTopupPaid
<1>15. ASSUME NEW r \in AutoRuns \cup CardRuns, Verify(r) PROVE RefusedInv'
  BY <1>15 DEF Verify, Settles
<1>16. ASSUME NEW r \in Runs, Credit(r) PROVE RefusedInv'
  BY <1>16 DEF Credit, addCreditEntry
<1>17. ASSUME NEW r \in Runs, MarkPaid(r) PROVE RefusedInv'
  BY <1>17 DEF MarkPaid, markTopupPaid
<1>18. ASSUME NEW r \in Runs, Crash(r) PROVE RefusedInv'
  BY <1>18 DEF Crash
<1>19. ASSUME NEW h \in Hooks, NEW p \in Payments, WebhookStart(h, p) PROVE RefusedInv'
  BY <1>19 DEF WebhookStart
<1>20. ASSUME NEW h \in Hooks, WebhookSettles(h) PROVE RefusedInv'
  BY <1>20 DEF WebhookSettles, Settles
<1>21. ASSUME NEW h \in Hooks, WebhookCloses(h) PROVE RefusedInv'
  BY <1>21 DEF WebhookCloses
<1>22. ASSUME NEW h \in Hooks, WebhookRetries(h) PROVE RefusedInv'
  BY <1>22 DEF WebhookRetries
<1>23. ASSUME NEW w \in Windows, OpenWindow(w) PROVE RefusedInv'
  BY <1>23 DEF OpenWindow, createTopup
<1>24. ASSUME NEW p \in Payments, Decide(p) PROVE RefusedInv'
  BY <1>24 DEF Decide
<1>25. CASE Use
  BY <1>25 DEF Use
<1>26. CASE Midnight
  BY <1>26 DEF Midnight
<1>27. CASE UNCHANGED vars
  BY <1>27 DEF vars
<1> QED
  BY <1>1, <1>2, <1>3, <1>4, <1>5, <1>6, <1>7, <1>8, <1>9, <1>10, <1>11, <1>12, <1>13, <1>14, <1>15, <1>16, <1>17, <1>18, <1>19, <1>20, <1>21, <1>22, <1>23, <1>24, <1>25, <1>26, <1>27 DEF Next

\* When every charge is answered, the browser's key makes the card route idempotent:
\* however often it is used and wherever handlers die, it charges once
\* (index.ts:7234-7238 and 7268-7302).
THEOREM KeyChargesOnce ==
    ASSUME ~LostReplies, ~LateApproval
    PROVE  Spec => []OneChargePerKey
<1>1. Init => RefusedInv
  BY Ids DEF Init, RefusedInv, Runs
<1>2. IInv /\ RefusedInv /\ [Next]_vars => RefusedInv'
  BY RefusedNext
<1>3. IInv /\ RefusedInv => OneChargePerKey
  <2> SUFFICES ASSUME IInv, RefusedInv, NEW k \in Keys
               PROVE  Cardinality({s \in 1..MaxSlot : pg[CardId(k, s)] = "paid"}) <= 1
    BY DEF OneChargePerKey
  <2> DEFINE S == {s \in 1..MaxSlot : pg[CardId(k, s)] = "paid"}
  <2>1. ASSUME NEW s \in S, NEW t \in S, t < s
        PROVE  FALSE
    <3>1. order[CardId(k, s)] # "none"
      BY Ids DEF IInv, ProviderInv
    <3>2. order[CardId(k, t)] = "failed"
      BY <2>1, <3>1, CreditTopupAssumption DEF RefusedInv
    <3> QED
      BY <3>2, Ids DEF RefusedInv
  <2>2. \A s, t \in S : s = t
    BY <2>1, CreditTopupAssumption
  <2>3. CASE S = {}
    BY <2>3, FS_EmptySet
  <2>4. CASE S # {}
    <3>1. PICK s \in S : TRUE
      BY <2>4
    <3>2. S = {s}
      BY <2>2, <3>1
    <3> QED
      BY <3>2, FS_Singleton
  <2> QED
    BY <2>3, <2>4
<1> QED
  BY <1>1, <1>2, <1>3, Inductive, PTL DEF Spec

-----------------------------------------------------------------------------
(* One charge for one shortage.                                            *)

\* A webhook does not credit an automatic payment between the balance that a run judged
\* and its charge.
Judged == {"list", "reconcile", "charge"}

WebhookSparesJudged ==
    \A h \in Hooks : (pay[h] \in AutoPays /\ ledger[pay[h]] = 0 /\ Credit(h))
                     => \A a \in AutoRuns : pc[a] \notin Judged

CreditedAuto == {p \in AutoPays : ledger[p] > 0}

\* From its judgement to its charge, a run knows that what was bought does not cover what
\* is used and what it needs.
ShortageInv ==
    /\ IsFiniteSet(Credited)
    /\ \A a \in AutoRuns : pc[a] \in Judged => Cardinality(CreditedAuto) <= used + need[a]

\* How a step moves the sets that ShortageInv counts.
ShortageStep ==
    /\ \E p : Credited' \subseteq Credited \cup {p}
    /\ used' \in Nat /\ used' >= used
    /\ \A a \in AutoRuns :
         pc'[a] \in Judged
         => /\ need'[a] = need[a]
            /\ \/ pc[a] \in Judged /\ CreditedAuto' \subseteq CreditedAuto
               \/ Low(need[a]) /\ CreditedAuto' \subseteq Credited /\ used' = used

\* Cardinalities of sets of automatic payments are ordered as the sets are.
LEMMA FewerPays ==
    ASSUME NEW T, T \subseteq AutoPays, NEW S, S \subseteq T
    PROVE  Cardinality(S) \in Nat /\ Cardinality(T) \in Nat /\ Cardinality(S) <= Cardinality(T)
<1>1. IsFiniteSet(T)
  BY AutoPaysFinite, FS_Subset
<1> QED
  BY <1>1, FS_Subset, FS_CardinalityType

\* A step that leaves the ledger alone, and the runs between judgement and charge as well.
ShortageKept ==
    /\ UNCHANGED ledger
    /\ used' \in Nat /\ used' >= used
    /\ \A a \in AutoRuns : pc'[a] \in Judged => pc[a] \in Judged /\ need'[a] = need[a]

LEMMA KeptMoves == ShortageKept => ShortageStep
<1> SUFFICES ASSUME ShortageKept PROVE ShortageStep
  OBVIOUS
<1>1. Credited' = Credited /\ CreditedAuto' = CreditedAuto
  BY DEF ShortageKept, Credited, CreditedAuto
<1> QED
  BY <1>1 DEF ShortageKept, ShortageStep

LEMMA ShortageMoves ==
    ASSUME IInv, LockInv, [Next]_vars, [WebhookSparesJudged]_vars
    PROVE  ShortageStep
<1> USE Ids, CreditTopupAssumption DEF IInv, TypeOK, PayInv, Runs, Goto, Finish, LeaveLoop, books, provider, world, locks, locals, lists, judged, Judged
<1>1. ASSUME NEW a \in AutoRuns, AutoStart(a) PROVE ShortageStep
  <2>1. ShortageKept
    BY <1>1 DEF AutoStart, ShortageKept
  <2> QED
    BY <2>1, KeptMoves
<1>2. ASSUME NEW a \in AutoRuns, AutoLock(a) PROVE ShortageStep
  <2>1. ShortageKept
    BY <1>2 DEF AutoLock, ShortageKept
  <2> QED
    BY <2>1, KeptMoves
<1>3. ASSUME NEW a \in AutoRuns, AutoJudge(a) PROVE ShortageStep
  <2>1. UNCHANGED <<ledger, used>>
    BY <1>3 DEF AutoJudge
  <2>2. CASE Low(need[a]) /\ Cardinality(todayAttempts) < MaxSlot
    <3>1. pc' = [pc EXCEPT ![a] = "list"] /\ UNCHANGED need
      BY <1>3, <2>2 DEF AutoJudge
    <3>2. CreditedAuto' = CreditedAuto /\ Credited' = Credited /\ CreditedAuto \subseteq Credited
      BY <2>1 DEF CreditedAuto, Credited
    <3> QED
      BY <2>1, <2>2, <3>1, <3>2 DEF ShortageStep
  <2>3. CASE ~(Low(need[a]) /\ Cardinality(todayAttempts) < MaxSlot)
    <3>1. Finish(a)
      BY <1>3, <2>3 DEF AutoJudge
    <3>2. ShortageKept
      BY <2>1, <3>1 DEF ShortageKept
    <3> QED
      BY <3>2, KeptMoves
  <2> QED
    BY <2>2, <2>3
<1>4. ASSUME NEW a \in AutoRuns, AutoList(a) PROVE ShortageStep
  <2>1. /\ pc[a] = "list" /\ pc' = [pc EXCEPT ![a] = "reconcile"]
        /\ UNCHANGED <<ledger, used, need>>
    BY <1>4 DEF AutoList
  <2>2. ShortageKept
    BY <2>1 DEF ShortageKept
  <2> QED
    BY <2>2, KeptMoves
<1>5. ASSUME NEW a \in AutoRuns, AutoReconcile(a) PROVE ShortageStep
  <2>1. ShortageKept
    BY <1>5 DEF AutoReconcile, Settles, ShortageKept
  <2> QED
    BY <2>1, KeptMoves
<1>6. ASSUME NEW a \in AutoRuns, AutoCreate(a) PROVE ShortageStep
  <2>1. ShortageKept
    BY <1>6 DEF AutoCreate, createTopup, ShortageKept
  <2> QED
    BY <2>1, KeptMoves
<1>7. ASSUME NEW c \in CardRuns, CardStart(c) PROVE ShortageStep
  <2>1. ShortageKept
    BY <1>7 DEF CardStart, ShortageKept
  <2> QED
    BY <2>1, KeptMoves
<1>8. ASSUME NEW c \in CardRuns, CardLock(c) PROVE ShortageStep
  <2>1. ShortageKept
    BY <1>8 DEF CardLock, ShortageKept
  <2> QED
    BY <2>1, KeptMoves
<1>9. ASSUME NEW c \in CardRuns, CardPick(c) PROVE ShortageStep
  <2>1. ShortageKept
    BY <1>9 DEF CardPick, createTopup, ShortageKept
  <2> QED
    BY <2>1, KeptMoves
<1>10. ASSUME NEW r \in AutoRuns \cup CardRuns, ChargeApproved(r) PROVE ShortageStep
  <2>1. ShortageKept
    BY <1>10 DEF ChargeApproved, Execute, ShortageKept
  <2> QED
    BY <2>1, KeptMoves
<1>11. ASSUME NEW r \in AutoRuns \cup CardRuns, ChargeRefused(r) PROVE ShortageStep
  <2>1. ShortageKept
    BY <1>11 DEF ChargeRefused, Execute, ShortageKept
  <2> QED
    BY <2>1, KeptMoves
<1>12. ASSUME NEW r \in AutoRuns \cup CardRuns, ChargeUnanswered(r) PROVE ShortageStep
  <2>1. ShortageKept
    BY <1>12 DEF ChargeUnanswered, Execute, Unanswered, ShortageKept
  <2> QED
    BY <2>1, KeptMoves
<1>13. ASSUME NEW r \in AutoRuns \cup CardRuns, CrashInCharge(r) PROVE ShortageStep
  <2>1. ShortageKept
    BY <1>13 DEF CrashInCharge, Execute, Unanswered, ShortageKept
  <2> QED
    BY <2>1, KeptMoves
<1>14. ASSUME NEW r \in AutoRuns \cup CardRuns, MarkFailed(r) PROVE ShortageStep
  <2>1. ShortageKept
    BY <1>14 DEF MarkFailed, markTopupPaid, ShortageKept
  <2> QED
    BY <2>1, KeptMoves
<1>15. ASSUME NEW r \in AutoRuns \cup CardRuns, Verify(r) PROVE ShortageStep
  <2>1. ShortageKept
    BY <1>15 DEF Verify, Settles, ShortageKept
  <2> QED
    BY <2>1, KeptMoves
<1>16. ASSUME NEW r \in Runs, Credit(r) PROVE ShortageStep
  <2>1. /\ pc[r] = "credit" /\ pc' = [pc EXCEPT ![r] = "mark"]
        /\ ledger' = [ledger EXCEPT ![pay[r]] = IF @ = 0 THEN 1 ELSE @]
        /\ UNCHANGED <<used, need>>
        /\ pay[r] \in Payments
    BY <1>16 DEF Credit, addCreditEntry
  <2>2. Credited' \subseteq Credited \cup {pay[r]}
    BY <2>1 DEF Credited
  <2>3. ASSUME NEW a \in AutoRuns, pc'[a] \in Judged
        PROVE  pc[a] \in Judged /\ CreditedAuto' \subseteq CreditedAuto
    <3>1. pc[a] \in Judged /\ a # r
      BY <2>1, <2>3
    <3>2. CASE pay[r] \notin AutoPays \/ ledger[pay[r]] # 0
      BY <2>1, <3>1, <3>2 DEF CreditedAuto
    <3>3. CASE pay[r] \in AutoPays /\ ledger[pay[r]] = 0
      <4>1. CASE r \in AutoRuns
        <5>1. autoLock = a /\ autoLock = r
          BY <2>1, <3>1, <4>1 DEF LockInv, Inside, Steps
        <5> QED
          BY <3>1, <5>1
      <4>2. CASE r \in CardRuns
        BY <2>1, <3>3, <4>2
      <4>3. CASE r \in Hooks
        <5>1. WebhookSparesJudged
          BY <2>1 DEF vars
        <5> QED
          BY <1>16, <3>1, <3>3, <4>3, <5>1 DEF WebhookSparesJudged
      <4> QED
        BY <4>1, <4>2, <4>3
    <3> QED
      BY <3>2, <3>3
  <2>4. used' \in Nat /\ used' >= used /\ \A a \in AutoRuns : need'[a] = need[a]
    BY <2>1
  <2> QED
    BY <2>2, <2>3, <2>4 DEF ShortageStep
<1>17. ASSUME NEW r \in Runs, MarkPaid(r) PROVE ShortageStep
  <2>1. ShortageKept
    BY <1>17 DEF MarkPaid, markTopupPaid, ShortageKept
  <2> QED
    BY <2>1, KeptMoves
<1>18. ASSUME NEW r \in Runs, Crash(r) PROVE ShortageStep
  <2>1. ShortageKept
    BY <1>18 DEF Crash, ShortageKept
  <2> QED
    BY <2>1, KeptMoves
<1>19. ASSUME NEW h \in Hooks, NEW p \in Payments, WebhookStart(h, p) PROVE ShortageStep
  <2>1. ShortageKept
    BY <1>19 DEF WebhookStart, ShortageKept
  <2> QED
    BY <2>1, KeptMoves
<1>20. ASSUME NEW h \in Hooks, WebhookSettles(h) PROVE ShortageStep
  <2>1. ShortageKept
    BY <1>20 DEF WebhookSettles, Settles, ShortageKept
  <2> QED
    BY <2>1, KeptMoves
<1>21. ASSUME NEW h \in Hooks, WebhookCloses(h) PROVE ShortageStep
  <2>1. ShortageKept
    BY <1>21 DEF WebhookCloses, ShortageKept
  <2> QED
    BY <2>1, KeptMoves
<1>22. ASSUME NEW h \in Hooks, WebhookRetries(h) PROVE ShortageStep
  <2>1. ShortageKept
    BY <1>22 DEF WebhookRetries, ShortageKept
  <2> QED
    BY <2>1, KeptMoves
<1>23. ASSUME NEW w \in Windows, OpenWindow(w) PROVE ShortageStep
  <2>1. ShortageKept
    BY <1>23 DEF OpenWindow, createTopup, ShortageKept
  <2> QED
    BY <2>1, KeptMoves
<1>24. ASSUME NEW p \in Payments, Decide(p) PROVE ShortageStep
  <2>1. ShortageKept
    BY <1>24 DEF Decide, ShortageKept
  <2> QED
    BY <2>1, KeptMoves
<1>25. CASE Use
  <2>1. ShortageKept
    BY <1>25 DEF Use, ShortageKept
  <2> QED
    BY <2>1, KeptMoves
<1>26. CASE Midnight
  <2>1. ShortageKept
    BY <1>26 DEF Midnight, ShortageKept
  <2> QED
    BY <2>1, KeptMoves
<1>27. CASE UNCHANGED vars
  <2>1. ShortageKept
    BY <1>27 DEF vars, ShortageKept
  <2> QED
    BY <2>1, KeptMoves
<1> QED
  BY <1>1, <1>2, <1>3, <1>4, <1>5, <1>6, <1>7, <1>8, <1>9, <1>10, <1>11, <1>12, <1>13, <1>14, <1>15, <1>16, <1>17, <1>18, <1>19, <1>20, <1>21, <1>22, <1>23, <1>24, <1>25, <1>26, <1>27 DEF Next

LEMMA ShortageNext == ShortageInv /\ ShortageStep /\ TypeOK => ShortageInv'
<1> SUFFICES ASSUME ShortageInv, ShortageStep, TypeOK PROVE ShortageInv'
  OBVIOUS
<1>1. /\ CreditedAuto \subseteq AutoPays /\ CreditedAuto' \subseteq AutoPays
      /\ used \in Nat /\ used' \in Nat /\ used' >= used
      /\ \A a \in AutoRuns : need[a] \in Nat
  BY DEF CreditedAuto, TypeOK, ShortageStep, Runs
<1>2. IsFiniteSet(Credited')
  <2>1. PICK p : Credited' \subseteq Credited \cup {p}
    BY DEF ShortageStep
  <2>2. IsFiniteSet(Credited \cup {p})
    BY FS_AddElement DEF ShortageInv
  <2> QED
    BY <2>1, <2>2, FS_Subset
<1>3. ASSUME NEW a \in AutoRuns, pc'[a] \in Judged
      PROVE  Cardinality(CreditedAuto') <= used' + need'[a]
  <2>1. need'[a] = need[a]
    BY <1>3 DEF ShortageStep
  <2>2. CASE pc[a] \in Judged /\ CreditedAuto' \subseteq CreditedAuto
    <3>1. /\ Cardinality(CreditedAuto') \in Nat /\ Cardinality(CreditedAuto) \in Nat
          /\ Cardinality(CreditedAuto') <= Cardinality(CreditedAuto)
      BY <1>1, <2>2, FewerPays
    <3>2. Cardinality(CreditedAuto) <= used + need[a]
      BY <2>2 DEF ShortageInv
    <3> QED
      BY <1>1, <2>1, <3>1, <3>2
  <2>3. CASE Low(need[a]) /\ CreditedAuto' \subseteq Credited /\ used' = used
    <3>1. IsFiniteSet(Credited)
      BY DEF ShortageInv
    <3>2. /\ Cardinality(CreditedAuto') \in Nat /\ Cardinality(Credited) \in Nat
          /\ Cardinality(CreditedAuto') <= Cardinality(Credited)
      BY <2>3, <3>1, FS_Subset, FS_CardinalityType
    <3> QED
      BY <1>1, <2>1, <2>3, <3>2 DEF Low
  <2> QED
    BY <1>3, <2>2, <2>3 DEF ShortageStep
<1> QED
  BY <1>2, <1>3 DEF ShortageInv

\* Whatever dies, is lost or comes late, and however many triggers there are: when an
\* automatic run sends its charge, the automatic payments credited so far do not cover
\* what is used and what its trigger needs, unless a webhook credits one of them between
\* the run's second judgement and its charge (auto-topup.ts:131-166).
THEOREM ShortageChargedOnce ==
    Spec /\ [][WebhookSparesJudged]_vars => []OneChargePerShortage
<1>1. Init => ShortageInv
  <2> SUFFICES ASSUME Init PROVE ShortageInv
    OBVIOUS
  <2>1. \A p \in Payments : ledger[p] = 0
    BY DEF Init
  <2>2. Credited = {}
    BY <2>1 DEF Credited
  <2>3. IsFiniteSet(Credited)
    BY <2>2, FS_EmptySet
  <2>4. \A r \in Runs : pc[r] = "idle"
    BY DEF Init
  <2> QED
    BY <2>3, <2>4 DEF ShortageInv, Runs, Judged
<1>2. IInv /\ LockInv /\ ShortageInv /\ [Next]_vars /\ [WebhookSparesJudged]_vars
      => ShortageInv'
  BY ShortageMoves, ShortageNext DEF IInv
<1>3. ShortageInv => OneChargePerShortage
  BY DEF ShortageInv, OneChargePerShortage, CreditedAuto, Judged
<1> QED
  BY <1>1, <1>2, <1>3, Inductive, LocksHeld, PTL DEF Spec

=============================================================================
