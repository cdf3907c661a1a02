----------------------------- MODULE CreditTopup ------------------------------
(***************************************************************************)
(* Buying credits: the automatic top-up (billing/auto-topup.ts), the       *)
(* saved-card button, the checkout window and the webhook of the payment   *)
(* provider (index.ts), over the top-up orders and the credit ledger       *)
(* (db-pg.ts).  One company; every payment buys one unit of credits.       *)
(*                                                                         *)
(* A process is a run of one of the three handlers; its statements and its *)
(* calls to the provider are separate steps.  withTenantLock serialises    *)
(* the automatic runs among themselves and the card runs among themselves; *)
(* the webhook takes no lock.  The provider is external: it is modelled    *)
(* from the answers the code distinguishes.                                *)
(*                                                                         *)
(* The price, the buyer and the card are taken as valid, and the caps per  *)
(* day and month as zero, the fixed policy.  A webhook of a cancelled or   *)
(* failed payment only leaves a record of no credits and is left out, and  *)
(* so are refunds.  Orders age by day; created keeps their order.          *)
(***************************************************************************)
EXTENDS Naturals, FiniteSets

CONSTANTS
    AutoRuns,      \* processes that may run runAutoTopup
    CardRuns,      \* processes that may serve POST /api/credits/topup/card
    Hooks,         \* processes that may serve the webhook
    Keys,          \* idempotency keys of the browser
    Windows,       \* checkout windows
    MaxSlot,       \* bound: payment slots per day and per key (20 in the card route)
    MaxDay,        \* bound: days
    MaxUsed,       \* bound: credits consumed
    Needs,         \* needCredits: what the analysis that is to start will take, or 0
    ListLimit,     \* rows that listUnsettledAutoTopups returns at most (20)
    ListDays,      \* days that it looks back (3)
    NoRun,
    NoPay,
    Crashes,       \* may a process die, or a statement throw, between two steps?
    LostReplies,   \* may a charge be executed without its answer reaching the caller?
    LateApproval,  \* may such a charge be decided after the caller gave up?
    LostLookups    \* may getPayment fail although the payment exists?

AutoId(d, s) == <<"auto", d, s>>     \* cardTopupPaymentId(tenant, autoTopupNonce(day, slot))
CardId(k, s) == <<"card", k, s>>     \* cardTopupPaymentId(tenant, key#slot)
WindowId(w) == <<"window", w>>       \* topupPaymentId(tenant, random)

AutoPays == {AutoId(d, s) : d \in 1..MaxDay, s \in 1..MaxSlot}
CardPays == {CardId(k, s) : k \in Keys, s \in 1..MaxSlot}
WindowPays == {WindowId(w) : w \in Windows}
Payments == AutoPays \cup CardPays \cup WindowPays
Runs == AutoRuns \cup CardRuns \cup Hooks

ASSUME CreditTopupAssumption ==
    /\ AutoRuns \cap CardRuns = {} /\ AutoRuns \cap Hooks = {} /\ CardRuns \cap Hooks = {}
    /\ NoRun \notin Runs
    /\ NoPay \notin Payments
    /\ MaxSlot \in Nat \ {0} /\ MaxDay \in Nat \ {0} /\ MaxUsed \in Nat
    /\ Needs \subseteq Nat /\ ListLimit \in Nat /\ ListDays \in Nat
    /\ {Crashes, LostReplies, LateApproval, LostLookups} \subseteq BOOLEAN

VARIABLES
    order,     \* credit_topup: [Payments -> OrderStatus]
    ledger,    \* credit_ledger: number of entries with the key topup:<paymentId>
    used,      \* credits consumed
    day,       \* the calendar day in Seoul
    created,   \* created_at of the automatic orders: [AutoPays -> Nat], 0 for none
    pg,        \* what the provider holds: [Payments -> PgStatus]
    events,    \* payments whose webhook the provider has still to deliver
    pc,        \* [Runs -> Steps]
    pay,       \* [Runs -> Payments or NoPay]: the payment a run works on
    listed,    \* [Runs -> SUBSET Payments]: unsettled orders that a run has read
    todo,      \* [Runs -> SUBSET Payments]: those that it has still to reconcile
    need,      \* [Runs -> Nat]: needCredits of the trigger
    attempts,  \* [Runs -> Nat]: autoTopupTodayAttempts as read under the lock
    paidSeen,  \* [Runs -> BOOLEAN]: the order was paid when the webhook read it
    autoLock,  \* holder of auto-topup:<tenant>, or NoRun
    cardLock   \* holder of card-topup:<tenant>, or NoRun

books == <<order, ledger>>
provider == <<pg, events>>
world == <<used, day, created>>
locks == <<autoLock, cardLock>>
lists == <<listed, todo>>
judged == <<need, attempts>>
locals == <<pay, lists, judged, paidSeen>>
vars == <<books, provider, world, locks, pc, locals>>

OrderStatus == {"none", "pending", "paid", "failed"}
PgStatus == {"none", "sent", "paid", "wrong", "failed"}
Steps == {"idle", "wait", "judge", "list", "reconcile", "create", "pick",
          "charge", "declined", "verify", "look", "credit", "mark"}

TypeOK ==
    /\ order \in [Payments -> OrderStatus]
    /\ ledger \in [Payments -> Nat]
    /\ used \in Nat /\ day \in 1..MaxDay
    /\ created \in [AutoPays -> Nat]
    /\ pg \in [Payments -> PgStatus]
    /\ events \subseteq Payments
    /\ pc \in [Runs -> Steps]
    /\ pay \in [Runs -> Payments \cup {NoPay}]
    /\ \A r \in Runs : pc[r] \in {"pick", "charge", "declined", "verify", "look", "credit", "mark"}
                       => pay[r] \in Payments
    /\ listed \in [Runs -> SUBSET Payments] /\ todo \in [Runs -> SUBSET Payments]
    /\ need \in [Runs -> Nat] /\ attempts \in [Runs -> Nat]
    /\ paidSeen \in [Runs -> BOOLEAN]
    /\ autoLock \in AutoRuns \cup {NoRun}
    /\ cardLock \in CardRuns \cup {NoRun}

Init ==
    /\ order = [p \in Payments |-> "none"]
    /\ ledger = [p \in Payments |-> 0]
    /\ used = 0 /\ day = 1
    /\ created = [p \in AutoPays |-> 0]
    /\ pg = [p \in Payments |-> "none"]
    /\ events = {}
    /\ pc = [r \in Runs |-> "idle"]
    /\ pay = [r \in Runs |-> NoPay]
    /\ listed = [r \in Runs |-> {}] /\ todo = [r \in Runs |-> {}]
    /\ need = [r \in Runs |-> 0] /\ attempts = [r \in Runs |-> 0]
    /\ paidSeen = [r \in Runs |-> FALSE]
    /\ autoLock = NoRun /\ cardLock = NoRun

-----------------------------------------------------------------------------
(* The books.                                                              *)

\* Faulty variant: an INSERT without ON CONFLICT (dedupe_key) DO NOTHING.
AddAnyEntry(p) == ledger' = [ledger EXCEPT ![p] = @ + 1]

addCreditEntry(p) == ledger' = [ledger EXCEPT ![p] = IF @ = 0 THEN 1 ELSE @]

\* Faulty variant: UPDATE ... WHERE status = 'pending', as it once was.
MarkPendingOnly(p, s) ==
    order' = [order EXCEPT ![p] = IF @ = "pending" THEN s ELSE @]

\* Faulty variant: UPDATE without a condition.
MarkAlways(p, s) == order' = [order EXCEPT ![p] = s]

\* UPDATE ... WHERE status <> 'paid'
markTopupPaid(p, s) == order' = [order EXCEPT ![p] = IF @ = "paid" THEN @ ELSE s]

createTopup(p) == order[p] = "none" /\ order' = [order EXCEPT ![p] = "pending"]

Credited == {p \in Payments : ledger[p] > 0}

\* shouldAutoTopup: the balance less what is needed has come down to the threshold (zero).
Low(n) == Cardinality(Credited) <= used + n

todayAttempts == {p \in AutoPays : p[2] = day /\ order[p] # "none"}

\* Faulty variant: a failed order is taken to be one that was not charged.
Pending == {p \in AutoPays : order[p] = "pending"}

\* status <> 'paid'
Unpaid == {p \in AutoPays : order[p] \in {"pending", "failed"}}

\* created_at >= now() - ListDays.  Hours are not kept: of the day on which that moment
\* falls, the orders after cut are in.
Recent(cut) ==
    {p \in Unpaid : day < p[2] + ListDays \/ (day = p[2] + ListDays /\ created[p] > cut)}

\* ORDER BY created_at ASC LIMIT ListLimit
IsHead(ps, rows) ==
    /\ Cardinality(ps) <= ListLimit
    /\ ps # rows => Cardinality(ps) = ListLimit
    /\ \A p \in ps, q \in rows \ ps : created[p] < created[q]

\* What the query may return.
listUnsettledAutoTopups ==
    UNION {{ps \in SUBSET Recent(cut) : IsHead(ps, Recent(cut))} :
             cut \in {0} \cup {created[p] : p \in AutoPays}}

\* Faulty variant: the amount is not compared.
AnyAmount(p) == pg[p] \in {"paid", "wrong"}

\* verifyCharge, settleTopup: PAID, and for the amount of the order.
Settles(p) == pg[p] = "paid"

-----------------------------------------------------------------------------
(* Runs.                                                                   *)

Goto(r, s) == pc' = [pc EXCEPT ![r] = s]

Unlock(r) ==
    /\ autoLock' = IF autoLock = r THEN NoRun ELSE autoLock
    /\ cardLock' = IF cardLock = r THEN NoRun ELSE cardLock

\* The loop over the list is left, its locals with it.
LeaveLoop(r) == listed' = [listed EXCEPT ![r] = {}] /\ todo' = [todo EXCEPT ![r] = {}]

\* The handler returns or throws; withTenantLock ends its transaction.
Finish(r) ==
    /\ Goto(r, "idle")
    /\ pay' = [pay EXCEPT ![r] = NoPay]
    /\ LeaveLoop(r)
    /\ need' = [need EXCEPT ![r] = 0] /\ attempts' = [attempts EXCEPT ![r] = 0]
    /\ paidSeen' = [paidSeen EXCEPT ![r] = FALSE]
    /\ Unlock(r)

\* The process dies at any step; a charge request may already be out.
Crash(r) ==
    /\ Crashes
    /\ pc[r] # "idle"
    /\ Finish(r)
    /\ UNCHANGED <<books, provider, world>>

(* runAutoTopup.                                                           *)

\* The first judgement, outside the lock.
AutoStart(a) ==
    /\ pc[a] = "idle"
    /\ \E n \in Needs : Low(n) /\ need' = [need EXCEPT ![a] = n]
    /\ Cardinality(todayAttempts) < MaxSlot
    /\ Goto(a, "wait")
    /\ UNCHANGED <<books, provider, world, locks, pay, lists, attempts, paidSeen>>

AutoLock(a) ==
    /\ pc[a] = "wait"
    /\ autoLock = NoRun
    /\ autoLock' = a
    /\ Goto(a, "judge")
    /\ UNCHANGED <<books, provider, world, cardLock, locals>>

\* Faulty variant: the first judgement is trusted once the lock is held.
AutoJudgeOnce(a) ==
    /\ pc[a] = "judge"
    /\ Cardinality(todayAttempts) < MaxSlot
    /\ attempts' = [attempts EXCEPT ![a] = Cardinality(todayAttempts)]
    /\ Goto(a, "list")
    /\ UNCHANGED <<books, provider, world, locks, pay, lists, need, paidSeen>>

\* The second judgement, under the lock, reads the attempts as well.
AutoJudge(a) ==
    /\ pc[a] = "judge"
    /\ IF Low(need[a]) /\ Cardinality(todayAttempts) < MaxSlot
       THEN /\ attempts' = [attempts EXCEPT ![a] = Cardinality(todayAttempts)]
            /\ Goto(a, "list")
            /\ UNCHANGED <<locks, pay, lists, need, paidSeen>>
       ELSE Finish(a)
    /\ UNCHANGED <<books, provider, world>>

AutoList(a) ==
    /\ pc[a] = "list"
    /\ \E ps \in listUnsettledAutoTopups :
         listed' = [listed EXCEPT ![a] = ps] /\ todo' = [todo EXCEPT ![a] = ps]
    /\ Goto(a, "reconcile")
    /\ UNCHANGED <<books, provider, world, locks, pay, judged, paidSeen>>

\* Faulty variant: the settling goes on without the order it found.
AutoReconcileForgetting(a) ==
    /\ pc[a] = "reconcile"
    /\ \E p \in todo[a] :
         /\ \A q \in todo[a] : created[p] <= created[q]
         /\ \/ Settles(p) /\ Goto(a, "credit") /\ UNCHANGED todo
            \/ todo' = [todo EXCEPT ![a] = @ \ {p}] /\ UNCHANGED pc
    /\ UNCHANGED <<books, provider, world, locks, pay, listed, judged, paidSeen>>

\* One unsettled order: settle it and stop there, or go on to the next.
AutoReconcile(a) ==
    /\ pc[a] = "reconcile"
    /\ \E p \in todo[a] :
         /\ \A q \in todo[a] : created[p] <= created[q]
         /\ \/ /\ Settles(p)
               /\ pay' = [pay EXCEPT ![a] = p]
               /\ Goto(a, "credit")
               /\ LeaveLoop(a)
            \/ /\ ~Settles(p) \/ LostLookups
               /\ todo' = [todo EXCEPT ![a] = @ \ {p}]
               /\ UNCHANGED <<pc, pay, listed>>
    /\ UNCHANGED <<books, provider, world, locks, judged, paidSeen>>

\* A new order in the slot attempts + 1 of the day it is now.
AutoCreate(a) ==
    /\ pc[a] = "reconcile"
    /\ todo[a] = {}
    /\ LET p == AutoId(day, attempts[a] + 1)
       IN  \/ /\ createTopup(p)
              /\ created' = [created EXCEPT ![p] =
                               Cardinality({q \in AutoPays : order[q] # "none"}) + 1]
              /\ pay' = [pay EXCEPT ![a] = p]
              /\ Goto(a, "charge")
              /\ LeaveLoop(a)
              /\ UNCHANGED <<locks, judged, paidSeen>>
           \/ /\ order[p] # "none"    \* primary key: runAutoTopup throws
              /\ Finish(a)
              /\ UNCHANGED <<order, created>>
    /\ UNCHANGED <<ledger, provider, used, day>>

(* POST /api/credits/topup/card.                                           *)

CardStart(c) ==
    /\ pc[c] = "idle"
    /\ \E k \in Keys : pay' = [pay EXCEPT ![c] = CardId(k, 1)]
    /\ Goto(c, "wait")
    /\ UNCHANGED <<books, provider, world, locks, lists, judged, paidSeen>>

CardLock(c) ==
    /\ pc[c] = "wait"
    /\ cardLock = NoRun
    /\ cardLock' = c
    /\ Goto(c, "pick")
    /\ UNCHANGED <<books, provider, world, autoLock, locals>>

\* The first slot of the key that has not failed, or the last one.
SlotOf(k, s) ==
    /\ s = MaxSlot \/ order[CardId(k, s)] # "failed"
    /\ \A t \in 1..(s - 1) : order[CardId(k, t)] = "failed"

CardPick(c) ==
    /\ pc[c] = "pick"
    /\ \E s \in 1..MaxSlot :
         /\ SlotOf(pay[c][2], s)
         /\ LET p == CardId(pay[c][2], s)
            IN  IF order[p] = "paid"
                THEN Finish(c) /\ UNCHANGED order       \* duplicate: true
                ELSE /\ createTopup(p) \/ (order[p] # "none" /\ UNCHANGED order)
                     /\ pay' = [pay EXCEPT ![c] = p]
                     /\ Goto(c, "charge")
                     /\ UNCHANGED <<locks, lists, judged, paidSeen>>
    /\ UNCHANGED <<ledger, provider, world>>

(* Both: chargeWithBillingKey, the check, the ledger, the order.           *)

\* The provider executes a charge it has not seen, or not.
Execute(p, outcomes) ==
    /\ pg[p] = "none"
    /\ \E o \in outcomes :
         /\ pg' = [pg EXCEPT ![p] = o]
         /\ events' = IF o = "paid" THEN events \cup {p} ELSE events

\* The charge was made now, or the answer is ALREADY_PAID: look it up.
ChargeApproved(r) ==
    /\ pc[r] = "charge"
    /\ \/ Execute(pay[r], {"paid"})
       \/ pg[pay[r]] = "paid" /\ UNCHANGED provider
    /\ Goto(r, "verify")
    /\ UNCHANGED <<books, world, locks, locals>>

\* Anything else throws, and counts as a refusal.
ChargeRefused(r) ==
    /\ pc[r] = "charge"
    /\ \/ Execute(pay[r], {"failed"})
       \/ pg[pay[r]] \in {"sent", "failed"} /\ UNCHANGED provider
    /\ Goto(r, "declined")
    /\ UNCHANGED <<books, world, locks, locals>>

Unanswered == {"none", "paid", "failed"} \cup (IF LateApproval THEN {"sent"} ELSE {})

\* The request left but no answer came.
ChargeUnanswered(r) ==
    /\ LostReplies
    /\ pc[r] = "charge"
    /\ Execute(pay[r], Unanswered) \/ (pg[pay[r]] # "none" /\ UNCHANGED provider)
    /\ Goto(r, "declined")
    /\ UNCHANGED <<books, world, locks, locals>>

\* The process dies while its charge request is out.
CrashInCharge(r) ==
    /\ Crashes
    /\ pc[r] = "charge"
    /\ Execute(pay[r], Unanswered)
    /\ Finish(r)
    /\ UNCHANGED <<books, world>>

MarkFailed(r) ==
    /\ pc[r] = "declined"
    /\ markTopupPaid(pay[r], "failed")
    /\ Finish(r)
    /\ UNCHANGED <<ledger, provider, world>>

\* getPayment after the charge; not verified leaves the order pending.
Verify(r) ==
    /\ pc[r] = "verify"
    /\ \/ /\ Settles(pay[r])
          /\ Goto(r, "credit")
          /\ UNCHANGED <<locks, locals>>
       \/ /\ ~Settles(pay[r]) \/ LostLookups
          /\ Finish(r)
    /\ UNCHANGED <<books, provider, world>>

\* Faulty variant: the status first, the ledger after it.
CreditMarkingFirst(r) ==
    /\ pc[r] = "credit"
    /\ markTopupPaid(pay[r], "paid")
    /\ Goto(r, "mark")
    /\ UNCHANGED <<ledger, provider, world, locks, locals>>

\* The ledger first ...
Credit(r) ==
    /\ pc[r] = "credit"
    /\ addCreditEntry(pay[r])
    /\ Goto(r, "mark")
    /\ UNCHANGED <<order, provider, world, locks, locals>>

\* ... then the status.  The provider sees the webhook's answer, or asks again.
MarkPaid(r) ==
    /\ pc[r] = "mark"
    /\ markTopupPaid(pay[r], "paid")
    /\ \/ events' = IF r \in Hooks THEN events \ {pay[r]} ELSE events
       \/ LostReplies /\ r \in Hooks /\ UNCHANGED events
    /\ Finish(r)
    /\ UNCHANGED <<ledger, pg, world>>

(* POST /api/billing/portone/webhook.                                      *)

WebhookStart(h, p) ==
    /\ pc[h] = "idle"
    /\ p \in events
    /\ pay' = [pay EXCEPT ![h] = p]
    /\ paidSeen' = [paidSeen EXCEPT ![h] = order[p] = "paid"]
    /\ Goto(h, "look")
    /\ UNCHANGED <<books, provider, world, locks, lists, judged>>

\* The payment settles the order: go on to the ledger.
WebhookSettles(h) ==
    /\ pc[h] = "look"
    /\ ~paidSeen[h]
    /\ Settles(pay[h])
    /\ Goto(h, "credit")
    /\ UNCHANGED <<books, provider, world, locks, locals>>

\* Closed with 200: already paid, or an amount that a person must look at.
WebhookCloses(h) ==
    /\ pc[h] = "look"
    /\ paidSeen[h] \/ ~Settles(pay[h])
    /\ events' = events \ {pay[h]}
    /\ Finish(h)
    /\ UNCHANGED <<books, pg, world>>

\* getPayment failed: 503, the provider will send it again.
WebhookRetries(h) ==
    /\ LostLookups
    /\ pc[h] = "look"
    /\ Finish(h)
    /\ UNCHANGED <<books, provider, world>>

-----------------------------------------------------------------------------
(* The rest of the world.                                                  *)

\* POST /api/credits/topup, then the browser opens the window.
OpenWindow(w) ==
    /\ createTopup(WindowId(w))
    /\ pg' = [pg EXCEPT ![WindowId(w)] = "sent"]
    /\ UNCHANGED <<ledger, events, world, locks, pc, locals>>

\* The provider decides a payment that is still open.  Only the parameters of a
\* window can be tampered with.
Decide(p) ==
    /\ pg[p] = "sent"
    /\ \E o \in {"paid", "failed"} \cup (IF p \in WindowPays THEN {"wrong"} ELSE {}) :
         /\ pg' = [pg EXCEPT ![p] = o]
         /\ events' = IF o = "failed" THEN events ELSE events \cup {p}
    /\ UNCHANGED <<books, world, locks, pc, locals>>

\* A finished analysis takes its credits, below zero if need be.
Use ==
    /\ used < MaxUsed
    /\ used' = used + 1
    /\ UNCHANGED <<books, provider, day, created, locks, pc, locals>>

Midnight ==
    /\ day < MaxDay
    /\ day' = day + 1
    /\ UNCHANGED <<books, provider, used, created, locks, pc, locals>>

Next ==
    \/ \E a \in AutoRuns :
         \/ AutoStart(a) \/ AutoLock(a) \/ AutoJudge(a)
         \/ AutoList(a) \/ AutoReconcile(a) \/ AutoCreate(a)
    \/ \E c \in CardRuns : CardStart(c) \/ CardLock(c) \/ CardPick(c)
    \/ \E r \in AutoRuns \cup CardRuns :
         \/ ChargeApproved(r) \/ ChargeRefused(r) \/ ChargeUnanswered(r)
         \/ CrashInCharge(r) \/ MarkFailed(r) \/ Verify(r)
    \/ \E r \in Runs : Credit(r) \/ MarkPaid(r) \/ Crash(r)
    \/ \E h \in Hooks :
         \/ \E p \in Payments : WebhookStart(h, p)
         \/ WebhookSettles(h) \/ WebhookCloses(h) \/ WebhookRetries(h)
    \/ \E w \in Windows : OpenWindow(w)
    \/ \E p \in Payments : Decide(p)
    \/ Use
    \/ Midnight

Spec == Init /\ [][Next]_vars

\* The provider delivers an event again until it is answered, and neither a crash
\* nor a failing lookup hits every delivery of a payment: a step of the webhook that
\* is possible again and again for a payment is taken for it.
Fairness ==
    \A h \in Hooks, p \in Payments :
        /\ SF_vars(WebhookStart(h, p))
        /\ SF_vars(pay[h] = p /\ WebhookSettles(h))
        /\ SF_vars(pay[h] = p /\ WebhookCloses(h))
        /\ SF_vars(pay[h] = p /\ Credit(h))
        /\ SF_vars(pay[h] = p /\ MarkPaid(h))

FairSpec == Spec /\ Fairness

-----------------------------------------------------------------------------
(* Properties.                                                             *)

\* A payment is credited at most once, and only when the provider captured the
\* exact amount, whichever of the handlers settle it and however often
\* (db-pg.ts:4218-4228, credits.ts:228-247).
CreditsMatchCaptures ==
    \A p \in Payments : ledger[p] <= 1 /\ (ledger[p] > 0 => pg[p] = "paid")

\* The ledger is written before the status: a paid order is always credited, even
\* when a handler dies between the two (index.ts:7358-7372, 7730-7747).
PaidOrdersAreCredited == \A p \in Payments : order[p] = "paid" => ledger[p] = 1

\* Whatever dies, is lost or comes twice, the handlers together only ever capture a
\* payment, credit it once and close its order, in that order and for good
\* (db-pg.ts:4218-4228 and 4651-4673, auto-topup.ts:263-274, index.ts:7358-7372).
Captured == {p \in Payments : pg[p] = "paid"}
Closed == {p \in Payments : order[p] = "paid"}

Buying == INSTANCE Purchase WITH captured <- Captured, credits <- ledger, closed <- Closed

ImplementsPurchase == Buying!Spec

Opens(a) == pc[a] = "reconcile" /\ pc'[a] = "charge"

\* The query leaves p out: it is too old, or behind as many older ones as there is room for.
BeyondList(a, p) ==
    /\ p \notin listed[a]
    /\ \/ day >= p[2] + ListDays
       \/ Cardinality(listed[a]) = ListLimit /\ \A q \in listed[a] : created[q] < created[p]

\* An automatic run opens a new payment on top of one that was captured but not credited
\* only if the query of the unsettled orders cannot show it: three days old, or behind
\* twenty older unpaid orders.  Of those that it shows none is charged over, whatever
\* died, was refused or was answered too late (auto-topup.ts:168-215, db-pg.ts:4498-4507).
NoChargeOverCapture ==
    [][\A a \in AutoRuns : Opens(a) =>
          \A p \in AutoPays : pg[p] = "paid" /\ ledger[p] = 0 => BeyondList(a, p)]_vars

\* When an automatic run sends its charge, the automatic payments credited by then do not
\* cover what is used and what its trigger needs: of concurrent triggers the later ones see
\* what the first has bought, whatever crashed in between (auto-topup.ts:131-166).
OneChargePerShortage ==
    \A a \in AutoRuns :
        pc[a] = "charge" => Cardinality({p \in AutoPays : ledger[p] > 0}) <= used + need[a]

\* The browser's key makes the card route idempotent: a double click or a retry
\* with the same key never charges a second time (index.ts:7234-7236).
OneChargePerKey ==
    \A k \in Keys : Cardinality({s \in 1..MaxSlot : pg[CardId(k, s)] = "paid"}) <= 1

\* Every captured payment is credited and its order closed in the end, although
\* handlers die, lookups fail and orders were marked failed (db-pg.ts:4651-4665).
CapturesAreSettled ==
    \A p \in Payments : pg[p] = "paid" ~> (ledger[p] = 1 /\ order[p] = "paid")
=============================================================================
