# STEP-D: formal model

STEP-D turns broadcast episodes into short clips and publishes them to YouTube,
Instagram, Facebook, TikTok and Naver TV for many companies (tenants). This
directory holds TLA+ modules of its server (`apps/server/src`) and of the upload
engine of its desktop application (`native/src/transfer`), the TLC configurations
that check them, and TLAPS proofs about them.

Paths below are relative to `apps/server/src` unless they start at the root of
the repository.

## 1. The system

| Component | State it keeps | Operations | Hard behaviour | Correct when |
|---|---|---|---|---|
| Job queue (`pipeline/queue.ts`) | table `job_queue`: status, attempts, runAfter, lockedAt, dedupeKey | enqueue, claimJob, heartbeatJob, completeJob, failJob, requeueStale, pruneDoneJobs | many processes, crashes, stragglers, a check and its write in two statements | one run per job, one in-flight row per key, done is final, every job settles |
| Workers (`worker.ts`) | the claimed job, the lock value it owns | loop, runJob, main, handlers per job type | heartbeat against the 30-min sweep, follow-ups, SIGTERM and spot preemption | as above; handlers are idempotent where a retry reaches them |
| Console (`index.ts` superadmin and admin routes) | none of its own | retry, delete and purge of rows; suspension of companies | acts on rows that workers run | never disturbs a live run |
| Credit ledger (`db-pg.ts`, `billing/credits.ts`) | append-only entries with a dedupe key; balance is their sum | addCreditEntry, creditBalance, settleTopup | the same payment reported by three paths | every captured payment is credited once |
| Top-up orders (`billing/auto-topup.ts`, routes of `index.ts`) | table `topups`: pending, paid, failed | automatic top-up, card button, checkout window, webhook | a charge whose answer is lost, paths that race, a crash between ledger and order | no second charge while one is unsettled |
| Tenant lock (`db-pg.ts` withTenantLock) | two slots per process, advisory locks on their connections | acquire slot, connect, lock, run, unlock, release | bodies that need the same pool, nesting | mutual exclusion, no pool deadlock |
| Publish dispatch (`publish/*`) | distributions inside the clip entity | dispatchPublish, markDistributionFailed, recordPublished, reconcile | charge, save and enqueue are three writes; whole-document saves | a clip is uploaded once and charged once, a failure is refunded |
| Automation cycle (`pipeline/automation*.ts`) | rules, the rule of a clip, holds, `rule_run` | a round per company: adopt, judge, dispatch, note | overlapping rounds, shares per day and slot, verdicts of humans meanwhile, cuts | nothing is sent twice or unapproved, shares and caps hold, no clip is forgotten |
| Factory, harvest (`pipeline/*`) | factory runs, harvest marks | periodic cycles per company | restarts between steps | no step runs twice |
| Content pipeline (`pipeline/content-pipeline.ts`) | checkpoints of an analysis | prepare, analyze, reframe | restart in the middle | finished stages are not paid for again |
| Auth, onboarding (`auth/*`) | sessions, API keys, invitations, OAuth state | issue, consume, revoke | a token consumed twice | single use, tenant isolation |
| Native shell (`native/src`) | one file per upload, workspace files | enqueue, run, pause, resume, cancel, relink; finalize at the server | lost and late answers, expired sessions, exits between two saves, a server that dies between its rows | an upload is registered once and whole, what is shown as completed exists, none hangs |
| Python core, web, admin, media, AI clients | | | numeric work, user interface | not modelled |

Interactions: routes and periodic cycles `enqueue` rows; workers claim them and
write entities, the ledger and further rows; the payment provider calls the
webhook; the console edits rows directly. All share one Postgres database, and
every component relies on single statements being atomic and on nothing more:
explicit transactions are rare.

What makes each part correct, in the terms of the modules that exist:

- queue: `OneInFlightPerKey`, `RunExclusive`, `DoneIsFinal`, `VerdictMatchesAttempts`, `ImplementsQueue`, `ImplementsKeyQueue`, `EveryJobSettles`;
- ledger and orders: `ImplementsPurchase`, `CreditsMatchCaptures`, `PaidOrdersAreCredited`,
  `NoChargeOverCapture`, `OneChargePerShortage`, `OneChargePerKey`, `CapturesAreSettled`;
- publishing: `PublishedIsLive`, `FailedIsRefunded`, `LiveIsNeverFailed`, `UsesQueue`, `OneChargeInFlight`;
- tenant lock: `Exclusive`, `SlotsAreCounted`, `LocksLeaveAConnection`, `EveryCallReturns`;
- automation cycle: `SentOnce`, `SharesHold`, `AdoptedWithinCap`, `ApprovedWhenSent`, `EveryClipIsDecided`;
- uploads of the desktop application: `LandedIsComplete`, `RegisteredOnce`, `CompletedIsRegistered`, `ImplementsUpload`, `EveryUploadSettles`.

The hazards that no property covers yet are listed with the reason in `PROJECT.json`.

## 2. Plan

| Order | Module | State of work | Uses |
|---|---|---|---|
| 1 | `JobQueue` | modelled, checked, proved | |
| 2 | `CreditTopup`, abstract `Purchase` | modelled, checked, proved, refinement proved | |
| 3 | `Publish` | modelled, checked, proved | `KeyQueue` |
| 4 | `AbstractQueue`: rows absent, waiting, running, settled, implemented by `JobQueue`; `KeyQueue`: the same by dedupe key, implemented by both | modelled, checked, refinements proved | |
| 5 | `TenantLock`: slots, pool connections, advisory locks, nesting | modelled, checked, proved | |
| 6 | `AutomationCycle`: rounds, shares, holds, verdicts | modelled, checked, proved | what `Publish` and `TenantLock` promise |
| 7 | `Transfer`: the upload engine of the desktop application, its job file, the routes that register; abstract `Upload` | modelled, checked, proved, refinement proved | |
| 8 | `Factory`, `Harvest`; `ContentPipeline` checkpoints; invitations and OAuth state | to do | `KeyQueue` |
| 9 | pure algorithms: caption chunking, render plan, the order in which rows are claimed | to do | |

Runs to come: a factory run that is cut between two steps.

Theorems to come: the same composition for the modules still to be written.

## 3. JobQueue

`JobQueue.tla` models `pipeline/queue.ts` and the part of `worker.ts` that claims,
runs and settles a row, and the console routes that edit rows.

| In the module | In the code |
|---|---|
| `status`, `attempts`, `wait`, `lockAge` | columns of `job_queue`; times relative to now |
| `holder` | which process's `ownedLock` equals the row's `lockedAt` |
| `pc`, `job`, `seen`, `beating` | a worker: where in `loop`/`runJob` it is, its job, the attempts `failJob` read, its heartbeat timer |
| `suspended` | companies whose status is not `active` |
| `enqueue`, `claimJob`, `ClaimReplyLost`, `heartbeatJob` | the functions of the same name; the claim commits although its answer is lost |
| `HandlerEnds`, `completeJob`, `CompleteThrows`, `EnqueueFollowUp`, `FailJobRead`, `FailJobWrite` | `runJob` and `failJob`, one step per statement |
| `Crash`, `Boot`, `StaleTick` | end and start of a process, `requeueStale` at boot and every 15 minutes |
| `DeleteRow`, `RetryFailed`, `PurgeReset`, `Suspend`, `Resume` | the superadmin and admin routes |
| `Tick` | time; `MaxSilence` is the longest a live process leaves its lock untouched |

A row is used once, so that `Jobs` bounds the rows ever inserted. The handlers of
the job types are one step that succeeds or throws; the fan-out of periodic jobs
and the drain budget are left out, since they only add rows or stop a process.

**What it promises** (`AbstractQueue.tla`): the queue as those who enqueue and those who
write handlers know it, without times, locks, sweeps or statements. Its `state` and `tries` are
`status` and `attempts`; its `runs` is the set of workers inside `runJob` with the row. A
row starts only when nobody runs it, a worker that ends a run leaves a verdict that
follows from the tries, a crash leaves a running row that `Recover` finds, and a
finished row never moves again. `ImplementsQueue` is the refinement. `claimJob` is
`Start`, the second statement of `failJob` is `Fail`, `Boot` and `StaleTick` are `Recover`
of the stale rows, heartbeats, reads and the clock are stutters. With stalls past the
stale age, lost replies or the purge the promise is not kept: see finding 1 and the
notes after it.

**By dedupe key** (`KeyQueue.tla`): those who enqueue under a key do not count rows. To them
a key has no job, one that waits, or one that a single process runs; a run ends by that
process's verdict, or by its death and the sweep; the console may delete a job that waits
and start again one that was given up. `AbstractQueue` maps the rows of each key to this
(`ByKey`), and `ImplementsKeyQueue` says that `JobQueue` does what the map says. Other modules
build on `KeyQueue`: a step of it which they do not take themselves (`Sweep`, `RetryByHand`,
`Remove`) is an action of theirs as it stands, and the steps that they take must be steps of it.

**Runs** (`MCJobQueue`; ticks keep the order of the code's times: a beat after one,
stale after two, backoff capped at two; two attempts per job, so that a first and a
last attempt exist)

| Run | Bounds | Shows |
|---|---|---|
| `queue_reliable` | 3 jobs, two with one key and two attempts, one with a single attempt; 2 workers; crashes; beats in time | 78 k states: no job, and no two jobs of one key, run at once; verdicts agree with attempts; rows behave as `AbstractQueue` promises and keys as `KeyQueue` does; every job settles |
| `queue_faults` | 2 jobs of one key; 2 workers; stalls past the stale age, lost replies, purges | 61 k states: the dedupe index and the finality of done rows hold all the same |
| `queue_verdict` | 1 job, 2 workers, stalls | the counterexample of finding 1 |

Two workers and a stale lock are what the races need: a straggler and the one that
took its row. A third worker only repeats the role of the second.

**Fairness** (`queue_reliable`): time passes and the sweep comes; a process that is up
makes progress, since every handler has timeouts; a dead one is started again
(systemd, Cloud Scheduler); and a row that is claimable again and again is claimed
(strong fairness: workers poll every five seconds and take rows in a fixed order
that lets no row be passed over forever). Nothing is assumed about crashes: the
attempts end a crash loop. The property is conditional on companies being active
from some time on, because suspended rows wait by design.

**Proved** (`JobQueueProofs`), for all constants that satisfy `JobQueueAssumption`:
`TypeCorrect`, `DedupeKeysAreUnique`, `DoneStaysDone` with every fault, and
`RunsExcludeEachOther` from `MaxSilence < StaleAge` and no lost statements. The
last needs a strengthening: exclusion of runs says nothing about the row, so that
it is not inductive. `RunsAreLocked` adds that the row of a live run is running,
held by that worker, and younger than the stale age; the sweep then cannot take it
and a claim, which wants a pending row, cannot either. Exclusion per dedupe key
follows with `OneInFlightPerKey`, since both rows are in flight.

`VerdictsFollowAttempts` and `QueueImplemented` assume in addition that there are no
`MediaJobs`, which the console resets while they run. Finding 1 shows that the
verdict is not a property of `failJob` alone: the invariant `VerdictInv` adds that what
`failJob` has read is still what the row says when it writes (no claim can come between,
because the row is running and held) and that attempts never pass their maximum. With both, every
action of the queue maps to one step of `AbstractQueue`, lemma `QueueStep`.

`KeyQueueImplemented` goes by way of `AbstractQueueProofs`, which knows nothing of locks and
times: its invariant `KeyInv` (a row that is run is running, a key has one row in flight) is
inductive over the abstract steps, and with it every step of a row is one step of its key,
or none (`KeyStep`; `KeysFollowRows` for the abstract queue itself). `JobQueueProofs` instantiates these
lemmas for the mapped rows, so that the argument about keys is made once.

## 4. CreditTopup and Purchase

`CreditTopup.tla` models the four ways a payment reaches the ledger: `runAutoTopup`
(`billing/auto-topup.ts`), the saved-card route, the checkout window and the
webhook (`index.ts`), over `credit_topup` and `credit_ledger` (`db-pg.ts`).

| In the module | In the code |
|---|---|
| `order` | `credit_topup.status`, by payment id; an id is (day, slot), (key, slot) or a window |
| `ledger` | entries with the key `topup:<paymentId>` |
| `used`, `day` | credits consumed (below zero if need be), the Seoul date |
| `created` | `created_at` of the automatic orders, as their order |
| `pg`, `events` | the provider (external): what became of a payment, webhooks still to deliver |
| `pc`, `pay`, `need`, `attempts`, `listed`, `todo`, `paidSeen` | the local state of a handler between two awaits; `need` is `needCredits` of the trigger |
| `Low(n)` | `shouldAutoTopup`: the balance less what is needed against the threshold |
| `listUnsettledAutoTopups` | the query: unpaid orders of the last `ListDays` days, oldest first, `ListLimit` of them |
| `autoLock`, `cardLock` | `withTenantLock("auto-topup:...")`, `("card-topup:...")` |
| `AutoStart` ... `AutoCreate` | `runAutoTopup`: first judgement, lock, second judgement, list, reconciliation, new order |
| `CardStart`, `CardLock`, `CardPick` | the card route up to its order |
| `ChargeApproved`, `ChargeRefused`, `ChargeUnanswered`, `CrashInCharge`, `MarkFailed`, `Verify`, `Credit`, `MarkPaid` | the steps both share; the same text twice in the code |
| `WebhookStart` ... `WebhookRetries` | the webhook: settles, closes without credit, or answers 503 |
| `Decide`, `Use`, `Midnight` | the provider decides late, an analysis uses credits, the date changes |

`Purchase.tla` is what all of them promise: a payment is captured, then credited
exactly once, then closed, and nothing is taken back. The refinement maps
`captured` to the payments the provider holds as paid, `credits` to the ledger and
`closed` to the paid orders.

One payment buys one unit. A trigger needs some units or none (`Needs`), and is low when what
is left less what it needs is zero or less, so that it charges while credits remain, as the
code does. The query looks back three days to the moment; the module keeps days and the order
within them, so that of the day on which that moment falls any first part may be gone. Its
limit of twenty is `ListLimit`. The caps per day and month are zero, the value the code fixes:
a refused card is tried again at every trigger, up to `MaxSlot` in a run. Cancelled webhooks,
refunds, prices and buyers are left out; a window whose parameters were changed is the `wrong`
state.

**Runs** (`MCCreditTopup`)

| Run | Bounds | Shows |
|---|---|---|
| `topup_books` | one run of each handler, one payment of each kind, every fault | 330 k states: refinement of `Purchase`, ledger and orders agree |
| `topup_triggers` | 2 automatic runs that need 0 or 1, 2 slots, 2 days, a query of 2 orders and 1 day, 2 credits used, crashes, answers lost after the approval | 173 k states: no order over a captured payment that the query can show, no charge without a shortage |
| `topup_settle` | 1 automatic run, 2 deliveries at a time, every fault | 978 states, liveness: every capture ends credited and closed |
| `topup_retry` | the smallest instance | finding 2 |

Two runs of a handler are enough for a race inside it, because the lock admits one
at a time. Two slots on two days make four orders, more than the query of `topup_triggers`
returns, and one day is less than they last: both ways in which it leaves an order out
(`BeyondList`) happen, and without either of them `NoChargeOverCapture` is violated. A query that
shows less only makes the property harder to keep; the proof is for every limit and age.
`topup_triggers` has no webhook: with one, `OneChargePerShortage` is false (the notes of
section 9 say why, and `ShortageChargedOnce` which webhooks do no harm). It has no failing
lookups and no late decisions: with either, `NoChargeOverCapture` is false.

**Fairness** (`topup_settle`): only of the webhook, because only its sender
retries. The provider delivers until it is answered, and not every delivery of a
payment meets a crash or a failing lookup; so each step of the webhook is strongly
fair per payment. The user, the automatic runs and the provider's decision have no
fairness.

**Proved** (`CreditTopupProofs`), for any number of handlers, keys, windows, slots
and days. `IInv` is inductive: types; `PayInv` (which kind of payment a run works
on); `ProviderInv` (what reached the provider has an order); `BooksInv`, which
says in addition to the two invariants what a run at `credit` and at `mark` already
knows - the capture, the entry. From it `CreditsAreCaptures`, `PaidIsCredited` and
`PurchaseImplemented` (each step is a step of `Purchase` or a stutter).
`ReconciliationIsComplete` assumes that lookups answer and nothing is decided late;
it rests on `LockInv` (automatic runs exclude each other) and `ReconcileInv`: whatever is
captured and not credited, a reconciling run has still before it, or its query could not show
it. Lemma `ListShows` says what the query may leave out, `KeptIsEnough` that what was left out
stays so while others step: orders grow older, and no order is made while the lock is held.
What it does not say is that every captured payment is found: twenty older unpaid orders, or
three days, hide one, and the property names just these two cases.
`ShortageChargedOnce` assumes no fault away, and holds for every query, since it rests on the
ledger alone: `ShortageInv` says that from its second judgement to its charge a run knows
that the automatic payments credited do not cover what is used and what it needs. Other
automatic runs cannot credit one meanwhile (`LockInv`), card runs credit others, credits used
only help. A webhook can, and breaks the property; `WebhookSparesJudged`, its hypothesis,
says that none does so just then. `ShortageStep` says how a step moves these sets, action by
action, and `ShortageNext` draws the cardinalities from it.
`KeyChargesOnce` assumes that every charge is answered; `RefusedInv` says that a
failed order was refused by the provider and that slots are opened in order. Without
the assumption it is false (`topup_retry`, finding 2).

## 5. Publish

`Publish.tla` models one clip: `dispatchPublish`, the upload handlers of
`worker.ts`, `markDistributionFailed`, over the queue of `KeyQueue` (section 3).

| In the module | In the code |
|---|---|
| `clip` | `distributions` of the clip entity, one row per destination (channel and account) |
| `spent`, `refunded` | charges and `:refund` entries of the ledger |
| `job`, `givenUp` | the row of `job_queue` in flight with the destination's key; whether one with the key has failed for good |
| `live` | videos on the platforms (external) |
| `snap`, `dest`, `chargeKey`, `videoId` | what a request or a worker holds between two awaits |
| `Ask`, `Charge`, `ChargeRefused`, `Save`, `Note`, `Enqueue` | `dispatchPublish`: read, charge, write, enqueue, or record only |
| `Claim`, `Start`, `Uploaded`, `UploadThrows` | the handlers up to the upload |
| `RecordRead`, `RecordWrite`, `RecordThrows` | `recordPublished`; the single write of the other channels |
| `FailRead`, `Refund`, `FailWrite`, `FailThrows` | `markDistributionFailed` and the catch of the handler |
| `Finish`, `Crash` | `completeJob`, the death of a process |
| `Sweep`, `Console` | `requeueStale`; the superadmin's retry and delete of a job |

The point of the module is the whole-document write: `Write` puts back the clip
that was read earlier with one row changed, so that a process can undo the rows of
all others. The retry route and the cycles dispatch only under conditions on rows
they read before; `Ask` has no condition and covers them all. Not modelled: Naver,
reservations, rows without an account (the lookup that falls through to another
account's row), the screening of clips, the balance, audit and report entries, a
clip that is deleted meanwhile.

**Runs** (`MCPublish`; the constants `Keys` and `Videos` bound charges and uploads, `MayGiveUp` the
destinations whose jobs may run out of attempts)

| Run | Bounds | Shows |
|---|---|---|
| `publish_rows` | one YouTube and one Instagram destination, 1 dispatching process, 1 worker, 2 charges, 2 videos, crashes, lost answers, failing writes, the operator; the YouTube job may be given up | 1.4 M states: what is shown as published exists, failed rows have their credits back, a live YouTube video is not marked failed, the queue is used as it promises |
| `publish_double_click` | 1 destination, 2 requests, no fault | finding 3 |

Two destinations and two writers let a stale copy of either row come back, also
after the other process has refunded or published it; the second charge lets a row
be charged again after a refund, the second video lets it be uploaded again. A
second worker multiplies the states threefold with a single video (it was run once,
without a violation); the proofs cover it, and every other size.

**Proved** (`PublishProofs`): `TypeCorrect`, `ShownIsLive`, `NoFailureAfterUpload`,
`QueueUsedAsPromised` with every fault, and `FailureIsRefunded` as long as the INSERT of a refund does
not throw (the code logs the error and lowers the flag anyway). None of them is
inductive on the clip alone, because a stale copy overwrites it. The invariants
`ShownInv` and `SettledInv` hold of every copy: of the clip and of each `snap`.
They survive staleness because videos and refunds only grow. `VideoInv` says that a
run that fails on YouTube has uploaded nothing. `JobInv` ties workers to jobs: a worker that
is busy has a running job, and no two have the same one; `QueueUsedAsPromised` and
`KeyQueueImplemented` together are the composition of dispatch, workers and queue, under
the conditions of the latter (heartbeats in time, no lost statement).

## 6. TenantLock

`TenantLock.tla` models `withTenantLock` (`db-pg.ts:4512-4582`) with what it leans
on: the semaphore `LOCK_SLOTS` of each process, the pool of connections that locks
and queries share, and PostgreSQL's advisory locks.

| In the module | In the code |
|---|---|
| `lockHeld`, `lockWaiters` | the variables of the same name, one pair per process |
| `pending`, `conn` | the queue of pg-pool and its connections in use, by the level that keeps them |
| `lockQueue` | the advisory locks (external): the head of a queue holds the lock |
| `lost` | levels whose database session has ended while the work went on |
| `level`, `pc` | how many locks a call has nested, and where in `lockBody` it is |
| `Call`, `ReleaseSlot`, `HandOver` | `acquireLockSlot`, `releaseLockSlot` |
| `Connects`, `Serve`, `Enter`, `Commit`, `Release` | `lockBody`: connect, BEGIN and lock, COMMIT or ROLLBACK, `finally` |
| `Nest` | `maybeAutoTopup` inside `runAutomationCycle`: the slot is inherited |
| `Query`, `Answered`, `TimesOut` | a query of the scoped pool; `connectionTimeoutMillis` |
| `SessionBreaks` | the database ends a session (external) |

**Run** `tenant_lock` (`MCTenantLock`): the default pool of five, so two slots; three
callers and a plain request in one process, a fourth caller of the same company in
another; two of them nest a lock, one may time out, two may lose their sessions; 86 k
states. With three callers on two slots one waits and is handed a slot; with two
nesting at once, four of the five connections are locks', which is where a deadlock
would be.

**Fairness**: the event loop and the pool go on, and work ends because its calls to
the outside have timeouts. Everyone waits in a queue that is served in order, so weak
fairness is enough. Time-outs have none: liveness must not need them.

**Proved** (`TenantLockProofs`), for any callers, companies, processes and pool size of
at least four: `TypeCorrect`, `SlotAccounting`, `ConnectionAlwaysLeft`,
`MutualExclusion`. One invariant serves all: `NestsInCycle` (only the cycle reaches
level 2), `LocksHeld` (whoever is inside on a live session is the head of the queue of
that lock and stands in it once), `WaitersWait` (a waiter is queued once, in its own
process), `ConnectionsMatchLevels` (a lock has a connection only at a level that its
caller has reached) and `SlotsAreCounted`. The connection bound is arithmetic on top:
holders are at most `LOCK_SLOTS`, each keeps at most two, and `2 * LOCK_SLOTS < PoolMax`.

## 7. AutomationCycle

`AutomationCycle.tla` models `runAutomationCycle` (`pipeline/automation-cycle.ts`),
the rules it decides by (`pipeline/automation.ts`) and the tables it reads and writes
(`rule_hold` and `rule_run` in `db-pg.ts`). A round stands in nested loops - rules,
channels, clips - and each await in them is a step.

| In the module | In the code |
|---|---|
| `owner` | `automationRuleId` of the clip; `Nobody` is a recommendation still pending |
| `row` | the distribution of a clip and account, as far as a round looks at it |
| `hold` | `rule_hold`: open, released, rejected |
| `runs`, `undone` | `rule_run` of today, and what a later note of a failure gives back |
| `round[p]` | the variables of `runAutomationCycleLocked`: the clips it read (`known`, `free`), what it may send (`claim`, `left`), its place |
| `Begin`, `Evaluate`, `Adopt` | lock, `selectCandidates`, `commitAdoption` |
| `Prepare`, `Refresh`, `OpenChannel` | `mine`, a clip read again, `claimableSlots` |
| `Look`, `ReadHeld`, `Decide`, `HoldClip` | `isRejectedHold`, `isHeldAwaitingHuman`, `hasReleasedHold` with `decidePublish`, `holdClip` |
| `Queued`, `Note`, `Refused`, `NoCredit` | the outcomes of `dispatchPublish`; `appendRuleRun` |
| `CutShort` | a process that dies, a statement that throws |
| `Uploaded`, `UploadFails`, `NoteFailure` | the worker; `markDistributionFailed` writes the row and then the note |
| `PublishByHand`, `AdoptByHand`, `Settle` | the console |
| `sent`, `lost`, `ever` | history: what went out today, what the notes do not show, what went out at all |

Of the other modules only what they promise is used: the tenant lock is exclusive and
ends with its session, and a dispatch leaves a pending row that ends as published or
failed. A rule without slots has one share, its daily quota. Left out: editing and
deletion of rules, and the clips that a deleted rule leaves to another one;
recommendations whose segments overlap; rendering and texts (they only delay a clip:
`Ineligible`, `NoMetadata`, `Refresh`); channels that only record; reports.

**Run** `automation_cycle` (`MCAutomationCycle`): 580 k states. Two askers of rounds
(the periodic job and the route), one account, days of two ticks, one cut or refusal,
and one rule per behaviour (the constant `Enabled` picks one): `rq` has a daily quota
and needs approval, `rs` has two slots and sends without, `rc` may adopt one of two
recommendations. Rules meet in nothing but the lock and the recommendations they both
want, which a round takes one rule after the other; the proofs cover rules side by
side. Two clips compete for each share, so that one waits for a later day; one clip can
be adopted and published by hand, two uploads can fail, and a failure can be noted
before, after and across midnight.

**Fairness**: the scheduler asks for rounds, a round goes on because its calls have
timeouts, and days pass; uploads and humans have none. `EveryClipIsDecided` needs that
from some time on nothing hinders rounds - opening hours, gates, credits, rendering -
and speaks of rules by quota only, because the window of a slot may pass by design.

**Proved** (`AutomationCycleProofs`), for any recommendations, rules, plans, accounts
and askers: `TypeCorrect`, `NeverSentTwice`, `SharesAreKept`, `ApprovalHolds`,
`CapIsKept`. The properties speak of one moment of a round, the invariant `IInv` of what
a round carries to it. `PlaceInv` says what it has in hand at each place of its loops.
`LocalInv` says that whoever is under way has the lock, and that what it read is still
good: the pairs it may send were never sent (`FreshAt`), what it may still send of a
share fits beside what is counted (`SharesAt`), its picks fit beside what its rule owns
(`AdoptsAt`), and at `dispatch` the release stands (`ApprovedAt`). Humans, workers and
the clock only help: they add rows, give shares back, and decide open holds alone.
`EverInv` (what was sent has a row), `CountInv` (no share is overdrawn by the notes) and
`SentInv` (what was sent is noted or in the hand of the one round under way) tie the
rounds of a day together. The only assumption is `AutomationAssumption`.

## 8. Transfer

`Transfer.tla` models one upload of the desktop application from `enqueue` to its rows:
`native/src/transfer/engine.ts`, the file of the job (`job-store.ts`), the resumable
session at the object store, and the routes `finalize` and `clip-finalize` (`index.ts`).

| In the module | In the code |
|---|---|
| `mem`, `disk`, `chain` | the job in memory, its file, and the saves in `writeChain`; a crash keeps `disk` alone |
| `pc`, `then` | the await at which `runJob` stands, and where it goes on after a save |
| `offset`, `end`, `tries`, `restarted`, `aborted` | locals of `upload` and `runJob`, and the signal of the run |
| `last`, `live`, `got` | sessions of the object store (external): opened, alive, units stored |
| `requests`, `mine` | registrations the server works on, and the one the run waits for |
| `media`, `entity` | media rows, and episodes or clips |
| `Start`, `Verify`, `Ensure`, `InitCall` | `pump`, `verifyFile`, `ensureSession` |
| `Query`, `NextChunk`, `PutChunk`, `Requery`, `Retry` | `upload` |
| `BeginFinalize`, `MarkComplete`, `CallFinalize`, `Answered` | `finalize` |
| `Fails`, `Expired` | the `catch` of `runJob`, its restart of an expired session |
| `CheckRows`, `FirstRow`, `SecondRow`, `Breaks` | the two routes, and a server that dies between two statements |
| `pause`, `cancel`, `resume`, `retryRecoverable`, `RelinkBegins`, `RelinkEnds` | the user, as far as `transfer-center.tsx` shows the buttons; login, network, wake-up |
| `Crash`, `Boot` | any exit of the process, and `init` |

Bytes are counted in units, and a session number stands for `mediaId`, `objectPath` and the
session URL, which the code sets and clears together. `fetch` rejects on a signal that is
already aborted, `net.request` only hears the event, so that an abort during a save is seen
by some awaits and missed by others; the module follows each. Other uploads only decide when
the pump takes this one. Left out: disk writes that fail, pruning, progress figures, and what
the server queues after its rows.

**What it promises** (`Upload.tla`): a session has the whole file before it gets a row, one
session gets rows and no other ever, its second row joins the first, and only then is the upload
done, for good. `stored` is the sessions with all units, `registered` and `complete` the union
and the intersection of the two kinds of row, `done` the status on the disk: in memory a
completion is lost with the process, on the disk nothing takes it back, neither a pause that comes
late, nor a relink, nor a save that was on its way, nor `init`. A cancel that comes while the
answer is under way is not among its promises (section 9).

**Run** `transfer` (`MCTransfer`): 542 k states. A file of two units in chunks of two, so that
a chunk can be stored in part and the request after it is short; two sessions, so that one can
be lost and replaced; two attempts, two saves on their way, two registrations at the server, so
that a repeated one overlaps the first; episode and clip; every fault. A longer file repeats
the loop over the chunks; the proofs cover every size.

**Fairness**: a run goes on, the disk takes every save, the server works on, and the application
is started again. Two parts of it are assumptions on what lies below the code. That a run goes on
while it waits for an answer is up to the network: no request has a timeout of its own
(`native/src/transfer/network-electron.ts`), and a connection that neither answers nor breaks
would hold its run. And `StoreTakesBytes`: the store does not accept a chunk for ever without
storing a byte of it. `upload` takes a 308 that confirms nothing new as accepted, counts no
attempt, and sends the chunk again (`engine.ts:495`, `536`); without this assumption TLC finds
that loop and `EveryUploadSettles` is false. No safety property or theorem needs either. The user, the network's return and the end of sessions
have none. `EveryUploadSettles` asks that crashes end, and leaves out runs that were aborted:
a pause or a cancel in the window of a save can leave a job shown as uploading with no run
until the next start.

**Proved** (`TransferProofs`), for any size, chunk and bounds: `TypeCorrect`,
`CompleteMeansLanded`, `OneRegistration`, `CompletedHasRows`, `UploadImplemented`. Five parts strengthen the
types. `RunInv` says what a run knows where it stands: its offset is stored, at `mark` and after
it the session has every unit. `SnapInv` says the same of each snapshot, in memory, on the disk
or on its way there. `ChainInv` bounds what saves may still arrive while a run waits. `ServerInv`
ties each request to a complete session and each answer to its rows. `RegInv` is the heart of
`OneRegistration`: a registration begins only after the disk keeps its session as complete, and
from then on every snapshot names that session, so that neither a crash nor a relink opens
another one. The mutant of the run (`MarkUnsaved`) shows what happens if the order is changed.
`UploadImplemented` needs a sixth part, `FinalInv`: no run works on a completed job, and behind
a completed copy on its way to the disk there is none of another status. Each group of actions has
a lemma that says what `Upload` may see of it (`RunStepFinal`, `PersistFinal`, `ServeFinal`, ...).

## 9. Findings

1. `queue_verdict` - `failJob` reads the attempts and writes the verdict in two
   statements; a straggler can leave a row pending with its attempts spent. No
   claim takes it, no sweep sees it, and its dedupe key stays occupied.
2. `topup_retry` - an unanswered charge is marked failed like a refusal, and the
   retry with the same key charges again.
3. `publish_double_click` - two requests judge `alreadyCharged` on the clip they
   read at the start, and both charge; the queue runs one job.

Seen while modelling, and not kept as runs:

- `failJob` guards on `status = 'running'` and not on its own lock
  (`pipeline/queue.ts:337`): a straggler can fail the run of another worker.
- The purge resets rows that a live worker executes (`index.ts:3405`).
- A heartbeat whose reply is lost leaves the worker's lock value behind the row: later
  beats miss and the sweep takes a live job, which the comment at `worker.ts:3566` accepts.
- A crash between `completeJob` and the enqueue of a follow-up ends its chain (`worker.ts:3589`).
- The balance is read before the list of unsettled orders, and the webhook credits without
  the lock: a webhook between the two, or after the list, lets an automatic run charge for a
  shortage that is over (`billing/auto-topup.ts:149`, against the comment at line 144).
- The query of the unsettled orders returns the twenty oldest of three days (`db-pg.ts:4505`),
  while a refused card adds an order at every trigger. Behind twenty refused orders a
  captured one is not looked up, and the card is charged over it.
- An analysis that needs more than is left makes the top-up charge while credits remain
  (`billing/auto-topup.ts:132-135`, which says so), against the comments at
  `billing/credits.ts:489` and `495` that it charges only at a balance of zero or less.
- An accepted chunk that stored nothing is sent again without being counted as an attempt
  (`native/src/transfer/engine.ts:495-498`, `536-541`): with a store that goes on so, the
  upload neither ends nor asks for the user.
- The attempts of a day are counted before the reconciliation and stamped after it: over
  midnight a later run collides with the order and throws (`billing/auto-topup.ts:209`).
- When the lookup of a captured automatic order fails, the reconciliation passes
  over it and a new order may be opened (`billing/auto-topup.ts:177`), although the message
  at line 259 tells the user that nothing is charged until the payment is confirmed: this
  is the assumption on lookups in `ReconciliationIsComplete`.
- A retry between the failed row and `completeJob` is charged, and its job is
  swallowed by the dedupe key (`publish/publish-dispatch.ts:312`).
- A publish job that was given up because its workers died can be started again by the
  superadmin after the row was published by another job: YouTube, unlike Instagram and Facebook,
  has no check in the handler, and the video goes out twice (`index.ts:1554`, `worker.ts:3271`).
- A published Instagram row that is dispatched again is charged, skipped and left
  pending (`worker.ts:3142`).
- A write that fails after an upload to Instagram, Facebook or TikTok marks a live
  video failed and refunds it (`worker.ts:3192`).
- Under hold_on_issue a rejection that comes after `isRejectedHold` was read is published
  all the same (`pipeline/automation-cycle.ts:735-748`; approve_first asks again).
- A clip that the console publishes after the round has read the clips is dispatched again
  over its row (`pipeline/automation-cycle.ts:469`).
- A late note of the failure of an earlier upload gives back a share that a later upload
  of the same clip uses (`db-pg.ts:3803`); a note of a failure that comes before the note
  of the dispatch gives nothing back. Rules with slots never get a share back, because
  `publishedBySlotKst` does not look at failures, whereas `worker.ts:2288` says so of all.
- A registration that breaks between its two rows is not repaired by a repetition, against
  the comment at `native/src/transfer/engine.ts:123`: an episode without its media row answers
  409 for good (`index.ts:4264`), a media row without its clip answers no clip id (`index.ts:4663`).
- A cancel is refused while an upload is finalizing, so that no episode is left that the user
  does not know of (`native/src/transfer/engine.ts:210`, `docs/ops/native-desktop.md:47`). A
  pause is not refused, and a paused upload can be cancelled: the episode appears all the same.
- A cancel that comes while the run waits for a save is not seen by a following
  `net.request`: the run goes on and saves its own status over `canceled`
  (`native/src/transfer/engine.ts:216`, against the comment at `job-store.ts:92`).
- A relink whose file is still being read puts a job that was cancelled meanwhile back into the
  queue (`native/src/transfer/engine.ts:229-250`).

## 10. What is checked and not proved, and what is left out

Assumptions that a theorem makes beyond those on the constants stand in its statement: lookups
that answer and no late decisions (`ReconciliationIsComplete`), answered charges
(`KeyChargesOnce`), no webhook between judgement and charge (`ShortageChargedOnce`), and the ones
named in sections 3 and 5. Those of the liveness properties are the fairness of their sections.

Liveness (`EveryJobSettles`, `CapturesAreSettled`, `EveryCallReturns`, `EveryClipIsDecided`,
`EveryUploadSettles`) is only model-checked: fairness and ENABLED are beyond the prover. What a
recursive definition computes for every input could not be proved either; no module
with theorems uses one.

### Not modelled

The Python core, rendering and the AI clients (numeric work), the web and
admin front ends, the clients of external platforms, reports and mail. Planned and
not written: section 2, rows 8 and 9. `PROJECT.json` lists every component with
its status.
