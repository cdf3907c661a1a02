---------------------------- MODULE AutomationCycle ----------------------------
(***************************************************************************)
(* runAutomationCycle (pipeline/automation-cycle.ts): a round adopts       *)
(* recommendations as clips for the rules of a company and dispatches the  *)
(* clips to the accounts of each rule, as far as the shares of the day, a  *)
(* human's verdict and what was sent before allow it.  Rounds are asked    *)
(* for by a periodic job and by a route, and run under a tenant lock;      *)
(* humans, uploads and the clock go on while one runs.                     *)
(*                                                                         *)
(* Of Publish only the row of a clip and account is kept, of TenantLock    *)
(* that the lock is exclusive and ends with its holder.  A rule without    *)
(* slots has a single share, its daily quota, open all day.                *)
(*                                                                         *)
(* Bounds: one episode; every rule sends to every account; rules are not   *)
(* edited meanwhile; MaxFaults rounds that are cut short or dispatches     *)
(* that are refused.  Recommendations stand in no order, whereas the code  *)
(* adopts by score and sends the oldest clip first.                        *)
(***************************************************************************)
EXTENDS Naturals, FiniteSets, Sequences

CONSTANTS
    Recs,          \* recommendations, and the clips that they become
    Rules,
    Enabled,       \* the sets of rules that may be enabled
    Accounts,
    Rounds,        \* those who ask for rounds: workers and requests
    Human, Nobody, \* owners of clips other than rules
    Wants,         \* [Rules -> SUBSET Recs]: matchesMediaKind and a score
    Cap,           \* [Rules -> Nat]: episodeAdoptCap
    ApproveFirst,  \* the rules of that gatePolicy; the others are hold_on_issue
    ByQuota,       \* the rules without slots
    Plan,          \* [Rules -> sequences of shares, by time]
    PerTick,       \* [Rules -> Nat]: maxPublishPerTick
    Lead, Grace,   \* AUTOMATION_QUEUE_LEAD_MIN, SLOT_MISS_GRACE_MIN
    ByHand,        \* what the console may adopt and publish too
    MayFail,       \* the clips whose uploads may fail
    DayEnd,        \* clock runs from 0 to DayEnd - 1
    MaxFaults

Shares == [at : Nat, count : Nat \ {0}]

ASSUME AutomationAssumption ==
    /\ IsFiniteSet(Recs) /\ IsFiniteSet(Rules) /\ IsFiniteSet(Accounts)
    /\ Enabled \subseteq SUBSET Rules
    /\ Human # Nobody /\ {Human, Nobody} \cap (Rules \cup Recs \cup Accounts \cup Rounds) = {}
    /\ Wants \in [Rules -> SUBSET Recs]
    /\ Cap \in [Rules -> Nat]
    /\ ApproveFirst \subseteq Rules /\ ByQuota \subseteq Rules
    /\ Plan \in [Rules -> Seq(Shares)]
    /\ \A r \in ByQuota : Len(Plan[r]) = 1
    /\ PerTick \in [Rules -> Nat]
    /\ ByHand \subseteq Recs /\ MayFail \subseteq Recs
    /\ Lead \in Nat /\ Grace \in Nat /\ DayEnd \in Nat \ {0} /\ MaxFaults \in Nat

VARIABLES
    enabled,  \* the rules that are
    owner,    \* [Recs -> Rules \cup {Human, Nobody}]: automationRuleId; Nobody while pending
    row,      \* [Recs \X Accounts -> Rows]: the distribution
    hold,     \* [Rules \X Recs -> Holds]: rule_hold
    runs,     \* rule_run: what was noted as published today
    undone,   \* those of runs that a later note of a failure gives back
    failing,  \* failures that the worker has still to note
    clock,
    lock,     \* who holds the tenant lock
    round,    \* the local state of each round
    sent,     \* dispatched today and not failed
    lost,     \* those of sent that the notes do not show
    ever,     \* pairs that some round has dispatched
    faults

vars == <<enabled, owner, row, hold, runs, undone, failing, clock, lock, round, sent, lost, ever, faults>>
books == <<enabled, runs, undone, failing, clock, faults>>
ghosts == <<sent, lost, ever>>

Rows == {"none", "pending", "published", "failed"}
Holds == {"none", "open", "released", "rejected"}
Pairs == Recs \X Accounts
Entries == [rule : Rules, clip : Recs, account : Accounts, slot : Nat]

Steps == {"idle", "wait", "rules", "adopt", "channels", "clips", "held", "approve", "hold",
          "dispatch", "note"}
\* known, picks: adoption.  free: pairs without a row when the clips were read.
\* claim, left: what the channel may still send, by share and in this tick.
Locals == [pc : Steps, known : SUBSET Recs, rules : SUBSET Rules, rule : Rules \cup {Nobody},
           picks : SUBSET Recs, free : SUBSET Pairs, accounts : SUBSET Accounts,
           account : Accounts \cup {Nobody}, claim : Seq(Nat), left : Nat,
           todo : SUBSET Recs, clip : Recs \cup {Nobody}, held : BOOLEAN]
Idle == [pc |-> "idle", known |-> {}, rules |-> {}, rule |-> Nobody, picks |-> {}, free |-> {},
         accounts |-> {}, account |-> Nobody, claim |-> <<>>, left |-> 0, todo |-> {},
         clip |-> Nobody, held |-> FALSE]

TypeOK ==
    /\ enabled \subseteq Rules
    /\ owner \in [Recs -> Rules \cup {Human, Nobody}]
    /\ row \in [Pairs -> Rows]
    /\ hold \in [Rules \X Recs -> Holds]
    /\ runs \subseteq Entries /\ undone \subseteq Entries
    /\ failing \subseteq Pairs
    /\ clock \in 0 .. DayEnd - 1
    /\ lock \in Rounds \cup {Nobody}
    /\ round \in [Rounds -> Locals]
    /\ sent \subseteq Entries /\ lost \subseteq Entries
    /\ ever \subseteq Pairs
    /\ faults \in 0 .. MaxFaults

Init ==
    /\ enabled \in Enabled
    /\ owner = [c \in Recs |-> Nobody]
    /\ row = [x \in Pairs |-> "none"]
    /\ hold = [x \in Rules \X Recs |-> "none"]
    /\ runs = {} /\ undone = {} /\ failing = {} /\ clock = 0
    /\ lock = Nobody
    /\ round = [p \in Rounds |-> Idle]
    /\ sent = {} /\ lost = {} /\ ever = {} /\ faults = 0

At(p, step) == round[p].pc = step
Goes(p, locals) == round' = [round EXCEPT ![p] = locals]

-----------------------------------------------------------------------------
(* The beginning of a round, and adoption.                                 *)

\* The periodic job runs, or somebody asks to check now.
Call(p) ==
    /\ At(p, "idle")
    /\ Goes(p, [Idle EXCEPT !.pc = "wait"])
    /\ UNCHANGED <<owner, row, hold, books, lock, ghosts>>

\* Faulty variant: rounds do not exclude each other.
TakesLockAnyway(p) == lock' = p

TakesLock(p) == lock = Nobody /\ lock' = p

Begin(p) ==
    /\ At(p, "wait")
    /\ TakesLock(p)
    /\ Goes(p, [Idle EXCEPT !.pc = "rules", !.rules = enabled,
                            !.known = {c \in Recs : owner[c] # Nobody}])
    /\ UNCHANGED <<owner, row, hold, books, ghosts>>

\* Paused, or without credits: the round is over before it has begun.
Stops(p) ==
    /\ At(p, "wait")
    /\ lock = Nobody
    /\ Goes(p, Idle)
    /\ UNCHANGED <<owner, row, hold, books, lock, ghosts>>

\* Faulty variant: what earlier rounds adopted is not counted.
AlreadyForgotten(r, known) == {}

\* adoptedCountFor: the clips of this rule.
Already(r, known) == {c \in known : owner[c] = r}

\* selectCandidates: as many as the cap leaves.
Chosen(r, known) ==
    LET cands == Wants[r] \ known
        room == IF Cardinality(Already(r, known)) < Cap[r]
                THEN Cap[r] - Cardinality(Already(r, known)) ELSE 0
    IN  {S \in SUBSET cands :
           Cardinality(S) = IF Cardinality(cands) < room THEN Cardinality(cands) ELSE room}

Evaluate(p, r) ==
    /\ At(p, "rules")
    /\ r \in round[p].rules
    /\ \E S \in Chosen(r, round[p].known) :
         Goes(p, [round[p] EXCEPT !.pc = "adopt", !.rules = @ \ {r}, !.rule = r, !.picks = S])
    /\ UNCHANGED <<owner, row, hold, books, lock, ghosts>>

\* Outside the hours or the days of the rule.
PassOver(p, r) ==
    /\ At(p, "rules")
    /\ r \in round[p].rules
    /\ Goes(p, [round[p] EXCEPT !.rules = @ \ {r}])
    /\ UNCHANGED <<owner, row, hold, books, lock, ghosts>>

\* commitAdoption: only a recommendation that is still pending becomes a clip.
Adopt(p, c) ==
    /\ At(p, "adopt")
    /\ c \in round[p].picks
    /\ \/ /\ owner[c] = Nobody
          /\ owner' = [owner EXCEPT ![c] = round[p].rule]
          /\ Goes(p, [round[p] EXCEPT !.picks = @ \ {c}, !.known = @ \cup {c}])
       \/ /\ owner[c] # Nobody
          /\ Goes(p, [round[p] EXCEPT !.picks = @ \ {c}])
          /\ UNCHANGED owner
    /\ UNCHANGED <<row, hold, books, lock, ghosts>>

-----------------------------------------------------------------------------
(* Sending.                                                                *)

\* The clips of the rule are read: mine.
Prepare(p) ==
    /\ At(p, "adopt")
    /\ round[p].picks = {}
    /\ Goes(p, [round[p] EXCEPT !.pc = "channels", !.accounts = Accounts,
                  !.free = {x \in Pairs : owner[x[1]] = round[p].rule /\ row[x] = "none"}])
    /\ UNCHANGED <<owner, row, hold, books, lock, ghosts>>

\* publishedBySlotKst; publishedTodayKst, which leaves failures out.
Counted(r, a, i) ==
    {x \in runs : /\ x.rule = r /\ x.account = a /\ x.slot = i
                  /\ ~(r \in ByQuota /\ x \in undone)}

\* The window of share i, of which done are sent.
IsOpen(r, i, done) ==
    LET at == Plan[r][i].at
        next == IF i < Len(Plan[r]) THEN Plan[r][i + 1].at ELSE DayEnd
        end == IF done > 0 \/ next < at + Grace THEN next ELSE at + Grace
    IN  r \in ByQuota \/ (at <= clock + Lead /\ clock < end)

\* claimableSlots, with 0 for a share that it leaves out.
Claimable(r, a) ==
    [i \in 1 .. Len(Plan[r]) |->
       LET done == Cardinality(Counted(r, a, i))
       IN  IF IsOpen(r, i, done) /\ done < Plan[r][i].count THEN Plan[r][i].count - done ELSE 0]

\* remaining > 0
MaySend(me) == me.left > 0 /\ \E i \in DOMAIN me.claim : me.claim[i] > 0

\* Faulty variant: the cursor stays where it is.
IsCursorStuck(claim, i) == i = 1 /\ i \in DOMAIN claim

\* claimable[slotCursor]
IsCursor(claim, i) ==
    /\ i \in DOMAIN claim
    /\ claim[i] > 0
    /\ \A j \in 1 .. i - 1 : claim[j] = 0

OpenChannel(p, a) ==
    /\ At(p, "channels")
    /\ a \in round[p].accounts
    /\ Goes(p, [round[p] EXCEPT !.pc = "clips", !.accounts = @ \ {a}, !.account = a,
                  !.todo = {c \in Recs : <<c, a>> \in round[p].free},
                  !.claim = Claimable(round[p].rule, a), !.left = PerTick[round[p].rule]])
    /\ UNCHANGED <<owner, row, hold, books, lock, ghosts>>

\* The gate of the platform is off.
GateOff(p, a) ==
    /\ At(p, "channels")
    /\ a \in round[p].accounts
    /\ Goes(p, [round[p] EXCEPT !.accounts = @ \ {a}])
    /\ UNCHANGED <<owner, row, hold, books, lock, ghosts>>

NextClip(p) == [round[p] EXCEPT !.pc = "clips", !.clip = Nobody, !.held = FALSE]
NextChannel(p) == [NextClip(p) EXCEPT !.pc = "channels", !.account = Nobody, !.claim = <<>>,
                                      !.left = 0, !.todo = {}]

CloseChannel(p) ==
    /\ At(p, "clips")
    /\ ~MaySend(round[p]) \/ round[p].todo = {}
    /\ Goes(p, NextChannel(p))
    /\ UNCHANGED <<owner, row, hold, books, lock, ghosts>>

\* isRejectedHold
Look(p, c) ==
    /\ At(p, "clips")
    /\ MaySend(round[p])
    /\ c \in round[p].todo
    /\ Goes(p, IF hold[<<round[p].rule, c>>] = "rejected"
               THEN [round[p] EXCEPT !.todo = @ \ {c}]
               ELSE [round[p] EXCEPT !.todo = @ \ {c}, !.pc = "held", !.clip = c])
    /\ UNCHANGED <<owner, row, hold, books, lock, ghosts>>

\* A clip is read again once it is rendered, or has its texts.
Refresh(p, c) ==
    LET now == {x \in Pairs : x[1] = c /\ row[x] = "none"}
        then == {x \in round[p].free : x[1] = c}
    IN  /\ \/ At(p, "channels") /\ round[p].accounts = Accounts
           \/ At(p, "clips") /\ MaySend(round[p]) /\ c \in round[p].todo
           \/ At(p, "dispatch") /\ c = round[p].clip
        /\ owner[c] = round[p].rule
        /\ now # then
        /\ Goes(p, [round[p] EXCEPT !.free = (@ \ then) \cup now])
        /\ UNCHANGED <<owner, row, hold, books, lock, ghosts>>

\* Not rendered, or against the rules of the channel.
Ineligible(p, c) ==
    /\ At(p, "clips")
    /\ MaySend(round[p])
    /\ c \in round[p].todo
    /\ Goes(p, [round[p] EXCEPT !.todo = @ \ {c}])
    /\ UNCHANGED <<owner, row, hold, books, lock, ghosts>>

Verdict(p) == hold[<<round[p].rule, round[p].clip>>]

\* isHeldAwaitingHuman
ReadHeld(p) ==
    /\ At(p, "held")
    /\ Goes(p, [round[p] EXCEPT !.pc = "approve", !.held = (Verdict(p) = "open")])
    /\ UNCHANGED <<owner, row, hold, books, lock, ghosts>>

\* Faulty variant: whatever is not held counts as approved.
ApprovedUnlessHeld(p) == ~round[p].held

\* hasReleasedHold
Approved(p) == Verdict(p) = "released"

MustHold(p) == round[p].held \/ (round[p].rule \in ApproveFirst /\ ~Approved(p))

\* decidePublish
Decide(p) ==
    /\ At(p, "approve")
    /\ Goes(p, [round[p] EXCEPT !.pc = IF MustHold(p) THEN "hold" ELSE "dispatch"])
    /\ UNCHANGED <<owner, row, hold, books, lock, ghosts>>

\* The texts of the channel are missing and cannot be made.
NoMetadata(p) ==
    /\ At(p, "dispatch")
    /\ Goes(p, NextClip(p))
    /\ UNCHANGED <<owner, row, hold, books, lock, ghosts>>

\* holdClip, for a clip that is not held already.  A rejection stays one.
HoldClip(p) ==
    /\ At(p, "hold")
    /\ hold' = IF round[p].held \/ Verdict(p) = "rejected" THEN hold
               ELSE [hold EXCEPT ![<<round[p].rule, round[p].clip>>] = "open"]
    /\ Goes(p, NextClip(p))
    /\ UNCHANGED <<owner, row, books, lock, ghosts>>

Entry(p, i) == [rule |-> round[p].rule, clip |-> round[p].clip, account |-> round[p].account,
                slot |-> i]

\* dispatchPublish has queued the upload.
Queued(p, i) ==
    /\ At(p, "dispatch")
    /\ IsCursor(round[p].claim, i)
    /\ row' = [row EXCEPT ![<<round[p].clip, round[p].account>>] = "pending"]
    /\ sent' = sent \cup {Entry(p, i)}
    /\ ever' = ever \cup {<<round[p].clip, round[p].account>>}
    /\ Goes(p, [round[p] EXCEPT !.pc = "note"])
    /\ UNCHANGED <<owner, hold, books, lock, lost>>

\* Too few credits for this clip, and so for the others.
NoCredit(p) ==
    /\ At(p, "dispatch")
    /\ Goes(p, NextChannel(p))
    /\ UNCHANGED <<owner, row, hold, books, lock, ghosts>>

\* Any other refusal: the clip is held whatever its hold was.
Refused(p) ==
    /\ At(p, "dispatch")
    /\ faults < MaxFaults
    /\ faults' = faults + 1
    /\ Goes(p, [round[p] EXCEPT !.pc = "hold", !.held = FALSE])
    /\ UNCHANGED <<enabled, owner, row, hold, runs, undone, failing, clock, lock, ghosts>>

\* Faulty variant: the cursor goes on without taking from its share.
SpendNothing(claim, i) == claim

Spend(claim, i) == [claim EXCEPT ![i] = @ - 1]

\* The share is taken, and appendRuleRun counts it for later rounds.
Note(p, i) ==
    /\ At(p, "note")
    /\ IsCursor(round[p].claim, i)
    /\ runs' = runs \cup {Entry(p, i)}
    /\ undone' = undone \ {Entry(p, i)}
    /\ Goes(p, [NextClip(p) EXCEPT !.claim = Spend(@, i), !.left = @ - 1])
    /\ UNCHANGED <<enabled, owner, row, hold, failing, clock, faults, lock, ghosts>>

LeaveRule(p) ==
    /\ At(p, "channels")
    /\ round[p].accounts = {}
    /\ Goes(p, [Idle EXCEPT !.pc = "rules", !.rules = round[p].rules, !.known = round[p].known])
    /\ UNCHANGED <<owner, row, hold, books, lock, ghosts>>

Finish(p) ==
    /\ At(p, "rules")
    /\ round[p].rules = {}
    /\ Goes(p, Idle)
    /\ lock' = Nobody
    /\ UNCHANGED <<owner, row, hold, books, ghosts>>

\* The process dies or a statement throws.  The lock ends with its session.
CutShort(p) ==
    /\ ~At(p, "idle") /\ ~At(p, "wait")
    /\ faults < MaxFaults
    /\ faults' = faults + 1
    /\ lost' = lost \cup {x \in sent : /\ At(p, "note")
                                       /\ x.rule = round[p].rule /\ x.clip = round[p].clip
                                       /\ x.account = round[p].account}
    /\ Goes(p, Idle)
    /\ lock' = Nobody
    /\ UNCHANGED <<enabled, owner, row, hold, runs, undone, failing, clock, sent, ever>>

-----------------------------------------------------------------------------
(* Workers, humans and time.                                               *)

Uploaded(x) ==
    /\ row[x] = "pending"
    /\ row' = [row EXCEPT ![x] = "published"]
    /\ UNCHANGED <<owner, hold, books, lock, round, ghosts>>

\* markDistributionFailed: the row,
UploadFails(x) ==
    /\ x[1] \in MayFail
    /\ row[x] = "pending"
    /\ row' = [row EXCEPT ![x] = "failed"]
    /\ failing' = failing \cup {x}
    /\ sent' = {e \in sent : <<e.clip, e.account>> # x}
    /\ UNCHANGED <<enabled, owner, hold, runs, undone, clock, faults, lock, round, lost, ever>>

\* ... and then the note, which gives back what was noted as published before it.
NoteFailure(x) ==
    /\ x \in failing
    /\ failing' = failing \ {x}
    /\ undone' = undone \cup {e \in runs : <<e.clip, e.account>> = x}
    /\ lost' = lost \cup {e \in sent \cap runs : <<e.clip, e.account>> = x /\ e.rule \in ByQuota}
    /\ UNCHANGED <<enabled, owner, row, hold, runs, clock, faults, lock, round, sent, ever>>

\* The console publishes a clip, or tries a failed one again.
PublishByHand(x) ==
    /\ x[1] \in ByHand /\ owner[x[1]] \in Rules
    /\ row[x] \in {"none", "failed"}
    /\ row' = [row EXCEPT ![x] = "pending"]
    /\ UNCHANGED <<owner, hold, books, lock, round, ghosts>>

AdoptByHand(c) ==
    /\ c \in ByHand /\ owner[c] = Nobody
    /\ owner' = [owner EXCEPT ![c] = Human]
    /\ UNCHANGED <<row, hold, books, lock, round, ghosts>>

\* releaseHold, rejectHold: only an open hold is decided.
Settle(x, verdict) ==
    /\ hold[x] = "open"
    /\ hold' = [hold EXCEPT ![x] = verdict]
    /\ UNCHANGED <<owner, row, books, lock, round, ghosts>>

Tick ==
    /\ clock < DayEnd - 1
    /\ clock' = clock + 1
    /\ UNCHANGED <<enabled, owner, row, hold, runs, undone, failing, faults, lock, round, ghosts>>

\* Faulty variant: what was noted yesterday counts today.
RunsNeverEnd == runs

RunsOfToday == {}

\* Midnight in Seoul.
Midnight ==
    /\ clock = DayEnd - 1
    /\ clock' = 0
    /\ runs' = RunsOfToday /\ undone' = {}
    /\ sent' = {} /\ lost' = {}
    /\ UNCHANGED <<enabled, owner, row, hold, failing, faults, lock, round, ever>>

\* What keeps a round from sending, and is not the model's business.
Hindered(p) ==
    \/ Stops(p)
    \/ \E r \in Rules : PassOver(p, r)
    \/ \E a \in Accounts : GateOff(p, a)
    \/ \E c \in Recs : Ineligible(p, c)
    \/ NoMetadata(p) \/ NoCredit(p)

Advance(p) ==
    \/ Begin(p) \/ Prepare(p) \/ CloseChannel(p) \/ ReadHeld(p) \/ Decide(p) \/ HoldClip(p)
    \/ Refused(p) \/ LeaveRule(p) \/ Finish(p)
    \/ \E r \in Rules : Evaluate(p, r)
    \/ \E c \in Recs : Adopt(p, c) \/ Look(p, c)
    \/ \E a \in Accounts : OpenChannel(p, a)
    \/ \E i \in DOMAIN round[p].claim : Queued(p, i) \/ Note(p, i)

Next ==
    \/ \E p \in Rounds :
         Call(p) \/ Advance(p) \/ Hindered(p) \/ CutShort(p) \/ \E c \in Recs : Refresh(p, c)
    \/ \E x \in Pairs : Uploaded(x) \/ UploadFails(x) \/ NoteFailure(x) \/ PublishByHand(x)
    \/ \E c \in Recs : AdoptByHand(c)
    \/ \E x \in Rules \X Recs, verdict \in {"released", "rejected"} : Settle(x, verdict)
    \/ Tick \/ Midnight

Spec == Init /\ [][Next]_vars

\* The scheduler asks for rounds, a round goes on, and days pass.
Fairness ==
    /\ \A p \in Rounds : WF_vars(Call(p)) /\ WF_vars(Advance(p) \/ Hindered(p))
    /\ WF_vars(Tick \/ Midnight)

FairSpec == Spec /\ Fairness

-----------------------------------------------------------------------------
(* Properties.                                                             *)

\* However rounds, restarts and the console overlap, no round dispatches what a round has
\* dispatched before (automation-cycle.ts:106-112).
SentOnce ==
    \A p \in Rounds : At(p, "dispatch") => <<round[p].clip, round[p].account>> \notin ever

\* Of one share of a day no more goes out than it holds, failures aside.  Hidden from the
\* count is only what a round that was cut short did not note, and, without slots, what a
\* late note of an earlier failure of the clip gave back (automation.ts:544-570).
SharesHold ==
    \A r \in Rules, a \in Accounts : \A i \in 1 .. Len(Plan[r]) :
        Cardinality({e \in sent \ lost : e.rule = r /\ e.account = a /\ e.slot = i})
            <= Plan[r][i].count

\* Under approve_first nothing goes out but what a human has released for this rule and
\* not rejected, at the moment it goes out (automation-cycle.ts:727-731, db-pg.ts:3985).
ApprovedWhenSent ==
    [][\A e \in sent' \ sent : e.rule \in ApproveFirst => hold[<<e.rule, e.clip>>] = "released"]_vars

\* A rule never has more clips of an episode than its cap, whoever runs rounds
\* (automation.ts:709-711).
AdoptedWithinCap ==
    \A r \in Rules : Cardinality({c \in Recs : owner[c] = r}) <= Cap[r]

\* If nothing hinders rounds for good, each clip of a rule by quota is sent or waits for
\* a human, again and again: none is forgotten (automation-cycle.ts:489-501).
EveryClipIsDecided ==
    <>[][~\E p \in Rounds : Hindered(p)]_vars =>
        []<>\A x \in Pairs, r \in ByQuota :
                owner[x[1]] = r => row[x] # "none" \/ hold[<<r, x[1]>>] \in {"open", "rejected"}
=============================================================================
