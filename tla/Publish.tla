-------------------------------- MODULE Publish --------------------------------
(***************************************************************************)
(* Publishing one clip: the dispatch (publish/publish-dispatch.ts) reads   *)
(* the clip, charges credits, saves the clip and enqueues a job; a worker  *)
(* (worker.ts, distribution.publish) uploads the file and records the      *)
(* result, or marks it failed and refunds the charge.                      *)
(*                                                                         *)
(* The rows of all destinations live in one document, the clip entity.     *)
(* Every process reads the whole document, changes its row and writes the  *)
(* whole document back (upsertDistribution, putEntity): two processes can  *)
(* erase each other's rows, and the model lets them.                       *)
(*                                                                         *)
(* A destination is a channel with an account.  The retry route, the       *)
(* factory and the automation cycle dispatch only when a row they read     *)
(* earlier allows it; the publish route has no such condition, so that Ask *)
(* covers them all.  Publishing is immediate: a reservation only delays    *)
(* the job.  Naver has a worker of its own and is left out.                *)
(*                                                                         *)
(* The queue is KeyQueue, which JobQueue implements, with a destination    *)
(* for a key: what the sweep and the console do to it are its own actions. *)
(***************************************************************************)
EXTENDS Naturals, FiniteSets

CONSTANTS
    Dests,       \* destinations of the clip
    YouTube,     \* those on YouTube ...
    Instagram,   \* ... on Instagram ...
    Facebook,    \* ... and on Facebook; the others are on TikTok
    Requests,    \* HTTP requests and cycles that dispatch
    Workers,     \* worker processes of the lane
    Keys,        \* bound: charge keys
    Videos,      \* bound: videos on the platforms
    None,
    MayGiveUp,   \* bound: destinations whose jobs may run out of attempts
    Faults       \* which faults may happen, see PublishAssumption

ASSUME PublishAssumption ==
    /\ YouTube \cup Instagram \cup Facebook \subseteq Dests
    /\ YouTube \cap (Instagram \cup Facebook) = {}
    /\ Requests \cap Workers = {}
    /\ None \notin Dests \cup Keys \cup Videos
    /\ MayGiveUp \subseteq Dests
    /\ Faults \subseteq {"crash",     \* a process dies between two steps
                         "reply",     \* an upload succeeds, its answer is lost
                         "record",    \* reading or writing the clip throws
                         "refund"}    \* the INSERT of a refund throws

VARIABLES
    clip,      \* the clip entity: [Dests -> Row]
    spent,     \* credit_ledger: [Keys -> Dests, or None: not charged]
    refunded,  \* credit_ledger: keys whose :refund entry exists
    job,       \* [Dests -> JobStatus]: the job with the dedupe key of the destination
    givenUp,   \* the destinations with a job that ran out of attempts
    live,      \* the platforms: [Videos -> Dests, or None: does not exist]
    pc,        \* [Procs -> Steps]
    dest,      \* [Procs -> Dests or None]
    snap,      \* [Procs -> [Dests -> Row]]: the clip as the process read it
    chargeKey, \* [Requests -> Keys or None]: what this dispatch charged
    videoId    \* [Workers -> Videos or None]: what this run uploaded

ledger == <<spent, refunded>>
queue == <<job, givenUp>>
locals == <<dest, snap, chargeKey, videoId>>
vars == <<clip, ledger, queue, live, pc, locals>>

Procs == Requests \cup Workers
RowStatus == {"none", "pending", "recorded", "published", "failed"}
Row == [status : RowStatus, charged : BOOLEAN, key : Keys \cup {None}, ext : Videos \cup {None}]
NoRow == [status |-> "none", charged |-> FALSE, key |-> None, ext |-> None]
JobStatus == {"none", "queued", "running"}

Dispatching == {"charge", "save", "enqueue", "note"}
Failing == {"fail", "refund", "write"}
Running == {"start", "upload", "read", "record", "finish"} \cup Failing
Steps == {"idle"} \cup Dispatching \cup Running

TypeOK ==
    /\ clip \in [Dests -> Row]
    /\ spent \in [Keys -> Dests \cup {None}]
    /\ refunded \subseteq Keys
    /\ job \in [Dests -> JobStatus]
    /\ givenUp \subseteq Dests
    /\ live \in [Videos -> Dests \cup {None}]
    /\ pc \in [Procs -> Steps]
    /\ \A r \in Requests : pc[r] \in {"idle"} \cup Dispatching
    /\ \A w \in Workers : pc[w] \in {"idle"} \cup Running
    /\ dest \in [Procs -> Dests \cup {None}]
    /\ \A p \in Procs : pc[p] # "idle" => dest[p] \in Dests
    /\ snap \in [Procs -> [Dests -> Row]]
    /\ chargeKey \in [Requests -> Keys \cup {None}]
    /\ videoId \in [Workers -> Videos \cup {None}]

Init ==
    /\ clip = [d \in Dests |-> NoRow]
    /\ spent = [k \in Keys |-> None]
    /\ refunded = {}
    /\ job = [d \in Dests |-> "none"]
    /\ givenUp = {}
    /\ live = [v \in Videos |-> None]
    /\ pc = [p \in Procs |-> "idle"]
    /\ dest = [p \in Procs |-> None]
    /\ snap = [p \in Procs |-> [d \in Dests |-> NoRow]]
    /\ chargeKey = [r \in Requests |-> None]
    /\ videoId = [w \in Workers |-> None]

-----------------------------------------------------------------------------
(* The document and the processes.                                         *)

Goto(p, s) == pc' = [pc EXCEPT ![p] = s]

\* getEntity: the whole clip.
Read(p) == snap' = [snap EXCEPT ![p] = clip]

Unread == [d \in Dests |-> NoRow]
Forget(p) == snap' = [snap EXCEPT ![p] = Unread]

\* putEntity(upsertDistribution(...)): the snapshot, with the process's own row changed.
Write(p, row) == clip' = [snap[p] EXCEPT ![dest[p]] = row]

OwnRow(p) == snap[p][dest[p]]

\* The process forgets what it read.
Quit(p) ==
    /\ Goto(p, "idle")
    /\ dest' = [dest EXCEPT ![p] = None]
    /\ Forget(p)
    /\ chargeKey' = [r \in Requests |-> IF r = p THEN None ELSE chargeKey[r]]
    /\ videoId' = [w \in Workers |-> IF w = p THEN None ELSE videoId[w]]

\* A process dies: a running job stays behind, whatever was charged stays charged.
Crash(p) ==
    /\ "crash" \in Faults
    /\ pc[p] # "idle"
    /\ Quit(p)
    /\ UNCHANGED <<clip, ledger, queue, live>>

(* dispatchPublish.                                                        *)

\* The request comes in and reads the clip.  A channel whose gate is closed only
\* gets a record; YouTube always uploads.
Ask(r, d) ==
    /\ pc[r] = "idle"
    /\ Goto(r, "charge") \/ (d \notin YouTube /\ Goto(r, "note"))
    /\ dest' = [dest EXCEPT ![r] = d]
    /\ Read(r)
    /\ UNCHANGED <<clip, ledger, queue, live, chargeKey, videoId>>

alreadyCharged(row) == row.charged /\ row.status = "pending"

\* The key holds the time, so that every charge has a key of its own.
Charge(r) ==
    /\ pc[r] = "charge"
    /\ \/ /\ alreadyCharged(OwnRow(r))
          /\ UNCHANGED <<spent, chargeKey>>
       \/ /\ ~alreadyCharged(OwnRow(r))
          /\ \E k \in Keys :
               /\ spent[k] = None
               /\ spent' = [spent EXCEPT ![k] = dest[r]]
               /\ chargeKey' = [chargeKey EXCEPT ![r] = k]
    /\ Goto(r, "save")
    /\ UNCHANGED <<clip, refunded, queue, live, dest, snap, videoId>>

\* The balance does not cover it: the row is left as it is.
ChargeRefused(r) ==
    /\ pc[r] = "charge"
    /\ ~alreadyCharged(OwnRow(r))
    /\ Quit(r)
    /\ UNCHANGED <<clip, ledger, queue, live>>

\* value: what the dispatch makes of the row.
Dispatched(row, k) ==
    [row EXCEPT !.status = "pending",
                !.charged = (k # None) \/ @,
                !.key = IF k # None THEN k ELSE @]

Save(r) ==
    /\ pc[r] = "save"
    /\ Write(r, Dispatched(OwnRow(r), chargeKey[r]))
    /\ Goto(r, "enqueue")
    /\ Forget(r)
    /\ UNCHANGED <<ledger, queue, live, dest, chargeKey, videoId>>

\* Faulty variant: a record is shown as published.
NoteAsPublished(r) ==
    /\ pc[r] = "note"
    /\ Write(r, [OwnRow(r) EXCEPT !.status = "published"])
    /\ Quit(r)
    /\ UNCHANGED <<ledger, queue, live>>

\* distributionStatusFor("record"): nothing is charged or uploaded.
Note(r) ==
    /\ pc[r] = "note"
    /\ Write(r, [OwnRow(r) EXCEPT !.status = "recorded"])
    /\ Quit(r)
    /\ UNCHANGED <<ledger, queue, live>>

\* Faulty variant: an upsert, where the row in flight is enqueued again.
EnqueueAgain(r) ==
    /\ pc[r] = "enqueue"
    /\ job' = [job EXCEPT ![dest[r]] = "queued"]
    /\ Quit(r)
    /\ UNCHANGED <<clip, ledger, givenUp, live>>

\* A job of the same key in flight swallows this one; the return value is ignored.
Enqueue(r) ==
    /\ pc[r] = "enqueue"
    /\ job' = [job EXCEPT ![dest[r]] = IF @ = "none" THEN "queued" ELSE @]
    /\ Quit(r)
    /\ UNCHANGED <<clip, ledger, givenUp, live>>

(* handleDistributionPublish.                                              *)

Claim(w, d) ==
    /\ pc[w] = "idle"
    /\ job[d] = "queued"
    /\ job' = [job EXCEPT ![d] = "running"]
    /\ dest' = [dest EXCEPT ![w] = d]
    /\ Goto(w, "start")
    /\ UNCHANGED <<clip, ledger, givenUp, live, snap, chargeKey, videoId>>

\* The idempotence check of Instagram and Facebook, on the row as it is now.
Posted(d) ==
    \/ d \in Instagram /\ clip[d].ext # None
    \/ d \in Facebook /\ clip[d].ext # None /\ clip[d].status = "published"

\* A closed gate, a missing account, render or file; or nothing to do; or the upload.
Start(w) ==
    /\ pc[w] = "start"
    /\ \/ Goto(w, "fail")
       \/ Posted(dest[w]) /\ Goto(w, "finish")
       \/ ~Posted(dest[w]) /\ Goto(w, "upload")
    /\ UNCHANGED <<clip, ledger, queue, live, locals>>

Uploaded(w) ==
    /\ pc[w] = "upload"
    /\ \E v \in Videos :
         /\ live[v] = None
         /\ live' = [live EXCEPT ![v] = dest[w]]
         /\ videoId' = [videoId EXCEPT ![w] = v]
    /\ Goto(w, "read")
    /\ UNCHANGED <<clip, ledger, queue, dest, snap, chargeKey>>

\* Faulty variant: the destination is forgotten with the upload.
UploadThrowsForgetting(w) ==
    /\ pc[w] = "upload"
    /\ Goto(w, "fail")
    /\ dest' = [dest EXCEPT ![w] = None]
    /\ UNCHANGED <<clip, ledger, queue, live, snap, chargeKey, videoId>>

\* The upload throws; the platform may have the video all the same.
UploadThrows(w) ==
    /\ pc[w] = "upload"
    /\ \/ UNCHANGED live
       \/ /\ "reply" \in Faults
          /\ \E v \in Videos : live[v] = None /\ live' = [live EXCEPT ![v] = dest[w]]
    /\ Goto(w, "fail")
    /\ UNCHANGED <<clip, ledger, queue, locals>>

\* recordPublished: read the clip again ...
RecordRead(w) ==
    /\ pc[w] = "read"
    /\ Read(w)
    /\ Goto(w, "record")
    /\ UNCHANGED <<clip, ledger, queue, live, dest, chargeKey, videoId>>

Published(row, v) == [row EXCEPT !.status = "published", !.ext = v]

\* ... and write it.
RecordWrite(w) ==
    /\ pc[w] = "record"
    /\ Write(w, Published(OwnRow(w), videoId[w]))
    /\ Goto(w, "finish")
    /\ Forget(w)
    /\ UNCHANGED <<ledger, queue, live, dest, chargeKey, videoId>>

\* Faulty variant: every channel takes a failing record for a failed upload.
AfterFailedRecordAnywhere(d) == {"fail"}

\* YouTube tries three times and gives up silently; the others mark the row failed.
AfterFailedRecord(d) == IF d \in YouTube THEN {"read", "finish"} ELSE {"fail"}

\* A read or a write of recordPublished throws; the write may have been done.
RecordThrows(w) ==
    /\ "record" \in Faults
    /\ pc[w] \in {"read", "record"}
    /\ \/ UNCHANGED clip
       \/ pc[w] = "record" /\ Write(w, Published(OwnRow(w), videoId[w]))
    /\ \E next \in AfterFailedRecord(dest[w]) : Goto(w, next)
    /\ Forget(w)
    /\ UNCHANGED <<ledger, queue, live, dest, chargeKey, videoId>>

\* markDistributionFailed: read the clip ...
FailRead(w) ==
    /\ pc[w] = "fail"
    /\ Read(w)
    /\ LET row == clip[dest[w]]
       IN  Goto(w, IF row.charged /\ row.key # None THEN "refund" ELSE "write")
    /\ UNCHANGED <<clip, ledger, queue, live, dest, chargeKey, videoId>>

\* Faulty variant: the flag goes down, the entry is not written.
RefundFlagOnly(w) ==
    /\ pc[w] = "refund"
    /\ snap' = [snap EXCEPT ![w][dest[w]].charged = FALSE]
    /\ Goto(w, "write")
    /\ UNCHANGED <<clip, spent, refunded, queue, live, dest, chargeKey, videoId>>

\* ... give the credits back, under a key derived from the charge; a failing INSERT is
\* logged and the flag goes down anyway ...
Refund(w) ==
    /\ pc[w] = "refund"
    /\ \/ refunded' = refunded \cup {OwnRow(w).key}
       \/ "refund" \in Faults /\ UNCHANGED refunded
    /\ snap' = [snap EXCEPT ![w][dest[w]].charged = FALSE]
    /\ Goto(w, "write")
    /\ UNCHANGED <<clip, spent, queue, live, dest, chargeKey, videoId>>

\* ... and write the clip.
FailWrite(w) ==
    /\ pc[w] = "write"
    /\ Write(w, [OwnRow(w) EXCEPT !.status = "failed"])
    /\ Goto(w, "finish")
    /\ Forget(w)
    /\ UNCHANGED <<ledger, queue, live, dest, chargeKey, videoId>>

\* A read or a write of markDistributionFailed throws; the write may have been done.
\* The handler calls it a second time and swallows what it throws then.
FailThrows(w) ==
    /\ "record" \in Faults
    /\ pc[w] \in {"fail", "write"}
    /\ \/ UNCHANGED clip
       \/ pc[w] = "write" /\ Write(w, [OwnRow(w) EXCEPT !.status = "failed"])
    /\ \E next \in {"fail", "finish"} : Goto(w, next)
    /\ Forget(w)
    /\ UNCHANGED <<ledger, queue, live, dest, chargeKey, videoId>>

\* The handler returns in any case: completeJob.
Finish(w) ==
    /\ pc[w] = "finish"
    /\ job' = [job EXCEPT ![dest[w]] = "none"]
    /\ Quit(w)
    /\ UNCHANGED <<clip, ledger, givenUp, live>>

\* Who executes the job of a destination.
Runners == [d \in Dests |-> {w \in Workers : dest[w] = d}]
Queue == INSTANCE KeyQueue WITH
             Keys <- Dests, state <- job, failed <- givenUp, runner <- Runners

\* requeueStale: the jobs of dead workers run again, or have no attempts left.
Sweep ==
    /\ UNCHANGED <<clip, ledger, live, pc, locals>>
    /\ Queue!Sweep /\ givenUp' \subseteq MayGiveUp

\* The operator deletes a job that waits or was given up, or starts the latter again.
Console ==
    /\ UNCHANGED <<clip, ledger, live, pc, locals>>
    /\ \E d \in Dests : Queue!RetryByHand(d) \/ Queue!Remove(d)

Next ==
    \/ \E r \in Requests :
         \/ \E d \in Dests : Ask(r, d)
         \/ Charge(r) \/ ChargeRefused(r) \/ Save(r) \/ Note(r) \/ Enqueue(r)
    \/ \E w \in Workers :
         \/ \E d \in Dests : Claim(w, d)
         \/ Start(w) \/ Uploaded(w) \/ UploadThrows(w)
         \/ RecordRead(w) \/ RecordWrite(w) \/ RecordThrows(w)
         \/ FailRead(w) \/ Refund(w) \/ FailWrite(w) \/ FailThrows(w)
         \/ Finish(w)
    \/ \E p \in Procs : Crash(p)
    \/ Sweep
    \/ Console

Spec == Init /\ [][Next]_vars

-----------------------------------------------------------------------------
(* Properties.                                                             *)

\* What was not uploaded is never shown as published: a published row names a video
\* that exists on its own destination, whatever stale document overwrites whatever row
\* (publish-guard.ts:58-62 and 79-85).
PublishedIsLive ==
    \A d \in Dests : clip[d].status = "published"
                     => clip[d].ext # None /\ live[clip[d].ext] = d

\* A failed row has its credits back: its charge was refunded, although requests
\* charge again and documents overwrite each other meanwhile (worker.ts:2265-2281).
FailedIsRefunded ==
    \A d \in Dests : clip[d].status = "failed"
                     => ~clip[d].charged /\ (clip[d].key # None => clip[d].key \in refunded)

\* A run whose YouTube upload succeeded never turns the row failed, although the clip
\* cannot be written: a retry would publish the video twice (worker.ts:3382 and 3417-3428).
LiveIsNeverFailed ==
    [][\A w \in Workers :
         (pc[w] = "write" /\ pc'[w] # "write" /\ clip' # clip /\ dest[w] \in YouTube)
         => videoId[w] = None]_vars

\* The dispatch and the handler leave the queue its promise, on which the rest relies: a job
\* is enqueued only where none is in flight, is run by one worker, whose run alone ends it,
\* and a crash leaves it to the sweep (queue.ts:165-172, worker.ts:2868-2889).
UsesQueue == Queue!Spec

\* A destination is charged for one upload at a time: the charges that were not given
\* back are at most one more than the videos that went out (publish-dispatch.ts:164-174).
OneChargeInFlight ==
    \A d \in Dests :
        Cardinality({k \in Keys : spent[k] = d /\ k \notin refunded})
        <= Cardinality({v \in Videos : live[v] = d}) + 1
=============================================================================
