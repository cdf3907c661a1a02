------------------------------- MODULE Transfer -------------------------------
(***************************************************************************)
(* One upload of the desktop application: the engine that carries it       *)
(* (native/src/transfer/engine.ts), the file that keeps it over restarts   *)
(* (job-store.ts), the resumable session at the object store and the       *)
(* routes that register it (index.ts: finalize, clip-finalize).            *)
(*                                                                         *)
(* What runs between two awaits is one step, so that the user, a crash and *)
(* the server come between any two of them.  The other uploads only decide *)
(* when the pump picks this one.  Bytes are counted in units; a session is *)
(* a number and stands for mediaId, objectPath and the session URL, which  *)
(* are set and cleared together.                                           *)
(*                                                                         *)
(* Abort signals as the two clients treat them: fetch rejects on a signal  *)
(* that is aborted; net.request listens for the event only, so that a      *)
(* request made after the abort goes through.                              *)
(***************************************************************************)
EXTENDS Naturals, Sequences, FiniteSets

CONSTANTS
    Size,         \* units of the file
    Chunk,        \* units of one request
    MAX_RETRIES,  \* attempts of a request
    MaxSessions,  \* sessions ever opened
    MaxWrites,    \* saves that wait for the disk
    MaxRequests   \* registrations that the server works on at a time

ASSUME TransferAssumption ==
    /\ {Size, Chunk, MAX_RETRIES, MaxSessions, MaxWrites, MaxRequests} \subseteq Nat \ {0}

VARIABLES
    up,          \* the application runs
    mem,         \* the job in memory
    disk,        \* the job as the last save has written it
    chain,       \* saves on their way to the disk, in order
    pc,          \* where runJob is
    then,        \* where it goes on after the save that it waits for
    offset,      \* units that the store has confirmed
    end,         \* the end of the chunk
    tries,       \* attempts of the current request
    restarted,   \* the session has expired once in this run
    aborted,     \* the signal of the run
    relinking,   \* the user has chosen a file, relink is not done
    last,        \* sessions opened so far
    live,        \* sessions that take bytes
    got,         \* units that each session has stored
    kind,        \* "episode" or "clip"
    media,       \* sessions with a media row
    entity,      \* sessions with an episode or a clip
    requests,    \* registrations at the server
    mine         \* the one that the run waits for, or 0

jobVars == <<mem, disk, chain>>
runVars == <<pc, then, offset, end, tries, restarted, aborted, mine>>
sessionVars == <<last, live, got>>
serverVars == <<kind, media, entity>>
vars == <<up, jobVars, runVars, relinking, sessionVars, serverVars, requests>>

Sessions == 1..MaxSessions
NoSession == 0
Busy == {"initializing", "uploading", "finalizing"}
TERMINAL == {"completed", "canceled"}
Statuses == Busy \cup TERMINAL \cup {"queued", "paused", "needs_attention", "failed"}
Recoverable == {"auth", "file", "network", "finalize"}
Codes == Recoverable \cup {"none", "expired", "duplicate", "encryption"}
Job == [status : Statuses, code : Codes, session : Sessions \cup {NoSession}, complete : BOOLEAN]
\* Steps at which the run waits for the network or for a delay.
Waits == {"init", "query", "put", "requery", "answer"}
RunSteps == Waits \cup {"off", "saving", "verify", "ensure", "next", "retry", "mark", "finalize"}
Answers == {"ok", "duplicate", "refused", "error"}
ServerSteps == {"free", "check", "build", "second"} \cup Answers
Free == [step |-> "free", session |-> NoSession]

TypeOK ==
    /\ up \in BOOLEAN
    /\ mem \in Job /\ disk \in Job
    /\ chain \in Seq([job : Job, who : {"run", "user", "other"}])
    /\ pc \in RunSteps /\ then \in RunSteps
    /\ offset \in 0..Size /\ end \in 0..Size
    /\ tries \in 1..MAX_RETRIES
    /\ restarted \in BOOLEAN /\ aborted \in BOOLEAN /\ relinking \in BOOLEAN
    /\ last \in 0..MaxSessions
    /\ live \in [Sessions -> BOOLEAN]
    /\ got \in [Sessions -> 0..Size]
    /\ kind \in {"episode", "clip"}
    /\ media \subseteq Sessions /\ entity \subseteq Sessions
    /\ requests \in [1..MaxRequests -> [step : ServerSteps, session : Sessions \cup {NoSession}]]
    /\ mine \in 0..MaxRequests

NewJob == [status |-> "queued", code |-> "none", session |-> NoSession, complete |-> FALSE]

Init ==
    /\ up = TRUE
    /\ mem = NewJob /\ disk = NewJob /\ chain = <<>>
    /\ pc = "off" /\ then = "off"
    /\ offset = 0 /\ end = 0 /\ tries = 1
    /\ restarted = FALSE /\ aborted = FALSE /\ relinking = FALSE
    /\ last = 0
    /\ live = [s \in Sessions |-> FALSE]
    /\ got = [s \in Sessions |-> 0]
    /\ kind \in {"episode", "clip"}
    /\ media = {} /\ entity = {}
    /\ requests = [i \in 1..MaxRequests |-> Free]
    /\ mine = 0

-----------------------------------------------------------------------------
(* The job and its file.                                                   *)

bytesLanded(j) == j.session # NoSession /\ j.status # "completed" /\ j.complete

\* The snapshot joins the saves of this job.
Save(j, who) ==
    /\ Len(chain) < MaxWrites
    /\ mem' = j
    /\ chain' = Append(chain, [job |-> j, who |-> who])

\* The run saves and goes on at the step next.
RunSaves(j, next) ==
    /\ Save(j, "run")
    /\ pc' = "saving"
    /\ then' = next
    /\ UNCHANGED disk

\* Nobody waits for the request of the run any more: its answer is forgotten.
LeaveRequest ==
    /\ mine' = 0
    /\ requests' = [i \in 1..MaxRequests |->
                      IF requests[i].step \in Answers THEN Free ELSE requests[i]]

\* upload and the loop over its chunks end, their locals with them.
UploadEnds == offset' = 0 /\ end' = 0 /\ tries' = 1

RunEnds == UploadEnds /\ restarted' = FALSE /\ LeaveRequest

locals == <<offset, end, tries, restarted, mine, requests>>

\* The signal of the run.
Abort ==
    /\ aborted' = (pc # "off")
    /\ IF pc \in Waits
       THEN pc' = "off" /\ RunEnds
       ELSE UNCHANGED <<pc, locals>>

\* A save reaches the disk; whoever awaited it goes on, pause and cancel to the abort.
Persist ==
    /\ up
    /\ chain # <<>>
    /\ disk' = Head(chain).job
    /\ chain' = Tail(chain)
    /\ \/ Head(chain).who = "run" /\ pc' = then /\ then' = "off" /\ UNCHANGED <<aborted, locals>>
       \/ Head(chain).who = "user" /\ Abort /\ UNCHANGED then
       \/ Head(chain).who = "other" /\ UNCHANGED <<pc, then, aborted, locals>>
    /\ UNCHANGED <<up, mem, relinking, sessionVars, serverVars>>

-----------------------------------------------------------------------------
(* A run.                                                                  *)

runRest == <<up, relinking, serverVars>>

\* runJob's catch.
Fails(code) ==
    /\ IF aborted
       THEN pc' = "off" /\ UNCHANGED <<jobVars, then>>
       ELSE LET attention == code # "duplicate" /\ (code \in Recoverable \/ bytesLanded(mem))
            IN  RunSaves([mem EXCEPT !.status = IF attention THEN "needs_attention" ELSE "failed",
                                     !.code = code], "off")
    /\ RunEnds
    /\ UNCHANGED <<aborted, sessionVars, runRest>>

\* setStatus(finalizing), with which finalize begins; a session is there, or the run would
\* not have come so far.
BeginFinalize ==
    /\ RunSaves([mem EXCEPT !.status = "finalizing"], "mark")
    /\ UploadEnds
    /\ UNCHANGED <<restarted, aborted, mine, sessionVars, requests, runRest>>

\* The pump takes the job.
Start ==
    /\ up
    /\ pc = "off"
    /\ mem.status = "queued"
    /\ aborted' = FALSE
    /\ IF bytesLanded(mem)
       THEN RunSaves([mem EXCEPT !.status = "finalizing"], "mark")
       ELSE pc' = "verify" /\ UNCHANGED <<jobVars, then>>
    /\ UNCHANGED <<locals, sessionVars, runRest>>

\* ensureSession up to its first await, or with a session the setStatus of upload.
Ensure ==
    /\ IF mem.session # NoSession
       THEN RunSaves([mem EXCEPT !.status = "uploading"], "query")
       ELSE RunSaves([mem EXCEPT !.status = "initializing"], "init")
    /\ UNCHANGED <<locals, aborted, sessionVars, runRest>>

\* verifyFile finds the file unchanged, or changed or missing, or cannot read it; the URL
\* of a session is decrypted.
Verify ==
    /\ pc = "verify"
    /\ \/ Ensure
       \/ Fails("file")
       \/ Fails("network")
       \/ mem.session # NoSession /\ Fails("encryption")

EnsureAgain == pc = "ensure" /\ Ensure

\* One more attempt of the same request, after a delay.
TryAgain ==
    /\ tries < MAX_RETRIES
    /\ tries' = tries + 1

\* upload-init is fetched: a session, a refusal, or no usable answer.  A session whose
\* answer is lost belongs to nobody.
InitCall ==
    /\ pc = "init"
    /\ \/ aborted /\ Fails("network")
       \/ /\ ~aborted
          /\ last < MaxSessions
          /\ last' = last + 1
          /\ live' = [live EXCEPT ![last + 1] = TRUE]
          /\ RunSaves([mem EXCEPT !.code = "none", !.session = last + 1], "ensure")
          /\ tries' = 1
          /\ UNCHANGED <<got, offset, end, restarted, aborted, mine, requests, runRest>>
       \/ /\ ~aborted
          /\ TryAgain
          /\ UNCHANGED <<jobVars, pc, then, offset, end, restarted, aborted, mine, sessionVars,
                         requests, runRest>>
       \/ ~aborted /\ \E code \in {"auth", "duplicate", "network", "finalize", "encryption"} :
                        Fails(code)

\* The session is gone: once per run everything starts over.
Expired ==
    /\ ~live[mem.session]
    /\ IF restarted
       THEN Fails("expired")
       ELSE /\ restarted' = TRUE
            /\ RunSaves([status |-> "initializing", code |-> "expired",
                         session |-> NoSession, complete |-> FALSE], "ensure")
            /\ UploadEnds
            /\ UNCHANGED <<aborted, mine, sessionVars, requests, runRest>>

\* Faulty variant: what has been sent counts as stored.
CommittedSent == IF end > 0 THEN end ELSE got[mem.session]

\* What the store says it has, which becomes the offset.
Committed == got[mem.session]

Confirmed(next) ==
    /\ live[mem.session]
    /\ offset' = Committed
    /\ IF next = "next" THEN end' = 0 /\ tries' = 1 ELSE UNCHANGED <<end, tries>>
    /\ RunSaves(mem, next)
    /\ UNCHANGED <<restarted, aborted, mine, sessionVars, requests, runRest>>

\* readCommittedOffset at the start of upload; it is not retried.
Query ==
    /\ pc = "query"
    /\ Expired \/ Confirmed("next") \/ Fails("network")

\* Faulty variant: the last chunk is as long as the others.
ChunkEndUncut == offset + Chunk

ChunkEnd == IF offset + Chunk < Size THEN offset + Chunk ELSE Size

\* The loop of upload: the next chunk, or registration.
NextChunk ==
    /\ pc = "next"
    /\ IF offset = Size
       THEN BeginFinalize
       ELSE /\ end' = ChunkEnd
            /\ tries' = 1
            /\ pc' = "put"
            /\ UNCHANGED <<jobVars, then, offset, restarted, aborted, mine, sessionVars, requests,
                           runRest>>

\* Bytes of the chunk reach the store.
Arrive ==
    /\ pc = "put"
    /\ live[mem.session]
    /\ \E n \in got[mem.session] + 1 .. end : got' = [got EXCEPT ![mem.session] = n]
    /\ UNCHANGED <<up, jobVars, runVars, relinking, last, live, serverVars, requests>>

\* putChunk: accepted, though perhaps nothing new was stored, and then the chunk is sent
\* again from there as a new request; expired, refused for good, or no usable answer.
PutChunk ==
    /\ pc = "put"
    /\ \/ Confirmed("next")
       \/ Expired
       \/ Fails("network")
       \/ /\ pc' = "requery"
          /\ UNCHANGED <<jobVars, then, offset, end, tries, restarted, aborted, mine, sessionVars,
                         requests, runRest>>

\* tryCommittedOffset after a failed attempt.
Requery ==
    /\ pc = "requery"
    /\ \/ Expired
       \/ Confirmed(IF got[mem.session] >= end THEN "next" ELSE "retry")
       \/ /\ pc' = "retry"
          /\ UNCHANGED <<jobVars, then, offset, end, tries, restarted, aborted, mine, sessionVars,
                         requests, runRest>>

Retry ==
    /\ pc = "retry"
    /\ \/ ~aborted /\ TryAgain /\ pc' = "put"
          /\ UNCHANGED <<jobVars, then, offset, end, restarted, aborted, mine, sessionVars,
                         requests, runRest>>
       \/ (aborted \/ tries = MAX_RETRIES) /\ Fails("network")

\* Faulty variant: finalize is called before the note is on the disk.
MarkUnsaved ==
    /\ pc = "mark"
    /\ Save([mem EXCEPT !.complete = TRUE], "other")
    /\ pc' = "finalize"
    /\ tries' = 1
    /\ UNCHANGED <<disk, then, offset, end, restarted, aborted, mine, sessionVars, requests, runRest>>

\* finalize notes that every byte is confirmed, and waits for the disk.
MarkComplete ==
    /\ pc = "mark"
    /\ RunSaves([mem EXCEPT !.complete = TRUE], "finalize")
    /\ tries' = 1
    /\ UNCHANGED <<offset, end, restarted, aborted, mine, sessionVars, requests, runRest>>

\* finalize or clip-finalize is fetched.
CallFinalize ==
    /\ pc = "finalize"
    /\ \/ aborted /\ Fails("network")
       \/ /\ ~aborted
          /\ \E i \in 1..MaxRequests :
               /\ requests[i] = Free
               /\ requests' = [requests EXCEPT ![i] = [step |-> "check", session |-> mem.session]]
               /\ mine' = i
          /\ pc' = "answer"
          /\ UNCHANGED <<jobVars, then, offset, end, tries, restarted, aborted, sessionVars, runRest>>

\* The answer comes, or none that can be used: the server may work on all the same.
Answered ==
    /\ pc = "answer"
    /\ \/ /\ requests[mine].step = "ok"
          /\ RunSaves([mem EXCEPT !.status = "completed", !.code = "none"], "off")
          /\ RunEnds
          /\ UNCHANGED <<aborted, sessionVars, runRest>>
       \/ requests[mine].step = "duplicate" /\ Fails("duplicate")
       \/ requests[mine].step = "refused" /\ Fails("finalize")
       \/ Fails("auth")
       \/ /\ pc' = "finalize"
          /\ TryAgain
          /\ LeaveRequest
          /\ UNCHANGED <<jobVars, then, offset, end, restarted, aborted, sessionVars, runRest>>
       \/ tries = MAX_RETRIES /\ \E code \in {"network", "finalize"} : Fails(code)

-----------------------------------------------------------------------------
(* The server registers.                                                   *)

serverRest == <<up, jobVars, runVars, relinking, sessionVars, kind>>

\* An answer that nobody waits for is forgotten.
Goes(i, step) ==
    requests' = [requests EXCEPT ![i] = IF step \in Answers /\ i # mine THEN Free
                                        ELSE [@ EXCEPT !.step = step]]

\* Faulty variant: a media row is enough for a clip.
ReplayOfMedia(s) == "ok"

\* What a repeated registration is told: the clip may be missing beside its media row.
Replay(s) == IF kind = "clip" /\ s \notin entity THEN "refused" ELSE "ok"

\* The rows exist already, or the object does not, or the rows are to be made.
CheckRows(i) ==
    LET s == requests[i].session
    IN  /\ requests[i].step = "check"
        /\ Goes(i, IF s \in media THEN Replay(s)
                   ELSE IF s = NoSession \/ got[s] < Size THEN "refused" ELSE "build")
        /\ UNCHANGED <<serverRest, media, entity>>

\* The first row: the episode, whose number is unique, or the media row of a clip.
FirstRow(i) ==
    LET s == requests[i].session
    IN  /\ requests[i].step = "build"
        /\ IF kind = "episode"
           THEN /\ Goes(i, IF entity # {} THEN "duplicate" ELSE "second")
                /\ entity' = IF entity # {} THEN entity ELSE {s}
                /\ UNCHANGED media
           ELSE /\ Goes(i, IF s \in media THEN "error" ELSE "second")
                /\ media' = media \cup {s}
                /\ UNCHANGED entity
        /\ UNCHANGED serverRest

\* The other one.
SecondRow(i) ==
    LET s == requests[i].session
    IN  /\ requests[i].step = "second"
        /\ IF kind = "episode"
           THEN /\ Goes(i, IF s \in media THEN "error" ELSE "ok")
                /\ media' = media \cup {s}
                /\ UNCHANGED entity
           ELSE /\ Goes(i, "ok")
                /\ entity' = entity \cup {s}
                /\ UNCHANGED media
        /\ UNCHANGED serverRest

\* A statement fails or the instance dies between two of them.
Breaks(i) ==
    /\ requests[i].step \in {"check", "build", "second"}
    /\ Goes(i, "error")
    /\ UNCHANGED <<serverRest, media, entity>>

\* Sessions end: cancelSession, or the store after a week.
SessionEnds(s) ==
    /\ live[s]
    /\ live' = [live EXCEPT ![s] = FALSE]
    /\ UNCHANGED <<up, jobVars, runVars, relinking, last, got, serverVars, requests>>

-----------------------------------------------------------------------------
(* The user, the network's return and the process.                         *)

userRest == <<up, disk, runVars, sessionVars, serverVars, requests>>

\* pause and cancel await a save before they abort; one of them at a time.
Acting == \E k \in 1..Len(chain) : chain[k].who = "user"

\* Faulty variant: an upload that is done can be paused.
PauseAlways ==
    /\ up
    /\ ~Acting
    /\ Save([mem EXCEPT !.status = "paused"], "user")
    /\ UNCHANGED <<userRest, relinking>>

pause ==
    /\ up
    /\ ~Acting
    /\ mem.status \in Busy \cup {"queued"}
    /\ Save([mem EXCEPT !.status = "paused"], "user")
    /\ UNCHANGED <<userRest, relinking>>

cancel ==
    /\ up
    /\ ~Acting
    /\ mem.status \notin TERMINAL \cup {"finalizing"}
    /\ Save([mem EXCEPT !.status = "canceled"], "user")
    /\ UNCHANGED <<userRest, relinking>>

\* resume, and retry where its button is shown.
resume ==
    /\ up
    /\ \/ mem.status = "paused"
       \/ mem.status \in {"failed", "needs_attention"} /\ mem.code \notin {"file", "duplicate"}
    /\ ~relinking
    /\ Save([mem EXCEPT !.status = "queued", !.code = "none"], "other")
    /\ UNCHANGED <<userRest, relinking>>

\* A login, the network's return, or the end of a suspend.
retryRecoverable ==
    /\ up
    /\ mem.status = "needs_attention"
    /\ mem.code \in {"auth", "network", "finalize"}
    /\ Save([mem EXCEPT !.status = "queued", !.code = "none"], "other")
    /\ UNCHANGED <<userRest, relinking>>

\* relink reads the chosen file ...
RelinkBegins ==
    /\ up
    /\ ~relinking
    /\ mem.code = "file"
    /\ mem.status \notin TERMINAL
    /\ relinking' = TRUE
    /\ UNCHANGED <<userRest, mem, chain>>

\* ... and takes it; with another one the session is given up.
RelinkEnds ==
    /\ up
    /\ relinking
    /\ relinking' = FALSE
    /\ \E same \in BOOLEAN :
         Save(IF same THEN [mem EXCEPT !.status = "queued", !.code = "none"] ELSE NewJob, "other")
    /\ UNCHANGED userRest

\* The process ends anywhere: power, a kill, or shutdown, which leaves the same files.
Crash ==
    /\ up
    /\ up' = FALSE
    /\ mem' = disk
    /\ chain' = <<>>
    /\ pc' = "off" /\ then' = "off"
    /\ aborted' = FALSE
    /\ relinking' = FALSE
    /\ RunEnds
    /\ UNCHANGED <<disk, sessionVars, serverVars>>

\* Faulty variant: a job that was under way is shown as it was.
RestoredAsIs(j) == j.status = "needs_attention" /\ j.code = "network"

\* What init puts back into the queue.
Restored(j) ==
    \/ j.status \in Busy
    \/ bytesLanded(j) /\ j.status \notin TERMINAL
    \/ j.status = "needs_attention" /\ j.code = "network"

Boot ==
    /\ ~up
    /\ up' = TRUE
    /\ mem' = IF Restored(disk) THEN [disk EXCEPT !.status = "queued"] ELSE disk
    /\ disk' = mem'
    /\ UNCHANGED <<chain, runVars, relinking, sessionVars, serverVars, requests>>

-----------------------------------------------------------------------------
RunStep ==
    \/ Start \/ Verify \/ EnsureAgain \/ InitCall
    \/ Query \/ NextChunk \/ PutChunk \/ Requery \/ Retry
    \/ MarkComplete \/ CallFinalize \/ Answered

Serve(i) == CheckRows(i) \/ FirstRow(i) \/ SecondRow(i)

Next ==
    \/ up /\ RunStep
    \/ Persist
    \/ Arrive
    \/ \E i \in 1..MaxRequests : Serve(i) \/ Breaks(i)
    \/ \E s \in Sessions : SessionEnds(s)
    \/ pause \/ cancel \/ resume \/ retryRecoverable \/ RelinkBegins \/ RelinkEnds
    \/ Crash \/ Boot

Spec == Init /\ [][Next]_vars

\* The run goes on, the disk takes every save, the server works on, and the application
\* is started again.  That the run goes on while it waits for an answer is a fact of the
\* network below it: the requests have no timeout of their own (network-electron.ts), so
\* one whose connection neither answers nor breaks would hold its run for good.
Fairness ==
    /\ WF_vars(up /\ RunStep)
    /\ WF_vars(Persist)
    /\ \A i \in 1..MaxRequests : WF_vars(Serve(i))
    /\ WF_vars(Boot)

\* An assumption on the object store, with nothing in the code behind it: it does not
\* accept a chunk for ever without storing any of its bytes.  An accepted chunk is not
\* counted as an attempt (engine.ts:495-498, 536-541), so upload would send it for ever.
StoreTakesBytes == SF_vars(Arrive)

FairSpec == Spec /\ Fairness /\ StoreTakesBytes

-----------------------------------------------------------------------------
(* Properties.                                                             *)

\* The job as it is in memory, on the disk or on its way there.
Snapshots == {mem, disk} \cup {chain[k].job : k \in 1..Len(chain)}

\* bytesComplete is set only when the store has every byte of the session, whatever was
\* sent, cut off, restarted or lost in a crash (job-store.ts:26-36).
LandedIsComplete ==
    \A j \in Snapshots : j.complete /\ j.session # NoSession => got[j.session] = Size

\* Whatever is retried, lost, restored or relinked, one upload registers one episode or
\* clip at most (engine.ts:88-90, index.ts:4574-4576).
RegisteredOnce == Cardinality(media \cup entity) <= 1

\* An upload that the user sees as completed has its object and both its rows
\* (engine.ts:555-575).
CompletedIsRegistered ==
    \A j \in Snapshots :
        j.status = "completed" => j.session \in media \cap entity /\ got[j.session] = Size

Stored == {s \in Sessions : got[s] = Size}

Uploading == INSTANCE Upload WITH
    stored <- Stored,
    registered <- media \cup entity,
    complete <- media \cap entity,
    done <- disk.status = "completed"

\* However it is interrupted, an upload stores, then registers one session, then makes
\* it complete, and is done for good: neither the user nor a late save nor a restart
\* reopens it or registers anew (engine.ts:168-252, 546-620, index.ts:4565-4602).
ImplementsUpload == Uploading!Spec

\* While the application stays up, an upload that is queued or under way completes, or
\* asks for the user, unless its run has been aborted: no sequence of lost answers,
\* short writes, expired sessions and late saves keeps it going for ever, as long as the
\* store takes bytes and the network answers (engine.ts:266-275, 78-110, 457-541).
EveryUploadSettles ==
    <>[]up => (mem.status \in Busy \cup {"queued"}
               ~> mem.status \notin Busy \cup {"queued"} \/ aborted)
=============================================================================
