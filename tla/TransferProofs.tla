---------------------------- MODULE TransferProofs ----------------------------
(***************************************************************************)
(* Proofs about Transfer, for any file, chunks, retries, sessions, saves   *)
(* and registrations.                                                      *)
(***************************************************************************)
EXTENDS Transfer, FiniteSetTheorems, SequenceTheorems, TLAPS

\* Where the run is, or will be once its save is on the disk.
Place == IF pc = "saving" THEN then ELSE pc

Sending == {"next", "put", "requery", "retry"}
Early == Sending \cup {"verify", "ensure", "init", "query"}
Registering == {"finalize", "answer"}
Landed == {"mark"} \cup Registering

\* What the run may rely on where it is.
RunInv ==
    /\ ~up => pc = "off" /\ ~relinking
    /\ then \notin {"saving", "answer"}
    /\ relinking => mem.code = "file"
    /\ Place # "off" => mem.code # "file"
    /\ Place \in Early => ~mem.complete
    /\ Place = "init" => mem.session = NoSession
    /\ Place \in Sending \cup Landed \cup {"query"} => mem.session # NoSession
    /\ Place \in Sending => offset <= got[mem.session]
    /\ Place \in Landed => got[mem.session] = Size
    /\ Place \in Registering => mem.complete
    /\ pc = "answer" => mine # 0

\* What holds of the job wherever it is kept.
JobInv(j) ==
    /\ j.code = "file" => j.status \in {"needs_attention", "canceled"} /\ ~j.complete
    /\ j.complete => j.session # NoSession /\ got[j.session] = Size
    /\ j.status = "completed" => j.session \in media \cap entity

SnapInv ==
    /\ JobInv(mem)
    /\ JobInv(disk)
    /\ \A k \in 1..Len(chain) : JobInv(chain[k].job)

\* The job as it is once registration may begin.
Noted(j) == j.session = mem.session /\ j.complete

\* One save at a time is the run's; from that of MarkComplete on, nothing older is written.
ChainInv ==
    /\ \A k \in 1..Len(chain) : chain[k].who = "run" => pc = "saving"
    /\ \A k, l \in 1..Len(chain) : chain[k].who = "run" /\ chain[l].who = "run" => k = l
    /\ pc = "saving" /\ then = "finalize" =>
         \A k, l \in 1..Len(chain) : chain[k].who = "run" /\ k <= l => Noted(chain[l].job)
    /\ pc \in Registering => Noted(disk) /\ \A k \in 1..Len(chain) : Noted(chain[k].job)

\* Which rows a request has made.
ServerInv ==
    /\ kind = "episode" => media \subseteq entity
    /\ \A i \in 1..MaxRequests :
         /\ requests[i].step # "free" => requests[i].session # NoSession
         /\ requests[i].step = "second" =>
              requests[i].session \in IF kind = "episode" THEN entity ELSE media
         /\ requests[i].step = "ok" => requests[i].session \in media \cap entity

\* Sessions that have a row or may get one.
Known(s) ==
    \/ s \in media \cup entity
    \/ \E i \in 1..MaxRequests : requests[i].step # "free" /\ requests[i].session = s

\* Registration of a session has begun only when the disk keeps that session as complete.
Kept(j, s) == j.session = s /\ j.complete

RegInv ==
    \A s \in Sessions : Known(s) =>
        Kept(mem, s) /\ Kept(disk, s) /\ \A k \in 1..Len(chain) : Kept(chain[k].job, s)

IInv == TypeOK /\ RunInv /\ SnapInv /\ ChainInv /\ ServerInv /\ RegInv

-----------------------------------------------------------------------------
(* What the small parts of steps do.                                       *)

Who == {"run", "user", "other"}
Entry == [job : Job, who : Who]

LEMMA ConstantsTyped ==
    /\ Size \in Nat /\ Size > 0 /\ Chunk \in Nat /\ Chunk > 0
    /\ MAX_RETRIES \in Nat /\ MAX_RETRIES > 0
    /\ MaxSessions \in Nat /\ MaxRequests \in Nat /\ MaxRequests > 0
BY TransferAssumption

LEMMA Zeros ==
    /\ 0 \in 0..Size /\ 1 \in 1..MAX_RETRIES /\ 0 \in 0..MaxRequests
    /\ FALSE \in BOOLEAN /\ "off" \in RunSteps /\ "saving" \in RunSteps
BY ConstantsTyped DEF RunSteps

LEMMA SaveEffect ==
    ASSUME TypeOK, NEW j \in Job, NEW who \in Who, Save(j, who)
    PROVE  /\ mem' = j
           /\ chain' \in Seq(Entry)
           /\ Len(chain) \in Nat
           /\ Len(chain') = Len(chain) + 1
           /\ \A k \in 1..Len(chain) : chain'[k] = chain[k] /\ chain[k] \in Entry
           /\ chain'[Len(chain) + 1] = [job |-> j, who |-> who]
<1> DEFINE e == [job |-> j, who |-> who]
<1>1. e \in Entry /\ chain \in Seq(Entry)
  BY DEF Entry, TypeOK, Who
<1>2. chain' = Append(chain, e) /\ mem' = j
  BY DEF Save
<1> HIDE DEF e, Entry
<1>3. /\ Append(chain, e) \in Seq(Entry)
      /\ Len(Append(chain, e)) = Len(chain) + 1
      /\ \A k \in 1..Len(chain) : Append(chain, e)[k] = chain[k] /\ chain[k] \in Entry
      /\ Append(chain, e)[Len(chain) + 1] = e
      /\ Len(chain) \in Nat
  BY <1>1, AppendProperties
<1> QED BY <1>2, <1>3 DEF e

LEMMA PersistEffect ==
    ASSUME TypeOK, chain # <<>>, disk' = Head(chain).job, chain' = Tail(chain)
    PROVE  /\ chain' \in Seq(Entry)
           /\ Len(chain) \in Nat /\ Len(chain) >= 1
           /\ Len(chain') = Len(chain) - 1
           /\ \A k \in 1..Len(chain') : chain'[k] = chain[k + 1]
           /\ \A k \in 1..Len(chain) : chain[k] \in Entry
           /\ Head(chain) = chain[1]
           /\ disk' = chain[1].job
<1>1. chain \in Seq(Entry)
  BY DEF Entry, TypeOK, Who
<1> HIDE DEF Entry
<1>2. /\ Tail(chain) \in Seq(Entry)
      /\ Len(chain) \in Nat /\ Len(chain) >= 1
      /\ Len(Tail(chain)) = Len(chain) - 1
      /\ \A k \in 1..Len(Tail(chain)) : Tail(chain)[k] = chain[k + 1]
      /\ \A k \in 1..Len(chain) : chain[k] \in Entry
      /\ Head(chain) = chain[1]
  BY <1>1
<1> QED BY <1>2

LEMMA Requests ==
    ASSUME TypeOK, ServerInv, LeaveRequest, UNCHANGED serverVars
    PROVE  /\ mine' \in 0..MaxRequests
           /\ requests' \in [1..MaxRequests -> [step : ServerSteps, session : Sessions \cup {NoSession}]]
           /\ ServerInv'
           /\ \A s \in Sessions : Known(s)' => Known(s)
<1>1. /\ mine' = 0
      /\ requests' = [i \in 1..MaxRequests |->
                        IF requests[i].step \in Answers THEN Free ELSE requests[i]]
      /\ media' = media /\ entity' = entity /\ kind' = kind
  BY DEF LeaveRequest, serverVars
<1>2. Free \in [step : ServerSteps, session : Sessions \cup {NoSession}] /\ Free.step = "free"
  BY DEF Free, ServerSteps
<1>3. \A i \in 1..MaxRequests :
        requests[i] \in [step : ServerSteps, session : Sessions \cup {NoSession}]
  BY DEF TypeOK
<1>4. \A i \in 1..MaxRequests : requests'[i] = Free \/ requests'[i] = requests[i]
  BY <1>1
<1>5. requests' \in [1..MaxRequests -> [step : ServerSteps, session : Sessions \cup {NoSession}]]
  BY <1>1, <1>2, <1>3
<1>6. ServerInv'
  BY <1>1, <1>2, <1>4 DEF ServerInv
<1>7. \A s \in Sessions : Known(s)' => Known(s)
  BY <1>1, <1>2, <1>4 DEF Known
<1> QED BY <1>1, <1>5, <1>6, <1>7, ConstantsTyped

\* A save keeps what holds of every copy, if it holds of the new one.
LEMMA SaveKeeps ==
    ASSUME IInv, NEW j \in Job, NEW who \in Who, Save(j, who),
           disk' = disk, got' = got, media' = media, entity' = entity,
           JobInv(j), \A s \in Sessions : Known(s)' => Known(s) /\ Kept(j, s)
    PROVE  SnapInv' /\ RegInv'
<1>1. /\ mem' = j /\ Len(chain) \in Nat
      /\ Len(chain') = Len(chain) + 1
      /\ \A k \in 1..Len(chain) : chain'[k] = chain[k]
      /\ chain'[Len(chain) + 1].job = j
  <2>1. TypeOK
    BY DEF IInv
  <2>2. /\ mem' = j /\ Len(chain) \in Nat
        /\ Len(chain') = Len(chain) + 1
        /\ \A k \in 1..Len(chain) : chain'[k] = chain[k]
        /\ chain'[Len(chain) + 1] = [job |-> j, who |-> who]
    BY <2>1, SaveEffect, Zenon
  <2> QED BY <2>2
<1>2. \A k \in 1..Len(chain') : k \in 1..Len(chain) \/ chain'[k].job = j
  BY <1>1
<1>3. SnapInv'
  BY <1>1, <1>2 DEF SnapInv, JobInv, IInv
<1>4. RegInv'
  <2> SUFFICES ASSUME NEW s \in Sessions, Known(s)'
               PROVE  Kept(mem, s)' /\ Kept(disk, s)'
                      /\ \A k \in 1..Len(chain') : Kept(chain[k].job, s)'
    BY DEF RegInv, Sessions
  <2>1. Kept(j, s) /\ Kept(disk, s) /\ \A k \in 1..Len(chain) : Kept(chain[k].job, s)
    BY DEF RegInv, IInv
  <2> QED BY <1>1, <1>2, <2>1 DEF Kept
<1> QED BY <1>3, <1>4

\* The run has no save under way when it makes one.
LEMMA RunSavesInOrder ==
    ASSUME IInv, NEW j \in Job, NEW next, RunSaves(j, next), pc # "saving",
           next = "finalize" => j.complete
    PROVE  ChainInv'
<1>1. /\ mem' = j /\ Len(chain) \in Nat
      /\ Len(chain') = Len(chain) + 1
      /\ \A k \in 1..Len(chain) : chain'[k] = chain[k]
      /\ chain'[Len(chain) + 1] = [job |-> j, who |-> "run"]
      /\ pc' = "saving" /\ then' = next
  BY SaveEffect DEF IInv, RunSaves, Who
<1>2. \A k \in 1..Len(chain) : chain'[k].who # "run"
  BY <1>1 DEF IInv, ChainInv
<1>3. \A k \in 1..Len(chain') : chain'[k].who = "run" => k = Len(chain')
  BY <1>1, <1>2
<1> QED BY <1>1, <1>3 DEF ChainInv, Noted, Registering

\* The saves of others change nothing about the order of the run's.
LEMMA OthersSaveInOrder ==
    ASSUME IInv, NEW j \in Job, NEW who \in {"user", "other"}, Save(j, who),
           disk' = disk, pc' = pc, then' = then,
           Place \in Registering => j.session = mem.session /\ j.complete
    PROVE  ChainInv'
<1>1. /\ mem' = j /\ Len(chain) \in Nat
      /\ Len(chain') = Len(chain) + 1
      /\ \A k \in 1..Len(chain) : chain'[k] = chain[k]
      /\ chain'[Len(chain) + 1] = [job |-> j, who |-> who]
  BY SaveEffect DEF IInv, Who
<1>2. \A k \in 1..Len(chain') : \/ k \in 1..Len(chain) /\ chain'[k] = chain[k]
                                \/ k = Len(chain) + 1 /\ chain'[k].who # "run" /\ chain'[k].job = j
  BY <1>1
<1>3. /\ \A k \in 1..Len(chain') : chain'[k].who = "run" => pc' = "saving"
      /\ \A k, l \in 1..Len(chain') : chain'[k].who = "run" /\ chain'[l].who = "run" => k = l
  BY <1>2 DEF IInv, ChainInv
<1>4. ASSUME pc' = "saving", then' = "finalize", NEW k \in 1..Len(chain'), NEW l \in 1..Len(chain'),
             chain'[k].who = "run", k <= l
      PROVE  Noted(chain[l].job)'
  <2>1. j.session = mem.session /\ j.complete
    BY <1>4 DEF Place, Registering
  <2>2. k \in 1..Len(chain) /\ chain[k].who = "run"
    BY <1>2, <1>4
  <2>3. CASE l \in 1..Len(chain) /\ chain'[l] = chain[l]
    <3>1. Noted(chain[l].job)
      BY <1>4, <2>2, <2>3 DEF IInv, ChainInv
    <3> QED BY <1>1, <2>1, <2>3, <3>1 DEF Noted
  <2>4. CASE chain'[l].job = j
    BY <1>1, <2>1, <2>4 DEF Noted
  <2> QED BY <1>2, <2>3, <2>4
<1>5. ASSUME pc' \in Registering
      PROVE  Noted(disk)' /\ \A k \in 1..Len(chain') : Noted(chain[k].job)'
  <2>1. j.session = mem.session /\ j.complete
    BY <1>5 DEF Place, Registering
  <2>2. Noted(disk) /\ \A k \in 1..Len(chain) : Noted(chain[k].job)
    BY <1>5 DEF IInv, ChainInv
  <2> QED BY <1>1, <1>2, <2>1, <2>2 DEF Noted
<1> QED BY <1>3, <1>4, <1>5 DEF ChainInv

\* A step that saves nothing and begins no registration.
LEMMA NothingSaved ==
    ASSUME IInv, UNCHANGED jobVars, got' = got, media' = media, entity' = entity,
           \A s \in Sessions : Known(s)' => Known(s),
           pc # "saving", pc' # "saving", pc' \in Registering => pc \in Registering
    PROVE  SnapInv' /\ RegInv' /\ ChainInv'
<1>1. mem' = mem /\ disk' = disk /\ chain' = chain
  BY DEF jobVars
<1>2. SnapInv'
  BY <1>1 DEF IInv, SnapInv, JobInv
<1>3. RegInv'
  BY <1>1 DEF IInv, RegInv, Kept, Sessions
<1>4. ChainInv'
  BY <1>1 DEF IInv, ChainInv, Noted
<1> QED BY <1>2, <1>3, <1>4

-----------------------------------------------------------------------------
(* The run.                                                                *)

LEMMA SameSession ==
    ASSUME RegInv, NEW j, j.session = mem.session, mem.complete => j.complete
    PROVE  \A s \in Sessions : Known(s) => Kept(j, s)
BY DEF RegInv, Kept

LEMMA NothingKnown ==
    ASSUME RegInv, ~mem.complete \/ mem.session = NoSession
    PROVE  \A s \in Sessions : ~Known(s)
BY DEF RegInv, Kept, Sessions, NoSession

\* Requests and rows are as they were.
LEMMA ServerAtRest ==
    ASSUME ServerInv, UNCHANGED <<serverVars, requests>>
    PROVE  ServerInv' /\ \A s \in Sessions : Known(s)' => Known(s)
<1>1. media' = media /\ entity' = entity /\ kind' = kind /\ requests' = requests
  BY DEF serverVars
<1> QED BY <1>1 DEF ServerInv, Known

LEMMA RunSavesKeeps ==
    ASSUME IInv, NEW j \in Job, NEW next \in RunSteps, RunSaves(j, next), pc # "saving",
           got' = got, media' = media, entity' = entity, JobInv(j),
           \A s \in Sessions : Known(s)' => Known(s) /\ Kept(j, s),
           next = "finalize" => j.complete
    PROVE  /\ SnapInv' /\ RegInv' /\ ChainInv'
           /\ mem' = j /\ disk' = disk
           /\ chain' \in Seq([job : Job, who : {"run", "user", "other"}])
           /\ pc' = "saving" /\ then' = next
<1>1. Save(j, "run") /\ disk' = disk /\ pc' = "saving" /\ then' = next /\ "run" \in Who
  BY DEF RunSaves, Who
<1>2. SnapInv' /\ RegInv'
  BY <1>1, SaveKeeps
<1>3. ChainInv'
  BY RunSavesInOrder
<1>4. TypeOK
  BY DEF IInv
<1>5. mem' = j /\ chain' \in Seq(Entry)
  BY <1>1, <1>4, SaveEffect, Zenon
<1> QED BY <1>1, <1>2, <1>3, <1>5 DEF Entry, Who

LEMMA FailsStep ==
    ASSUME IInv, NEW code \in Codes, Fails(code), pc \notin {"saving", "off"},
           code = "file" => ~mem.complete
    PROVE  IInv'
<1>1. /\ RunEnds /\ LeaveRequest /\ aborted' = aborted /\ UNCHANGED serverVars
      /\ up' = up /\ relinking' = relinking /\ last' = last /\ live' = live /\ got' = got
      /\ offset' = 0 /\ end' = 0 /\ tries' = 1 /\ restarted' = FALSE
  BY DEF Fails, RunEnds, UploadEnds, sessionVars, runRest
<1>2. /\ media' = media /\ entity' = entity /\ kind' = kind
  BY <1>1 DEF serverVars
<1>3. /\ mine' \in 0..MaxRequests
      /\ requests' \in [1..MaxRequests -> [step : ServerSteps, session : Sessions \cup {NoSession}]]
      /\ ServerInv'
      /\ \A s \in Sessions : Known(s)' => Known(s)
  BY <1>1, Requests DEF IInv
<1>4. up /\ ~relinking
  BY DEF IInv, RunInv, Place
<1>5. CASE aborted
  <2>1. pc' = "off" /\ UNCHANGED jobVars /\ then' = then
    BY <1>5 DEF Fails
  <2>2. SnapInv' /\ RegInv' /\ ChainInv'
    BY <2>1, <1>1, <1>2, <1>3, NothingSaved DEF Registering
  <2>3. TypeOK'
    <3>1. mem' = mem /\ disk' = disk /\ chain' = chain
      BY <2>1 DEF jobVars
    <3> QED BY <2>1, <3>1, <1>1, <1>2, <1>3, Zeros DEF IInv, TypeOK
  <2>4. RunInv'
    BY <2>1, <1>1, <1>4 DEF IInv, RunInv, Place, Early, Sending, Landed, Registering, jobVars
  <2> QED BY <2>2, <2>3, <2>4, <1>3 DEF IInv
<1>6. CASE ~aborted
  <2> DEFINE attention == code # "duplicate" /\ (code \in Recoverable \/ bytesLanded(mem))
             status == IF attention THEN "needs_attention" ELSE "failed"
             j == [mem EXCEPT !.status = status, !.code = code]
  <2>1. RunSaves(j, "off")
    BY <1>6 DEF Fails
  <2>2. mem \in Job
    BY DEF IInv, TypeOK
  <2>3. status \in Statuses /\ status # "completed" /\ (code = "file" => status = "needs_attention")
    BY DEF Statuses, Recoverable
  <2> HIDE DEF status
  <2>4. /\ j \in Job /\ j.session = mem.session /\ j.complete = mem.complete
        /\ j.status = status /\ j.code = code
    BY <2>2, <2>3 DEF Job
  <2> HIDE DEF j
  <2>5. JobInv(j)
    BY <2>3, <2>4 DEF IInv, SnapInv, JobInv
  <2>6. \A s \in Sessions : Known(s)' => Known(s) /\ Kept(j, s)
    BY <1>3, <2>4, SameSession DEF IInv
  <2>7. /\ SnapInv' /\ RegInv' /\ ChainInv'
        /\ mem' = j /\ disk' = disk
        /\ chain' \in Seq([job : Job, who : {"run", "user", "other"}])
        /\ pc' = "saving" /\ then' = "off"
    BY <1>1, <1>2, <2>1, <2>4, <2>5, <2>6, RunSavesKeeps DEF RunSteps
  <2>8. TypeOK'
    BY <2>7, <2>4, <1>1, <1>2, <1>3, Zeros DEF IInv, TypeOK
  <2>9. RunInv'
    BY <2>7, <1>1, <1>4 DEF RunInv, Place, Early, Sending, Landed, Registering
  <2> QED BY <2>7, <2>8, <2>9, <1>3 DEF IInv
<1> QED BY <1>5, <1>6

\* A step of the run that saves the job at another status.
LEMMA RunGoesOn ==
    ASSUME IInv, NEW j \in Job, NEW next \in RunSteps, RunSaves(j, next), pc # "saving",
           j.session = mem.session, mem.complete => j.complete, j.code # "file",
           j.complete => got[mem.session] = Size /\ mem.session # NoSession,
           j.status = "completed" => j.session \in media \cap entity,
           next = "finalize" => j.complete, next \notin {"saving", "answer"},
           UNCHANGED <<sessionVars, requests, runRest>>,
           offset' \in 0..Size, end' \in 0..Size, tries' \in 1..MAX_RETRIES,
           restarted' \in BOOLEAN, aborted' \in BOOLEAN, mine' \in 0..MaxRequests,
           up, ~relinking,
           next \in Early => ~j.complete,
           next = "init" => mem.session = NoSession,
           next \in Sending \cup Landed \cup {"query"} => mem.session # NoSession,
           next \in Sending => offset' <= got[mem.session],
           next \in Landed => got[mem.session] = Size,
           next \in Registering => j.complete
    PROVE  IInv'
<1>1. /\ up' = up /\ relinking' = relinking /\ last' = last /\ live' = live /\ got' = got
      /\ media' = media /\ entity' = entity /\ kind' = kind /\ requests' = requests
      /\ UNCHANGED serverVars
  BY DEF sessionVars, runRest, serverVars
<1>2. ServerInv' /\ \A s \in Sessions : Known(s)' => Known(s)
  BY <1>1, ServerAtRest DEF IInv
<1>3. JobInv(j)
  BY DEF JobInv
<1>4. \A s \in Sessions : Known(s)' => Known(s) /\ Kept(j, s)
  BY <1>2, SameSession DEF IInv
<1>5. /\ SnapInv' /\ RegInv' /\ ChainInv'
      /\ mem' = j /\ disk' = disk
      /\ chain' \in Seq([job : Job, who : {"run", "user", "other"}])
      /\ pc' = "saving" /\ then' = next
  BY <1>1, <1>3, <1>4, RunSavesKeeps
<1>6. TypeOK'
  BY <1>1, <1>5 DEF IInv, TypeOK, RunSteps
<1>7. RunInv'
  BY <1>1, <1>5 DEF RunInv, Place
<1> QED BY <1>2, <1>5, <1>6, <1>7 DEF IInv

LEMMA JobChanges ==
    ASSUME NEW job \in Job
    PROVE  /\ \A x \in Statuses :
                LET j == [job EXCEPT !.status = x]
                IN  /\ j \in Job /\ j.session = job.session /\ j.complete = job.complete
                    /\ j.status = x /\ j.code = job.code
           /\ \A x \in Statuses, c \in Codes :
                LET j == [job EXCEPT !.status = x, !.code = c]
                IN  /\ j \in Job /\ j.session = job.session /\ j.complete = job.complete
                    /\ j.status = x /\ j.code = c
           /\ LET j == [job EXCEPT !.complete = TRUE]
              IN  /\ j \in Job /\ j.session = job.session /\ j.complete = TRUE
                  /\ j.status = job.status /\ j.code = job.code
BY DEF Job

LEMMA Underway ==
    ASSUME IInv, pc \notin {"saving", "off"}
    PROVE  /\ up /\ ~relinking /\ Place = pc
           /\ mem \in Job /\ mem.code # "file" /\ JobInv(mem)
           /\ pc \in Early => ~mem.complete
           /\ offset \in 0..Size /\ end \in 0..Size /\ tries \in 1..MAX_RETRIES
           /\ restarted \in BOOLEAN /\ aborted \in BOOLEAN /\ mine \in 0..MaxRequests
<1>1. /\ mem \in Job /\ offset \in 0..Size /\ end \in 0..Size /\ tries \in 1..MAX_RETRIES
      /\ restarted \in BOOLEAN /\ aborted \in BOOLEAN /\ mine \in 0..MaxRequests
  BY DEF IInv, TypeOK
<1>2. up /\ ~relinking /\ Place = pc /\ mem.code # "file" /\ (pc \in Early => ~mem.complete)
  BY DEF IInv, RunInv, Place
<1>3. JobInv(mem)
  BY DEF IInv, SnapInv
<1> QED BY <1>1, <1>2, <1>3

\* A landed job has its session, and the session its bytes; a step of the run keeps both.
LEMMA LandedMem ==
    ASSUME IInv, mem.complete
    PROVE  mem.session # NoSession /\ got[mem.session] = Size
BY DEF IInv, SnapInv, JobInv

LEMMA StartStep ==
    ASSUME IInv, Start
    PROVE  IInv'
<1>1. /\ up /\ pc = "off" /\ mem.status = "queued" /\ aborted' = FALSE
      /\ UNCHANGED <<locals, sessionVars, runRest>>
  BY DEF Start
<1>2. /\ offset' = offset /\ end' = end /\ tries' = tries /\ restarted' = restarted
      /\ mine' = mine /\ requests' = requests /\ up' = up /\ relinking' = relinking
      /\ last' = last /\ live' = live /\ got' = got
      /\ media' = media /\ entity' = entity /\ kind' = kind
  BY <1>1 DEF locals, sessionVars, runRest, serverVars
<1>3. /\ mem \in Job /\ offset \in 0..Size /\ end \in 0..Size /\ tries \in 1..MAX_RETRIES
      /\ restarted \in BOOLEAN /\ mine \in 0..MaxRequests
  BY DEF IInv, TypeOK
<1>4. mem.code # "file" /\ JobInv(mem)
  BY <1>1 DEF IInv, SnapInv, JobInv
<1>5. ~relinking
  BY <1>4 DEF IInv, RunInv
<1>6. CASE bytesLanded(mem)
  <2> DEFINE j == [mem EXCEPT !.status = "finalizing"]
  <2>1. RunSaves(j, "mark")
    BY <1>6 DEF Start
  <2>2. /\ j \in Job /\ j.session = mem.session /\ j.complete = mem.complete
        /\ j.status = "finalizing" /\ j.code = mem.code
    BY <1>3, JobChanges DEF Statuses, Busy
  <2> HIDE DEF j
  <2>3. mem.complete /\ mem.session # NoSession /\ got[mem.session] = Size
    BY <1>6, LandedMem DEF bytesLanded
  <2>4. "mark" \in RunSteps /\ "mark" \notin Early \cup Sending \cup Registering
    BY DEF RunSteps, Early, Sending, Registering
  <2>5. UNCHANGED <<sessionVars, requests, runRest>>
    BY <1>1, <1>2
  <2> QED BY <1>1, <1>2, <1>3, <1>4, <1>5, <2>1, <2>2, <2>3, <2>4, <2>5, RunGoesOn
<1>7. CASE ~bytesLanded(mem)
  <2>1. pc' = "verify" /\ mem' = mem /\ disk' = disk /\ chain' = chain /\ then' = then
    BY <1>7 DEF Start, jobVars
  <2>2. ~mem.complete
    BY <1>1, <1>4, <1>7 DEF bytesLanded, JobInv
  <2>3. UNCHANGED serverVars /\ UNCHANGED jobVars
    BY <1>2, <2>1 DEF serverVars, jobVars
  <2>4. ServerInv' /\ \A s \in Sessions : Known(s)' => Known(s)
    BY <1>2, <2>3, ServerAtRest DEF IInv
  <2>5. SnapInv' /\ RegInv' /\ ChainInv'
    BY <1>1, <1>2, <2>1, <2>3, <2>4, NothingSaved DEF Registering
  <2>6. TypeOK'
    BY <1>1, <1>2, <2>1 DEF IInv, TypeOK, RunSteps
  <2>7. RunInv'
    BY <1>1, <1>2, <1>4, <1>5, <2>1, <2>2
       DEF IInv, RunInv, Place, Early, Sending, Landed, Registering
  <2> QED BY <2>4, <2>5, <2>6, <2>7 DEF IInv
<1> QED BY <1>6, <1>7

LEMMA EnsureStep ==
    ASSUME IInv, pc \in {"verify", "ensure"}, Ensure
    PROVE  IInv'
<1>1. /\ offset' = offset /\ end' = end /\ tries' = tries /\ restarted' = restarted
      /\ mine' = mine /\ aborted' = aborted /\ UNCHANGED <<sessionVars, requests, runRest>>
      /\ got' = got
  BY DEF Ensure, locals, sessionVars
<1>2. /\ up /\ ~relinking
      /\ mem \in Job /\ mem.code # "file" /\ ~mem.complete
      /\ offset \in 0..Size /\ end \in 0..Size /\ tries \in 1..MAX_RETRIES
      /\ restarted \in BOOLEAN /\ aborted \in BOOLEAN /\ mine \in 0..MaxRequests
  BY Underway DEF Early
<1>3. CASE mem.session # NoSession
  <2> DEFINE j == [mem EXCEPT !.status = "uploading"]
  <2>1. RunSaves(j, "query")
    BY <1>3 DEF Ensure
  <2>2. /\ j \in Job /\ j.session = mem.session /\ j.complete = mem.complete
        /\ j.status = "uploading" /\ j.code = mem.code
    BY <1>2, JobChanges DEF Statuses, Busy
  <2> HIDE DEF j
  <2>3. "query" \in RunSteps /\ "query" \notin Sending \cup Landed \cup Registering
    BY DEF RunSteps, Waits, Sending, Landed, Registering
  <2> QED BY <1>1, <1>2, <1>3, <2>1, <2>2, <2>3, RunGoesOn
<1>4. CASE mem.session = NoSession
  <2> DEFINE j == [mem EXCEPT !.status = "initializing"]
  <2>1. RunSaves(j, "init")
    BY <1>4 DEF Ensure
  <2>2. /\ j \in Job /\ j.session = mem.session /\ j.complete = mem.complete
        /\ j.status = "initializing" /\ j.code = mem.code
    BY <1>2, JobChanges DEF Statuses, Busy
  <2> HIDE DEF j
  <2>3. "init" \in RunSteps /\ "init" \notin Sending \cup Landed \cup Registering \cup {"query"}
    BY DEF RunSteps, Waits, Sending, Landed, Registering
  <2> QED BY <1>1, <1>2, <1>4, <2>1, <2>2, <2>3, RunGoesOn
<1> QED BY <1>3, <1>4

LEMMA CodesTyped ==
    \A c \in {"file", "network", "encryption", "expired", "auth", "duplicate", "finalize"} : c \in Codes
BY DEF Codes, Recoverable

LEMMA VerifyStep ==
    ASSUME IInv, Verify \/ EnsureAgain
    PROVE  IInv'
<1>1. CASE EnsureAgain
  BY <1>1, EnsureStep DEF EnsureAgain
<1>2. CASE pc = "verify" /\ Ensure
  BY <1>2, EnsureStep
<1>3. ASSUME NEW code \in {"file", "network", "encryption"}, pc = "verify", Fails(code)
      PROVE  IInv'
  <2>1. ~mem.complete
    BY <1>3, Underway DEF Early
  <2> QED BY <1>3, <2>1, FailsStep, CodesTyped
<1> QED BY <1>1, <1>2, <1>3 DEF Verify

\* A run that only waits, counts attempts or moves on.
LEMMA RunMoves ==
    ASSUME IInv, pc \notin {"saving", "off"}, UNCHANGED <<jobVars, then, aborted, runRest>>,
           got' = got, last' = last, live' = live, ServerInv',
           \A s \in Sessions : Known(s)' => Known(s),
           requests' \in [1..MaxRequests -> [step : ServerSteps, session : Sessions \cup {NoSession}]],
           offset' \in 0..Size, end' \in 0..Size, tries' \in 1..MAX_RETRIES,
           restarted' \in BOOLEAN, mine' \in 0..MaxRequests,
           pc' \in RunSteps \ {"saving", "off"},
           pc' \in Early => pc \in Early,
           pc' = "init" => pc = "init",
           pc' \in Sending \cup Landed \cup {"query"} => pc \in Sending \cup Landed \cup {"query"},
           pc' \in Sending => pc \in Sending /\ offset' = offset,
           pc' \in Landed => pc \in Landed,
           pc' \in Registering => pc \in Registering,
           pc' = "answer" => mine' # 0
    PROVE  IInv'
<1>1. /\ mem' = mem /\ disk' = disk /\ chain' = chain /\ then' = then /\ aborted' = aborted
      /\ up' = up /\ relinking' = relinking
      /\ media' = media /\ entity' = entity /\ kind' = kind /\ UNCHANGED jobVars
  BY DEF jobVars, runRest, serverVars
<1>2. SnapInv' /\ RegInv' /\ ChainInv'
  BY <1>1, NothingSaved
<1>3. TypeOK'
  BY <1>1 DEF IInv, TypeOK
<1>4. up /\ ~relinking /\ mem.code # "file"
  BY Underway
<1>5. RunInv'
  BY <1>1, <1>4 DEF IInv, RunInv, Place
<1> QED BY <1>2, <1>3, <1>5 DEF IInv

\* A session is opened or given up only while nothing is registered or about to be.
LEMMA SessionChanges ==
    ASSUME IInv, NEW j \in Job, NEW next \in RunSteps, RunSaves(j, next),
           pc \notin {"saving", "off"}, ~mem.complete,
           j.code # "file", ~j.complete, j.status # "completed",
           got' = got, last' \in 0..MaxSessions, live' \in [Sessions -> BOOLEAN],
           UNCHANGED <<requests, runRest>>,
           offset' \in 0..Size, end' \in 0..Size, tries' \in 1..MAX_RETRIES,
           restarted' \in BOOLEAN, aborted' \in BOOLEAN, mine' \in 0..MaxRequests,
           next = "ensure"
    PROVE  IInv'
<1>1. /\ up' = up /\ relinking' = relinking /\ requests' = requests
      /\ media' = media /\ entity' = entity /\ kind' = kind /\ UNCHANGED serverVars
  BY DEF runRest, serverVars
<1>2. ServerInv' /\ \A s \in Sessions : Known(s)' => Known(s)
  BY <1>1, ServerAtRest DEF IInv
<1>3. JobInv(j)
  BY DEF JobInv
<1>4. \A s \in Sessions : Known(s)' => Known(s) /\ Kept(j, s)
  BY <1>2, NothingKnown DEF IInv
<1>5. /\ SnapInv' /\ RegInv' /\ ChainInv'
      /\ mem' = j /\ disk' = disk
      /\ chain' \in Seq([job : Job, who : {"run", "user", "other"}])
      /\ pc' = "saving" /\ then' = next
  BY <1>1, <1>3, <1>4, RunSavesKeeps
<1>6. TypeOK'
  BY <1>1, <1>5 DEF IInv, TypeOK, RunSteps
<1>7. up /\ ~relinking
  BY Underway
<1>8. RunInv'
  BY <1>1, <1>5, <1>7 DEF RunInv, Place, Early, Sending, Landed, Registering
<1> QED BY <1>2, <1>5, <1>6, <1>8 DEF IInv

LEMMA InitCallStep ==
    ASSUME IInv, InitCall
    PROVE  IInv'
<1>1. /\ pc = "init" /\ up /\ ~relinking /\ mem \in Job /\ mem.code # "file" /\ ~mem.complete
      /\ JobInv(mem) /\ mem.session = NoSession
      /\ offset \in 0..Size /\ end \in 0..Size /\ tries \in 1..MAX_RETRIES
      /\ restarted \in BOOLEAN /\ aborted \in BOOLEAN /\ mine \in 0..MaxRequests
  <2>1. pc = "init"
    BY DEF InitCall
  <2> QED BY <2>1, Underway DEF Early, IInv, RunInv
<1>2. ASSUME NEW code \in {"auth", "duplicate", "network", "finalize", "encryption"}, Fails(code)
      PROVE  IInv'
  BY <1>1, <1>2, FailsStep, CodesTyped
<1>3. CASE /\ ~aborted /\ last < MaxSessions /\ last' = last + 1
           /\ live' = [live EXCEPT ![last + 1] = TRUE]
           /\ RunSaves([mem EXCEPT !.code = "none", !.session = last + 1], "ensure")
           /\ tries' = 1
           /\ UNCHANGED <<got, offset, end, restarted, aborted, mine, requests, runRest>>
  <2> DEFINE j == [mem EXCEPT !.code = "none", !.session = last + 1]
  <2>1. last \in 0..MaxSessions /\ live \in [Sessions -> BOOLEAN]
    BY DEF IInv, TypeOK
  <2>2. last + 1 \in Sessions /\ last' \in 0..MaxSessions /\ live' \in [Sessions -> BOOLEAN]
    BY <1>3, <2>1, ConstantsTyped DEF Sessions
  <2>3. "none" \in Codes
    BY DEF Codes
  <2>4. /\ j \in Job /\ j.complete = mem.complete /\ j.status = mem.status /\ j.code = "none"
    <3>1. \A x \in Sessions :
            LET i == [mem EXCEPT !.code = "none", !.session = x]
            IN  /\ i \in Job /\ i.complete = mem.complete /\ i.status = mem.status
                /\ i.code = "none"
      BY <1>1, <2>3 DEF Job
    <3> QED BY <2>2, <3>1, Zenon
  <2>5. mem.status # "completed"
    <3>1. media \subseteq Sessions
      BY DEF IInv, TypeOK
    <3> QED BY <1>1, <3>1 DEF JobInv, Sessions, NoSession
  <2>6. RunSaves(j, "ensure")
    BY <1>3
  <2> HIDE DEF j
  <2>7. /\ UNCHANGED <<requests, runRest>> /\ got' = got
        /\ offset' = offset /\ end' = end /\ tries' = 1
        /\ restarted' = restarted /\ aborted' = aborted /\ mine' = mine
    BY <1>3
  <2>8. "ensure" \in RunSteps
    BY DEF RunSteps
  <2> QED BY <1>1, <2>2, <2>4, <2>5, <2>6, <2>7, <2>8, Zeros, SessionChanges
<1>4. CASE /\ TryAgain
           /\ UNCHANGED <<jobVars, pc, then, offset, end, restarted, aborted, mine, sessionVars,
                          requests, runRest>>
  <2>1. tries' \in 1..MAX_RETRIES
    BY <1>1, <1>4, ConstantsTyped DEF TryAgain
  <2>2. /\ pc' = pc /\ offset' = offset /\ end' = end /\ restarted' = restarted /\ mine' = mine
        /\ requests' = requests /\ got' = got /\ last' = last /\ live' = live
        /\ UNCHANGED <<jobVars, then, aborted, runRest>> /\ UNCHANGED serverVars
    BY <1>4 DEF sessionVars, runRest
  <2>3. ServerInv' /\ \A s \in Sessions : Known(s)' => Known(s)
    BY <2>2, ServerAtRest DEF IInv
  <2>4. requests' \in [1..MaxRequests -> [step : ServerSteps, session : Sessions \cup {NoSession}]]
    BY <2>2 DEF IInv, TypeOK
  <2>5. /\ "init" \in RunSteps \ {"saving", "off"}
        /\ "init" \notin Sending \cup Landed \cup {"query"} \cup Registering
    BY DEF RunSteps, Waits, Sending, Landed, Registering
  <2> QED BY <1>1, <2>1, <2>2, <2>3, <2>4, <2>5, RunMoves
<1> QED BY <1>2, <1>3, <1>4 DEF InitCall

LEMMA ExpiredStep ==
    ASSUME IInv, pc \in {"query", "put", "requery"}, Expired
    PROVE  IInv'
<1>1. /\ pc \notin {"saving", "off"} /\ mem \in Job /\ ~mem.complete
      /\ aborted \in BOOLEAN /\ mine \in 0..MaxRequests
  BY Underway DEF Early, Sending
<1>2. CASE restarted
  BY <1>1, <1>2, FailsStep, CodesTyped DEF Expired
<1>3. CASE ~restarted
  <2> DEFINE j == [status |-> "initializing", code |-> "expired",
                   session |-> NoSession, complete |-> FALSE]
  <2>1. RunSaves(j, "ensure") /\ restarted' = TRUE
    BY <1>3 DEF Expired
  <2>2. /\ j \in Job /\ j.code # "file" /\ ~j.complete /\ j.status # "completed"
    BY DEF Job, Codes, Statuses, Busy
  <2> HIDE DEF j
  <2>3. /\ UNCHANGED <<requests, runRest>> /\ got' = got /\ last' = last /\ live' = live
        /\ offset' = 0 /\ end' = 0 /\ tries' = 1 /\ aborted' = aborted /\ mine' = mine
    BY <1>3 DEF Expired, UploadEnds, sessionVars
  <2>4. last \in 0..MaxSessions /\ live \in [Sessions -> BOOLEAN]
    BY DEF IInv, TypeOK
  <2>5. "ensure" \in RunSteps
    BY DEF RunSteps
  <2> QED BY <1>1, <2>1, <2>2, <2>3, <2>4, <2>5, Zeros, SessionChanges
<1> QED BY <1>2, <1>3

LEMMA ConfirmedStep ==
    ASSUME IInv, pc \in {"query", "put", "requery"}, NEW next \in {"next", "retry"}, Confirmed(next)
    PROVE  IInv'
<1>1. /\ up /\ ~relinking /\ mem \in Job /\ mem.code # "file" /\ ~mem.complete /\ JobInv(mem)
      /\ pc \notin {"saving", "off"} /\ Place = pc
      /\ end \in 0..Size /\ tries \in 1..MAX_RETRIES
      /\ restarted \in BOOLEAN /\ aborted \in BOOLEAN /\ mine \in 0..MaxRequests
  BY Underway DEF Early, Sending
<1>2. mem.session # NoSession
  BY <1>1 DEF IInv, RunInv, Sending
<1>3. mem.session \in Sessions /\ got[mem.session] \in 0..Size
  BY <1>1, <1>2 DEF Job, IInv, TypeOK
<1>4. /\ offset' = got[mem.session] /\ RunSaves(mem, next)
      /\ UNCHANGED <<sessionVars, requests, runRest>>
      /\ restarted' = restarted /\ aborted' = aborted /\ mine' = mine
      /\ (end' = 0 /\ tries' = 1) \/ (end' = end /\ tries' = tries)
  BY DEF Confirmed, Committed
<1>5. end' \in 0..Size /\ tries' \in 1..MAX_RETRIES
  BY <1>1, <1>4, Zeros
<1>6. mem.status = "completed" => mem.session \in media \cap entity
  BY <1>1 DEF JobInv
<1>7. /\ next \in RunSteps /\ next \notin {"saving", "answer"} /\ next # "init"
      /\ next \notin Landed /\ next \notin Registering /\ next # "finalize"
  BY DEF RunSteps, Landed, Registering
<1>8. got[mem.session] <= got[mem.session]
  BY <1>3
<1> QED BY <1>1, <1>2, <1>3, <1>4, <1>5, <1>6, <1>7, <1>8, RunGoesOn

LEMMA QueryStep ==
    ASSUME IInv, Query
    PROVE  IInv'
<1>1. pc = "query"
  BY DEF Query
<1>2. CASE Fails("network")
  BY <1>1, <1>2, FailsStep, CodesTyped
<1> QED BY <1>1, <1>2, ExpiredStep, ConfirmedStep DEF Query

LEMMA NextChunkStep ==
    ASSUME IInv, NextChunk
    PROVE  IInv'
<1>1. /\ pc = "next" /\ up /\ ~relinking /\ Place = pc
      /\ mem \in Job /\ mem.code # "file" /\ ~mem.complete
      /\ offset \in 0..Size /\ end \in 0..Size /\ tries \in 1..MAX_RETRIES
      /\ restarted \in BOOLEAN /\ aborted \in BOOLEAN /\ mine \in 0..MaxRequests
  <2>1. pc = "next"
    BY DEF NextChunk
  <2> QED BY <2>1, Underway DEF Early, Sending
<1>2. mem.session # NoSession /\ offset <= got[mem.session]
  BY <1>1 DEF IInv, RunInv, Sending
<1>3. CASE offset = Size
  <2> DEFINE j == [mem EXCEPT !.status = "finalizing"]
  <2>1. /\ RunSaves(j, "mark") /\ offset' = 0 /\ end' = 0 /\ tries' = 1
        /\ restarted' = restarted /\ aborted' = aborted /\ mine' = mine
        /\ UNCHANGED <<sessionVars, requests, runRest>>
    BY <1>3 DEF NextChunk, BeginFinalize, UploadEnds
  <2>2. /\ j \in Job /\ j.session = mem.session /\ j.complete = mem.complete
        /\ j.status = "finalizing" /\ j.code = mem.code
    BY <1>1, JobChanges DEF Statuses, Busy
  <2> HIDE DEF j
  <2>3. mem.session \in Sessions /\ got[mem.session] \in 0..Size
    BY <1>1, <1>2 DEF Job, IInv, TypeOK
  <2>4. got[mem.session] = Size
    BY <1>2, <1>3, <2>3, ConstantsTyped
  <2>5. "mark" \in RunSteps /\ "mark" \notin Early \cup Sending \cup Registering
    BY DEF RunSteps, Early, Sending, Registering
  <2> QED BY <1>1, <1>2, <2>1, <2>2, <2>4, <2>5, Zeros, RunGoesOn
<1>4. CASE offset # Size
  <2>1. /\ end' = ChunkEnd /\ tries' = 1 /\ pc' = "put"
        /\ UNCHANGED <<jobVars, then, aborted, runRest>>
        /\ offset' = offset /\ restarted' = restarted /\ mine' = mine /\ requests' = requests
        /\ got' = got /\ last' = last /\ live' = live /\ UNCHANGED serverVars
    BY <1>4 DEF NextChunk, sessionVars, runRest
  <2>2. end' \in 0..Size
    BY <1>1, <2>1, ConstantsTyped DEF ChunkEnd
  <2>3. ServerInv' /\ \A s \in Sessions : Known(s)' => Known(s)
    BY <2>1, ServerAtRest DEF IInv
  <2>4. requests' \in [1..MaxRequests -> [step : ServerSteps, session : Sessions \cup {NoSession}]]
    BY <2>1 DEF IInv, TypeOK
  <2>5. "put" \in RunSteps \ {"saving", "off"}
    BY DEF RunSteps, Waits
  <2>6. "put" \notin Landed \cup Registering /\ "put" # "init" /\ "next" \in Early \cap Sending
    BY DEF Landed, Registering, Early, Sending
  <2> QED BY <1>1, <2>1, <2>2, <2>3, <2>4, <2>5, <2>6, Zeros, RunMoves
<1> QED BY <1>3, <1>4

\* From sending to sending, at the same offset.
LEMMA SendingMoves ==
    ASSUME IInv, pc \in {"put", "requery", "retry"}, pc' \in {"put", "requery", "retry"},
           UNCHANGED <<jobVars, then, offset, end, restarted, aborted, mine, sessionVars,
                       requests, runRest>>,
           tries' \in 1..MAX_RETRIES
    PROVE  IInv'
<1>1. /\ UNCHANGED <<jobVars, then, aborted, runRest>>
      /\ offset' = offset /\ end' = end /\ restarted' = restarted /\ mine' = mine
      /\ requests' = requests
      /\ got' = got /\ last' = last /\ live' = live /\ UNCHANGED serverVars
  BY DEF sessionVars, runRest
<1>2. ServerInv' /\ \A s \in Sessions : Known(s)' => Known(s)
  BY <1>1, ServerAtRest DEF IInv
<1>3. /\ requests' \in [1..MaxRequests -> [step : ServerSteps, session : Sessions \cup {NoSession}]]
      /\ offset' \in 0..Size /\ end' \in 0..Size /\ restarted' \in BOOLEAN
      /\ mine' \in 0..MaxRequests
  BY <1>1 DEF IInv, TypeOK
<1>4. /\ pc' \in RunSteps \ {"saving", "off"}
      /\ pc' \notin Landed \cup Registering /\ pc' # "init" /\ pc' # "answer"
      /\ pc \in Early \cap Sending
  BY DEF RunSteps, Waits, Landed, Registering, Early, Sending
<1> QED BY <1>1, <1>2, <1>3, <1>4, RunMoves

LEMMA PutStep ==
    ASSUME IInv, PutChunk \/ Requery \/ Retry
    PROVE  IInv'
<1>1. pc \in {"put", "requery", "retry"} /\ tries \in 1..MAX_RETRIES
  BY DEF PutChunk, Requery, Retry, IInv, TypeOK
<1>2. CASE Fails("network")
  BY <1>1, <1>2, FailsStep, CodesTyped
<1>3. CASE pc # "retry" /\ Expired
  BY <1>1, <1>3, ExpiredStep
<1>4. ASSUME pc # "retry", NEW next \in {"next", "retry"}, Confirmed(next)
      PROVE  IInv'
  BY <1>1, <1>4, ConfirmedStep
<1>5. CASE /\ pc' \in {"requery", "retry"} /\ tries' = tries
           /\ UNCHANGED <<jobVars, then, offset, end, restarted, aborted, mine, sessionVars,
                          requests, runRest>>
  BY <1>1, <1>5, SendingMoves
<1>6. CASE /\ pc' = "put" /\ TryAgain
           /\ UNCHANGED <<jobVars, then, offset, end, restarted, aborted, mine, sessionVars,
                          requests, runRest>>
  <2>1. tries' \in 1..MAX_RETRIES
    BY <1>1, <1>6, ConstantsTyped DEF TryAgain
  <2> QED BY <1>1, <1>6, <2>1, SendingMoves
<1>7. CASE PutChunk
  BY <1>2, <1>3, <1>4, <1>5, <1>7 DEF PutChunk
<1>8. CASE Requery
  <2>1. (IF got[mem.session] >= end THEN "next" ELSE "retry") \in {"next", "retry"}
    OBVIOUS
  <2> QED BY <1>3, <1>4, <1>5, <1>8, <2>1 DEF Requery
<1>9. CASE Retry
  BY <1>2, <1>6, <1>9 DEF Retry
<1> QED BY <1>7, <1>8, <1>9

LEMMA MarkCompleteStep ==
    ASSUME IInv, MarkComplete
    PROVE  IInv'
<1>1. /\ pc = "mark" /\ up /\ ~relinking /\ Place = pc
      /\ mem \in Job /\ mem.code # "file" /\ JobInv(mem)
      /\ offset \in 0..Size /\ end \in 0..Size
      /\ restarted \in BOOLEAN /\ aborted \in BOOLEAN /\ mine \in 0..MaxRequests
  <2>1. pc = "mark"
    BY DEF MarkComplete
  <2> QED BY <2>1, Underway
<1>2. mem.session # NoSession /\ got[mem.session] = Size
  BY <1>1 DEF IInv, RunInv, Landed
<1> DEFINE j == [mem EXCEPT !.complete = TRUE]
<1>3. /\ RunSaves(j, "finalize") /\ tries' = 1
      /\ offset' = offset /\ end' = end
      /\ restarted' = restarted /\ aborted' = aborted /\ mine' = mine
      /\ UNCHANGED <<sessionVars, requests, runRest>>
  BY DEF MarkComplete
<1>4. /\ j \in Job /\ j.session = mem.session /\ j.complete
      /\ j.status = mem.status /\ j.code = mem.code
  BY <1>1, JobChanges
<1> HIDE DEF j
<1>5. j.status = "completed" => j.session \in media \cap entity
  BY <1>1, <1>4 DEF JobInv
<1>6. "finalize" \in RunSteps /\ "finalize" \notin Early \cup Sending
  BY DEF RunSteps, Early, Sending
<1> QED BY <1>1, <1>2, <1>3, <1>4, <1>5, <1>6, Zeros, RunGoesOn

\* A first registration of a session: every copy of the job keeps it as complete.
LEMMA CallFinalizeStep ==
    ASSUME IInv, CallFinalize
    PROVE  IInv'
<1>1. /\ pc = "finalize" /\ up /\ ~relinking /\ Place = pc
      /\ mem \in Job /\ mem.code # "file"
  <2>1. pc = "finalize"
    BY DEF CallFinalize
  <2> QED BY <2>1, Underway
<1>2. CASE Fails("network")
  BY <1>1, <1>2, FailsStep, CodesTyped
<1>3. ASSUME NEW i \in 1..MaxRequests, requests[i] = Free,
             requests' = [requests EXCEPT ![i] = [step |-> "check", session |-> mem.session]],
             mine' = i, pc' = "answer",
             UNCHANGED <<jobVars, then, offset, end, tries, restarted, aborted, sessionVars, runRest>>
      PROVE  IInv'
  <2>1. /\ mem' = mem /\ disk' = disk /\ chain' = chain /\ then' = then
        /\ offset' = offset /\ end' = end /\ tries' = tries /\ restarted' = restarted
        /\ aborted' = aborted /\ last' = last /\ live' = live /\ got' = got
        /\ up' = up /\ relinking' = relinking
        /\ media' = media /\ entity' = entity /\ kind' = kind
    BY <1>3 DEF jobVars, sessionVars, runRest, serverVars
  <2>2. /\ mem.session # NoSession /\ got[mem.session] = Size /\ mem.complete
        /\ mem.session \in Sessions
    BY <1>1 DEF IInv, RunInv, Landed, Registering, Job
  <2>3. [step |-> "check", session |-> mem.session]
          \in [step : ServerSteps, session : Sessions \cup {NoSession}]
    BY <2>2 DEF ServerSteps
  <2>4. requests \in [1..MaxRequests -> [step : ServerSteps, session : Sessions \cup {NoSession}]]
    BY DEF IInv, TypeOK
  <2>5. requests' \in [1..MaxRequests -> [step : ServerSteps, session : Sessions \cup {NoSession}]]
    BY <1>3, <2>3, <2>4
  <2>6. /\ \A k \in 1..MaxRequests : k # i => requests'[k] = requests[k]
        /\ requests'[i].step = "check" /\ requests'[i].session = mem.session
    BY <1>3, <2>4
  <2>7. i \in 0..MaxRequests /\ i # 0 /\ "answer" \in RunSteps
    BY ConstantsTyped DEF RunSteps, Waits
  <2>8. TypeOK'
    BY <1>3, <2>1, <2>5, <2>7 DEF IInv, TypeOK
  <2>9. RunInv'
    BY <1>1, <1>3, <2>1, <2>2, <2>7
       DEF IInv, RunInv, Place, Early, Sending, Landed, Registering
  <2>10. SnapInv'
    BY <2>1 DEF IInv, SnapInv, JobInv
  <2>11. Noted(disk) /\ \A k \in 1..Len(chain) : Noted(chain[k].job)
    BY <1>1 DEF IInv, ChainInv, Registering
  <2>12. ChainInv'
    BY <1>1, <1>3, <2>1, <2>11 DEF IInv, ChainInv, Noted
  <2>13. ServerInv'
    BY <2>1, <2>2, <2>6 DEF IInv, ServerInv
  <2>14. RegInv'
    <3> SUFFICES ASSUME NEW s \in Sessions, Known(s)'
                 PROVE  (Kept(mem, s) /\ Kept(disk, s)
                         /\ \A k \in 1..Len(chain) : Kept(chain[k].job, s))'
      BY DEF RegInv, Sessions
    <3>1. Known(s) \/ s = mem.session
      BY <2>1, <2>6 DEF Known
    <3>2. CASE Known(s)
      BY <2>1, <3>2 DEF IInv, RegInv, Kept
    <3>3. CASE s = mem.session
      BY <2>1, <2>2, <2>11, <3>3 DEF Kept, Noted
    <3> QED BY <3>1, <3>2, <3>3
  <2> QED BY <2>8, <2>9, <2>10, <2>12, <2>13, <2>14 DEF IInv
<1> QED BY <1>2, <1>3 DEF CallFinalize

LEMMA AnsweredStep ==
    ASSUME IInv, Answered
    PROVE  IInv'
<1>1. /\ pc = "answer" /\ up /\ ~relinking /\ Place = pc
      /\ mem \in Job /\ mem.code # "file" /\ JobInv(mem)
      /\ tries \in 1..MAX_RETRIES /\ mine \in 0..MaxRequests
  <2>1. pc = "answer"
    BY DEF Answered
  <2> QED BY <2>1, Underway
<1>2. /\ mem.session # NoSession /\ got[mem.session] = Size /\ mem.complete
      /\ mine # 0 /\ mem.session \in Sessions
  BY <1>1 DEF IInv, RunInv, Landed, Registering, Job
<1>3. ASSUME NEW code \in {"duplicate", "finalize", "auth", "network"}, Fails(code)
      PROVE  IInv'
  BY <1>1, <1>3, FailsStep, CodesTyped
<1>4. CASE /\ requests[mine].step = "ok"
           /\ RunSaves([mem EXCEPT !.status = "completed", !.code = "none"], "off")
           /\ RunEnds
           /\ UNCHANGED <<aborted, sessionVars, runRest>>
  <2> DEFINE j == [mem EXCEPT !.status = "completed", !.code = "none"]
  <2>1. RunSaves(j, "off")
    BY <1>4
  <2>2. "completed" \in Statuses /\ "none" \in Codes
    BY DEF Statuses, TERMINAL, Codes
  <2>3. /\ j \in Job /\ j.session = mem.session /\ j.complete = mem.complete
        /\ j.status = "completed" /\ j.code = "none"
    BY <1>1, <2>2 DEF Job
  <2> HIDE DEF j
  <2>4. mine \in 1..MaxRequests
    BY <1>1, <1>2, ConstantsTyped
  <2>5. requests[mine].session = mem.session
    <3>1. requests[mine].session \in Sessions
      BY <1>4, <2>4 DEF IInv, ServerInv, TypeOK
    <3>2. Known(requests[mine].session)
      BY <1>4, <2>4 DEF Known
    <3> QED BY <3>1, <3>2 DEF IInv, RegInv, Kept
  <2>6. j.session \in media \cap entity
    BY <1>4, <2>3, <2>4, <2>5 DEF IInv, ServerInv
  <2>7. JobInv(j)
    BY <1>2, <2>3, <2>6 DEF JobInv
  <2>8. /\ LeaveRequest /\ aborted' = aborted /\ UNCHANGED serverVars
        /\ up' = up /\ relinking' = relinking /\ last' = last /\ live' = live /\ got' = got
        /\ offset' = 0 /\ end' = 0 /\ tries' = 1 /\ restarted' = FALSE
        /\ media' = media /\ entity' = entity /\ kind' = kind
    BY <1>4 DEF RunEnds, UploadEnds, sessionVars, runRest, serverVars
  <2>9. /\ mine' \in 0..MaxRequests
        /\ requests' \in [1..MaxRequests -> [step : ServerSteps, session : Sessions \cup {NoSession}]]
        /\ ServerInv'
        /\ \A s \in Sessions : Known(s)' => Known(s)
    BY <2>8, Requests DEF IInv
  <2>10. \A s \in Sessions : Known(s)' => Known(s) /\ Kept(j, s)
    BY <2>9, <2>3, SameSession DEF IInv
  <2>11. /\ SnapInv' /\ RegInv' /\ ChainInv'
         /\ mem' = j /\ disk' = disk
         /\ chain' \in Seq([job : Job, who : {"run", "user", "other"}])
         /\ pc' = "saving" /\ then' = "off"
    BY <1>1, <2>1, <2>3, <2>7, <2>8, <2>10, Zeros, RunSavesKeeps
  <2>12. TypeOK'
    BY <2>3, <2>8, <2>9, <2>11, Zeros DEF IInv, TypeOK
  <2>13. RunInv'
    BY <1>1, <2>8, <2>11 DEF RunInv, Place, Early, Sending, Landed, Registering
  <2> QED BY <2>9, <2>11, <2>12, <2>13 DEF IInv
<1>5. CASE /\ pc' = "finalize" /\ TryAgain /\ LeaveRequest
           /\ UNCHANGED <<jobVars, then, offset, end, restarted, aborted, sessionVars, runRest>>
  <2>1. tries' \in 1..MAX_RETRIES
    BY <1>1, <1>5, ConstantsTyped DEF TryAgain
  <2>2. /\ UNCHANGED <<jobVars, then, aborted, runRest>> /\ UNCHANGED serverVars
        /\ offset' = offset /\ end' = end /\ restarted' = restarted
        /\ got' = got /\ last' = last /\ live' = live
    BY <1>5 DEF sessionVars, runRest
  <2>3. /\ mine' \in 0..MaxRequests
        /\ requests' \in [1..MaxRequests -> [step : ServerSteps, session : Sessions \cup {NoSession}]]
        /\ ServerInv'
        /\ \A s \in Sessions : Known(s)' => Known(s)
    BY <1>5, <2>2, Requests DEF IInv
  <2>4. offset' \in 0..Size /\ end' \in 0..Size /\ restarted' \in BOOLEAN
    BY <2>2 DEF IInv, TypeOK
  <2>5. /\ "finalize" \in RunSteps \ {"saving", "off"}
        /\ "finalize" \notin Early \cup Sending /\ "answer" \in Landed \cap Registering
    BY DEF RunSteps, Early, Sending, Landed, Registering
  <2> QED BY <1>1, <1>5, <2>1, <2>2, <2>3, <2>4, <2>5, RunMoves
<1> QED BY <1>3, <1>4, <1>5 DEF Answered

-----------------------------------------------------------------------------
(* The disk, the store and the server.                                     *)

LEMMA PersistStep ==
    ASSUME IInv, Persist
    PROVE  IInv'
<1>1. /\ up /\ chain # <<>> /\ disk' = Head(chain).job /\ chain' = Tail(chain)
      /\ mem' = mem /\ up' = up /\ relinking' = relinking
      /\ last' = last /\ live' = live /\ got' = got
      /\ media' = media /\ entity' = entity /\ kind' = kind /\ UNCHANGED serverVars
  BY DEF Persist, sessionVars, serverVars
<1>2. /\ chain' \in Seq(Entry)
      /\ Len(chain) \in Nat /\ Len(chain) >= 1
      /\ Len(chain') = Len(chain) - 1
      /\ \A k \in 1..Len(chain') : chain'[k] = chain[k + 1]
      /\ \A k \in 1..Len(chain) : chain[k] \in Entry
      /\ Head(chain) = chain[1] /\ disk' = chain[1].job
  <2>1. TypeOK
    BY DEF IInv
  <2> QED BY <1>1, <2>1, PersistEffect, Zenon
<1>3. /\ 1 \in 1..Len(chain)
      /\ \A k \in 1..Len(chain') : k + 1 \in 1..Len(chain) /\ chain'[k] = chain[k + 1]
  BY <1>2
<1>4. disk' \in Job
  BY <1>2, <1>3 DEF Entry
<1>5. SnapInv'
  BY <1>1, <1>2, <1>3 DEF IInv, SnapInv, JobInv
<1>6. \A s \in Sessions : Known(s) =>
        Kept(mem, s) /\ Kept(chain[1].job, s) /\ \A k \in 1..Len(chain') : Kept(chain'[k].job, s)
  BY <1>3 DEF IInv, RegInv
<1>7. CASE Head(chain).who = "run" /\ pc' = then /\ then' = "off" /\ UNCHANGED <<aborted, locals>>
  <2>1. /\ offset' = offset /\ end' = end /\ tries' = tries /\ restarted' = restarted
        /\ mine' = mine /\ requests' = requests /\ aborted' = aborted
    BY <1>7 DEF locals
  <2>2. chain[1].who = "run"
    BY <1>2, <1>7
  <2>3. pc = "saving" /\ then \notin {"saving", "answer"} /\ Place = then /\ Place' = then
    BY <1>3, <1>7, <2>2 DEF IInv, ChainInv, RunInv, Place
  <2>4. ServerInv' /\ \A s \in Sessions : Known(s)' => Known(s)
    BY <1>1, <2>1, ServerAtRest DEF IInv
  <2>5. RegInv'
    BY <1>1, <1>2, <1>6, <2>4 DEF RegInv, Kept, Sessions
  <2>6. TypeOK'
    BY <1>1, <1>2, <1>4, <1>7, <2>1, Zeros DEF IInv, TypeOK, Entry, Who
  <2>7. RunInv'
    BY <1>1, <1>7, <2>1, <2>3 DEF IInv, RunInv
  <2>8. ChainInv'
    <3>1. \A k \in 1..Len(chain') : chain'[k].who # "run"
      BY <1>3, <2>2 DEF IInv, ChainInv
    <3>2. ASSUME then \in Registering
          PROVE  Noted(disk)' /\ \A k \in 1..Len(chain') : Noted(chain[k].job)'
      <4>1. then = "finalize"
        BY <3>2, <2>3 DEF Registering
      <4>2. \A l \in 1..Len(chain) : Noted(chain[l].job)
        BY <1>3, <2>2, <2>3, <4>1 DEF IInv, ChainInv
      <4> QED BY <1>1, <1>2, <1>3, <4>2 DEF Noted
    <3> QED BY <1>7, <3>1, <3>2 DEF ChainInv
  <2> QED BY <1>5, <2>4, <2>5, <2>6, <2>7, <2>8 DEF IInv
<1>8. CASE Head(chain).who # "run"
  <2> DEFINE stop == /\ pc \in Waits /\ pc' = "off" /\ then' = then /\ RunEnds
                     /\ aborted' \in BOOLEAN
             abort == pc' = pc /\ then' = then /\ UNCHANGED locals /\ aborted' \in BOOLEAN
  <2>1. stop \/ abort
    <3>1. aborted \in BOOLEAN
      BY DEF IInv, TypeOK
    <3> QED BY <1>8, <3>1 DEF Persist, Abort
  <2>2. \A k \in 1..Len(chain') : Noted(chain[k + 1].job) => Noted(chain[k].job)'
    BY <1>1, <1>3 DEF Noted
  <2>3. CASE abort
    <3>1. /\ offset' = offset /\ end' = end /\ tries' = tries /\ restarted' = restarted
          /\ mine' = mine /\ requests' = requests /\ pc' = pc /\ then' = then
          /\ aborted' \in BOOLEAN
      BY <2>3 DEF locals
    <3>2. ServerInv' /\ \A s \in Sessions : Known(s)' => Known(s)
      BY <1>1, <3>1, ServerAtRest DEF IInv
    <3>3. RegInv'
      BY <1>1, <1>2, <1>6, <3>2 DEF RegInv, Kept, Sessions
    <3>4. TypeOK'
      BY <1>1, <1>2, <1>4, <3>1 DEF IInv, TypeOK, Entry, Who
    <3>5. RunInv'
      BY <1>1, <3>1 DEF IInv, RunInv, Place
    <3>6. ChainInv'
      <4>1. /\ \A k \in 1..Len(chain') : chain'[k].who = "run" => pc' = "saving"
            /\ \A k, l \in 1..Len(chain') : chain'[k].who = "run" /\ chain'[l].who = "run" => k = l
        <5>1. \A k, l \in 1..Len(chain') : k \in Int /\ l \in Int /\ (k + 1 = l + 1 => k = l)
          OBVIOUS
        <5> QED BY <1>3, <3>1, <5>1 DEF IInv, ChainInv
      <4>2. ASSUME pc' = "saving", then' = "finalize", NEW k \in 1..Len(chain'), NEW l \in 1..Len(chain'),
                   chain'[k].who = "run", k <= l
            PROVE  Noted(chain[l].job)'
        <5>1. k + 1 <= l + 1
          BY <4>2
        <5>2. Noted(chain[l + 1].job)
          BY <1>3, <3>1, <4>2, <5>1 DEF IInv, ChainInv
        <5> QED BY <1>3, <2>2, <5>2
      <4>3. ASSUME pc' \in Registering
            PROVE  Noted(disk)' /\ \A k \in 1..Len(chain') : Noted(chain[k].job)'
        <5>1. \A k \in 1..Len(chain) : Noted(chain[k].job)
          BY <3>1, <4>3 DEF IInv, ChainInv
        <5> QED BY <1>1, <1>2, <1>3, <5>1 DEF Noted
      <4> QED BY <4>1, <4>2, <4>3 DEF ChainInv
    <3> QED BY <1>5, <3>2, <3>3, <3>4, <3>5, <3>6 DEF IInv
  <2>4. CASE stop
    <3>1. /\ pc \in Waits /\ pc # "saving" /\ pc' = "off" /\ then' = then /\ aborted' \in BOOLEAN
          /\ offset' = 0 /\ end' = 0 /\ tries' = 1 /\ restarted' = FALSE /\ LeaveRequest
      BY <2>4 DEF RunEnds, UploadEnds, Waits
    <3>2. /\ mine' \in 0..MaxRequests
          /\ requests' \in [1..MaxRequests -> [step : ServerSteps, session : Sessions \cup {NoSession}]]
          /\ ServerInv'
          /\ \A s \in Sessions : Known(s)' => Known(s)
      BY <1>1, <3>1, Requests DEF IInv
    <3>3. RegInv'
      BY <1>1, <1>2, <1>6, <3>2 DEF RegInv, Kept, Sessions
    <3>4. TypeOK'
      BY <1>1, <1>2, <1>4, <3>1, <3>2, Zeros DEF IInv, TypeOK, Entry, Who
    <3>5. RunInv'
      BY <1>1, <3>1 DEF IInv, RunInv, Place, Early, Sending, Landed, Registering
    <3>6. ChainInv'
      BY <1>3, <3>1 DEF IInv, ChainInv, Registering
    <3> QED BY <1>5, <3>2, <3>3, <3>4, <3>5, <3>6 DEF IInv
  <2> QED BY <2>1, <2>3, <2>4
<1> QED BY <1>7, <1>8 DEF Persist

\* Sessions only gain bytes, rows are only added.
LEMMA CopiesStay ==
    ASSUME IInv, UNCHANGED jobVars, \A s \in Sessions : got[s] = Size => got'[s] = Size,
           media \subseteq media', entity \subseteq entity', mem \in Job, disk \in Job,
           \A k \in 1..Len(chain) : chain[k].job \in Job
    PROVE  SnapInv'
<1>1. mem' = mem /\ disk' = disk /\ chain' = chain
  BY DEF jobVars
<1>2. ASSUME NEW j \in Job, JobInv(j)
      PROVE  JobInv(j)'
  <2>1. j.session \in Sessions \cup {NoSession}
    BY DEF Job
  <2> QED BY <1>2, <2>1 DEF JobInv
<1>3. JobInv(mem) /\ JobInv(disk) /\ \A k \in 1..Len(chain) : JobInv(chain[k].job)
  BY DEF IInv, SnapInv
<1>4. JobInv(mem)'
  BY <1>1, <1>2, <1>3 DEF JobInv
<1>5. JobInv(disk)'
  BY <1>1, <1>2, <1>3 DEF JobInv
<1>6. \A k \in 1..Len(chain) : JobInv(chain[k].job)'
  BY <1>1, <1>2, <1>3 DEF JobInv
<1> QED BY <1>1, <1>4, <1>5, <1>6 DEF SnapInv

LEMMA CopiesTyped ==
    ASSUME IInv
    PROVE  mem \in Job /\ disk \in Job /\ \A k \in 1..Len(chain) : chain[k].job \in Job
<1>1. chain \in Seq(Entry) /\ mem \in Job /\ disk \in Job
  BY DEF IInv, TypeOK, Entry, Who
<1>2. \A k \in 1..Len(chain) : chain[k] \in Entry
  <2> HIDE DEF Entry
  <2> QED BY <1>1, ElementOfSeq
<1> QED BY <1>1, <1>2 DEF Entry

LEMMA ArriveStep ==
    ASSUME IInv, Arrive
    PROVE  IInv'
<1>1. /\ pc = "put" /\ UNCHANGED jobVars /\ mem' = mem /\ disk' = disk /\ chain' = chain
      /\ pc' = pc /\ then' = then /\ offset' = offset /\ end' = end /\ tries' = tries
      /\ restarted' = restarted /\ aborted' = aborted /\ mine' = mine
      /\ up' = up /\ relinking' = relinking /\ last' = last /\ live' = live
      /\ media' = media /\ entity' = entity /\ kind' = kind /\ requests' = requests
      /\ UNCHANGED serverVars
  BY DEF Arrive, jobVars, runVars, serverVars
<1>2. mem.session # NoSession /\ offset <= got[mem.session]
  BY <1>1 DEF IInv, RunInv, Place, Sending
<1>3. mem.session \in Sessions /\ got \in [Sessions -> 0..Size] /\ end \in 0..Size
      /\ offset \in 0..Size
  BY <1>2 DEF IInv, TypeOK, Job
<1>4. PICK n \in got[mem.session] + 1 .. end : got' = [got EXCEPT ![mem.session] = n]
  BY DEF Arrive
<1>5. n \in 0..Size /\ got[mem.session] < n /\ got[mem.session] < Size /\ offset <= n
  BY <1>2, <1>3, <1>4, ConstantsTyped
<1>6. /\ got' \in [Sessions -> 0..Size] /\ got'[mem.session] = n
      /\ \A s \in Sessions : got[s] = Size => got'[s] = Size
  BY <1>3, <1>4, <1>5
<1>7. SnapInv'
  BY <1>1, <1>6, CopiesTyped, CopiesStay
<1>8. ServerInv' /\ \A s \in Sessions : Known(s)' => Known(s)
  BY <1>1, ServerAtRest DEF IInv
<1>9. RegInv'
  BY <1>1, <1>8 DEF IInv, RegInv, Kept, Sessions
<1>10. ChainInv'
  BY <1>1 DEF IInv, ChainInv, Noted
<1>11. TypeOK'
  BY <1>1, <1>6 DEF IInv, TypeOK
<1>12. RunInv'
  BY <1>1, <1>5, <1>6 DEF IInv, RunInv, Place, Sending, Landed, Registering
<1> QED BY <1>7, <1>8, <1>9, <1>10, <1>11, <1>12 DEF IInv

LEMMA SessionEndsStep ==
    ASSUME IInv, NEW s \in Sessions, SessionEnds(s)
    PROVE  IInv'
<1>1. /\ UNCHANGED jobVars /\ mem' = mem /\ disk' = disk /\ chain' = chain
      /\ pc' = pc /\ then' = then /\ offset' = offset /\ end' = end /\ tries' = tries
      /\ restarted' = restarted /\ aborted' = aborted /\ mine' = mine
      /\ up' = up /\ relinking' = relinking /\ last' = last /\ got' = got
      /\ media' = media /\ entity' = entity /\ kind' = kind /\ requests' = requests
      /\ UNCHANGED serverVars /\ live' = [live EXCEPT ![s] = FALSE]
  BY DEF SessionEnds, jobVars, runVars, serverVars
<1>2. TypeOK'
  BY <1>1 DEF IInv, TypeOK
<1>3. ServerInv' /\ \A t \in Sessions : Known(t)' => Known(t)
  BY <1>1, ServerAtRest DEF IInv
<1>4. RegInv'
  BY <1>1, <1>3 DEF IInv, RegInv, Kept, Sessions
<1>5. RunInv' /\ SnapInv'
  BY <1>1 DEF IInv, RunInv, SnapInv, JobInv, Place
<1>6. ChainInv'
  BY <1>1 DEF IInv, ChainInv, Noted
<1> QED BY <1>2, <1>3, <1>4, <1>5, <1>6 DEF IInv

\* A request moves on, and adds the session that it registers to the rows at most.
LEMMA ServerGoes ==
    ASSUME IInv, NEW i \in 1..MaxRequests, NEW step \in ServerSteps \ {"free"},
           requests[i].step # "free", Goes(i, step), UNCHANGED serverRest,
           media \subseteq media', entity \subseteq entity',
           media' \subseteq media \cup {requests[i].session},
           entity' \subseteq entity \cup {requests[i].session},
           kind = "episode" => media' \subseteq entity',
           step = "second" =>
             requests[i].session \in IF kind = "episode" THEN entity' ELSE media',
           step = "ok" => requests[i].session \in media' \cap entity'
    PROVE  IInv'
<1>1. /\ UNCHANGED jobVars /\ mem' = mem /\ disk' = disk /\ chain' = chain
      /\ pc' = pc /\ then' = then /\ offset' = offset /\ end' = end /\ tries' = tries
      /\ restarted' = restarted /\ aborted' = aborted /\ mine' = mine
      /\ up' = up /\ relinking' = relinking /\ last' = last /\ live' = live /\ got' = got
      /\ kind' = kind
  BY DEF serverRest, jobVars, runVars, sessionVars
<1> DEFINE R == [step : ServerSteps, session : Sessions \cup {NoSession}]
           s == requests[i].session
<1>2. requests \in [1..MaxRequests -> R] /\ s \in Sessions
  BY DEF IInv, TypeOK, ServerInv
<1>3. PICK x : /\ requests' = [requests EXCEPT ![i] = x]
               /\ x = Free \/ x = [requests[i] EXCEPT !.step = step]
  BY DEF Goes
<1>4. [requests[i] EXCEPT !.step = step] \in R /\ [requests[i] EXCEPT !.step = step].step = step
      /\ [requests[i] EXCEPT !.step = step].session = s
  BY <1>2
<1>5. Free \in R /\ Free.step = "free"
  BY DEF Free, ServerSteps
<1>6. /\ requests' \in [1..MaxRequests -> R]
      /\ \A k \in 1..MaxRequests : k # i => requests'[k] = requests[k]
      /\ requests'[i].step = "free" \/ (requests'[i].step = step /\ requests'[i].session = s)
  <2>1. x \in R /\ (x.step = "free" \/ (x.step = step /\ x.session = s))
    <3>1. CASE x = Free
      BY <1>5, <3>1
    <3>2. CASE x = [requests[i] EXCEPT !.step = step]
      BY <1>4, <3>2
    <3> QED BY <1>3, <3>1, <3>2
  <2> HIDE DEF R
  <2>2. requests' \in [1..MaxRequests -> R] /\ requests'[i] = x
    BY <1>2, <1>3, <2>1
  <2>3. \A k \in 1..MaxRequests : k # i => requests'[k] = requests[k]
    BY <1>2, <1>3
  <2> QED BY <2>1, <2>2, <2>3
<1>7. TypeOK'
  BY <1>1, <1>2, <1>6 DEF IInv, TypeOK
<1>8. ServerInv'
  <2>1. ASSUME NEW k \in 1..MaxRequests
        PROVE  /\ requests'[k].step # "free" => requests'[k].session # NoSession
               /\ requests'[k].step = "second" =>
                    requests'[k].session \in IF kind = "episode" THEN entity' ELSE media'
               /\ requests'[k].step = "ok" => requests'[k].session \in media' \cap entity'
    <3>1. CASE k # i
      <4>1. /\ requests[k].step # "free" => requests[k].session # NoSession
            /\ requests[k].step = "second" =>
                 requests[k].session \in IF kind = "episode" THEN entity ELSE media
            /\ requests[k].step = "ok" => requests[k].session \in media \cap entity
        BY DEF IInv, ServerInv
      <4> QED BY <1>6, <3>1, <4>1
    <3>2. CASE k = i
      <4>1. s # NoSession
        BY <1>2 DEF Sessions, NoSession
      <4> QED BY <1>6, <3>2, <4>1
    <3> QED BY <3>1, <3>2
  <2> QED BY <1>1, <2>1 DEF ServerInv
<1>9. \A t \in Sessions : Known(t)' => Known(t)
  <2>1. Known(s)
    BY DEF Known
  <2> QED BY <1>6, <2>1 DEF Known
<1>10. RegInv'
  BY <1>1, <1>9 DEF IInv, RegInv, Kept, Sessions
<1>11. SnapInv'
  BY <1>1, CopiesTyped, CopiesStay
<1>12. RunInv'
  BY <1>1 DEF IInv, RunInv, Place
<1>13. ChainInv'
  BY <1>1 DEF IInv, ChainInv, Noted
<1> QED BY <1>7, <1>8, <1>10, <1>11, <1>12, <1>13 DEF IInv

LEMMA ServerStep ==
    ASSUME IInv, NEW i \in 1..MaxRequests, Serve(i) \/ Breaks(i)
    PROVE  IInv'
<1> DEFINE s == requests[i].session
<1>1. /\ kind = "episode" => media \subseteq entity
      /\ kind \in {"episode", "clip"}
      /\ requests[i].step = "second" => s \in IF kind = "episode" THEN entity ELSE media
  BY DEF IInv, ServerInv, TypeOK
<1>2. CASE CheckRows(i)
  <2>1. /\ requests[i].step = "check" /\ UNCHANGED serverRest /\ media' = media /\ entity' = entity
        /\ Goes(i, IF s \in media THEN Replay(s)
                   ELSE IF s = NoSession \/ got[s] < Size THEN "refused" ELSE "build")
    BY <1>2 DEF CheckRows
  <2>2. PICK step : /\ step = IF s \in media THEN Replay(s)
                              ELSE IF s = NoSession \/ got[s] < Size THEN "refused" ELSE "build"
                    /\ Goes(i, step)
    BY <2>1
  <2>3. /\ step \in {"ok", "refused", "build"}
        /\ step = "ok" => s \in media /\ (kind = "clip" => s \in entity)
    BY <2>2 DEF Replay
  <2>4. step \in ServerSteps \ {"free"}
    BY <2>3 DEF ServerSteps, Answers
  <2> QED BY <1>1, <2>1, <2>2, <2>3, <2>4, ServerGoes
<1>3. CASE FirstRow(i)
  <2>1. /\ requests[i].step = "build" /\ UNCHANGED serverRest
        /\ \/ /\ kind = "episode" /\ entity = {} /\ Goes(i, "second") /\ entity' = {s}
              /\ media' = media
           \/ kind = "episode" /\ Goes(i, "duplicate") /\ entity' = entity /\ media' = media
           \/ kind = "clip" /\ Goes(i, "second") /\ media' = media \cup {s} /\ entity' = entity
           \/ kind = "clip" /\ Goes(i, "error") /\ media' = media \cup {s} /\ entity' = entity
    BY <1>1, <1>3 DEF FirstRow
  <2>2. {"second", "duplicate", "error"} \subseteq ServerSteps \ {"free"}
    BY DEF ServerSteps, Answers
  <2> QED BY <1>1, <2>1, <2>2, ServerGoes
<1>4. CASE SecondRow(i)
  <2>1. /\ requests[i].step = "second" /\ UNCHANGED serverRest
        /\ \/ /\ kind = "episode" /\ (Goes(i, "ok") \/ Goes(i, "error"))
              /\ media' = media \cup {s} /\ entity' = entity
           \/ kind = "clip" /\ Goes(i, "ok") /\ entity' = entity \cup {s} /\ media' = media
    BY <1>1, <1>4 DEF SecondRow
  <2>2. {"ok", "error"} \subseteq ServerSteps \ {"free"}
    BY DEF ServerSteps, Answers
  <2> QED BY <1>1, <2>1, <2>2, ServerGoes
<1>5. CASE Breaks(i)
  <2>1. /\ requests[i].step # "free" /\ UNCHANGED serverRest /\ Goes(i, "error")
        /\ media' = media /\ entity' = entity
    BY <1>5 DEF Breaks
  <2>2. "error" \in ServerSteps \ {"free"}
    BY DEF ServerSteps, Answers
  <2> QED BY <1>1, <2>1, <2>2, ServerGoes
<1> QED BY <1>2, <1>3, <1>4, <1>5 DEF Serve

-----------------------------------------------------------------------------
(* The user and the process.                                               *)

LEMMA OthersSave ==
    ASSUME IInv, NEW j \in Job, NEW who \in {"user", "other"}, Save(j, who), up,
           UNCHANGED userRest, relinking' \in BOOLEAN,
           JobInv(j),
           j.code # "file" \/ j.code = mem.code,
           relinking' => j.code = "file",
           \/ j.session = mem.session /\ j.complete = mem.complete
           \/ mem.code = "file" /\ j.session = NoSession /\ ~j.complete
    PROVE  IInv'
<1>1. /\ disk' = disk /\ pc' = pc /\ then' = then /\ offset' = offset /\ end' = end
      /\ tries' = tries /\ restarted' = restarted /\ aborted' = aborted /\ mine' = mine
      /\ up' = up /\ last' = last /\ live' = live /\ got' = got
      /\ media' = media /\ entity' = entity /\ kind' = kind /\ requests' = requests
      /\ UNCHANGED serverVars
  BY DEF userRest, runVars, sessionVars, serverVars
<1>2. ServerInv' /\ \A s \in Sessions : Known(s)' => Known(s)
  BY <1>1, ServerAtRest DEF IInv
<1>3. mem.code = "file" => ~mem.complete /\ Place = "off"
  BY DEF IInv, RunInv, SnapInv, JobInv
<1>4. \A s \in Sessions : Known(s)' => Known(s) /\ Kept(j, s)
  <2>1. CASE j.session = mem.session /\ j.complete = mem.complete
    BY <1>2, <2>1, SameSession DEF IInv
  <2>2. CASE mem.code = "file"
    BY <1>2, <1>3, <2>2, NothingKnown DEF IInv
  <2> QED BY <2>1, <2>2
<1>5. who \in Who
  BY DEF Who
<1>6. SnapInv' /\ RegInv'
  BY <1>1, <1>4, <1>5, SaveKeeps
<1>7. ChainInv'
  <2>1. Place \in Registering => j.session = mem.session /\ j.complete
    BY <1>3 DEF IInv, RunInv, Registering
  <2> QED BY <1>1, <2>1, OthersSaveInOrder
<1>8. TypeOK
  BY DEF IInv
<1>9. mem' = j /\ chain' \in Seq(Entry)
  BY <1>5, <1>8, SaveEffect, Zenon
<1>10. TypeOK'
  BY <1>1, <1>8, <1>9 DEF TypeOK, Entry, Who
<1>11. RunInv'
  <2>1. CASE mem.code = "file"
    BY <1>1, <1>3, <1>9, <2>1 DEF IInv, RunInv, Place, Early, Sending, Landed, Registering
  <2>2. CASE mem.code # "file"
    BY <1>1, <1>9, <2>2 DEF IInv, RunInv, Place
  <2> QED BY <2>1, <2>2
<1> QED BY <1>2, <1>6, <1>7, <1>10, <1>11 DEF IInv

LEMMA UserStep ==
    ASSUME IInv, pause \/ cancel \/ resume \/ retryRecoverable \/ RelinkBegins \/ RelinkEnds
    PROVE  IInv'
<1>1. mem \in Job /\ JobInv(mem) /\ relinking \in BOOLEAN /\ (relinking => mem.code = "file")
  BY DEF IInv, TypeOK, SnapInv, RunInv
<1>2. {"paused", "canceled", "queued"} \subseteq Statuses /\ "none" \in Codes
  BY DEF Statuses, TERMINAL, Codes
<1>3. CASE pause
  <2> DEFINE j == [mem EXCEPT !.status = "paused"]
  <2>1. /\ up /\ Save(j, "user") /\ UNCHANGED userRest /\ relinking' = relinking
        /\ mem.status \in Busy \cup {"queued"}
    BY <1>3 DEF pause
  <2>2. /\ j \in Job /\ j.session = mem.session /\ j.complete = mem.complete
        /\ j.status = "paused" /\ j.code = mem.code
    BY <1>1, <1>2, JobChanges
  <2> HIDE DEF j
  <2>3. JobInv(j)
    BY <1>1, <2>1, <2>2 DEF JobInv, Busy
  <2> QED BY <1>1, <2>1, <2>2, <2>3, OthersSave
<1>4. CASE cancel
  <2> DEFINE j == [mem EXCEPT !.status = "canceled"]
  <2>1. /\ up /\ Save(j, "user") /\ UNCHANGED userRest /\ relinking' = relinking
    BY <1>4 DEF cancel
  <2>2. /\ j \in Job /\ j.session = mem.session /\ j.complete = mem.complete
        /\ j.status = "canceled" /\ j.code = mem.code
    BY <1>1, <1>2, JobChanges
  <2> HIDE DEF j
  <2>3. JobInv(j)
    BY <1>1, <2>1, <2>2 DEF JobInv
  <2> QED BY <1>1, <2>1, <2>2, <2>3, OthersSave
<1>5. CASE resume \/ retryRecoverable
  <2> DEFINE j == [mem EXCEPT !.status = "queued", !.code = "none"]
  <2>1. /\ up /\ Save(j, "other") /\ UNCHANGED userRest /\ relinking' = relinking /\ ~relinking
    BY <1>1, <1>5 DEF resume, retryRecoverable
  <2>2. /\ j \in Job /\ j.session = mem.session /\ j.complete = mem.complete
        /\ j.status = "queued" /\ j.code = "none"
    BY <1>1, <1>2 DEF Job
  <2> HIDE DEF j
  <2>3. JobInv(j)
    BY <1>1, <2>1, <2>2 DEF JobInv
  <2> QED BY <1>1, <2>1, <2>2, <2>3, OthersSave
<1>6. CASE RelinkEnds
  <2>1. PICK same \in BOOLEAN :
          Save(IF same THEN [mem EXCEPT !.status = "queued", !.code = "none"] ELSE NewJob, "other")
    BY <1>6 DEF RelinkEnds
  <2>2. /\ up /\ UNCHANGED userRest /\ relinking' = FALSE /\ mem.code = "file"
    BY <1>1, <1>6 DEF RelinkEnds
  <2>3. CASE same
    <3> DEFINE j == [mem EXCEPT !.status = "queued", !.code = "none"]
    <3>1. Save(j, "other")
      BY <2>1, <2>3
    <3>2. /\ j \in Job /\ j.session = mem.session /\ j.complete = mem.complete
          /\ j.status = "queued" /\ j.code = "none"
      BY <1>1, <1>2 DEF Job
    <3> HIDE DEF j
    <3>3. JobInv(j)
      BY <1>1, <3>2 DEF JobInv
    <3> QED BY <2>2, <3>1, <3>2, <3>3, OthersSave
  <2>4. CASE ~same
    <3>1. Save(NewJob, "other")
      BY <2>1, <2>4
    <3>2. /\ NewJob \in Job /\ NewJob.session = NoSession /\ NewJob.complete = FALSE
          /\ NewJob.status = "queued" /\ NewJob.code = "none"
      BY <1>2 DEF Job, NewJob
    <3>3. JobInv(NewJob)
      BY <3>2 DEF JobInv
    <3> QED BY <2>2, <3>1, <3>2, <3>3, OthersSave
  <2> QED BY <2>3, <2>4
<1>7. CASE RelinkBegins
  <2>1. /\ up /\ mem.code = "file" /\ relinking' = TRUE
        /\ mem' = mem /\ disk' = disk /\ chain' = chain
        /\ pc' = pc /\ then' = then /\ offset' = offset /\ end' = end
        /\ tries' = tries /\ restarted' = restarted /\ aborted' = aborted /\ mine' = mine
        /\ up' = up /\ last' = last /\ live' = live /\ got' = got
        /\ media' = media /\ entity' = entity /\ kind' = kind /\ requests' = requests
        /\ UNCHANGED serverVars
    BY <1>7 DEF RelinkBegins, userRest, runVars, sessionVars, serverVars
  <2>2. ServerInv' /\ \A s \in Sessions : Known(s)' => Known(s)
    BY <2>1, ServerAtRest DEF IInv
  <2>3. RegInv'
    BY <2>1, <2>2 DEF IInv, RegInv, Kept, Sessions
  <2>4. SnapInv' /\ ChainInv'
    BY <2>1 DEF IInv, SnapInv, JobInv, ChainInv, Noted
  <2>5. TypeOK'
    BY <2>1 DEF IInv, TypeOK
  <2>6. RunInv'
    BY <2>1 DEF IInv, RunInv, Place
  <2> QED BY <2>2, <2>3, <2>4, <2>5, <2>6 DEF IInv
<1> QED BY <1>3, <1>4, <1>5, <1>6, <1>7

LEMMA CrashStep ==
    ASSUME IInv, Crash
    PROVE  IInv'
<1>1. /\ up' = FALSE /\ mem' = disk /\ disk' = disk /\ chain' = <<>> /\ pc' = "off" /\ then' = "off"
      /\ aborted' = FALSE /\ relinking' = FALSE /\ LeaveRequest
      /\ offset' = 0 /\ end' = 0 /\ tries' = 1 /\ restarted' = FALSE
      /\ last' = last /\ live' = live /\ got' = got
      /\ media' = media /\ entity' = entity /\ kind' = kind /\ UNCHANGED serverVars
  BY DEF Crash, RunEnds, UploadEnds, sessionVars, serverVars
<1>2. /\ mine' \in 0..MaxRequests
      /\ requests' \in [1..MaxRequests -> [step : ServerSteps, session : Sessions \cup {NoSession}]]
      /\ ServerInv'
      /\ \A s \in Sessions : Known(s)' => Known(s)
  BY <1>1, Requests DEF IInv
<1>3. Len(chain') = 0 /\ chain' \in Seq([job : Job, who : {"run", "user", "other"}])
  BY <1>1
<1>4. 1..Len(chain') = {}
  BY <1>3
<1>5. TypeOK'
  BY <1>1, <1>2, <1>3, Zeros DEF IInv, TypeOK
<1>6. RunInv'
  BY <1>1 DEF RunInv, Place, Early, Sending, Landed, Registering
<1>7. SnapInv'
  BY <1>1, <1>4 DEF IInv, SnapInv, JobInv
<1>8. ChainInv'
  BY <1>1, <1>4 DEF ChainInv, Registering
<1>9. RegInv'
  BY <1>1, <1>2, <1>4 DEF IInv, RegInv, Kept, Sessions
<1> QED BY <1>2, <1>5, <1>6, <1>7, <1>8, <1>9 DEF IInv

LEMMA BootStep ==
    ASSUME IInv, Boot
    PROVE  IInv'
<1> DEFINE j == IF Restored(disk) THEN [disk EXCEPT !.status = "queued"] ELSE disk
<1>1. /\ up' = TRUE /\ ~up /\ mem' = j /\ disk' = j /\ chain' = chain
      /\ pc' = pc /\ then' = then /\ offset' = offset /\ end' = end /\ tries' = tries
      /\ restarted' = restarted /\ aborted' = aborted /\ mine' = mine
      /\ relinking' = relinking /\ last' = last /\ live' = live /\ got' = got
      /\ media' = media /\ entity' = entity /\ kind' = kind /\ requests' = requests
      /\ UNCHANGED serverVars
  BY DEF Boot, runVars, sessionVars, serverVars
<1>2. disk \in Job /\ JobInv(disk)
  BY DEF IInv, TypeOK, SnapInv
<1>3. /\ j \in Job /\ j.session = disk.session /\ j.complete = disk.complete
      /\ j.code = disk.code
      /\ j = disk \/ (Restored(disk) /\ j.status = "queued")
  <2>1. "queued" \in Statuses
    BY DEF Statuses
  <2> DEFINE i == [disk EXCEPT !.status = "queued"]
  <2>2. /\ i \in Job /\ i.session = disk.session /\ i.complete = disk.complete
        /\ i.status = "queued" /\ i.code = disk.code
    BY <1>2, <2>1, JobChanges
  <2> HIDE DEF i
  <2>3. j = disk \/ (Restored(disk) /\ j = i)
    BY DEF i
  <2> HIDE DEF j
  <2> QED BY <1>2, <2>2, <2>3
<1> HIDE DEF j
<1>4. JobInv(j)
  BY <1>2, <1>3 DEF JobInv, Restored, bytesLanded, Busy
<1>5. pc = "off" /\ ~relinking
  BY <1>1 DEF IInv, RunInv
<1>6. ServerInv' /\ \A s \in Sessions : Known(s)' => Known(s)
  BY <1>1, ServerAtRest DEF IInv
<1>7. RegInv'
  <2>1. \A s : Kept(disk, s) => Kept(j, s)
    BY <1>3 DEF Kept
  <2>2. \A s : Kept(mem, s)' = Kept(j, s) /\ Kept(disk, s)' = Kept(j, s)
    BY <1>1 DEF Kept
  <2>3. \A s, k : Kept(chain[k].job, s)' = Kept(chain[k].job, s)
    BY <1>1 DEF Kept
  <2> QED BY <1>1, <1>6, <2>1, <2>2, <2>3 DEF IInv, RegInv, Sessions
<1>8. SnapInv'
  BY <1>1, <1>4 DEF IInv, SnapInv, JobInv
<1>9. ChainInv'
  BY <1>1, <1>5 DEF IInv, ChainInv, Registering
<1>10. TypeOK'
  BY <1>1, <1>3 DEF IInv, TypeOK
<1>11. RunInv'
  BY <1>1, <1>5 DEF IInv, RunInv, Place, Early, Sending, Landed, Registering
<1> QED BY <1>6, <1>7, <1>8, <1>9, <1>10, <1>11 DEF IInv

-----------------------------------------------------------------------------
(* The theorems.                                                           *)

LEMMA InitInv ==
    ASSUME Init
    PROVE  IInv
<1>1. /\ mem = NewJob /\ disk = NewJob /\ chain = <<>> /\ media = {} /\ entity = {}
      /\ pc = "off" /\ then = "off" /\ up = TRUE /\ relinking = FALSE
      /\ requests = [i \in 1..MaxRequests |-> Free]
  BY DEF Init
<1>2. /\ NewJob \in Job /\ NewJob.session = NoSession /\ NewJob.complete = FALSE
      /\ NewJob.status = "queued" /\ NewJob.code = "none"
  BY DEF NewJob, Job, Statuses, Codes
<1>3. Len(chain) = 0 /\ chain \in Seq([job : Job, who : {"run", "user", "other"}]) /\ 1..Len(chain) = {}
  BY <1>1
<1>4. /\ requests \in [1..MaxRequests -> [step : ServerSteps, session : Sessions \cup {NoSession}]]
      /\ \A i \in 1..MaxRequests : requests[i].step = "free"
  BY <1>1 DEF Free, ServerSteps
<1>5. TypeOK
  <2>1. /\ offset = 0 /\ end = 0 /\ tries = 1 /\ restarted = FALSE /\ aborted = FALSE
        /\ live = [s \in Sessions |-> FALSE] /\ got = [s \in Sessions |-> 0]
        /\ last = 0 /\ kind \in {"episode", "clip"} /\ mine = 0 /\ 0 \in 0..MaxSessions
    BY ConstantsTyped DEF Init
  <2> QED BY <1>1, <1>2, <1>3, <1>4, <2>1, Zeros DEF TypeOK
<1>6. RunInv
  BY <1>1, <1>2 DEF RunInv, Place, Early, Sending, Landed, Registering
<1>7. SnapInv
  BY <1>1, <1>2, <1>3 DEF SnapInv, JobInv
<1>8. ChainInv
  BY <1>1, <1>3 DEF ChainInv, Registering
<1>9. ServerInv
  BY <1>1, <1>4 DEF ServerInv
<1>10. RegInv
  BY <1>1, <1>4 DEF RegInv, Known
<1> QED BY <1>5, <1>6, <1>7, <1>8, <1>9, <1>10 DEF IInv

LEMMA NextInv ==
    ASSUME IInv, [Next]_vars
    PROVE  IInv'
<1>1. CASE RunStep
  BY <1>1, StartStep, VerifyStep, InitCallStep, QueryStep, NextChunkStep, PutStep,
     MarkCompleteStep, CallFinalizeStep, AnsweredStep DEF RunStep
<1>2. CASE Persist \/ Arrive
  BY <1>2, PersistStep, ArriveStep
<1>3. CASE \E i \in 1..MaxRequests : Serve(i) \/ Breaks(i)
  BY <1>3, ServerStep
<1>4. CASE \E s \in Sessions : SessionEnds(s)
  BY <1>4, SessionEndsStep
<1>5. CASE pause \/ cancel \/ resume \/ retryRecoverable \/ RelinkBegins \/ RelinkEnds
  BY <1>5, UserStep
<1>6. CASE Crash \/ Boot
  BY <1>6, CrashStep, BootStep
<1>7. CASE UNCHANGED vars
  <2>1. /\ up' = up /\ mem' = mem /\ disk' = disk /\ chain' = chain /\ pc' = pc /\ then' = then
        /\ offset' = offset /\ end' = end /\ tries' = tries /\ restarted' = restarted
        /\ aborted' = aborted /\ mine' = mine /\ relinking' = relinking
        /\ last' = last /\ live' = live /\ got' = got
        /\ media' = media /\ entity' = entity /\ kind' = kind /\ requests' = requests
        /\ UNCHANGED serverVars
    BY <1>7 DEF vars, jobVars, runVars, sessionVars, serverVars
  <2>2. ServerInv' /\ \A s \in Sessions : Known(s)' => Known(s)
    BY <2>1, ServerAtRest DEF IInv
  <2>3. RegInv'
    BY <2>1, <2>2 DEF IInv, RegInv, Kept, Sessions
  <2>4. SnapInv' /\ ChainInv'
    BY <2>1 DEF IInv, SnapInv, JobInv, ChainInv, Noted
  <2>5. TypeOK' /\ RunInv'
    BY <2>1 DEF IInv, TypeOK, RunInv, Place
  <2> QED BY <2>2, <2>3, <2>4, <2>5 DEF IInv
<1> QED BY <1>1, <1>2, <1>3, <1>4, <1>5, <1>6, <1>7 DEF Next

LEMMA Invariance == Spec => []IInv
BY InitInv, NextInv, PTL DEF Spec

\* The job, its file, the run, the sessions and the registrations keep their types; no
\* chunk ends behind the file (engine.ts:463).
THEOREM TypeCorrect == Spec => []TypeOK
<1>1. IInv => TypeOK
  BY DEF IInv
<1> QED BY <1>1, Invariance, PTL

LEMMA SnapshotsAre ==
    \A j \in Snapshots : j = mem \/ j = disk \/ \E k \in 1..Len(chain) : j = chain[k].job
BY DEF Snapshots

\* A job is noted as complete only when the store has every byte (job-store.ts:26-36).
THEOREM CompleteMeansLanded == Spec => []LandedIsComplete
<1>1. IInv => LandedIsComplete
  BY SnapshotsAre DEF IInv, SnapInv, JobInv, LandedIsComplete
<1> QED BY <1>1, Invariance, PTL

\* What the user sees as completed has its object and both rows (engine.ts:597-613).
THEOREM CompletedHasRows == Spec => []CompletedIsRegistered
<1>1. IInv => CompletedIsRegistered
  <2> SUFFICES ASSUME IInv, NEW j \in Snapshots, j.status = "completed"
               PROVE  j.session \in media \cap entity /\ got[j.session] = Size
    BY DEF CompletedIsRegistered
  <2>1. JobInv(j)
    BY SnapshotsAre DEF IInv, SnapInv
  <2>2. j.session \in media \cap entity /\ j.session \in Sessions
    BY <2>1 DEF JobInv, IInv, TypeOK
  <2>3. Kept(j, j.session)
    BY <2>2, SnapshotsAre DEF IInv, RegInv, Known
  <2> QED BY <2>1, <2>2, <2>3 DEF JobInv, Kept
<1> QED BY <1>1, Invariance, PTL

\* One upload leaves one episode or clip at most, whatever is retried, lost, restored or
\* relinked (engine.ts:88-90).
THEOREM OneRegistration == Spec => []RegisteredOnce
<1>1. IInv => RegisteredOnce
  <2> SUFFICES ASSUME IInv
               PROVE  Cardinality(media \cup entity) <= 1
    BY DEF RegisteredOnce
  <2>1. \A s \in media \cup entity : s = mem.session
    <3>1. media \subseteq Sessions /\ entity \subseteq Sessions
      BY DEF IInv, TypeOK
    <3> QED BY <3>1 DEF IInv, RegInv, Known, Kept
  <2>2. media \cup entity \subseteq {mem.session}
    BY <2>1
  <2>3. IsFiniteSet({mem.session}) /\ Cardinality({mem.session}) = 1
    BY FS_Singleton
  <2> HIDE DEF IInv
  <2>4. Cardinality(media \cup entity) <= Cardinality({mem.session})
    BY <2>2, <2>3, FS_Subset
  <2> QED BY <2>3, <2>4
<1> QED BY <1>1, Invariance, PTL

-----------------------------------------------------------------------------
(* The upload implements Upload.                                           *)

\* A completed job is final: no run works on it, and no copy of another kind is on its
\* way to the disk behind it.  The second row of a clip comes after the first.
FinalInv ==
    /\ mem.status = "completed" => Place = "off"
    /\ disk.status = "completed" =>
         mem.status = "completed" /\ \A k \in 1..Len(chain) : chain[k].job.status = "completed"
    /\ \A k, l \in 1..Len(chain) :
         k <= l /\ chain[k].job.status = "completed" =>
           mem.status = "completed" /\ chain[l].job.status = "completed"
    /\ ~up => chain = <<>>
    /\ kind = "clip" => entity \subseteq media

\* A step of the run leaves the sessions' bytes, the rows and the disk alone, and saves at
\* most one copy; after a completed one it ends.
RunEffect ==
    /\ got' = got /\ UNCHANGED serverVars /\ disk' = disk /\ up' = up
    /\ \/ mem' = mem /\ chain' = chain
       \/ \E j \in Job, next \in RunSteps :
            RunSaves(j, next) /\ (j.status = "completed" => next = "off")

LEMMA StatusesTyped ==
    /\ Busy \cup {"completed", "queued", "needs_attention", "failed"} \subseteq Statuses
    /\ "none" \in Codes /\ "expired" \in Codes
BY DEF Busy, Statuses, TERMINAL, Codes, Recoverable

LEMMA SavesEffect ==
    ASSUME NEW j \in Job, NEW next \in RunSteps, RunSaves(j, next),
           j.status = "completed" => next = "off", got' = got, UNCHANGED serverVars, up' = up
    PROVE  RunEffect
BY DEF RunEffect, RunSaves

LEMMA FailsEffect ==
    ASSUME TypeOK, NEW code \in Codes, Fails(code)
    PROVE  RunEffect
<1>1. got' = got /\ UNCHANGED serverVars /\ up' = up
  BY DEF Fails, sessionVars, runRest
<1>2. CASE aborted
  BY <1>1, <1>2 DEF Fails, jobVars, RunEffect
<1>3. CASE ~aborted
  <2>1. PICK status \in {"needs_attention", "failed"} :
          RunSaves([mem EXCEPT !.status = status, !.code = code], "off")
    BY <1>3 DEF Fails
  <2>2. [mem EXCEPT !.status = status, !.code = code] \in Job
    BY StatusesTyped DEF TypeOK, Job
  <2> QED BY <1>1, <2>1, <2>2, SavesEffect, Zeros
<1> QED BY <1>2, <1>3

LEMMA RunStepEffect ==
    ASSUME TypeOK, mem.status # "completed", RunStep
    PROVE  RunEffect
<1> USE DEF jobVars, sessionVars, runRest
<1>1. mem \in Job
  BY DEF TypeOK
<1>2. \A x \in Statuses : [mem EXCEPT !.status = x] \in Job /\ [mem EXCEPT !.status = x].status = x
  BY <1>1, JobChanges
<1>3. {"auth", "file", "network", "finalize", "none", "expired", "duplicate", "encryption"} \subseteq Codes
  BY DEF Codes, Recoverable
<1>4. {"init", "query", "put", "requery", "answer", "off", "saving", "verify", "ensure",
       "next", "retry", "mark", "finalize"} = RunSteps
  BY DEF RunSteps, Waits
<1>5. {"initializing", "uploading", "finalizing", "completed"} \subseteq Statuses
  BY DEF Statuses, Busy, TERMINAL
<1>6. ASSUME NEW next \in RunSteps, Confirmed(next)
      PROVE  RunEffect
  BY <1>1, <1>6, SavesEffect DEF Confirmed
<1>7. ASSUME Expired
      PROVE  RunEffect
  <2>1. CASE restarted
    BY <1>3, <1>7, <2>1, FailsEffect DEF Expired
  <2>2. CASE ~restarted
    <3> DEFINE j == [status |-> "initializing", code |-> "expired",
                     session |-> NoSession, complete |-> FALSE]
    <3>1. RunSaves(j, "ensure") /\ got' = got /\ UNCHANGED serverVars /\ up' = up
      BY <1>7, <2>2 DEF Expired
    <3>2. j \in Job /\ j.status = "initializing"
      BY <1>3, <1>5 DEF Job
    <3> HIDE DEF j
    <3> QED BY <1>4, <3>1, <3>2, SavesEffect
  <2> QED BY <2>1, <2>2
<1>8. ASSUME BeginFinalize
      PROVE  RunEffect
  BY <1>2, <1>4, <1>5, <1>8, SavesEffect DEF BeginFinalize
<1>9. ASSUME Ensure
      PROVE  RunEffect
  BY <1>2, <1>4, <1>5, <1>9, SavesEffect DEF Ensure
<1>10. CASE Start
  BY <1>2, <1>4, <1>5, <1>10, SavesEffect DEF Start, RunEffect
<1>11. CASE Verify \/ EnsureAgain
  BY <1>3, <1>9, <1>11, FailsEffect DEF Verify, EnsureAgain
<1>12. CASE InitCall
  <2>1. CASE \E code \in {"auth", "duplicate", "network", "finalize", "encryption"} : Fails(code)
    BY <1>3, <2>1, FailsEffect
  <2>2. CASE RunSaves([mem EXCEPT !.code = "none", !.session = last + 1], "ensure")
             /\ last < MaxSessions /\ got' = got /\ UNCHANGED serverVars /\ up' = up
    <3> DEFINE j == [mem EXCEPT !.code = "none", !.session = last + 1]
    <3>1. last + 1 \in Sessions
      BY <2>2, ConstantsTyped DEF TypeOK, Sessions
    <3>2. j \in Job /\ j.status = mem.status
      BY <1>1, <1>3, <3>1 DEF Job
    <3>3. RunSaves(j, "ensure")
      BY <2>2
    <3> HIDE DEF j
    <3> QED BY <1>4, <2>2, <3>2, <3>3, SavesEffect
  <2>3. CASE UNCHANGED <<jobVars, got, serverVars, up>>
    BY <2>3 DEF RunEffect
  <2> QED BY <1>12, <2>1, <2>2, <2>3 DEF InitCall
<1>13. CASE Query
  BY <1>3, <1>4, <1>6, <1>7, <1>13, FailsEffect DEF Query
<1>14. CASE NextChunk
  BY <1>8, <1>14 DEF NextChunk, RunEffect
<1>15. CASE PutChunk
  BY <1>3, <1>4, <1>6, <1>7, <1>15, FailsEffect DEF PutChunk, RunEffect
<1>16. CASE Requery
  <2>1. (IF got[mem.session] >= end THEN "next" ELSE "retry") \in RunSteps
    BY <1>4
  <2> QED BY <1>6, <1>7, <1>16, <2>1 DEF Requery, RunEffect
<1>17. CASE Retry
  BY <1>3, <1>17, FailsEffect DEF Retry, RunEffect
<1>18. CASE MarkComplete
  <2> DEFINE j == [mem EXCEPT !.complete = TRUE]
  <2>1. j \in Job /\ j.status = mem.status
    BY <1>1, JobChanges
  <2>2. RunSaves(j, "finalize") /\ got' = got /\ UNCHANGED serverVars /\ up' = up
    BY <1>18 DEF MarkComplete
  <2> HIDE DEF j
  <2> QED BY <1>4, <2>1, <2>2, SavesEffect
<1>19. CASE CallFinalize
  BY <1>3, <1>19, FailsEffect DEF CallFinalize, RunEffect
<1>20. CASE Answered
  <2>1. CASE \E code \in Codes : Fails(code)
    BY <2>1, FailsEffect
  <2>2. CASE RunSaves([mem EXCEPT !.status = "completed", !.code = "none"], "off")
             /\ got' = got /\ UNCHANGED serverVars /\ up' = up
    <3>1. [mem EXCEPT !.status = "completed", !.code = "none"] \in Job
      BY <1>1, <1>3, <1>5, JobChanges
    <3> QED BY <1>4, <2>2, <3>1, SavesEffect
  <2>3. CASE UNCHANGED <<jobVars, got, serverVars, up>>
    BY <2>3 DEF RunEffect
  <2> QED BY <1>3, <1>20, <2>1, <2>2, <2>3 DEF Answered
<1> QED BY <1>10, <1>11, <1>12, <1>13, <1>14, <1>15, <1>16, <1>17, <1>18, <1>19, <1>20 DEF RunStep

\* A copy that is saved, by the run or by others, keeps FinalInv unless it follows a
\* completed one.
LEMMA SavedFinal ==
    ASSUME IInv, FinalInv, NEW j \in Job, NEW who \in Who, Save(j, who),
           up', mem.status # "completed", disk' = disk, UNCHANGED serverVars,
           j.status = "completed" => Place' = "off"
    PROVE  FinalInv'
<1>1. /\ mem' = j /\ Len(chain) \in Nat
      /\ Len(chain') = Len(chain) + 1
      /\ \A k \in 1..Len(chain) : chain'[k] = chain[k]
      /\ chain'[Len(chain) + 1].job = j
  <2>1. /\ mem' = j /\ Len(chain) \in Nat
        /\ Len(chain') = Len(chain) + 1
        /\ \A k \in 1..Len(chain) : chain'[k] = chain[k]
        /\ chain'[Len(chain) + 1] = [job |-> j, who |-> who]
    BY SaveEffect, Zenon DEF IInv
  <2> QED BY <2>1
<1>2. /\ disk.status # "completed"
      /\ \A k \in 1..Len(chain) : chain[k].job.status # "completed"
  BY <1>1 DEF FinalInv
<1>3. \A k \in 1..Len(chain') : k \in 1..Len(chain) \/ (k = Len(chain') /\ chain'[k].job = j)
  BY <1>1
<1>4. \A k, l \in 1..Len(chain') :
        k <= l /\ chain'[k].job.status = "completed" =>
          mem'.status = "completed" /\ chain'[l].job.status = "completed"
  <2> SUFFICES ASSUME NEW k \in 1..Len(chain'), NEW l \in 1..Len(chain'),
                      k <= l, chain'[k].job.status = "completed"
               PROVE  mem'.status = "completed" /\ chain'[l].job.status = "completed"
    OBVIOUS
  <2>1. k = Len(chain') /\ j.status = "completed"
    BY <1>1, <1>2, <1>3
  <2>2. l = k
    BY <1>1, <2>1
  <2> QED BY <1>1, <1>3, <2>1, <2>2
<1>5. kind' = "clip" => entity' \subseteq media'
  BY DEF FinalInv, serverVars
<1>6. disk'.status # "completed"
  BY <1>2
<1>7. mem'.status = "completed" => Place' = "off"
  BY <1>1
<1> QED BY <1>4, <1>5, <1>6, <1>7 DEF FinalInv

\* The job stays as it is, and so does where the run of a completed one is.
LEMMA QuietFinal ==
    ASSUME FinalInv, mem' = mem, disk' = disk, chain' = chain, up' = up,
           mem.status = "completed" => Place' = "off",
           kind' = "clip" => entity' \subseteq media'
    PROVE  FinalInv'
BY DEF FinalInv

LEMMA RunStepFinal ==
    ASSUME IInv, FinalInv, up, RunStep
    PROVE  FinalInv' /\ RunEffect
<1>1. mem.status # "completed"
  <2>1. pc \notin {"off", "saving"} \/ mem.status = "queued"
    BY DEF RunStep, Start, Verify, EnsureAgain, InitCall, Query, NextChunk, PutChunk, Requery,
           Retry, MarkComplete, CallFinalize, Answered
  <2> QED BY <2>1 DEF FinalInv, Place
<1>2. RunEffect /\ up'
  BY <1>1, RunStepEffect DEF IInv, RunEffect
<1>3. CASE mem' = mem /\ chain' = chain
  BY <1>1, <1>2, <1>3, QuietFinal DEF RunEffect, FinalInv, serverVars
<1>4. ASSUME NEW j \in Job, NEW next \in RunSteps, RunSaves(j, next),
             j.status = "completed" => next = "off"
      PROVE  FinalInv'
  BY <1>1, <1>2, <1>4, SavedFinal DEF RunSaves, RunEffect, Place, Who
<1> QED BY <1>2, <1>3, <1>4 DEF RunEffect

\* A copy reaches the disk.
LEMMA PersistFinal ==
    ASSUME IInv, FinalInv, Persist
    PROVE  /\ FinalInv' /\ UNCHANGED <<got, serverVars>>
           /\ disk'.status = "completed" => media \cap entity # {}
           /\ disk.status = "completed" => disk'.status = "completed"
<1>1. /\ Len(chain) \in Nat /\ Len(chain) >= 1
      /\ Len(chain') = Len(chain) - 1
      /\ \A k \in 1..Len(chain') : chain'[k] = chain[k + 1]
      /\ Head(chain) = chain[1] /\ disk' = chain[1].job
  BY PersistEffect DEF Persist, IInv
<1>2. /\ mem' = mem /\ up' = up /\ up /\ UNCHANGED <<got, serverVars>>
      /\ media' = media /\ entity' = entity /\ kind' = kind
  BY DEF Persist, sessionVars, serverVars
<1>3. 1 \in 1..Len(chain) /\ \A k \in 1..Len(chain') : k + 1 \in 1..Len(chain)
  BY <1>1
<1>4. disk'.status = "completed" => media \cap entity # {}
  BY <1>1, <1>3 DEF IInv, SnapInv, JobInv
<1>5. disk.status = "completed" => disk'.status = "completed"
  BY <1>1, <1>3 DEF FinalInv
<1>6. disk'.status = "completed" =>
        mem'.status = "completed" /\ \A k \in 1..Len(chain') : chain'[k].job.status = "completed"
  BY <1>1, <1>2, <1>3 DEF FinalInv
<1>7. \A k, l \in 1..Len(chain') :
        k <= l /\ chain'[k].job.status = "completed" =>
          mem'.status = "completed" /\ chain'[l].job.status = "completed"
  <2> SUFFICES ASSUME NEW k \in 1..Len(chain'), NEW l \in 1..Len(chain'),
                      k <= l, chain'[k].job.status = "completed"
               PROVE  mem'.status = "completed" /\ chain'[l].job.status = "completed"
    OBVIOUS
  <2>1. k + 1 \in 1..Len(chain) /\ l + 1 \in 1..Len(chain) /\ k + 1 <= l + 1
    BY <1>1
  <2>2. chain[k + 1].job.status = "completed"
    BY <1>1
  <2>3. mem.status = "completed" /\ chain[l + 1].job.status = "completed"
    BY <2>1, <2>2 DEF FinalInv
  <2> QED BY <1>1, <1>2, <2>3
<1>8. mem'.status = "completed" => Place' = "off"
  <2> SUFFICES ASSUME mem.status = "completed" PROVE Place' = "off"
    BY <1>2
  <2>1. Place = "off"
    BY DEF FinalInv
  <2>2. CASE Head(chain).who = "run"
    <3>1. pc = "saving"
      BY <1>1, <1>3, <2>2 DEF IInv, ChainInv
    <3>2. pc' = then
      BY <1>1, <2>2 DEF Persist
    <3> QED BY <2>1, <3>1, <3>2 DEF Place
  <2>3. CASE Head(chain).who = "user"
    BY <2>1, <2>3 DEF Persist, Abort, Place
  <2>4. CASE Head(chain).who = "other"
    BY <2>1, <2>4 DEF Persist, Place
  <2> QED BY <2>2, <2>3, <2>4 DEF Persist
<1> QED BY <1>2, <1>4, <1>5, <1>6, <1>7, <1>8 DEF FinalInv

LEMMA UserFinal ==
    ASSUME IInv, FinalInv, pause \/ cancel \/ resume \/ retryRecoverable \/ RelinkBegins \/ RelinkEnds
    PROVE  FinalInv' /\ UNCHANGED <<got, serverVars>> /\ disk' = disk
<1>1. mem \in Job /\ mem.status \in Statuses
  BY DEF IInv, TypeOK, Job
<1>2. /\ UNCHANGED <<got, serverVars>> /\ disk' = disk
      /\ pc' = pc /\ then' = then /\ Place' = Place /\ up' = up /\ up
      /\ media' = media /\ entity' = entity /\ kind' = kind
  BY DEF pause, cancel, resume, retryRecoverable, RelinkBegins, RelinkEnds, userRest, runVars,
         sessionVars, serverVars, Place
<1>3. CASE RelinkBegins
  BY <1>2, <1>3, QuietFinal DEF RelinkBegins, FinalInv
<1>4. CASE ~RelinkBegins
  <2>1. mem.status # "completed"
    BY <1>4 DEF pause, cancel, resume, retryRecoverable, RelinkEnds, Busy, TERMINAL,
                IInv, RunInv, SnapInv, JobInv
  <2>2. /\ {"paused", "canceled", "queued"} \subseteq Statuses /\ "none" \in Codes
        /\ NewJob \in Job /\ NewJob.status = "queued"
    BY DEF Statuses, TERMINAL, Codes, NewJob, Job
  <2>3. \A x \in {"paused", "canceled", "queued"} :
          /\ [mem EXCEPT !.status = x] \in Job /\ [mem EXCEPT !.status = x].status = x
          /\ [mem EXCEPT !.status = x, !.code = "none"] \in Job
          /\ [mem EXCEPT !.status = x, !.code = "none"].status = x
    BY <1>1, <2>2 DEF Job
  <2>4. \E j \in Job, who \in Who : Save(j, who) /\ j.status # "completed"
    <3>1. CASE pause
      <4>1. Save([mem EXCEPT !.status = "paused"], "user")
        BY <3>1 DEF pause
      <4> QED BY <2>3, <4>1 DEF Who
    <3>2. CASE cancel
      <4>1. Save([mem EXCEPT !.status = "canceled"], "user")
        BY <3>2 DEF cancel
      <4> QED BY <2>3, <4>1 DEF Who
    <3>3. CASE resume \/ retryRecoverable
      <4>1. Save([mem EXCEPT !.status = "queued", !.code = "none"], "other")
        BY <3>3 DEF resume, retryRecoverable
      <4> QED BY <2>3, <4>1 DEF Who
    <3>4. CASE RelinkEnds
      <4>1. PICK same \in BOOLEAN :
              Save(IF same THEN [mem EXCEPT !.status = "queued", !.code = "none"] ELSE NewJob, "other")
        BY <3>4 DEF RelinkEnds
      <4>2. CASE same
        <5>1. Save([mem EXCEPT !.status = "queued", !.code = "none"], "other")
          BY <4>1, <4>2
        <5> QED BY <2>3, <5>1 DEF Who
      <4>3. CASE ~same
        <5>1. Save(NewJob, "other")
          BY <4>1, <4>3
        <5> QED BY <2>2, <5>1 DEF Who
      <4> QED BY <4>2, <4>3
    <3> QED BY <1>4, <3>1, <3>2, <3>3, <3>4
  <2> QED BY <1>2, <2>1, <2>4, SavedFinal
<1> QED BY <1>2, <1>3, <1>4

\* The rows that a request of the server makes.
LEMMA ServeFinal ==
    ASSUME IInv, FinalInv, NEW i \in 1..MaxRequests, Serve(i) \/ Breaks(i)
    PROVE  /\ FinalInv' /\ UNCHANGED <<got, disk>>
           /\ \/ UNCHANGED <<media \cup entity, media \cap entity>>
              \/ /\ media \cup entity = {}
                 /\ \E s \in Sessions :
                      got[s] = Size /\ (media \cup entity)' = {s} /\ (media \cap entity)' = {}
              \/ /\ media \cup entity # {} /\ (media \cup entity)' = media \cup entity
                 /\ (media \cap entity)' = media \cup entity
<1> DEFINE s == requests[i].session
<1>1. /\ mem' = mem /\ disk' = disk /\ chain' = chain /\ Place' = Place /\ kind' = kind
      /\ got' = got /\ up' = up
  BY DEF Serve, CheckRows, FirstRow, SecondRow, Breaks, serverRest, jobVars, runVars, sessionVars, Place
<1>2. /\ kind \in {"episode", "clip"} /\ media \subseteq Sessions /\ entity \subseteq Sessions
      /\ kind = "episode" => media \subseteq entity
      /\ kind = "clip" => entity \subseteq media
  BY DEF IInv, TypeOK, ServerInv, FinalInv
<1>3. \A t \in media \cup entity : t = mem.session
  BY <1>2 DEF IInv, RegInv, Known, Kept
<1>4. CASE UNCHANGED <<media, entity>>
  BY <1>1, <1>2, <1>4, QuietFinal DEF FinalInv
<1>5. CASE requests[i].step \in {"build", "second"}
  <2>1. s \in Sessions
    BY <1>5 DEF IInv, TypeOK, ServerInv
  <2>2. s = mem.session /\ got[s] = Size
    <3>1. Known(s)
      BY <1>5 DEF Known
    <3>2. Kept(mem, s)
      BY <2>1, <3>1 DEF IInv, RegInv
    <3> QED BY <3>2 DEF Kept, IInv, SnapInv, JobInv
  <2>3. /\ media' = media \/ (media' = media \cup {s})
        /\ entity' = entity \/ (entity' = entity \cup {s})
        /\ kind = "episode" /\ media' # media => entity' = entity /\ s \in entity
        /\ kind = "clip" /\ entity' # entity => media' = media /\ s \in media
        /\ kind = "episode" /\ entity' # entity => media' = media /\ entity = {}
        /\ kind = "clip" /\ media' # media => entity' = entity
    BY <1>2, <1>5 DEF Serve, CheckRows, FirstRow, SecondRow, Breaks, serverRest, IInv, ServerInv
  <2>4. kind' = "clip" => entity' \subseteq media'
    BY <1>1, <1>2, <2>3
  <2>5. FinalInv'
    BY <1>1, <2>4, QuietFinal DEF FinalInv
  <2>6. CASE kind = "episode"
    BY <1>1, <1>2, <1>3, <2>1, <2>2, <2>3, <2>5, <2>6
  <2>7. CASE kind = "clip"
    BY <1>1, <1>2, <1>3, <2>1, <2>2, <2>3, <2>5, <2>7
  <2> QED BY <1>2, <2>6, <2>7
<1> QED BY <1>4, <1>5 DEF Serve, CheckRows, FirstRow, SecondRow, Breaks

LEMMA CrashFinal ==
    ASSUME FinalInv, Crash
    PROVE  FinalInv' /\ UNCHANGED <<got, serverVars, disk>>
<1>1. /\ mem' = disk /\ disk' = disk /\ chain' = <<>> /\ pc' = "off"
      /\ UNCHANGED <<got, serverVars>> /\ media' = media /\ entity' = entity /\ kind' = kind
  BY DEF Crash, sessionVars, serverVars
<1>2. 1..Len(chain') = {} /\ Place' = "off"
  BY <1>1 DEF Place
<1> QED BY <1>1, <1>2 DEF FinalInv

LEMMA BootFinal ==
    ASSUME IInv, FinalInv, Boot
    PROVE  /\ FinalInv' /\ UNCHANGED <<got, serverVars>>
           /\ disk'.status = "completed" <=> disk.status = "completed"
<1>1. /\ ~up /\ mem' = disk' /\ chain' = chain /\ pc' = pc /\ then' = then
      /\ disk' = IF Restored(disk) THEN [disk EXCEPT !.status = "queued"] ELSE disk
      /\ UNCHANGED <<got, serverVars>> /\ media' = media /\ entity' = entity /\ kind' = kind
  BY DEF Boot, runVars, sessionVars, serverVars
<1>2. disk \in Job /\ Place = "off" /\ Place' = "off"
  BY <1>1 DEF IInv, TypeOK, RunInv, Place
<1>3. disk.status = "completed" => ~Restored(disk)
  BY DEF Restored, bytesLanded, Busy
<1>4. disk'.status = "completed" <=> disk.status = "completed"
  BY <1>1, <1>2, <1>3 DEF Job
<1>5. chain = <<>> /\ 1..Len(chain) = {} /\ up'
  BY <1>1 DEF FinalInv, Boot
<1> QED BY <1>1, <1>2, <1>4, <1>5 DEF FinalInv

LEMMA FinalNext ==
    ASSUME IInv, FinalInv, [Next]_vars
    PROVE  FinalInv'
<1>1. CASE up /\ RunStep
  BY <1>1, RunStepFinal
<1>2. CASE Persist
  BY <1>2, PersistFinal
<1>3. CASE Arrive \/ \E s \in Sessions : SessionEnds(s)
  BY <1>3, QuietFinal DEF Arrive, SessionEnds, jobVars, runVars, serverVars, Place, FinalInv
<1>4. CASE \E i \in 1..MaxRequests : Serve(i) \/ Breaks(i)
  BY <1>4, ServeFinal
<1>5. CASE pause \/ cancel \/ resume \/ retryRecoverable \/ RelinkBegins \/ RelinkEnds
  BY <1>5, UserFinal
<1>6. CASE Crash \/ Boot
  BY <1>6, CrashFinal, BootFinal
<1>7. CASE UNCHANGED vars
  BY <1>7, QuietFinal DEF vars, jobVars, runVars, serverVars, Place, FinalInv
<1> QED BY <1>1, <1>2, <1>3, <1>4, <1>5, <1>6, <1>7 DEF Next

\* What Upload sees of a step.
LEMMA UploadStep ==
    ASSUME IInv, FinalInv, [Next]_vars
    PROVE  [Uploading!Next]_(Uploading!vars)
<1> USE DEF Uploading!vars, Uploading!Next, Uploading!Store, Uploading!Register,
            Uploading!Complete, Uploading!Finish, Stored
<1>1. ASSUME UNCHANGED <<got, serverVars>>, (disk.status = "completed") <=> (disk'.status = "completed")
      PROVE  UNCHANGED Uploading!vars
  BY <1>1 DEF serverVars
<1>2. CASE up /\ RunStep
  BY <1>1, <1>2, RunStepFinal DEF RunEffect
<1>3. CASE Persist
  <2>1. /\ UNCHANGED <<got, media, entity>>
        /\ disk'.status = "completed" => media \cap entity # {}
        /\ disk.status = "completed" => disk'.status = "completed"
    BY <1>3, PersistFinal DEF serverVars
  <2> QED BY <2>1
<1>4. CASE Arrive
  <2>1. /\ UNCHANGED serverVars /\ disk' = disk /\ pc = "put"
        /\ \E n \in got[mem.session] + 1 .. end : got' = [got EXCEPT ![mem.session] = n]
    BY <1>4 DEF Arrive, jobVars
  <2>2. mem.session \in Sessions /\ got \in [Sessions -> 0..Size] /\ end \in 0..Size
    BY <2>1 DEF IInv, TypeOK, RunInv, Place, Sending, Job
  <2>3. PICK n \in got[mem.session] + 1 .. end : got' = [got EXCEPT ![mem.session] = n]
    BY <2>1
  <2>4. got[mem.session] # Size
    BY <2>2, <2>3, ConstantsTyped
  <2>5. Stored' = Stored \/ Stored' = Stored \cup {mem.session}
    <3>1. CASE n = Size
      BY <2>2, <2>3, <2>4, <3>1
    <3>2. CASE n # Size
      BY <2>2, <2>3, <2>4, <3>2
    <3> QED BY <3>1, <3>2
  <2> HIDE DEF Stored
  <2> QED BY <2>1, <2>2, <2>5 DEF serverVars
<1>5. CASE \E s \in Sessions : SessionEnds(s)
  BY <1>1, <1>5 DEF SessionEnds, jobVars
<1>6. ASSUME NEW i \in 1..MaxRequests, Serve(i) \/ Breaks(i)
      PROVE  [Uploading!Next]_(Uploading!vars)
  <2>1. UNCHANGED <<got, disk>>
    BY <1>6, ServeFinal
  <2>2. CASE UNCHANGED <<media \cup entity, media \cap entity>>
    BY <2>1, <2>2
  <2>3. ASSUME media \cup entity = {}, NEW s \in Sessions,
               got[s] = Size, (media \cup entity)' = {s}, (media \cap entity)' = {}
        PROVE  Uploading!Next
    BY <2>1, <2>3
  <2>4. CASE /\ media \cup entity # {} /\ (media \cup entity)' = media \cup entity
             /\ (media \cap entity)' = media \cup entity
    BY <2>1, <2>4
  <2> QED BY <1>6, <2>2, <2>3, <2>4, ServeFinal
<1>7. CASE pause \/ cancel \/ resume \/ retryRecoverable \/ RelinkBegins \/ RelinkEnds
  BY <1>1, <1>7, UserFinal
<1>8. CASE Crash \/ Boot
  BY <1>1, <1>8, CrashFinal, BootFinal
<1>9. CASE UNCHANGED vars
  BY <1>1, <1>9 DEF vars, jobVars, sessionVars
<1> QED BY <1>2, <1>3, <1>4, <1>5, <1>6, <1>7, <1>8, <1>9 DEF Next

\* Through every interruption an upload does what Upload says: the bytes, one session's
\* rows, and a completion that no pause, late save, relink or restart takes back
\* (engine.ts:168-252 and 546-620, index.ts:4565-4602).
THEOREM UploadImplemented == Spec => ImplementsUpload
<1>1. Init => FinalInv /\ Uploading!Init
  <2> SUFFICES ASSUME Init PROVE FinalInv /\ Uploading!Init
    OBVIOUS
  <2>1. /\ mem = NewJob /\ disk = NewJob /\ chain = <<>> /\ up
        /\ media = {} /\ entity = {} /\ got = [s \in Sessions |-> 0]
    BY DEF Init
  <2>2. NewJob.status = "queued" /\ 1..Len(chain) = {}
    BY <2>1 DEF NewJob
  <2>3. FinalInv
    BY <2>1, <2>2 DEF FinalInv
  <2>4. Stored = {}
    BY <2>1, ConstantsTyped DEF Stored
  <2> QED BY <2>1, <2>2, <2>3, <2>4 DEF Uploading!Init
<1>2. IInv /\ FinalInv /\ [Next]_vars => FinalInv'
  BY FinalNext
<1>3. IInv /\ FinalInv /\ [Next]_vars => [Uploading!Next]_(Uploading!vars)
  BY UploadStep
<1> QED BY <1>1, <1>2, <1>3, Invariance, PTL DEF Spec, ImplementsUpload, Uploading!Spec
=============================================================================
