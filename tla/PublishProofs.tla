---------------------------- MODULE PublishProofs -----------------------------
(***************************************************************************)
(* Proofs about Publish: types, what is shown as published, what a failed  *)
(* row has got back, and that a live video is not marked failed.           *)
(*                                                                         *)
(* Every process works on a copy of the clip that may be stale.  The       *)
(* invariants therefore hold of every copy, not only of the clip: a copy   *)
(* stays right because videos and refunds are never taken back, so that    *)
(* writing it, however late, writes rows that are right.                   *)
(***************************************************************************)
EXTENDS Publish, TLAPS

-----------------------------------------------------------------------------
(* Invariants.                                                             *)

\* A refund is only attempted for a row that names its charge.
RefundInv == \A w \in Workers : pc[w] = "refund" => OwnRow(w).key # None

\* What the row shows is true of the platforms, as far as L lists their videos.
Shown(L, row, d) ==
    /\ row.ext # None => L[row.ext] = d
    /\ row.status = "published" => row.ext # None

ShownInv ==
    /\ \A d \in Dests : Shown(live, clip[d], d)
    /\ \A p \in Procs, d \in Dests : Shown(live, snap[p][d], d)
    /\ \A w \in Workers : pc[w] \in {"read", "record"}
                          => videoId[w] \in Videos /\ live[videoId[w]] = dest[w]

\* The row's charge is either still held or among the refunds R, and a failed row
\* holds none.
Settled(R, row) ==
    /\ row.charged => row.key # None
    /\ (~row.charged /\ row.key # None) => row.key \in R
    /\ row.status = "failed" => ~row.charged

SettledInv ==
    /\ \A d \in Dests : Settled(refunded, clip[d])
    /\ \A p \in Procs, d \in Dests : Settled(refunded, snap[p][d])
    /\ \A w \in Workers : pc[w] = "write" => ~OwnRow(w).charged

\* A run has no video before its upload, nor when it fails afterwards on YouTube.
VideoInv ==
    \A w \in Workers :
        /\ pc[w] \in {"idle", "start", "upload"} => videoId[w] = None
        /\ (pc[w] \in Failing /\ dest[w] \in YouTube) => videoId[w] = None

-----------------------------------------------------------------------------
(* Rows.                                                                   *)

\* What the handlers make of a row is a row.
LEMMA RowTypes ==
    ASSUME NEW row \in Row
    PROVE  /\ \A k \in Keys \cup {None} : Dispatched(row, k) \in Row
           /\ \A v \in Videos \cup {None} : Published(row, v) \in Row
           /\ \A s \in RowStatus : [row EXCEPT !.status = s] \in Row
           /\ [row EXCEPT !.charged = FALSE] \in Row
           /\ row.key \in Keys \cup {None}
  BY DEF Row, RowStatus, Dispatched, Published

LEMMA NoRowType == NoRow \in Row
  BY DEF NoRow, Row, RowStatus

LEMMA Kinds == /\ Requests \cap Workers = {} /\ Requests \subseteq Procs /\ Workers \subseteq Procs
               /\ YouTube \subseteq Dests /\ None \notin Dests /\ None \notin Keys /\ None \notin Videos
  BY PublishAssumption DEF PublishAssumption, Procs

-----------------------------------------------------------------------------
(* Types.                                                                  *)

LEMMA TypeInit == Init => TypeOK /\ RefundInv
  BY Kinds, NoRowType DEF Init, TypeOK, RefundInv, JobStatus, Steps, Procs

\* A process that leaves keeps everything typed.
LEMMA QuitType ==
    ASSUME TypeOK, RefundInv, NEW p \in Procs, Quit(p)
    PROVE  /\ pc' \in [Procs -> Steps]
           /\ \A r \in Requests : pc'[r] \in {"idle"} \cup Dispatching
           /\ \A w \in Workers : pc'[w] \in {"idle"} \cup Running
           /\ dest' \in [Procs -> Dests \cup {None}]
           /\ \A q \in Procs : pc'[q] # "idle" => dest'[q] \in Dests
           /\ snap' \in [Procs -> [Dests -> Row]]
           /\ chargeKey' \in [Requests -> Keys \cup {None}]
           /\ videoId' \in [Workers -> Videos \cup {None}]
           /\ RefundInv'
  BY Kinds, NoRowType
  DEF TypeOK, RefundInv, OwnRow, Quit, Goto, Forget, Unread, Steps

\* So does a write of the whole clip.
LEMMA WriteType ==
    ASSUME TypeOK, NEW p \in Procs, pc[p] # "idle", NEW row \in Row, Write(p, row)
    PROVE  clip' \in [Dests -> Row]
  BY DEF TypeOK, Write

LEMMA OwnRowType ==
    ASSUME TypeOK, NEW p \in Procs, pc[p] # "idle"
    PROVE  OwnRow(p) \in Row
  BY DEF TypeOK, OwnRow

\* The sweep and the console touch the queue alone.
LEMMA QueueAlone ==
    ASSUME TypeOK, Sweep \/ Console
    PROVE  /\ UNCHANGED <<clip, ledger, live, pc, locals>>
           /\ job' \in [Dests -> JobStatus] /\ givenUp' \subseteq Dests
<1>1. CASE Sweep
  BY <1>1 DEF Sweep, Queue!Sweep, Queue!Recover, TypeOK, JobStatus
<1>2. CASE Console
  BY <1>2 DEF Console, Queue!RetryByHand, Queue!Remove, Queue!Turns, TypeOK, JobStatus
<1> QED
  BY <1>1, <1>2

LEMMA TypeNext == TypeOK /\ RefundInv /\ [Next]_vars => TypeOK' /\ RefundInv'
<1> SUFFICES ASSUME TypeOK, RefundInv, [Next]_vars PROVE TypeOK' /\ RefundInv'
  OBVIOUS
<1>1. ASSUME NEW r \in Requests, NEW d \in Dests, Ask(r, d) PROVE TypeOK' /\ RefundInv'
  <2>1. PICK s \in {"charge", "note"} :
           /\ pc' = [pc EXCEPT ![r] = s]
           /\ snap' = [snap EXCEPT ![r] = clip]
           /\ dest' = [dest EXCEPT ![r] = d]
           /\ UNCHANGED <<clip, spent, refunded, queue, live, chargeKey, videoId>>
    BY <1>1, Kinds DEF Ask, Goto, Read, ledger, queue
  <2>2. s \in Steps /\ s \in Dispatching /\ s # "refund"
    BY <2>1 DEF Steps, Dispatching
  <2> QED
    BY <2>1, <2>2, Kinds DEF queue, TypeOK, RefundInv, OwnRow
<1>2. ASSUME NEW r \in Requests, Charge(r) PROVE TypeOK' /\ RefundInv'
  <2>1. /\ pc' = [pc EXCEPT ![r] = "save"]
        /\ UNCHANGED <<clip, refunded, queue, live, dest, snap, videoId>>
    BY <1>2 DEF Charge, Goto
  <2>2. /\ spent' \in [Keys -> Dests \cup {None}]
        /\ chargeKey' \in [Requests -> Keys \cup {None}]
    <3>1. dest[r] \in Dests /\ spent \in [Keys -> Dests \cup {None}] /\ chargeKey \in [Requests -> Keys \cup {None}]
      BY <1>2, Kinds DEF Charge, TypeOK
    <3>2. \/ UNCHANGED <<spent, chargeKey>>
          \/ \E k \in Keys : /\ spent' = [spent EXCEPT ![k] = dest[r]]
                            /\ chargeKey' = [chargeKey EXCEPT ![r] = k]
      BY <1>2 DEF Charge
    <3> QED
      BY <3>1, <3>2
  <2>3. "save" \in Steps /\ "save" \in Dispatching
    BY DEF Steps, Dispatching
  <2>4. pc[r] # "idle"
    BY <1>2 DEF Charge
  <2> QED
    BY <2>1, <2>2, <2>3, <2>4, Kinds DEF queue, TypeOK, RefundInv, OwnRow
<1>3. ASSUME NEW r \in Requests, ChargeRefused(r) PROVE TypeOK' /\ RefundInv'
  BY <1>3, Kinds, QuitType DEF ChargeRefused, TypeOK, ledger, queue, JobStatus
<1>4. ASSUME NEW r \in Requests, Save(r) PROVE TypeOK' /\ RefundInv'
  <2>1. pc[r] # "idle" /\ OwnRow(r) \in Row /\ dest[r] \in Dests
    BY <1>4, Kinds, OwnRowType DEF Save, TypeOK
  <2>2. Dispatched(OwnRow(r), chargeKey[r]) \in Row
    BY <2>1, Kinds, RowTypes DEF TypeOK, RowStatus
  <2>3. clip' \in [Dests -> Row]
    BY <1>4, <2>1, <2>2, Kinds, WriteType DEF Save, TypeOK
  <2> QED
    BY <1>4, <2>3, Kinds, NoRowType DEF Save, TypeOK, RefundInv, OwnRow, Goto, Read, Forget, Unread, Steps, Dispatching, Running, Failing, JobStatus, ledger, queue, locals
<1>5. ASSUME NEW r \in Requests, Note(r) PROVE TypeOK' /\ RefundInv'
  <2>1. pc[r] # "idle" /\ OwnRow(r) \in Row
    BY <1>5, Kinds, OwnRowType DEF Note
  <2>2. [OwnRow(r) EXCEPT !.status = "recorded"] \in Row
    BY <2>1, RowTypes DEF RowStatus
  <2>3. clip' \in [Dests -> Row]
    BY <1>5, <2>1, <2>2, Kinds, WriteType DEF Note
  <2> QED
    BY <1>5, <2>3, Kinds, QuitType DEF Note, TypeOK, ledger, queue
<1>6. ASSUME NEW r \in Requests, Enqueue(r) PROVE TypeOK' /\ RefundInv'
  BY <1>6, Kinds, QuitType DEF Enqueue, TypeOK, ledger, queue, JobStatus
<1>7. ASSUME NEW w \in Workers, NEW d \in Dests, Claim(w, d) PROVE TypeOK' /\ RefundInv'
  BY <1>7, Kinds DEF Claim, TypeOK, RefundInv, OwnRow, Goto, Read, Forget, Unread, Steps, Dispatching, Running, Failing, JobStatus, ledger, queue, locals
<1>8. ASSUME NEW w \in Workers, Start(w) PROVE TypeOK' /\ RefundInv'
  BY <1>8, Kinds DEF Start, TypeOK, RefundInv, OwnRow, Goto, Read, Forget, Unread, Steps, Dispatching, Running, Failing, JobStatus, ledger, queue, locals
<1>9. ASSUME NEW w \in Workers, Uploaded(w) PROVE TypeOK' /\ RefundInv'
  BY <1>9, Kinds DEF Uploaded, TypeOK, RefundInv, OwnRow, Goto, Read, Forget, Unread, Steps, Dispatching, Running, Failing, JobStatus, ledger, queue, locals
<1>10. ASSUME NEW w \in Workers, UploadThrows(w) PROVE TypeOK' /\ RefundInv'
  BY <1>10, Kinds DEF UploadThrows, TypeOK, RefundInv, OwnRow, Goto, Read, Forget, Unread, Steps, Dispatching, Running, Failing, JobStatus, ledger, queue, locals
<1>11. ASSUME NEW w \in Workers, RecordRead(w) PROVE TypeOK' /\ RefundInv'
  BY <1>11, Kinds DEF RecordRead, TypeOK, RefundInv, OwnRow, Goto, Read, Forget, Unread, Steps, Dispatching, Running, Failing, JobStatus, ledger, queue, locals
<1>12. ASSUME NEW w \in Workers, RecordWrite(w) PROVE TypeOK' /\ RefundInv'
  <2>1. pc[w] # "idle" /\ OwnRow(w) \in Row /\ dest[w] \in Dests
    BY <1>12, Kinds, OwnRowType DEF RecordWrite, TypeOK
  <2>2. Published(OwnRow(w), videoId[w]) \in Row
    BY <2>1, Kinds, RowTypes DEF TypeOK, RowStatus
  <2>3. clip' \in [Dests -> Row]
    BY <1>12, <2>1, <2>2, Kinds, WriteType DEF RecordWrite, TypeOK
  <2> QED
    BY <1>12, <2>3, Kinds, NoRowType DEF RecordWrite, TypeOK, RefundInv, OwnRow, Goto, Read, Forget, Unread, Steps, Dispatching, Running, Failing, JobStatus, ledger, queue, locals
<1>13. ASSUME NEW w \in Workers, RecordThrows(w) PROVE TypeOK' /\ RefundInv'
  <2>1. pc[w] # "idle" /\ OwnRow(w) \in Row /\ dest[w] \in Dests
    BY <1>13, Kinds, OwnRowType DEF RecordThrows, TypeOK
  <2>2. Published(OwnRow(w), videoId[w]) \in Row
    BY <2>1, Kinds, RowTypes DEF TypeOK, RowStatus
  <2>3. clip' \in [Dests -> Row]
    BY <1>13, <2>1, <2>2, Kinds, WriteType DEF RecordThrows, TypeOK
  <2> QED
    BY <1>13, <2>3, Kinds, NoRowType DEF RecordThrows, AfterFailedRecord, TypeOK, RefundInv, OwnRow, Goto, Read, Forget, Unread, Steps, Dispatching, Running, Failing, JobStatus, ledger, queue, locals
<1>14. ASSUME NEW w \in Workers, FailRead(w) PROVE TypeOK' /\ RefundInv'
  BY <1>14, Kinds DEF FailRead, TypeOK, RefundInv, OwnRow, Goto, Read, Forget, Unread, Steps, Dispatching, Running, Failing, JobStatus, ledger, queue, locals
<1>15. ASSUME NEW w \in Workers, Refund(w) PROVE TypeOK' /\ RefundInv'
  <2>1. pc[w] # "idle" /\ OwnRow(w) \in Row /\ dest[w] \in Dests /\ OwnRow(w).key # None
    BY <1>15, Kinds, OwnRowType DEF Refund, TypeOK, RefundInv
  <2>2. /\ [OwnRow(w) EXCEPT !.charged = FALSE] \in Row
        /\ OwnRow(w).key \in Keys
    BY <2>1, RowTypes
  <2>3. snap' = [snap EXCEPT ![w] = [snap[w] EXCEPT ![dest[w]] = [OwnRow(w) EXCEPT !.charged = FALSE]]]
    BY <1>15, <2>1, Kinds DEF Refund, TypeOK, OwnRow
  <2>4. snap' \in [Procs -> [Dests -> Row]]
    BY <2>1, <2>2, <2>3, Kinds DEF TypeOK
  <2> QED
    BY <1>15, <2>2, <2>4, Kinds DEF queue, Refund, TypeOK, RefundInv, OwnRow, Goto, Steps, Running, Failing
<1>16. ASSUME NEW w \in Workers, FailWrite(w) PROVE TypeOK' /\ RefundInv'
  <2>1. pc[w] # "idle" /\ OwnRow(w) \in Row /\ dest[w] \in Dests
    BY <1>16, Kinds, OwnRowType DEF FailWrite, TypeOK
  <2>2. [OwnRow(w) EXCEPT !.status = "failed"] \in Row
    BY <2>1, Kinds, RowTypes DEF TypeOK, RowStatus
  <2>3. clip' \in [Dests -> Row]
    BY <1>16, <2>1, <2>2, Kinds, WriteType DEF FailWrite, TypeOK
  <2> QED
    BY <1>16, <2>3, Kinds, NoRowType DEF FailWrite, TypeOK, RefundInv, OwnRow, Goto, Read, Forget, Unread, Steps, Dispatching, Running, Failing, JobStatus, ledger, queue, locals
<1>17. ASSUME NEW w \in Workers, FailThrows(w) PROVE TypeOK' /\ RefundInv'
  <2>1. pc[w] # "idle" /\ OwnRow(w) \in Row /\ dest[w] \in Dests
    BY <1>17, Kinds, OwnRowType DEF FailThrows, TypeOK
  <2>2. [OwnRow(w) EXCEPT !.status = "failed"] \in Row
    BY <2>1, Kinds, RowTypes DEF TypeOK, RowStatus
  <2>3. clip' \in [Dests -> Row]
    BY <1>17, <2>1, <2>2, Kinds, WriteType DEF FailThrows, TypeOK
  <2> QED
    BY <1>17, <2>3, Kinds, NoRowType DEF FailThrows, TypeOK, RefundInv, OwnRow, Goto, Read, Forget, Unread, Steps, Dispatching, Running, Failing, JobStatus, ledger, queue, locals
<1>18. ASSUME NEW w \in Workers, Finish(w) PROVE TypeOK' /\ RefundInv'
  BY <1>18, Kinds, QuitType DEF Finish, TypeOK, ledger, queue, JobStatus
<1>19. ASSUME NEW p \in Procs, Crash(p) PROVE TypeOK' /\ RefundInv'
  BY <1>19, Kinds, QuitType DEF Crash, TypeOK, ledger, queue, JobStatus
<1>20. CASE Sweep \/ Console
  BY <1>20, QueueAlone DEF TypeOK, RefundInv, OwnRow, ledger, locals
<1>21. CASE UNCHANGED vars
  BY <1>21 DEF vars, ledger, queue, locals, TypeOK, RefundInv, OwnRow
<1> QED
  BY <1>1, <1>2, <1>3, <1>4, <1>5, <1>6, <1>7, <1>8, <1>9, <1>10, <1>11, <1>12, <1>13, <1>14, <1>15, <1>16, <1>17, <1>18, <1>19, <1>20, <1>21 DEF Next

\* The clip, the ledger, queue, the job and the processes keep their types
\* (publish-dispatch.ts:94-326, worker.ts:2250-2285 and 2868-3440).
THEOREM TypeCorrect == Spec => []TypeOK
<1>1. Spec => [](TypeOK /\ RefundInv)
  BY TypeInit, TypeNext, PTL DEF Spec
<1> QED
  BY <1>1, PTL

-----------------------------------------------------------------------------
(* What is shown as published.                                             *)

LEMMA RowShown ==
    ASSUME NEW L, NEW d \in Dests, NEW row \in Row, Shown(L, row, d)
    PROVE  /\ \A k : Shown(L, Dispatched(row, k), d)
           /\ \A s \in RowStatus \ {"published"} : Shown(L, [row EXCEPT !.status = s], d)
           /\ \A v \in Videos : L[v] = d => Shown(L, Published(row, v), d)
           /\ Shown(L, [row EXCEPT !.charged = FALSE], d)
  BY Kinds DEF Shown, Row, RowStatus, Dispatched, Published

LEMMA NoRowShown == \A L, d : Shown(L, NoRow, d)
  BY DEF Shown, NoRow

\* A new video leaves the old ones where they are.
LEMMA NewVideo ==
    ASSUME TypeOK, NEW v \in Videos, live[v] = None, NEW e, live' = [live EXCEPT ![v] = e],
           NEW d \in Dests, NEW row \in Row, Shown(live, row, d)
    PROVE  Shown(live', row, d)
  BY Kinds DEF TypeOK, Shown, Row

\* Writing a stale copy writes rows that are right.
LEMMA WriteShown ==
    ASSUME TypeOK, ShownInv, NEW p \in Procs, pc[p] # "idle",
           NEW row, Shown(live, row, dest[p]), Write(p, row)
    PROVE  \A d \in Dests : Shown(live, clip'[d], d)
  BY DEF TypeOK, ShownInv, Write

LEMMA ForgetShown ==
    ASSUME TypeOK, ShownInv, NEW p \in Procs, Forget(p)
    PROVE  \A q \in Procs, d \in Dests : Shown(live, snap'[q][d], d)
  BY NoRowShown DEF TypeOK, ShownInv, Forget, Unread

LEMMA OwnRowShown ==
    ASSUME TypeOK, ShownInv, NEW p \in Procs, pc[p] # "idle"
    PROVE  OwnRow(p) \in Row /\ dest[p] \in Dests /\ Shown(live, OwnRow(p), dest[p])
  BY DEF TypeOK, ShownInv, OwnRow

LEMMA ShownNext == TypeOK /\ ShownInv /\ [Next]_vars => ShownInv'
<1> SUFFICES ASSUME TypeOK, ShownInv, [Next]_vars PROVE ShownInv'
  OBVIOUS
<1>1. ASSUME NEW r \in Requests, NEW d \in Dests, Ask(r, d) PROVE ShownInv'
  <2>1. snap' = [snap EXCEPT ![r] = clip] /\ UNCHANGED <<clip, live>>
    BY <1>1 DEF Ask, Read
  <2>2. \A q \in Procs, e \in Dests : Shown(live, snap'[q][e], e)
    BY <2>1, Kinds DEF TypeOK, ShownInv
  <2>3. \A q \in Workers : pc'[q] \in {"read", "record"}
                          => pc[q] \in {"read", "record"} /\ dest'[q] = dest[q] /\ videoId'[q] = videoId[q]
    BY <1>1, Kinds DEF Ask, Goto, TypeOK, locals, Quit, AfterFailedRecord
  <2> QED
    BY <2>1, <2>2, <2>3 DEF ShownInv
<1>2. ASSUME NEW r \in Requests, Charge(r) PROVE ShownInv'
  <2>1. UNCHANGED <<clip, snap, live>>
    BY <1>2 DEF Charge, locals, ledger, queue
  <2>2. \A q \in Workers : pc'[q] \in {"read", "record"}
                          => pc[q] = pc'[q] /\ dest'[q] = dest[q] /\ videoId'[q] = videoId[q]
    BY <1>2, Kinds DEF Charge, Goto, TypeOK, locals
  <2> QED
    BY <2>1, <2>2 DEF ShownInv
<1>3. ASSUME NEW r \in Requests, ChargeRefused(r) PROVE ShownInv'
  <2>1. Forget(r) /\ UNCHANGED <<clip, live>>
    BY <1>3 DEF ChargeRefused, Quit
  <2>2. \A q \in Procs, e \in Dests : Shown(live, snap'[q][e], e)
    BY <2>1, Kinds, ForgetShown
  <2>3. \A q \in Workers : pc'[q] \in {"read", "record"}
                          => pc[q] \in {"read", "record"} /\ dest'[q] = dest[q] /\ videoId'[q] = videoId[q]
    BY <1>3, Kinds DEF ChargeRefused, Goto, TypeOK, locals, Quit, AfterFailedRecord
  <2> QED
    BY <2>1, <2>2, <2>3 DEF ShownInv
<1>4. ASSUME NEW r \in Requests, Save(r) PROVE ShownInv'
  <2>1. pc[r] # "idle" /\ Forget(r) /\ UNCHANGED live /\ (clip' = clip \/ Write(r, Dispatched(OwnRow(r), chargeKey[r])))
    BY <1>4 DEF Save, Quit
  <2>2. OwnRow(r) \in Row /\ dest[r] \in Dests /\ Shown(live, OwnRow(r), dest[r])
    BY <2>1, Kinds, OwnRowShown
  <2>3. ASSUME Write(r, Dispatched(OwnRow(r), chargeKey[r]))
       PROVE  \A d \in Dests : Shown(live, clip'[d], d)
    <3>1. Shown(live, Dispatched(OwnRow(r), chargeKey[r]), dest[r])
      BY <2>2, RowShown DEF RowStatus
    <3> QED
      BY <2>1, <2>3, <3>1, Kinds, WriteShown
  <2>4. ASSUME clip' = clip
       PROVE  \A d \in Dests : Shown(live, clip'[d], d)
    BY <2>4 DEF ShownInv
  <2>5. clip' = clip \/ Write(r, Dispatched(OwnRow(r), chargeKey[r]))
    BY <2>1
  <2>6. \A d \in Dests : Shown(live, clip'[d], d)
    BY <2>3, <2>4, <2>5 DEF ShownInv
  <2>7. \A q \in Procs, d \in Dests : Shown(live, snap'[q][d], d)
    BY <2>1, Kinds, ForgetShown
  <2>8. \A q \in Workers : pc'[q] \in {"read", "record"}
                          => pc[q] \in {"read", "record"} /\ dest'[q] = dest[q] /\ videoId'[q] = videoId[q]
    BY <1>4, Kinds DEF Save, Goto, TypeOK, locals, Quit, AfterFailedRecord
  <2> QED
    BY <2>1, <2>6, <2>7, <2>8 DEF ShownInv
<1>5. ASSUME NEW r \in Requests, Note(r) PROVE ShownInv'
  <2>1. pc[r] # "idle" /\ Forget(r) /\ UNCHANGED live /\ (clip' = clip \/ Write(r, [OwnRow(r) EXCEPT !.status = "recorded"]))
    BY <1>5 DEF Note, Quit
  <2>2. OwnRow(r) \in Row /\ dest[r] \in Dests /\ Shown(live, OwnRow(r), dest[r])
    BY <2>1, Kinds, OwnRowShown
  <2>3. ASSUME Write(r, [OwnRow(r) EXCEPT !.status = "recorded"])
       PROVE  \A d \in Dests : Shown(live, clip'[d], d)
    <3>1. Shown(live, [OwnRow(r) EXCEPT !.status = "recorded"], dest[r])
      BY <2>2, RowShown DEF RowStatus
    <3> QED
      BY <2>1, <2>3, <3>1, Kinds, WriteShown
  <2>4. ASSUME clip' = clip
       PROVE  \A d \in Dests : Shown(live, clip'[d], d)
    BY <2>4 DEF ShownInv
  <2>5. clip' = clip \/ Write(r, [OwnRow(r) EXCEPT !.status = "recorded"])
    BY <2>1
  <2>6. \A d \in Dests : Shown(live, clip'[d], d)
    BY <2>3, <2>4, <2>5 DEF ShownInv
  <2>7. \A q \in Procs, d \in Dests : Shown(live, snap'[q][d], d)
    BY <2>1, Kinds, ForgetShown
  <2>8. \A q \in Workers : pc'[q] \in {"read", "record"}
                          => pc[q] \in {"read", "record"} /\ dest'[q] = dest[q] /\ videoId'[q] = videoId[q]
    BY <1>5, Kinds DEF Note, Goto, TypeOK, locals, Quit, AfterFailedRecord
  <2> QED
    BY <2>1, <2>6, <2>7, <2>8 DEF ShownInv
<1>6. ASSUME NEW r \in Requests, Enqueue(r) PROVE ShownInv'
  <2>1. Forget(r) /\ UNCHANGED <<clip, live>>
    BY <1>6 DEF Enqueue, Quit
  <2>2. \A q \in Procs, e \in Dests : Shown(live, snap'[q][e], e)
    BY <2>1, Kinds, ForgetShown
  <2>3. \A q \in Workers : pc'[q] \in {"read", "record"}
                          => pc[q] \in {"read", "record"} /\ dest'[q] = dest[q] /\ videoId'[q] = videoId[q]
    BY <1>6, Kinds DEF Enqueue, Goto, TypeOK, locals, Quit, AfterFailedRecord
  <2> QED
    BY <2>1, <2>2, <2>3 DEF ShownInv
<1>7. ASSUME NEW w \in Workers, NEW d \in Dests, Claim(w, d) PROVE ShownInv'
  <2>1. UNCHANGED <<clip, snap, live>>
    BY <1>7 DEF Claim, locals, ledger, queue
  <2>2. \A q \in Workers : pc'[q] \in {"read", "record"}
                          => pc[q] = pc'[q] /\ dest'[q] = dest[q] /\ videoId'[q] = videoId[q]
    BY <1>7, Kinds DEF Claim, Goto, TypeOK, locals
  <2> QED
    BY <2>1, <2>2 DEF ShownInv
<1>8. ASSUME NEW w \in Workers, Start(w) PROVE ShownInv'
  <2>1. UNCHANGED <<clip, snap, live>>
    BY <1>8 DEF Start, locals, ledger, queue
  <2>2. \A q \in Workers : pc'[q] \in {"read", "record"}
                          => pc[q] = pc'[q] /\ dest'[q] = dest[q] /\ videoId'[q] = videoId[q]
    BY <1>8, Kinds DEF Start, Goto, TypeOK, locals
  <2> QED
    BY <2>1, <2>2 DEF ShownInv
<1>9. ASSUME NEW w \in Workers, Uploaded(w) PROVE ShownInv'
  <2>1. PICK v \in Videos : /\ live[v] = None
                            /\ live' = [live EXCEPT ![v] = dest[w]]
                            /\ videoId' = [videoId EXCEPT ![w] = v]
    BY <1>9 DEF Uploaded
  <2>2. UNCHANGED <<clip, snap, dest>> /\ pc' = [pc EXCEPT ![w] = "read"]
    BY <1>9 DEF Uploaded, Goto
  <2>3. \A d \in Dests : Shown(live', clip'[d], d)
    BY <2>1, <2>2, NewVideo DEF ShownInv, TypeOK
  <2>4. \A q \in Procs, d \in Dests : Shown(live', snap'[q][d], d)
    BY <2>1, <2>2, NewVideo DEF ShownInv, TypeOK
  <2>5. ASSUME NEW q \in Workers, pc'[q] \in {"read", "record"}
        PROVE  videoId'[q] \in Videos /\ live'[videoId'[q]] = dest'[q]
    <3>1. CASE q = w
      BY <2>1, <2>2, <3>1 DEF TypeOK
    <3>2. CASE q # w
      <4>1. /\ videoId'[q] = videoId[q] /\ dest'[q] = dest[q]
            /\ videoId[q] \in Videos /\ live[videoId[q]] = dest[q] /\ dest[q] \in Dests
        BY <2>1, <2>2, <2>5, <3>2, Kinds DEF TypeOK, ShownInv
      <4> QED
        BY <2>1, <4>1, Kinds DEF TypeOK
    <3> QED
      BY <3>1, <3>2
  <2> QED
    BY <2>3, <2>4, <2>5 DEF ShownInv
<1>10. ASSUME NEW w \in Workers, UploadThrows(w) PROVE ShownInv'
  <2>1. UNCHANGED <<clip, snap, dest, videoId>> /\ pc' = [pc EXCEPT ![w] = "fail"]
    BY <1>10 DEF UploadThrows, Goto, locals
  <2>2. CASE UNCHANGED live
    BY <2>1, <2>2, Kinds DEF ShownInv, TypeOK
  <2>3. CASE \E v \in Videos : live[v] = None /\ live' = [live EXCEPT ![v] = dest[w]]
    <3>1. PICK v \in Videos : live[v] = None /\ live' = [live EXCEPT ![v] = dest[w]]
      BY <2>3
    <3>2. \A d \in Dests : Shown(live', clip'[d], d)
      BY <2>1, <3>1, NewVideo DEF ShownInv, TypeOK
    <3>3. \A q \in Procs, d \in Dests : Shown(live', snap'[q][d], d)
      BY <2>1, <3>1, NewVideo DEF ShownInv, TypeOK
    <3>4. ASSUME NEW q \in Workers, pc'[q] \in {"read", "record"}
          PROVE  videoId'[q] \in Videos /\ live'[videoId'[q]] = dest'[q]
      <4>1. videoId[q] \in Videos /\ live[videoId[q]] = dest[q] /\ dest[q] \in Dests
        BY <2>1, <3>4, Kinds DEF TypeOK, ShownInv
      <4> QED
        BY <2>1, <3>1, <4>1, Kinds DEF TypeOK
    <3> QED
      BY <3>2, <3>3, <3>4 DEF ShownInv
  <2> QED
    BY <1>10, <2>2, <2>3 DEF UploadThrows
<1>11. ASSUME NEW w \in Workers, RecordRead(w) PROVE ShownInv'
  <2>1. snap' = [snap EXCEPT ![w] = clip] /\ UNCHANGED <<clip, live>>
    BY <1>11 DEF RecordRead, Read
  <2>2. \A q \in Procs, e \in Dests : Shown(live, snap'[q][e], e)
    BY <2>1, Kinds DEF TypeOK, ShownInv
  <2>3. \A q \in Workers : pc'[q] \in {"read", "record"}
                          => pc[q] \in {"read", "record"} /\ dest'[q] = dest[q] /\ videoId'[q] = videoId[q]
    BY <1>11, Kinds DEF RecordRead, Goto, TypeOK, locals, Quit, AfterFailedRecord
  <2> QED
    BY <2>1, <2>2, <2>3 DEF ShownInv
<1>12. ASSUME NEW w \in Workers, RecordWrite(w) PROVE ShownInv'
  <2>1. pc[w] # "idle" /\ Forget(w) /\ UNCHANGED live /\ (clip' = clip \/ Write(w, Published(OwnRow(w), videoId[w])))
    BY <1>12 DEF RecordWrite, Quit
  <2>2. OwnRow(w) \in Row /\ dest[w] \in Dests /\ Shown(live, OwnRow(w), dest[w])
    BY <2>1, Kinds, OwnRowShown
  <2>3. ASSUME Write(w, Published(OwnRow(w), videoId[w])), pc[w] = "record"
       PROVE  \A d \in Dests : Shown(live, clip'[d], d)
    <3>1. Shown(live, Published(OwnRow(w), videoId[w]), dest[w])
      BY <2>2, <2>3, RowShown DEF ShownInv
    <3> QED
      BY <2>1, <2>3, <3>1, Kinds, WriteShown
  <2>4. ASSUME clip' = clip
       PROVE  \A d \in Dests : Shown(live, clip'[d], d)
    BY <2>4 DEF ShownInv
  <2>5. clip' = clip \/ (Write(w, Published(OwnRow(w), videoId[w])) /\ pc[w] = "record")
    BY <1>12 DEF RecordWrite
  <2>6. \A d \in Dests : Shown(live, clip'[d], d)
    BY <2>3, <2>4, <2>5 DEF ShownInv
  <2>7. \A q \in Procs, d \in Dests : Shown(live, snap'[q][d], d)
    BY <2>1, Kinds, ForgetShown
  <2>8. \A q \in Workers : pc'[q] \in {"read", "record"}
                          => pc[q] \in {"read", "record"} /\ dest'[q] = dest[q] /\ videoId'[q] = videoId[q]
    BY <1>12, Kinds DEF RecordWrite, Goto, TypeOK, locals, Quit, AfterFailedRecord
  <2> QED
    BY <2>1, <2>6, <2>7, <2>8 DEF ShownInv
<1>13. ASSUME NEW w \in Workers, RecordThrows(w) PROVE ShownInv'
  <2>1. pc[w] # "idle" /\ Forget(w) /\ UNCHANGED live /\ (clip' = clip \/ Write(w, Published(OwnRow(w), videoId[w])))
    BY <1>13 DEF RecordThrows, Quit
  <2>2. OwnRow(w) \in Row /\ dest[w] \in Dests /\ Shown(live, OwnRow(w), dest[w])
    BY <2>1, Kinds, OwnRowShown
  <2>3. ASSUME Write(w, Published(OwnRow(w), videoId[w])), pc[w] = "record"
       PROVE  \A d \in Dests : Shown(live, clip'[d], d)
    <3>1. Shown(live, Published(OwnRow(w), videoId[w]), dest[w])
      BY <2>2, <2>3, RowShown DEF ShownInv
    <3> QED
      BY <2>1, <2>3, <3>1, Kinds, WriteShown
  <2>4. ASSUME clip' = clip
       PROVE  \A d \in Dests : Shown(live, clip'[d], d)
    BY <2>4 DEF ShownInv
  <2>5. clip' = clip \/ (Write(w, Published(OwnRow(w), videoId[w])) /\ pc[w] = "record")
    BY <1>13 DEF RecordThrows
  <2>6. \A d \in Dests : Shown(live, clip'[d], d)
    BY <2>3, <2>4, <2>5 DEF ShownInv
  <2>7. \A q \in Procs, d \in Dests : Shown(live, snap'[q][d], d)
    BY <2>1, Kinds, ForgetShown
  <2>8. \A q \in Workers : pc'[q] \in {"read", "record"}
                          => pc[q] \in {"read", "record"} /\ dest'[q] = dest[q] /\ videoId'[q] = videoId[q]
    BY <1>13, Kinds DEF RecordThrows, Goto, TypeOK, locals, Quit, AfterFailedRecord
  <2> QED
    BY <2>1, <2>6, <2>7, <2>8 DEF ShownInv
<1>14. ASSUME NEW w \in Workers, FailRead(w) PROVE ShownInv'
  <2>1. snap' = [snap EXCEPT ![w] = clip] /\ UNCHANGED <<clip, live>>
    BY <1>14 DEF FailRead, Read
  <2>2. \A q \in Procs, e \in Dests : Shown(live, snap'[q][e], e)
    BY <2>1, Kinds DEF TypeOK, ShownInv
  <2>3. \A q \in Workers : pc'[q] \in {"read", "record"}
                          => pc[q] \in {"read", "record"} /\ dest'[q] = dest[q] /\ videoId'[q] = videoId[q]
    BY <1>14, Kinds DEF FailRead, Goto, TypeOK, locals, Quit, AfterFailedRecord
  <2> QED
    BY <2>1, <2>2, <2>3 DEF ShownInv
<1>15. ASSUME NEW w \in Workers, Refund(w) PROVE ShownInv'
  <2>1. pc[w] # "idle" /\ UNCHANGED <<clip, live>>
    BY <1>15 DEF Refund
  <2>2. OwnRow(w) \in Row /\ dest[w] \in Dests /\ Shown(live, OwnRow(w), dest[w])
    BY <2>1, Kinds, OwnRowShown
  <2>3. snap' = [snap EXCEPT ![w] = [snap[w] EXCEPT ![dest[w]] = [OwnRow(w) EXCEPT !.charged = FALSE]]]
    BY <1>15, <2>2, Kinds DEF Refund, TypeOK, OwnRow
  <2>4. Shown(live, [OwnRow(w) EXCEPT !.charged = FALSE], dest[w])
    BY <2>2, RowShown
  <2>5. \A q \in Procs, d \in Dests : Shown(live, snap'[q][d], d)
    BY <2>2, <2>3, <2>4, Kinds DEF ShownInv, TypeOK
  <2>6. \A q \in Workers : pc'[q] \in {"read", "record"}
                          => pc[q] \in {"read", "record"} /\ dest'[q] = dest[q] /\ videoId'[q] = videoId[q]
    BY <1>15, Kinds DEF Refund, Goto, TypeOK, locals, Quit, AfterFailedRecord
  <2> QED
    BY <2>1, <2>5, <2>6 DEF ShownInv
<1>16. ASSUME NEW w \in Workers, FailWrite(w) PROVE ShownInv'
  <2>1. pc[w] # "idle" /\ Forget(w) /\ UNCHANGED live /\ (clip' = clip \/ Write(w, [OwnRow(w) EXCEPT !.status = "failed"]))
    BY <1>16 DEF FailWrite, Quit
  <2>2. OwnRow(w) \in Row /\ dest[w] \in Dests /\ Shown(live, OwnRow(w), dest[w])
    BY <2>1, Kinds, OwnRowShown
  <2>3. ASSUME Write(w, [OwnRow(w) EXCEPT !.status = "failed"])
       PROVE  \A d \in Dests : Shown(live, clip'[d], d)
    <3>1. Shown(live, [OwnRow(w) EXCEPT !.status = "failed"], dest[w])
      BY <2>2, RowShown DEF RowStatus
    <3> QED
      BY <2>1, <2>3, <3>1, Kinds, WriteShown
  <2>4. ASSUME clip' = clip
       PROVE  \A d \in Dests : Shown(live, clip'[d], d)
    BY <2>4 DEF ShownInv
  <2>5. clip' = clip \/ Write(w, [OwnRow(w) EXCEPT !.status = "failed"])
    BY <2>1
  <2>6. \A d \in Dests : Shown(live, clip'[d], d)
    BY <2>3, <2>4, <2>5 DEF ShownInv
  <2>7. \A q \in Procs, d \in Dests : Shown(live, snap'[q][d], d)
    BY <2>1, Kinds, ForgetShown
  <2>8. \A q \in Workers : pc'[q] \in {"read", "record"}
                          => pc[q] \in {"read", "record"} /\ dest'[q] = dest[q] /\ videoId'[q] = videoId[q]
    BY <1>16, Kinds DEF FailWrite, Goto, TypeOK, locals, Quit, AfterFailedRecord
  <2> QED
    BY <2>1, <2>6, <2>7, <2>8 DEF ShownInv
<1>17. ASSUME NEW w \in Workers, FailThrows(w) PROVE ShownInv'
  <2>1. pc[w] # "idle" /\ Forget(w) /\ UNCHANGED live /\ (clip' = clip \/ Write(w, [OwnRow(w) EXCEPT !.status = "failed"]))
    BY <1>17 DEF FailThrows, Quit
  <2>2. OwnRow(w) \in Row /\ dest[w] \in Dests /\ Shown(live, OwnRow(w), dest[w])
    BY <2>1, Kinds, OwnRowShown
  <2>3. ASSUME Write(w, [OwnRow(w) EXCEPT !.status = "failed"])
       PROVE  \A d \in Dests : Shown(live, clip'[d], d)
    <3>1. Shown(live, [OwnRow(w) EXCEPT !.status = "failed"], dest[w])
      BY <2>2, RowShown DEF RowStatus
    <3> QED
      BY <2>1, <2>3, <3>1, Kinds, WriteShown
  <2>4. ASSUME clip' = clip
       PROVE  \A d \in Dests : Shown(live, clip'[d], d)
    BY <2>4 DEF ShownInv
  <2>5. clip' = clip \/ Write(w, [OwnRow(w) EXCEPT !.status = "failed"])
    BY <2>1
  <2>6. \A d \in Dests : Shown(live, clip'[d], d)
    BY <2>3, <2>4, <2>5 DEF ShownInv
  <2>7. \A q \in Procs, d \in Dests : Shown(live, snap'[q][d], d)
    BY <2>1, Kinds, ForgetShown
  <2>8. \A q \in Workers : pc'[q] \in {"read", "record"}
                          => pc[q] \in {"read", "record"} /\ dest'[q] = dest[q] /\ videoId'[q] = videoId[q]
    BY <1>17, Kinds DEF FailThrows, Goto, TypeOK, locals, Quit, AfterFailedRecord
  <2> QED
    BY <2>1, <2>6, <2>7, <2>8 DEF ShownInv
<1>18. ASSUME NEW w \in Workers, Finish(w) PROVE ShownInv'
  <2>1. Forget(w) /\ UNCHANGED <<clip, live>>
    BY <1>18 DEF Finish, Quit
  <2>2. \A q \in Procs, e \in Dests : Shown(live, snap'[q][e], e)
    BY <2>1, Kinds, ForgetShown
  <2>3. \A q \in Workers : pc'[q] \in {"read", "record"}
                          => pc[q] \in {"read", "record"} /\ dest'[q] = dest[q] /\ videoId'[q] = videoId[q]
    BY <1>18, Kinds DEF Finish, Goto, TypeOK, locals, Quit, AfterFailedRecord
  <2> QED
    BY <2>1, <2>2, <2>3 DEF ShownInv
<1>19. ASSUME NEW p \in Procs, Crash(p) PROVE ShownInv'
  <2>1. Forget(p) /\ UNCHANGED <<clip, live>>
    BY <1>19 DEF Crash, Quit
  <2>2. \A q \in Procs, e \in Dests : Shown(live, snap'[q][e], e)
    BY <2>1, Kinds, ForgetShown
  <2>3. \A q \in Workers : pc'[q] \in {"read", "record"}
                          => pc[q] \in {"read", "record"} /\ dest'[q] = dest[q] /\ videoId'[q] = videoId[q]
    BY <1>19, Kinds DEF Crash, Goto, TypeOK, locals, Quit, AfterFailedRecord
  <2> QED
    BY <2>1, <2>2, <2>3 DEF ShownInv
<1>20. CASE Sweep \/ Console
  BY <1>20, QueueAlone DEF ShownInv, locals
<1>21. CASE UNCHANGED vars
  BY <1>21 DEF vars, ledger, queue, locals, ShownInv
<1> QED
  BY <1>1, <1>2, <1>3, <1>4, <1>5, <1>6, <1>7, <1>8, <1>9, <1>10, <1>11, <1>12, <1>13, <1>14, <1>15, <1>16, <1>17, <1>18, <1>19, <1>20, <1>21 DEF Next

\* What is shown as published exists on the platform it is shown for, for any faults and
\* any overlap of requests and workers (publish-guard.ts:58-62 and 79-85).
THEOREM ShownIsLive == Spec => []PublishedIsLive
<1>1. Init => ShownInv
  BY NoRowShown, Kinds DEF Init, ShownInv
<1>2. ShownInv => PublishedIsLive
  BY DEF ShownInv, Shown, PublishedIsLive
<1> QED
  BY <1>1, <1>2, TypeInit, TypeNext, ShownNext, PTL DEF Spec

-----------------------------------------------------------------------------
(* What a failed row has got back.                                         *)

LEMMA RowSettled ==
    ASSUME NEW R, NEW row \in Row, Settled(R, row)
    PROVE  /\ \A k \in Keys \cup {None} : Settled(R, Dispatched(row, k))
           /\ \A s \in RowStatus \ {"failed"} : Settled(R, [row EXCEPT !.status = s])
           /\ ~row.charged => Settled(R, [row EXCEPT !.status = "failed"])
           /\ \A v \in Videos \cup {None} : Settled(R, Published(row, v))
           /\ row.key \in R => Settled(R, [row EXCEPT !.charged = FALSE])
  BY Kinds DEF Settled, Row, RowStatus, Dispatched, Published

LEMMA GrowSettled ==
    ASSUME NEW R, NEW S, R \subseteq S, NEW row, Settled(R, row)
    PROVE  Settled(S, row)
  BY DEF Settled

LEMMA NoRowSettled == \A R : Settled(R, NoRow)
  BY DEF Settled, NoRow

\* Writing a stale copy writes rows that are settled.
LEMMA WriteSettled ==
    ASSUME TypeOK, SettledInv, NEW p \in Procs, pc[p] # "idle",
           NEW row, Settled(refunded, row), Write(p, row)
    PROVE  \A d \in Dests : Settled(refunded, clip'[d])
  BY DEF TypeOK, SettledInv, Write

LEMMA ForgetSettled ==
    ASSUME TypeOK, SettledInv, NEW p \in Procs, Forget(p)
    PROVE  \A q \in Procs, d \in Dests : Settled(refunded, snap'[q][d])
  BY NoRowSettled DEF TypeOK, SettledInv, Forget, Unread

LEMMA OwnRowSettled ==
    ASSUME TypeOK, SettledInv, NEW p \in Procs, pc[p] # "idle"
    PROVE  OwnRow(p) \in Row /\ dest[p] \in Dests /\ Settled(refunded, OwnRow(p))
  BY DEF TypeOK, SettledInv, OwnRow

\* Refunds only grow, so that a copy stays settled however stale it is.
LEMMA SettledNext ==
    "refund" \notin Faults /\ TypeOK /\ SettledInv /\ [Next]_vars => SettledInv'
<1> SUFFICES ASSUME "refund" \notin Faults, TypeOK, SettledInv, [Next]_vars PROVE SettledInv'
  OBVIOUS
<1>1. ASSUME NEW r \in Requests, NEW d \in Dests, Ask(r, d) PROVE SettledInv'
  <2>1. snap' = [snap EXCEPT ![r] = clip] /\ UNCHANGED <<clip, refunded>>
    BY <1>1 DEF Ask, Read, ledger, queue
  <2>2. \A q \in Procs, e \in Dests : Settled(refunded, snap'[q][e])
    BY <2>1, Kinds DEF TypeOK, SettledInv
  <2>3. \A q \in Workers : pc'[q] = "write"
                          => pc[q] = "write" /\ dest'[q] = dest[q] /\ snap'[q] = snap[q]
    BY <1>1, Kinds DEF Ask, Goto, TypeOK, locals, Quit, Read, Forget, AfterFailedRecord
  <2> QED
    BY <2>1, <2>2, <2>3 DEF SettledInv, OwnRow
<1>2. ASSUME NEW r \in Requests, Charge(r) PROVE SettledInv'
  <2>1. UNCHANGED <<clip, snap, refunded>>
    BY <1>2 DEF Charge, ledger, queue, locals
  <2>2. \A q \in Workers : pc'[q] = "write"
                          => pc[q] = "write" /\ dest'[q] = dest[q] /\ snap'[q] = snap[q]
    BY <1>2, Kinds DEF Charge, Goto, TypeOK, locals, Quit, Read, Forget, AfterFailedRecord
  <2> QED
    BY <2>1, <2>2 DEF SettledInv, OwnRow
<1>3. ASSUME NEW r \in Requests, ChargeRefused(r) PROVE SettledInv'
  <2>1. Forget(r) /\ UNCHANGED <<clip, refunded>>
    BY <1>3 DEF ChargeRefused, Quit, ledger, queue
  <2>2. \A q \in Procs, e \in Dests : Settled(refunded, snap'[q][e])
    BY <2>1, Kinds, ForgetSettled
  <2>3. \A q \in Workers : pc'[q] = "write"
                          => pc[q] = "write" /\ dest'[q] = dest[q] /\ snap'[q] = snap[q]
    BY <1>3, Kinds DEF ChargeRefused, Goto, TypeOK, locals, Quit, Read, Forget, AfterFailedRecord
  <2> QED
    BY <2>1, <2>2, <2>3 DEF SettledInv, OwnRow
<1>4. ASSUME NEW r \in Requests, Save(r) PROVE SettledInv'
  <2>1. /\ pc[r] # "idle" /\ Forget(r) /\ UNCHANGED refunded
        /\ clip' = clip \/ (pc[r] = "save" /\ Write(r, Dispatched(OwnRow(r), chargeKey[r])))
    BY <1>4 DEF Save, Quit, ledger, queue
  <2>2. OwnRow(r) \in Row /\ dest[r] \in Dests /\ Settled(refunded, OwnRow(r))
    BY <2>1, Kinds, OwnRowSettled
  <2>3. ASSUME pc[r] = "save" /\ Write(r, Dispatched(OwnRow(r), chargeKey[r]))
       PROVE  \A d \in Dests : Settled(refunded, clip'[d])
    <3>1. Settled(refunded, Dispatched(OwnRow(r), chargeKey[r]))
      BY <2>2, <2>3, RowSettled, Kinds DEF TypeOK
    <3> QED
      BY <2>1, <2>3, <3>1, Kinds, WriteSettled
  <2>4. \A d \in Dests : Settled(refunded, clip'[d])
    BY <2>1, <2>3 DEF SettledInv
  <2>5. \A q \in Procs, d \in Dests : Settled(refunded, snap'[q][d])
    BY <2>1, Kinds, ForgetSettled
  <2>6. \A q \in Workers : pc'[q] = "write"
                          => pc[q] = "write" /\ dest'[q] = dest[q] /\ snap'[q] = snap[q]
    BY <1>4, Kinds DEF Save, Goto, TypeOK, locals, Quit, Read, Forget, AfterFailedRecord
  <2> QED
    BY <2>1, <2>4, <2>5, <2>6 DEF SettledInv, OwnRow
<1>5. ASSUME NEW r \in Requests, Note(r) PROVE SettledInv'
  <2>1. /\ pc[r] # "idle" /\ Forget(r) /\ UNCHANGED refunded
        /\ clip' = clip \/ (pc[r] = "note" /\ Write(r, [OwnRow(r) EXCEPT !.status = "recorded"]))
    BY <1>5 DEF Note, Quit, ledger, queue
  <2>2. OwnRow(r) \in Row /\ dest[r] \in Dests /\ Settled(refunded, OwnRow(r))
    BY <2>1, Kinds, OwnRowSettled
  <2>3. ASSUME pc[r] = "note" /\ Write(r, [OwnRow(r) EXCEPT !.status = "recorded"])
       PROVE  \A d \in Dests : Settled(refunded, clip'[d])
    <3>1. Settled(refunded, [OwnRow(r) EXCEPT !.status = "recorded"])
      BY <2>2, <2>3, RowSettled, Kinds DEF RowStatus
    <3> QED
      BY <2>1, <2>3, <3>1, Kinds, WriteSettled
  <2>4. \A d \in Dests : Settled(refunded, clip'[d])
    BY <2>1, <2>3 DEF SettledInv
  <2>5. \A q \in Procs, d \in Dests : Settled(refunded, snap'[q][d])
    BY <2>1, Kinds, ForgetSettled
  <2>6. \A q \in Workers : pc'[q] = "write"
                          => pc[q] = "write" /\ dest'[q] = dest[q] /\ snap'[q] = snap[q]
    BY <1>5, Kinds DEF Note, Goto, TypeOK, locals, Quit, Read, Forget, AfterFailedRecord
  <2> QED
    BY <2>1, <2>4, <2>5, <2>6 DEF SettledInv, OwnRow
<1>6. ASSUME NEW r \in Requests, Enqueue(r) PROVE SettledInv'
  <2>1. Forget(r) /\ UNCHANGED <<clip, refunded>>
    BY <1>6 DEF Enqueue, Quit, ledger, queue
  <2>2. \A q \in Procs, e \in Dests : Settled(refunded, snap'[q][e])
    BY <2>1, Kinds, ForgetSettled
  <2>3. \A q \in Workers : pc'[q] = "write"
                          => pc[q] = "write" /\ dest'[q] = dest[q] /\ snap'[q] = snap[q]
    BY <1>6, Kinds DEF Enqueue, Goto, TypeOK, locals, Quit, Read, Forget, AfterFailedRecord
  <2> QED
    BY <2>1, <2>2, <2>3 DEF SettledInv, OwnRow
<1>7. ASSUME NEW w \in Workers, NEW d \in Dests, Claim(w, d) PROVE SettledInv'
  <2>1. UNCHANGED <<clip, snap, refunded>>
    BY <1>7 DEF Claim, ledger, queue, locals
  <2>2. \A q \in Workers : pc'[q] = "write"
                          => pc[q] = "write" /\ dest'[q] = dest[q] /\ snap'[q] = snap[q]
    BY <1>7, Kinds DEF Claim, Goto, TypeOK, locals, Quit, Read, Forget, AfterFailedRecord
  <2> QED
    BY <2>1, <2>2 DEF SettledInv, OwnRow
<1>8. ASSUME NEW w \in Workers, Start(w) PROVE SettledInv'
  <2>1. UNCHANGED <<clip, snap, refunded>>
    BY <1>8 DEF Start, ledger, queue, locals
  <2>2. \A q \in Workers : pc'[q] = "write"
                          => pc[q] = "write" /\ dest'[q] = dest[q] /\ snap'[q] = snap[q]
    BY <1>8, Kinds DEF Start, Goto, TypeOK, locals, Quit, Read, Forget, AfterFailedRecord
  <2> QED
    BY <2>1, <2>2 DEF SettledInv, OwnRow
<1>9. ASSUME NEW w \in Workers, Uploaded(w) PROVE SettledInv'
  <2>1. UNCHANGED <<clip, snap, refunded>>
    BY <1>9 DEF Uploaded, ledger, queue, locals
  <2>2. \A q \in Workers : pc'[q] = "write"
                          => pc[q] = "write" /\ dest'[q] = dest[q] /\ snap'[q] = snap[q]
    BY <1>9, Kinds DEF Uploaded, Goto, TypeOK, locals, Quit, Read, Forget, AfterFailedRecord
  <2> QED
    BY <2>1, <2>2 DEF SettledInv, OwnRow
<1>10. ASSUME NEW w \in Workers, UploadThrows(w) PROVE SettledInv'
  <2>1. UNCHANGED <<clip, snap, refunded>>
    BY <1>10 DEF UploadThrows, ledger, queue, locals
  <2>2. \A q \in Workers : pc'[q] = "write"
                          => pc[q] = "write" /\ dest'[q] = dest[q] /\ snap'[q] = snap[q]
    BY <1>10, Kinds DEF UploadThrows, Goto, TypeOK, locals, Quit, Read, Forget, AfterFailedRecord
  <2> QED
    BY <2>1, <2>2 DEF SettledInv, OwnRow
<1>11. ASSUME NEW w \in Workers, RecordRead(w) PROVE SettledInv'
  <2>1. snap' = [snap EXCEPT ![w] = clip] /\ UNCHANGED <<clip, refunded>>
    BY <1>11 DEF RecordRead, Read, ledger, queue
  <2>2. \A q \in Procs, e \in Dests : Settled(refunded, snap'[q][e])
    BY <2>1, Kinds DEF TypeOK, SettledInv
  <2>3. \A q \in Workers : pc'[q] = "write"
                          => pc[q] = "write" /\ dest'[q] = dest[q] /\ snap'[q] = snap[q]
    BY <1>11, Kinds DEF RecordRead, Goto, TypeOK, locals, Quit, Read, Forget, AfterFailedRecord
  <2> QED
    BY <2>1, <2>2, <2>3 DEF SettledInv, OwnRow
<1>12. ASSUME NEW w \in Workers, RecordWrite(w) PROVE SettledInv'
  <2>1. /\ pc[w] # "idle" /\ Forget(w) /\ UNCHANGED refunded
        /\ clip' = clip \/ (pc[w] = "record" /\ Write(w, Published(OwnRow(w), videoId[w])))
    BY <1>12 DEF RecordWrite, Quit, ledger, queue
  <2>2. OwnRow(w) \in Row /\ dest[w] \in Dests /\ Settled(refunded, OwnRow(w))
    BY <2>1, Kinds, OwnRowSettled
  <2>3. ASSUME pc[w] = "record" /\ Write(w, Published(OwnRow(w), videoId[w]))
       PROVE  \A d \in Dests : Settled(refunded, clip'[d])
    <3>1. Settled(refunded, Published(OwnRow(w), videoId[w]))
      BY <2>2, <2>3, RowSettled, Kinds DEF TypeOK
    <3> QED
      BY <2>1, <2>3, <3>1, Kinds, WriteSettled
  <2>4. \A d \in Dests : Settled(refunded, clip'[d])
    BY <2>1, <2>3 DEF SettledInv
  <2>5. \A q \in Procs, d \in Dests : Settled(refunded, snap'[q][d])
    BY <2>1, Kinds, ForgetSettled
  <2>6. \A q \in Workers : pc'[q] = "write"
                          => pc[q] = "write" /\ dest'[q] = dest[q] /\ snap'[q] = snap[q]
    BY <1>12, Kinds DEF RecordWrite, Goto, TypeOK, locals, Quit, Read, Forget, AfterFailedRecord
  <2> QED
    BY <2>1, <2>4, <2>5, <2>6 DEF SettledInv, OwnRow
<1>13. ASSUME NEW w \in Workers, RecordThrows(w) PROVE SettledInv'
  <2>1. /\ pc[w] # "idle" /\ Forget(w) /\ UNCHANGED refunded
        /\ clip' = clip \/ (pc[w] = "record" /\ Write(w, Published(OwnRow(w), videoId[w])))
    BY <1>13 DEF RecordThrows, Quit, ledger, queue
  <2>2. OwnRow(w) \in Row /\ dest[w] \in Dests /\ Settled(refunded, OwnRow(w))
    BY <2>1, Kinds, OwnRowSettled
  <2>3. ASSUME pc[w] = "record" /\ Write(w, Published(OwnRow(w), videoId[w]))
       PROVE  \A d \in Dests : Settled(refunded, clip'[d])
    <3>1. Settled(refunded, Published(OwnRow(w), videoId[w]))
      BY <2>2, <2>3, RowSettled, Kinds DEF TypeOK
    <3> QED
      BY <2>1, <2>3, <3>1, Kinds, WriteSettled
  <2>4. \A d \in Dests : Settled(refunded, clip'[d])
    BY <2>1, <2>3 DEF SettledInv
  <2>5. \A q \in Procs, d \in Dests : Settled(refunded, snap'[q][d])
    BY <2>1, Kinds, ForgetSettled
  <2>6. \A q \in Workers : pc'[q] = "write"
                          => pc[q] = "write" /\ dest'[q] = dest[q] /\ snap'[q] = snap[q]
    BY <1>13, Kinds DEF RecordThrows, Goto, TypeOK, locals, Quit, Read, Forget, AfterFailedRecord
  <2> QED
    BY <2>1, <2>4, <2>5, <2>6 DEF SettledInv, OwnRow
<1>14. ASSUME NEW w \in Workers, FailRead(w) PROVE SettledInv'
  <2>1. /\ snap' = [snap EXCEPT ![w] = clip] /\ UNCHANGED <<clip, refunded, dest>>
        /\ dest[w] \in Dests
    BY <1>14, Kinds DEF FailRead, Read, ledger, queue, TypeOK
  <2>2. \A q \in Procs, e \in Dests : Settled(refunded, snap'[q][e])
    BY <2>1, Kinds DEF TypeOK, SettledInv
  <2>3. ASSUME NEW q \in Workers, pc'[q] = "write"
       PROVE  ~OwnRow(q)'.charged
    <3>1. CASE q = w
      <4>1. OwnRow(w)' = clip[dest[w]]
        BY <2>1, Kinds DEF OwnRow, TypeOK
      <4>2. ~(clip[dest[w]].charged /\ clip[dest[w]].key # None)
        BY <1>14, <2>3, <3>1, Kinds DEF FailRead, Goto, TypeOK
      <4> QED
        BY <2>1, <3>1, <4>1, <4>2 DEF SettledInv, Settled
    <3>2. CASE q # w
      BY <1>14, <2>1, <2>3, <3>2, Kinds DEF FailRead, Goto, TypeOK, SettledInv, OwnRow
    <3> QED
      BY <3>1, <3>2
  <2> QED
    BY <2>1, <2>2, <2>3 DEF SettledInv
<1>15. ASSUME NEW w \in Workers, Refund(w) PROVE SettledInv'
  <2>1. /\ pc[w] # "idle" /\ UNCHANGED <<clip, dest>>
        /\ refunded' = refunded \cup {OwnRow(w).key}
        /\ pc' = [pc EXCEPT ![w] = "write"]
    BY <1>15 DEF Refund, Goto
  <2>2. OwnRow(w) \in Row /\ dest[w] \in Dests /\ Settled(refunded, OwnRow(w))
    BY <2>1, Kinds, OwnRowSettled
  <2>3. snap' = [snap EXCEPT ![w] = [snap[w] EXCEPT ![dest[w]] = [OwnRow(w) EXCEPT !.charged = FALSE]]]
    BY <1>15, <2>2, Kinds DEF Refund, TypeOK, OwnRow
  <2>4. /\ Settled(refunded', OwnRow(w))
        /\ OwnRow(w).key \in refunded'
    BY <2>1, <2>2, GrowSettled
  <2>5. Settled(refunded', [OwnRow(w) EXCEPT !.charged = FALSE])
    BY <2>2, <2>4, RowSettled
  <2>6. \A d \in Dests : Settled(refunded', clip'[d])
    BY <2>1, GrowSettled DEF SettledInv
  <2>7. \A q \in Procs, d \in Dests : Settled(refunded', snap'[q][d])
    <3>1. \A q \in Procs, d \in Dests : Settled(refunded', snap[q][d])
      BY <2>1, GrowSettled DEF SettledInv
    <3> QED
      BY <2>2, <2>3, <2>5, <3>1, Kinds DEF TypeOK
  <2>8. ASSUME NEW q \in Workers, pc'[q] = "write"
       PROVE  ~OwnRow(q)'.charged
    <3>1. CASE q = w
      <4>1. OwnRow(w)' = [OwnRow(w) EXCEPT !.charged = FALSE]
        BY <2>1, <2>2, <2>3, Kinds DEF OwnRow, TypeOK
      <4> QED
        BY <2>2, <3>1, <4>1 DEF Row
    <3>2. CASE q # w
      BY <2>1, <2>3, <2>8, <3>2, Kinds DEF TypeOK, SettledInv, OwnRow
    <3> QED
      BY <3>1, <3>2
  <2> QED
    BY <2>6, <2>7, <2>8 DEF SettledInv
<1>16. ASSUME NEW w \in Workers, FailWrite(w) PROVE SettledInv'
  <2>1. /\ pc[w] # "idle" /\ Forget(w) /\ UNCHANGED refunded
        /\ clip' = clip \/ (pc[w] = "write" /\ Write(w, [OwnRow(w) EXCEPT !.status = "failed"]))
    BY <1>16 DEF FailWrite, Quit, ledger, queue
  <2>2. OwnRow(w) \in Row /\ dest[w] \in Dests /\ Settled(refunded, OwnRow(w))
    BY <2>1, Kinds, OwnRowSettled
  <2>3. ASSUME pc[w] = "write" /\ Write(w, [OwnRow(w) EXCEPT !.status = "failed"])
       PROVE  \A d \in Dests : Settled(refunded, clip'[d])
    <3>1. Settled(refunded, [OwnRow(w) EXCEPT !.status = "failed"])
      BY <2>2, <2>3, RowSettled, Kinds DEF SettledInv
    <3> QED
      BY <2>1, <2>3, <3>1, Kinds, WriteSettled
  <2>4. \A d \in Dests : Settled(refunded, clip'[d])
    BY <2>1, <2>3 DEF SettledInv
  <2>5. \A q \in Procs, d \in Dests : Settled(refunded, snap'[q][d])
    BY <2>1, Kinds, ForgetSettled
  <2>6. \A q \in Workers : pc'[q] = "write"
                          => pc[q] = "write" /\ dest'[q] = dest[q] /\ snap'[q] = snap[q]
    BY <1>16, Kinds DEF FailWrite, Goto, TypeOK, locals, Quit, Read, Forget, AfterFailedRecord
  <2> QED
    BY <2>1, <2>4, <2>5, <2>6 DEF SettledInv, OwnRow
<1>17. ASSUME NEW w \in Workers, FailThrows(w) PROVE SettledInv'
  <2>1. /\ pc[w] # "idle" /\ Forget(w) /\ UNCHANGED refunded
        /\ clip' = clip \/ (pc[w] = "write" /\ Write(w, [OwnRow(w) EXCEPT !.status = "failed"]))
    BY <1>17 DEF FailThrows, Quit, ledger, queue
  <2>2. OwnRow(w) \in Row /\ dest[w] \in Dests /\ Settled(refunded, OwnRow(w))
    BY <2>1, Kinds, OwnRowSettled
  <2>3. ASSUME pc[w] = "write" /\ Write(w, [OwnRow(w) EXCEPT !.status = "failed"])
       PROVE  \A d \in Dests : Settled(refunded, clip'[d])
    <3>1. Settled(refunded, [OwnRow(w) EXCEPT !.status = "failed"])
      BY <2>2, <2>3, RowSettled, Kinds DEF SettledInv
    <3> QED
      BY <2>1, <2>3, <3>1, Kinds, WriteSettled
  <2>4. \A d \in Dests : Settled(refunded, clip'[d])
    BY <2>1, <2>3 DEF SettledInv
  <2>5. \A q \in Procs, d \in Dests : Settled(refunded, snap'[q][d])
    BY <2>1, Kinds, ForgetSettled
  <2>6. \A q \in Workers : pc'[q] = "write"
                          => pc[q] = "write" /\ dest'[q] = dest[q] /\ snap'[q] = snap[q]
    BY <1>17, Kinds DEF FailThrows, Goto, TypeOK, locals, Quit, Read, Forget, AfterFailedRecord
  <2> QED
    BY <2>1, <2>4, <2>5, <2>6 DEF SettledInv, OwnRow
<1>18. ASSUME NEW w \in Workers, Finish(w) PROVE SettledInv'
  <2>1. Forget(w) /\ UNCHANGED <<clip, refunded>>
    BY <1>18 DEF Finish, Quit, ledger, queue
  <2>2. \A q \in Procs, e \in Dests : Settled(refunded, snap'[q][e])
    BY <2>1, Kinds, ForgetSettled
  <2>3. \A q \in Workers : pc'[q] = "write"
                          => pc[q] = "write" /\ dest'[q] = dest[q] /\ snap'[q] = snap[q]
    BY <1>18, Kinds DEF Finish, Goto, TypeOK, locals, Quit, Read, Forget, AfterFailedRecord
  <2> QED
    BY <2>1, <2>2, <2>3 DEF SettledInv, OwnRow
<1>19. ASSUME NEW p \in Procs, Crash(p) PROVE SettledInv'
  <2>1. Forget(p) /\ UNCHANGED <<clip, refunded>>
    BY <1>19 DEF Crash, Quit, ledger, queue
  <2>2. \A q \in Procs, e \in Dests : Settled(refunded, snap'[q][e])
    BY <2>1, Kinds, ForgetSettled
  <2>3. \A q \in Workers : pc'[q] = "write"
                          => pc[q] = "write" /\ dest'[q] = dest[q] /\ snap'[q] = snap[q]
    BY <1>19, Kinds DEF Crash, Goto, TypeOK, locals, Quit, Read, Forget, AfterFailedRecord
  <2> QED
    BY <2>1, <2>2, <2>3 DEF SettledInv, OwnRow
<1>20. CASE Sweep \/ Console
  BY <1>20, QueueAlone DEF SettledInv, OwnRow, ledger, locals
<1>21. CASE UNCHANGED vars
  BY <1>21 DEF vars, ledger, queue, locals, SettledInv, OwnRow
<1> QED
  BY <1>1, <1>2, <1>3, <1>4, <1>5, <1>6, <1>7, <1>8, <1>9, <1>10, <1>11, <1>12, <1>13, <1>14, <1>15, <1>16, <1>17, <1>18, <1>19, <1>20, <1>21 DEF Next

\* A failed row has its credits back, for any number of requests and workers that charge
\* and overwrite, as long as the INSERT of a refund does not throw (worker.ts:2265-2281).
THEOREM FailureIsRefunded ==
    ASSUME "refund" \notin Faults
    PROVE  Spec => []FailedIsRefunded
<1>1. Init => SettledInv
  BY NoRowSettled, Kinds DEF Init, SettledInv
<1>2. SettledInv => FailedIsRefunded
  BY DEF SettledInv, Settled, FailedIsRefunded
<1>3. TypeOK /\ SettledInv /\ [Next]_vars => SettledInv'
  BY SettledNext
<1> QED
  BY <1>1, <1>2, <1>3, TypeInit, TypeNext, PTL DEF Spec

-----------------------------------------------------------------------------
(* A live YouTube video.                                                   *)

LEMMA VideoInit == Init => VideoInv
  BY Kinds DEF Init, VideoInv, Failing

LEMMA VideoNext == TypeOK /\ VideoInv /\ [Next]_vars => VideoInv'
<1> SUFFICES ASSUME TypeOK, VideoInv, [Next]_vars PROVE VideoInv'
  OBVIOUS
<1>1. ASSUME NEW r \in Requests, NEW d \in Dests, Ask(r, d) PROVE VideoInv'
  BY <1>1, Kinds DEF Ask, TypeOK, VideoInv, Failing, Goto, locals
<1>2. ASSUME NEW r \in Requests, Charge(r) PROVE VideoInv'
  BY <1>2, Kinds DEF Charge, TypeOK, VideoInv, Failing, Goto, locals
<1>3. ASSUME NEW r \in Requests, ChargeRefused(r) PROVE VideoInv'
  BY <1>3, Kinds DEF ChargeRefused, TypeOK, VideoInv, Failing, Goto, locals, Quit
<1>4. ASSUME NEW r \in Requests, Save(r) PROVE VideoInv'
  BY <1>4, Kinds DEF Save, TypeOK, VideoInv, Failing, Goto, locals
<1>5. ASSUME NEW r \in Requests, Note(r) PROVE VideoInv'
  BY <1>5, Kinds DEF Note, TypeOK, VideoInv, Failing, Goto, locals, Quit
<1>6. ASSUME NEW r \in Requests, Enqueue(r) PROVE VideoInv'
  BY <1>6, Kinds DEF Enqueue, TypeOK, VideoInv, Failing, Goto, locals, Quit
<1>7. ASSUME NEW w \in Workers, NEW d \in Dests, Claim(w, d) PROVE VideoInv'
  BY <1>7, Kinds DEF Claim, TypeOK, VideoInv, Failing, Goto, locals
<1>8. ASSUME NEW w \in Workers, Start(w) PROVE VideoInv'
  BY <1>8, Kinds DEF Start, TypeOK, VideoInv, Failing, Goto, locals
<1>9. ASSUME NEW w \in Workers, Uploaded(w) PROVE VideoInv'
  BY <1>9, Kinds DEF Uploaded, TypeOK, VideoInv, Failing, Goto, locals
<1>10. ASSUME NEW w \in Workers, UploadThrows(w) PROVE VideoInv'
  BY <1>10, Kinds DEF UploadThrows, TypeOK, VideoInv, Failing, Goto, locals
<1>11. ASSUME NEW w \in Workers, RecordRead(w) PROVE VideoInv'
  BY <1>11, Kinds DEF RecordRead, TypeOK, VideoInv, Failing, Goto, locals
<1>12. ASSUME NEW w \in Workers, RecordWrite(w) PROVE VideoInv'
  BY <1>12, Kinds DEF RecordWrite, TypeOK, VideoInv, Failing, Goto, locals
<1>13. ASSUME NEW w \in Workers, RecordThrows(w) PROVE VideoInv'
  BY <1>13, Kinds DEF RecordThrows, TypeOK, VideoInv, Failing, Goto, locals, AfterFailedRecord
<1>14. ASSUME NEW w \in Workers, FailRead(w) PROVE VideoInv'
  BY <1>14, Kinds DEF FailRead, TypeOK, VideoInv, Failing, Goto, locals
<1>15. ASSUME NEW w \in Workers, Refund(w) PROVE VideoInv'
  BY <1>15, Kinds DEF Refund, TypeOK, VideoInv, Failing, Goto, locals
<1>16. ASSUME NEW w \in Workers, FailWrite(w) PROVE VideoInv'
  BY <1>16, Kinds DEF FailWrite, TypeOK, VideoInv, Failing, Goto, locals
<1>17. ASSUME NEW w \in Workers, FailThrows(w) PROVE VideoInv'
  BY <1>17, Kinds DEF FailThrows, TypeOK, VideoInv, Failing, Goto, locals
<1>18. ASSUME NEW w \in Workers, Finish(w) PROVE VideoInv'
  BY <1>18, Kinds DEF Finish, TypeOK, VideoInv, Failing, Goto, locals, Quit
<1>19. ASSUME NEW p \in Procs, Crash(p) PROVE VideoInv'
  BY <1>19, Kinds DEF Crash, TypeOK, VideoInv, Failing, Goto, locals, Quit
<1>20. CASE Sweep \/ Console
  BY <1>20, QueueAlone DEF VideoInv, locals
<1>21. CASE UNCHANGED vars
  BY <1>21 DEF vars, ledger, queue, locals, VideoInv
<1> QED
  BY <1>1, <1>2, <1>3, <1>4, <1>5, <1>6, <1>7, <1>8, <1>9, <1>10, <1>11, <1>12, <1>13, <1>14, <1>15, <1>16, <1>17, <1>18, <1>19, <1>20, <1>21 DEF Next

\* A run whose YouTube upload succeeded never turns the row failed, whatever throws
\* afterwards (worker.ts:3382 and 3417-3428).
THEOREM NoFailureAfterUpload == Spec => LiveIsNeverFailed
<1>1. ASSUME TypeOK, VideoInv, [Next]_vars, NEW w \in Workers,
             pc[w] = "write", dest[w] \in YouTube
      PROVE  videoId[w] = None
  BY <1>1 DEF VideoInv, Failing
<1>2. TypeOK /\ VideoInv /\ [Next]_vars
      => [\A w \in Workers :
            (pc[w] = "write" /\ pc'[w] # "write" /\ clip' # clip /\ dest[w] \in YouTube)
            => videoId[w] = None]_vars
  BY <1>1
<1> QED
  BY <1>2, TypeInit, TypeNext, VideoInit, VideoNext, PTL DEF Spec, LiveIsNeverFailed

-----------------------------------------------------------------------------
(* The queue is used as it promises to be.                                 *)

\* A worker names the destination it runs, whose job is running, and no two workers
\* run the same one.
JobInv ==
    /\ \A w \in Workers : pc[w] = "idle" => dest[w] = None
    /\ \A w \in Workers : dest[w] # None => job[dest[w]] = "running"
    /\ \A v, w \in Workers : dest[v] = dest[w] /\ dest[v] # None => v = w

\* A step that the queue does not see.
Unseen ==
    /\ UNCHANGED queue
    /\ \A w \in Workers : dest'[w] = dest[w] /\ (pc'[w] = "idle" => pc[w] = "idle")

LEMMA JobTypes ==
    ASSUME TypeOK
    PROVE  job \in [Dests -> JobStatus] /\ \A w \in Workers : dest[w] \in Dests \cup {None}
  BY Kinds DEF TypeOK

LEMMA RunnersStay ==
    ASSUME \A w \in Workers : dest'[w] = dest[w]
    PROVE  Runners' = Runners
  BY DEF Runners

LEMMA UnseenStep ==
    ASSUME JobInv, Unseen
    PROVE  JobInv' /\ UNCHANGED Queue!vars
  BY RunnersStay DEF JobInv, Unseen, queue, Queue!vars

\* The run of a worker is over: by its own verdict, or by its death.
LEMMA RunnerLeaves ==
    ASSUME TypeOK, JobInv, NEW w \in Workers, pc[w] # "idle", Quit(w)
    PROVE  /\ dest[w] \in Dests /\ job[dest[w]] = "running"
           /\ Runners[dest[w]] # {} /\ Runners' = [Runners EXCEPT ![dest[w]] = {}]
           /\ dest'[w] = None /\ \A v \in Workers \ {w} : dest'[v] = dest[v] /\ pc'[v] = pc[v]
<1>1. dest[w] \in Dests /\ dest[w] # None /\ job[dest[w]] = "running"
  BY Kinds DEF TypeOK, JobInv
<1>2. dest'[w] = None /\ \A v \in Workers \ {w} : dest'[v] = dest[v] /\ pc'[v] = pc[v]
  BY Kinds DEF Quit, Goto, TypeOK
<1>3. w \in Runners[dest[w]]
  BY <1>1 DEF Runners
<1>4. ASSUME NEW d \in Dests PROVE Runners'[d] = IF d = dest[w] THEN {} ELSE Runners[d]
  <2>1. Runners'[d] = {v \in Workers : dest'[v] = d} /\ Runners[d] = {v \in Workers : dest[v] = d}
    BY DEF Runners
  <2>2. \A v \in Workers : dest'[v] = d <=> v # w /\ dest[v] = d
    BY <1>2, Kinds
  <2>3. \A v \in Workers : dest[v] = dest[w] => v = w
    BY <1>1 DEF JobInv
  <2> QED
    BY <2>1, <2>2, <2>3
<1>5. Runners' = [d \in Dests |-> Runners'[d]] /\ Runners = [d \in Dests |-> Runners[d]]
  BY DEF Runners
<1> QED
  BY <1>1, <1>2, <1>3, <1>4, <1>5

LEMMA QueueStep ==
    ASSUME TypeOK, JobInv, [Next]_vars
    PROVE  JobInv' /\ [Queue!Next]_(Queue!vars)
<1>1. ASSUME NEW r \in Requests,
             \/ \E d \in Dests : Ask(r, d)
             \/ Charge(r) \/ ChargeRefused(r) \/ Save(r) \/ Note(r)
      PROVE  Unseen
  BY <1>1, Kinds DEF Ask, Charge, ChargeRefused, Save, Note, Quit, Goto, Unseen, TypeOK
<1>2. ASSUME NEW r \in Requests, Enqueue(r)
      PROVE  JobInv' /\ (Unseen \/ \E d \in Dests : Queue!Submit(d))
  <2>1. /\ dest[r] \in Dests /\ UNCHANGED givenUp
        /\ \A w \in Workers : dest'[w] = dest[w] /\ pc'[w] = pc[w]
        /\ job' = [job EXCEPT ![dest[r]] = IF @ = "none" THEN "queued" ELSE @]
    BY <1>2, Kinds DEF Enqueue, Quit, Goto, TypeOK
  <2>2. CASE job[dest[r]] = "none"
    <3>1. Queue!Submit(dest[r])
      BY <2>1, <2>2, RunnersStay DEF Queue!Submit, Queue!Turns
    <3>2. JobInv'
      <4>1. \A w \in Workers : dest[w] # None => job'[dest[w]] = "running"
        BY <2>1, <2>2, JobTypes DEF JobInv
      <4> QED
        BY <2>1, <4>1 DEF JobInv
    <3> QED
      BY <2>1, <3>1, <3>2
  <2>3. CASE job[dest[r]] # "none"
    <3>1. Unseen
      BY <2>1, <2>3 DEF Unseen, queue, TypeOK
    <3> QED
      BY <3>1, UnseenStep
  <2> QED
    BY <2>2, <2>3
<1>3. ASSUME NEW w \in Workers, NEW d \in Dests, Claim(w, d) PROVE JobInv' /\ Queue!Take(d, w)
  <2>1. /\ dest[w] = None /\ dest'[w] = d /\ pc'[w] = "start" /\ UNCHANGED givenUp
        /\ \A v \in Workers \ {w} : dest'[v] = dest[v] /\ pc'[v] = pc[v]
        /\ job[d] = "queued" /\ job' = [job EXCEPT ![d] = "running"] /\ d # None
    BY <1>3, Kinds DEF Claim, Goto, TypeOK, JobInv
  <2>2. \A v \in Workers : dest[v] # d
    BY <2>1 DEF JobInv
  <2>3. JobInv'
    <3>1. \A v \in Workers : dest'[v] # None => job'[dest'[v]] = "running"
      BY <2>1, <2>2, JobTypes DEF JobInv
    <3>2. \A u, v \in Workers : dest'[u] = dest'[v] /\ dest'[u] # None => u = v
      BY <2>1, <2>2 DEF JobInv
    <3>3. \A v \in Workers : pc'[v] = "idle" => dest'[v] = None
      BY <2>1 DEF JobInv
    <3> QED
      BY <3>1, <3>2, <3>3 DEF JobInv
  <2>4. Runners[d] = {} /\ \A i \in Dests : w \notin Runners[i]
    BY <2>1, <2>2, Kinds DEF Runners
  <2>5. ASSUME NEW i \in Dests PROVE Runners'[i] = IF i = d THEN {w} ELSE Runners[i]
    <3>1. Runners'[i] = {v \in Workers : dest'[v] = i} /\ Runners[i] = {v \in Workers : dest[v] = i}
      BY DEF Runners
    <3>2. \A v \in Workers : dest'[v] = i <=> IF v = w THEN i = d ELSE dest[v] = i
      BY <2>1
    <3>3. i # d => \A v \in Workers : dest'[v] = i <=> dest[v] = i
      BY <3>2, <2>1, Kinds
    <3>4. i = d => \A v \in Workers : dest'[v] = i <=> v = w
      BY <3>2, <2>2
    <3> QED
      BY <3>1, <3>3, <3>4
  <2>6. Runners' = [i \in Dests |-> Runners'[i]] /\ Runners = [i \in Dests |-> Runners[i]]
    BY DEF Runners
  <2>7. Runners' = [Runners EXCEPT ![d] = {w}]
    BY <2>5, <2>6
  <2> QED
    BY <2>1, <2>3, <2>4, <2>7 DEF Queue!Take, Queue!Turns
<1>4. ASSUME NEW w \in Workers,
             \/ Start(w) \/ Uploaded(w) \/ UploadThrows(w)
             \/ RecordRead(w) \/ RecordWrite(w) \/ RecordThrows(w)
             \/ FailRead(w) \/ Refund(w) \/ FailWrite(w) \/ FailThrows(w)
      PROVE  Unseen
  <2>1. CASE Start(w) \/ Uploaded(w) \/ UploadThrows(w)
    BY <2>1, Kinds DEF Start, Uploaded, UploadThrows, Goto, Unseen, TypeOK, locals
  <2>2. CASE RecordRead(w) \/ RecordWrite(w) \/ RecordThrows(w)
    BY <2>2, Kinds DEF RecordRead, RecordWrite, RecordThrows, AfterFailedRecord, Goto, Unseen, TypeOK
  <2>3. CASE FailRead(w) \/ Refund(w) \/ FailWrite(w) \/ FailThrows(w)
    BY <2>3, Kinds DEF FailRead, Refund, FailWrite, FailThrows, Goto, Unseen, TypeOK
  <2> QED
    BY <1>4, <2>1, <2>2, <2>3
<1>5. ASSUME NEW w \in Workers, Finish(w) PROVE JobInv' /\ \E d \in Dests : Queue!Done(d)
  <2>1. /\ pc[w] # "idle" /\ Quit(w) /\ UNCHANGED givenUp
        /\ job' = [job EXCEPT ![dest[w]] = "none"]
    BY <1>5 DEF Finish
  <2>2. Queue!Done(dest[w])
    BY <2>1, RunnerLeaves DEF Queue!Done, Queue!Ends, Queue!Turns
  <2>3. \A v \in Workers \ {w} : dest[v] # None => dest[v] # dest[w]
    BY DEF JobInv
  <2>4. JobInv'
    <3>1. \A v \in Workers : dest'[v] # None => job'[dest'[v]] = "running"
      BY <2>1, <2>3, JobTypes, RunnerLeaves DEF JobInv
    <3>2. \A u, v \in Workers : dest'[u] = dest'[v] /\ dest'[u] # None => u = v
      BY <2>1, RunnerLeaves DEF JobInv
    <3>3. \A v \in Workers : pc'[v] = "idle" => dest'[v] = None
      BY <2>1, RunnerLeaves DEF JobInv
    <3> QED
      BY <3>1, <3>2, <3>3 DEF JobInv
  <2> QED
    BY <2>1, <2>2, <2>4, RunnerLeaves
<1>6. ASSUME NEW p \in Procs, Crash(p)
      PROVE  JobInv' /\ (Unseen \/ \E d \in Dests : Queue!Lose(d))
  <2>1. pc[p] # "idle" /\ Quit(p) /\ UNCHANGED queue
    BY <1>6 DEF Crash
  <2>2. CASE p \in Workers
    <3>1. Queue!Lose(dest[p])
      BY <2>1, <2>2, RunnerLeaves DEF Queue!Lose, Queue!Ends, queue
    <3>2. JobInv'
      BY <2>1, <2>2, RunnerLeaves DEF JobInv, queue
    <3> QED
      BY <2>1, <2>2, <3>1, <3>2, RunnerLeaves
  <2>3. CASE p \in Requests
    <3>1. Unseen
      BY <2>1, <2>3, Kinds DEF Unseen, Quit, Goto, TypeOK
    <3> QED
      BY <3>1, UnseenStep
  <2> QED
    BY <2>2, <2>3 DEF Procs
<1>7. CASE Sweep \/ Console
  <2>1. UNCHANGED <<pc, dest>>
    BY <1>7, QueueAlone DEF locals
  <2>2. \A w \in Workers : dest[w] # None => dest[w] \in Dests /\ Runners[dest[w]] # {}
    BY Kinds DEF TypeOK, Runners
  <2>3. \A w \in Workers : dest[w] # None => job'[dest[w]] = "running"
    <3>1. CASE Sweep
      BY <2>2, <3>1 DEF Sweep, Queue!Sweep, Queue!Recover, JobInv
    <3>2. CASE Console
      BY <2>2, <3>2 DEF Console, Queue!RetryByHand, Queue!Remove, Queue!Turns, JobInv, TypeOK
    <3> QED
      BY <1>7, <3>1, <3>2
  <2>4. JobInv'
    BY <2>1, <2>3 DEF JobInv
  <2>5. Queue!Next
    BY <1>7 DEF Sweep, Console, Queue!Next
  <2> QED
    BY <2>4, <2>5
<1>8. CASE UNCHANGED vars
  <2>1. Unseen
    BY <1>8 DEF vars, locals, Unseen
  <2> QED
    BY <2>1, UnseenStep
<1> QED
  BY <1>1, <1>2, <1>3, <1>4, <1>5, <1>6, <1>7, <1>8, UnseenStep DEF Next, Queue!Next

\* The dispatch and the handler keep the promise of the queue, whatever crashes, retries and
\* failing writes there are: they enqueue only where no job is in flight, and only the run
\* of a job ends it (publish-dispatch.ts:307-316, worker.ts:2868-2889).
THEOREM QueueUsedAsPromised == Spec => UsesQueue
<1>1. Init => JobInv /\ Queue!Init
  <2> SUFFICES ASSUME Init PROVE JobInv /\ Queue!Init
    OBVIOUS
  <2>1. \A w \in Workers : dest[w] = None
    BY Kinds DEF Init
  <2>2. Runners = [d \in Dests |-> {}]
    BY <2>1, Kinds DEF Runners
  <2> QED
    BY <2>1, <2>2 DEF Init, JobInv, Queue!Init
<1>2. TypeOK /\ JobInv /\ [Next]_vars => JobInv' /\ [Queue!Next]_(Queue!vars)
  BY QueueStep
<1> QED
  BY <1>1, <1>2, TypeCorrect, PTL DEF Spec, UsesQueue, Queue!Spec
=============================================================================
