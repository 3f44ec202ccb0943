-------------------------- MODULE IntakeStore_proofs --------------------------
(***************************************************************************)
(* What the checks of IntakeStore show on small instances, proved for any  *)
(* number of requests, repositories, daemons and accounts, any timeout and *)
(* window, and any behaviour of the clock within its bounds.               *)
(***************************************************************************)
EXTENDS IntakeStore, TLAPS

(* The strengthening that is inductive: the claims exclude one another, no  *)
(* record contradicts itself, and the sweep holds nothing that somebody     *)
(* other than a discarding reviewer could have moved on.                    *)
IInv == TypeOK /\ OneClaimPerRepo /\ RecordsCoherent /\ VerdictIsCurrent

------------------------------------------------------------------------------
(* The record helpers keep records records. *)

(* An empty slot is a coherent record. (the state before new) *)
LEMMA UnfiledType == Unfiled \in Request /\ Coherent(Unfiled)
  BY Bounds, SMT DEF Unfiled, Request, State, Clock, NoStamp, NoDrafts, DraftLog,
     Coherent

(* Counting a run keeps the log a log. (claim_next: drafts.push, retain) *)
LEMMA BegunType ==
  ASSUME NEW log \in DraftLog, now \in Clock
  PROVE  Begun(log) \in DraftLog
  BY Bounds, SMT DEF Begun, DraftLog, Clock

(* put changes the claim of a record at most. (Store::put) *)
LEMMA CleanedType ==
  ASSUME NEW r \in Request
  PROVE  /\ Cleaned(r) \in Request
         /\ Cleaned(r).state = r.state /\ Cleaned(r).repo = r.repo
         /\ Cleaned(r).spec = r.spec /\ Cleaned(r).sendBack = r.sendBack
<1>1. CASE r.state = "claimed"
  BY <1>1 DEF Cleaned
<1>2. CASE r.state # "claimed"
  <2>1. Cleaned(r) = [r EXCEPT !.claimedMs = NoStamp, !.claimedBy = NoOne]
    BY <1>2 DEF Cleaned
  <2> QED  BY <2>1 DEF Request
<1> QED  BY <1>1, <1>2

(* A coherent record is clean already. *)
LEMMA CleanedCoherent ==
  ASSUME NEW r \in Request, Coherent(r)
  PROVE  Cleaned(r) = r
<1>1. CASE r.state = "claimed"
  BY <1>1 DEF Cleaned
<1>2. CASE r.state # "claimed"
  <2>1. Cleaned(r) = [r EXCEPT !.claimedMs = NoStamp, !.claimedBy = NoOne]
    BY <1>2 DEF Cleaned
  <2>2. r.claimedMs = NoStamp /\ r.claimedBy = NoOne
    BY <1>2 DEF Coherent
  <2>3. DOMAIN r = { "state", "repo", "filer", "filedMs", "claimedMs",
                     "claimedBy", "spec", "sendBack", "drafts" }
        /\ r = [x \in DOMAIN r |-> r[x]]
    BY DEF Request
  <2>4. Cleaned(r) = [x \in DOMAIN r |-> r[x]]
    BY <2>1, <2>2, <2>3
  <2> QED  BY <2>3, <2>4
<1> QED  BY <1>1, <1>2

(* Looking at a record for expiry moves it from claimed to queued or leaves *)
(* its state alone, and touches neither its text nor its note.              *)
LEMMA ReclaimedRecord ==
  ASSUME NEW r \in Request, Coherent(r), now \in Clock
  PROVE  /\ Reclaimed(r) \in Request
         /\ Coherent(Reclaimed(r))
         /\ Reclaimed(r).repo = r.repo
         /\ Reclaimed(r).spec = r.spec
         /\ Reclaimed(r).sendBack = r.sendBack
         /\ r.state # "claimed" => Reclaimed(r) = r
         /\ Reclaimed(r).state \in {r.state, "queued"}
<1>1. CASE r.state # "claimed"
  BY <1>1 DEF Reclaimed
<1>2. CASE r.state = "claimed" /\ r.claimedMs = NoStamp
  BY <1>2, SMT DEF Reclaimed, Request, Coherent
<1>3. CASE r.state = "claimed" /\ r.claimedMs # NoStamp /\ now - r.claimedMs < ClaimTimeout
  BY <1>3 DEF Reclaimed
<1>4. CASE r.state = "claimed" /\ r.claimedMs # NoStamp /\ ~ (now - r.claimedMs < ClaimTimeout)
  <2> DEFINE q == [r EXCEPT !.state = "queued"]
  <2>1. q \in Request
    BY SMT DEF Request, State
  <2>2. Reclaimed(r) = Cleaned(q)
    BY <1>4 DEF Reclaimed
  <2>3. Cleaned(q) = [q EXCEPT !.claimedMs = NoStamp, !.claimedBy = NoOne]
    BY <2>1, SMT DEF Cleaned, Request
  <2>4. Coherent(Cleaned(q))
    <3>1. r.spec = NoSpec
      BY <1>4 DEF Coherent
    <3>2. /\ Cleaned(q).state = "queued" /\ Cleaned(q).spec = NoSpec
          /\ Cleaned(q).claimedMs = NoStamp /\ Cleaned(q).claimedBy = NoOne
      BY <2>1, <2>3, <3>1 DEF Request
    <3> QED  BY <3>2 DEF Coherent
  <2> QED  BY <1>4, <2>1, <2>2, <2>4, CleanedType, SMT DEF Request
<1> QED  BY <1>1, <1>2, <1>3, <1>4

(* What is left to check of a record that is no claim: its text and note.   *)
LEMMA CleanedIsCoherent ==
  ASSUME NEW q \in Request, q.state # "claimed",
         q.state \in {"awaiting-review", "accepted"} => q.spec # NoSpec,
         q.spec # NoSpec => q.state \in {"awaiting-review", "accepted", "discarded"},
         q.sendBack => q.state \in {"queued", "claimed", "failed", "discarded"}
  PROVE  Coherent(Cleaned(q))
<1>1. Cleaned(q) = [q EXCEPT !.claimedMs = NoStamp, !.claimedBy = NoOne]
  BY DEF Cleaned
<1>2. Cleaned(q).claimedMs = NoStamp /\ Cleaned(q).claimedBy = NoOne
  BY <1>1 DEF Request
<1> QED  BY <1>2, CleanedType DEF Coherent

------------------------------------------------------------------------------
(* One write. *)

(* A record on the volume is a record, under the type invariant. *)
LEMMA RequestsTyped ==
  ASSUME TypeOK, NEW id \in RequestId
  PROVE  requests[id] \in Request
  BY DEF TypeOK

(* So is the one the sweep holds. *)
LEMMA HeldTyped ==
  ASSUME TypeOK, held # NotHeld
  PROVE  held.id \in RequestId /\ held.req \in Request
  BY DEF TypeOK

(* Putting any coherent record that is not a claim keeps the invariant, as  *)
(* long as what the sweep holds is left to it or discarded under it.        *)
LEMMA PutKeepsIInv ==
  ASSUME IInv, NEW id \in RequestId, NEW r \in Request,
         Put(id, r), r.state # "claimed", Coherent(Cleaned(r)),
         held # NotHeld /\ held.id = id =>
           /\ r.state \in {"screening", "discarded"}
           /\ Cleaned(r) = [held.req EXCEPT !.state = r.state],
         UNCHANGED <<now, screening, batch, held, page>>
  PROVE  IInv'
<1>1. /\ requests' = [requests EXCEPT ![id] = Cleaned(r)]
      /\ Cleaned(r) \in Request /\ Cleaned(r).state = r.state
  BY CleanedType DEF Put
<1>2. /\ requests \in [RequestId -> Request]
      /\ requests'[id] = Cleaned(r)
      /\ \A k \in RequestId : k # id => requests'[k] = requests[k]
  BY <1>1 DEF IInv, TypeOK
<1>3. TypeOK'
  BY <1>1, <1>2 DEF IInv, TypeOK, Clock
<1>4. OneClaimPerRepo'
  BY <1>1, <1>2 DEF IInv, OneClaimPerRepo, OneClaimPer
<1>5. RecordsCoherent'
  BY <1>2 DEF IInv, RecordsCoherent
<1>6. VerdictIsCurrent'
  <2> SUFFICES ASSUME held # NotHeld
               PROVE  /\ held.req.state \in {"queued", "quarantined"}
                      /\ Coherent(held.req)
                      /\ requests'[held.id].state \in {"screening", "discarded"}
                      /\ requests'[held.id] =
                           [held.req EXCEPT !.state = requests'[held.id].state]
    BY DEF VerdictIsCurrent
  <2>1. held.id \in RequestId
    BY HeldTyped DEF IInv
  <2>2. CASE held.id = id
    BY <1>1, <1>2, <2>2 DEF IInv, VerdictIsCurrent
  <2>3. CASE held.id # id
    BY <1>2, <2>1, <2>3 DEF IInv, VerdictIsCurrent
  <2> QED  BY <2>2, <2>3
<1> QED  BY <1>3, <1>4, <1>5, <1>6 DEF IInv

(* The common case: the record was past screening, so no verdict is held.   *)
LEMMA PutPastScreening ==
  ASSUME IInv, NEW id \in RequestId, NEW r \in Request,
         Put(id, r), r.state # "claimed", Coherent(Cleaned(r)),
         requests[id].state \notin {"screening", "discarded"},
         UNCHANGED <<now, screening, batch, held, page>>
  PROVE  IInv'
<1>1. held # NotHeld => held.id # id
  BY DEF IInv, VerdictIsCurrent
<1> QED  BY <1>1, PutKeepsIInv

------------------------------------------------------------------------------
(* Each operation keeps the invariant. *)

(* A new filing is neither a claim nor under a verdict. (file_now) *)
LEMMA FilingKeeps == ASSUME IInv, Filing PROVE IInv'
<1> SUFFICES ASSUME NEW id \in RequestId, NEW p \in Repo,
                    NEW f \in Filer \cup {NoOne}, NEW s \in {"screening", "queued"},
                    requests[id].state = "unfiled",
                    Put(id, New(p, f, s)),
                    UNCHANGED <<now, screening, batch, held, page>>
             PROVE  IInv'
  BY DEF Filing, FileByAdmin, FileByAccount, FreshId
<1> DEFINE r == New(p, f, s)
<1>1. now \in Clock
  BY DEF IInv, TypeOK
<1>2. /\ r \in Request
      /\ r.state = s /\ r.spec = NoSpec /\ r.sendBack = FALSE
  BY <1>1, UnfiledType DEF New, Unfiled, Request, State
<1>3. Coherent(Cleaned(r))
  BY <1>2, CleanedIsCoherent
<1> QED  BY <1>2, <1>3, PutPastScreening

(* A report ends a claim, and a claim is past screening. (Store::claimed) *)
LEMMA ReportingKeeps == ASSUME IInv, Reporting PROVE IInv'
<1> SUFFICES ASSUME NEW id \in RequestId, NEW by \in Label,
                    \/ \E s \in SpecText : RecordDrafted(id, by, s)
                    \/ RecordFailed(id, by)
                    \/ RecordReleased(id, by)
             PROVE  IInv'
  BY DEF Reporting
<1>1. requests[id] \in Request /\ Coherent(requests[id])
  BY RequestsTyped DEF IInv, RecordsCoherent
<1>2. requests[id].state = "claimed" /\ requests[id].spec = NoSpec
  BY <1>1 DEF Coherent, RecordDrafted, RecordFailed, RecordReleased, HoldsClaim
<1>3. ASSUME NEW s \in SpecText, RecordDrafted(id, by, s) PROVE IInv'
  <2> DEFINE r == [requests[id] EXCEPT !.state = "awaiting-review",
                                       !.spec = s, !.sendBack = FALSE]
  <2>1. r \in Request /\ r.state = "awaiting-review" /\ r.spec = s /\ r.sendBack = FALSE
    BY <1>1 DEF Request, State
  <2>2. Coherent(Cleaned(r))
    BY <2>1, Nones, CleanedIsCoherent
  <2> QED  BY <1>2, <1>3, <2>1, <2>2, PutPastScreening DEF RecordDrafted
<1>4. CASE RecordFailed(id, by)
  <2> DEFINE r == [requests[id] EXCEPT !.state = "failed"]
  <2>1. r \in Request /\ r.state = "failed" /\ r.spec = NoSpec
    BY <1>1, <1>2 DEF Request, State
  <2>2. Coherent(Cleaned(r))
    BY <2>1, CleanedIsCoherent
  <2> QED  BY <1>2, <1>4, <2>1, <2>2, PutPastScreening DEF RecordFailed
<1>5. CASE RecordReleased(id, by)
  <2> DEFINE r == [requests[id] EXCEPT !.state = "queued"]
  <2>1. r \in Request /\ r.state = "queued" /\ r.spec = NoSpec
    BY <1>1, <1>2 DEF Request, State
  <2>2. Coherent(Cleaned(r))
    BY <2>1, CleanedIsCoherent
  <2> QED  BY <1>2, <1>5, <2>1, <2>2, PutPastScreening DEF RecordReleased
<1> QED  BY <1>3, <1>4, <1>5

(* An acceptance starts from awaiting-review, with its text. (accept) *)
LEMMA AcceptKeeps == ASSUME IInv, Accept PROVE IInv'
<1> DEFINE id == page.id
           r  == [requests[id] EXCEPT !.state = "accepted"]
<1>1. id \in RequestId
  BY DEF Accept, IInv, TypeOK
<1>2. requests[id] \in Request /\ Coherent(requests[id])
  BY <1>1, RequestsTyped DEF IInv, RecordsCoherent
<1>3. requests[id].spec # NoSpec /\ ~ requests[id].sendBack
  BY <1>2 DEF Accept, Coherent
<1>4. /\ r \in Request /\ r.state = "accepted" /\ r.spec # NoSpec
      /\ r.sendBack = requests[id].sendBack
  BY <1>2, <1>3 DEF Request, State
<1>5. Coherent(Cleaned(r))
  BY <1>3, <1>4, CleanedIsCoherent
<1>6. Put(id, r) /\ requests[id].state = "awaiting-review"
  BY DEF Accept
<1> QED  BY <1>1, <1>4, <1>5, <1>6, PutPastScreening DEF Accept

(* A send-back drops the text it queues the request without. (send_back) *)
LEMMA SendBackKeeps ==
  ASSUME IInv, NEW id \in RequestId, SendBack(id) PROVE IInv'
<1> DEFINE r == [requests[id] EXCEPT !.state = "queued", !.sendBack = TRUE,
                                     !.spec = NoSpec]
<1>1. requests[id] \in Request
  BY RequestsTyped DEF IInv
<1>2. r \in Request /\ r.state = "queued" /\ r.spec = NoSpec
  BY <1>1 DEF Request, State
<1>3. Coherent(Cleaned(r))
  BY <1>2, CleanedIsCoherent
<1> QED  BY <1>2, <1>3, PutPastScreening DEF SendBack

(* A quarantined request is past screening. (release) *)
LEMMA ReleaseKeeps ==
  ASSUME IInv, NEW id \in RequestId, ReleaseQuarantined(id) PROVE IInv'
<1> DEFINE r == [requests[id] EXCEPT !.state = "queued"]
<1>1. requests[id] \in Request /\ Coherent(requests[id])
  BY RequestsTyped DEF IInv, RecordsCoherent
<1>2. requests[id].state = "quarantined" /\ requests[id].spec = NoSpec
  BY <1>1 DEF Coherent, ReleaseQuarantined
<1>3. r \in Request /\ r.state = "queued" /\ r.spec = NoSpec
  BY <1>1, <1>2 DEF Request, State
<1>4. Coherent(Cleaned(r))
  BY <1>3, CleanedIsCoherent
<1> QED  BY <1>2, <1>3, <1>4, PutPastScreening DEF ReleaseQuarantined

(* A discard is the one verb that can overtake a verdict the sweep holds.   *)
LEMMA DiscardKeeps ==
  ASSUME IInv, NEW id \in RequestId, Discard(id) PROVE IInv'
<1> DEFINE r == [requests[id] EXCEPT !.state = "discarded"]
<1>1. requests[id] \in Request /\ Coherent(requests[id])
  BY RequestsTyped DEF IInv, RecordsCoherent
<1>2. /\ r \in Request /\ r.state = "discarded"
      /\ r.claimedMs = requests[id].claimedMs /\ r.claimedBy = requests[id].claimedBy
  BY <1>1 DEF Request, State
<1>3. Coherent(Cleaned(r))
  BY <1>2, CleanedIsCoherent
<1>4. Put(id, r) /\ UNCHANGED <<now, screening, batch, held, page>>
  BY DEF Discard
<1>5. ASSUME held # NotHeld, held.id = id
      PROVE  Cleaned(r) = [held.req EXCEPT !.state = "discarded"]
  <2>1. /\ requests[id].state \in {"screening", "discarded"}
        /\ requests[id] = [held.req EXCEPT !.state = requests[id].state]
    BY <1>5 DEF IInv, VerdictIsCurrent
  <2>2. held.req \in Request
    BY <1>5, HeldTyped DEF IInv
  <2>3. r = [held.req EXCEPT !.state = "discarded"]
    BY <2>1, <2>2 DEF Request
  <2>4. Coherent(r)
    BY <1>1, <1>2, <2>1 DEF Coherent
  <2> QED  BY <1>2, <2>3, <2>4, CleanedCoherent
<1> QED  BY <1>2, <1>3, <1>4, <1>5, PutKeepsIInv

(* Looking at any of the records for expiry.                                *)
LEMMA AgedRequests ==
  ASSUME IInv, NEW rs,
         rs \in { [ id \in RequestId |-> IF id \in some THEN Reclaimed(requests[id])
                                         ELSE requests[id] ] : some \in SUBSET RequestId }
  PROVE  /\ rs \in [RequestId -> Request]
         /\ OneClaimPer(rs)
         /\ \A id \in RequestId :
              /\ Coherent(rs[id])
              /\ rs[id].repo = requests[id].repo
              /\ requests[id].state # "claimed" => rs[id] = requests[id]
              /\ rs[id].state = "claimed" => requests[id].state = "claimed"
              /\ rs[id].spec = requests[id].spec
              /\ rs[id].sendBack = requests[id].sendBack
              /\ rs[id].state \in {requests[id].state, "queued"}
<1>1. now \in Clock
  BY DEF IInv, TypeOK
<1>2. ASSUME NEW id \in RequestId
      PROVE  /\ rs[id] \in Request
             /\ Coherent(rs[id])
             /\ rs[id].repo = requests[id].repo
             /\ requests[id].state # "claimed" => rs[id] = requests[id]
             /\ rs[id].state = "claimed" => requests[id].state = "claimed"
             /\ rs[id].spec = requests[id].spec
             /\ rs[id].sendBack = requests[id].sendBack
             /\ rs[id].state \in {requests[id].state, "queued"}
  <2>1. requests[id] \in Request /\ Coherent(requests[id])
    BY RequestsTyped DEF IInv, RecordsCoherent
  <2>2. rs[id] \in {requests[id], Reclaimed(requests[id])}
    OBVIOUS
  <2> QED  BY <1>1, <2>1, <2>2, ReclaimedRecord
<1>3. rs \in [RequestId -> Request]
  BY <1>2
<1>4. OneClaimPer(rs)
  BY <1>2 DEF IInv, OneClaimPerRepo, OneClaimPer
<1> QED  BY <1>2, <1>3, <1>4

(* The whole walk of reclaim_stale looks at every record once. *)
LEMMA AllReclaimedAged ==
  AllReclaimed \in { [ id \in RequestId |-> IF id \in some THEN Reclaimed(requests[id])
                                            ELSE requests[id] ] : some \in SUBSET RequestId }
<1> DEFINE aged(some) == [ id \in RequestId |-> IF id \in some THEN Reclaimed(requests[id])
                                                ELSE requests[id] ]
<1>1. AllReclaimed = aged(RequestId)
  BY DEF AllReclaimed
<1> QED  BY <1>1

(* The walk cut short looks at those up to where it stopped. *)
LEMMA ReclaimedUpToAged ==
  ASSUME NEW last
  PROVE  ReclaimedUpTo(last) \in
           { [ id \in RequestId |-> IF id \in some THEN Reclaimed(requests[id])
                                    ELSE requests[id] ] : some \in SUBSET RequestId }
<1> DEFINE aged(some) == [ id \in RequestId |-> IF id \in some THEN Reclaimed(requests[id])
                                                ELSE requests[id] ]
           seen == { id \in RequestId : id <= last }
<1>1. ReclaimedUpTo(last) = aged(seen)
  BY DEF ReclaimedUpTo
<1> QED  BY <1>1

(* A verdict held by the sweep is for a request nobody has claimed, so what *)
(* happens to claimed and queued requests leaves it current.                *)
LEMMA VerdictUndisturbed ==
  ASSUME IInv, UNCHANGED held,
         \A id \in RequestId :
           requests[id].state \in {"screening", "discarded"} =>
             requests'[id] = requests[id]
  PROVE  VerdictIsCurrent'
  BY HeldTyped DEF IInv, VerdictIsCurrent

(* A walk cut short leaves the invariant as a whole one does. *)
LEMMA InterruptedKeeps ==
  ASSUME IInv, NEW last \in RequestId, ReclaimInterrupted(last) PROVE IInv'
<1> DEFINE rs == ReclaimedUpTo(last)
<1>1. /\ rs \in [RequestId -> Request]
      /\ OneClaimPer(rs)
      /\ \A id \in RequestId :
           /\ Coherent(rs[id])
           /\ requests[id].state # "claimed" => rs[id] = requests[id]
  BY ReclaimedUpToAged, AgedRequests
<1>2. requests' = rs /\ UNCHANGED <<now, screening, batch, held, page>>
  BY DEF ReclaimInterrupted
<1> HIDE DEF rs
<1>3. TypeOK'
  BY <1>1, <1>2 DEF IInv, TypeOK, Clock
<1>4. OneClaimPerRepo' /\ RecordsCoherent'
  BY <1>1, <1>2 DEF OneClaimPerRepo, OneClaimPer, RecordsCoherent
<1>5. VerdictIsCurrent'
  BY <1>1, <1>2, VerdictUndisturbed
<1> QED  BY <1>3, <1>4, <1>5 DEF IInv

(* A poll claims work of a repository that no claim holds. (claim_next) *)
LEMMA PollingKeeps ==
  ASSUME IInv, NEW by \in Label, NEW serves, ClaimNext(by, serves) PROVE IInv'
<1> DEFINE rs == AllReclaimed
<1>1. /\ rs \in [RequestId -> Request]
      /\ OneClaimPer(rs)
      /\ \A id \in RequestId :
           /\ Coherent(rs[id])
           /\ requests[id].state # "claimed" => rs[id] = requests[id]
           /\ rs[id].state \in {requests[id].state, "queued"}
  BY AllReclaimedAged, AgedRequests
<1>2. /\ \/ requests' = rs
         \/ \E id \in Claimable(rs, serves) :
              requests' = [rs EXCEPT ![id].state     = "claimed",
                                     ![id].claimedMs = now,
                                     ![id].claimedBy = by,
                                     ![id].drafts    = Begun(@)]
      /\ UNCHANGED <<now, screening, batch, held, page>>
  BY DEF ClaimNext
<1> HIDE DEF rs
<1>3. CASE requests' = rs
  <2>1. TypeOK'
    BY <1>1, <1>2, <1>3 DEF IInv, TypeOK, Clock
  <2>2. OneClaimPerRepo' /\ RecordsCoherent'
    BY <1>1, <1>3 DEF OneClaimPerRepo, OneClaimPer, RecordsCoherent
  <2>3. VerdictIsCurrent'
    BY <1>1, <1>2, <1>3, VerdictUndisturbed
  <2> QED  BY <2>1, <2>2, <2>3 DEF IInv
<1>4. ASSUME NEW id \in Claimable(rs, serves),
             requests' = [rs EXCEPT ![id].state     = "claimed",
                                    ![id].claimedMs = now,
                                    ![id].claimedBy = by,
                                    ![id].drafts    = Begun(@)]
      PROVE  IInv'
  <2> DEFINE q == [rs[id] EXCEPT !.state = "claimed", !.claimedMs = now,
                                 !.claimedBy = by, !.drafts = Begun(@)]
  <2>1. /\ id \in RequestId /\ rs[id].state = "queued"
        /\ ~ BusyIn(rs, rs[id].repo)
    BY DEF Claimable
  <2>2. rs[id] \in Request /\ Coherent(rs[id]) /\ now \in Clock
    BY <1>1, <2>1 DEF IInv, TypeOK
  <2>3. Begun(rs[id].drafts) \in DraftLog
    BY <2>2, BegunType DEF Request
  <2>4. /\ q \in Request
        /\ q.state = "claimed" /\ q.repo = rs[id].repo /\ q.spec = rs[id].spec
        /\ q.sendBack = rs[id].sendBack /\ q.claimedMs = now
    BY <2>2, <2>3 DEF Request, State
  <2>5. Coherent(q)
    <3>1. now # NoStamp
      BY <2>2, Bounds DEF Clock, NoStamp
    <3> QED  BY <2>1, <2>2, <2>4, <3>1 DEF Coherent
  <2>6. requests' = [rs EXCEPT ![id] = q]
    BY <1>1, <1>4, <2>1, <2>2 DEF Request
  <2>7. /\ requests'[id] = q
        /\ \A k \in RequestId : k # id => requests'[k] = rs[k]
    BY <1>1, <2>1, <2>6
  <2>8. TypeOK'
    BY <1>1, <1>2, <2>4, <2>6 DEF IInv, TypeOK, Clock
  <2>9. OneClaimPerRepo'
    <3> HIDE DEF q
    <3>1. \A k \in RequestId : ~ (rs[k].state = "claimed" /\ rs[k].repo = q.repo)
      BY <2>1, <2>4 DEF BusyIn
    <3>2. \A k \in RequestId :
            k # id => ~ (requests'[k].state = "claimed" /\ requests'[k].repo = q.repo)
      BY <2>7, <3>1
    <3> QED  BY <1>1, <2>7, <3>2 DEF OneClaimPerRepo, OneClaimPer
  <2>10. RecordsCoherent'
    BY <1>1, <2>5, <2>7 DEF RecordsCoherent
  <2>11. requests[id].state \notin {"screening", "discarded"}
    BY <1>1, <2>1
  <2>12. VerdictIsCurrent'
    BY <1>1, <1>2, <2>7, <2>11, VerdictUndisturbed
  <2> QED  BY <2>8, <2>9, <2>10, <2>12 DEF IInv
<1> QED  BY <1>2, <1>3, <1>4

(* A verdict is written to the record it was reached on. (finish_screening) *)
LEMMA SweepKeeps == ASSUME IInv, Sweep PROVE IInv'
<1>1. CASE SweepBegins
  <2>1. TypeOK'
    BY <1>1 DEF SweepBegins, InState, IInv, TypeOK, Clock
  <2>2. (OneClaimPerRepo /\ RecordsCoherent /\ VerdictIsCurrent)'
    BY <1>1 DEF SweepBegins, IInv, OneClaimPerRepo, OneClaimPer,
                RecordsCoherent, VerdictIsCurrent
  <2> QED  BY <2>1, <2>2 DEF IInv
<1>2. CASE SweepReads
  <2>1. PICK id \in batch, verdict \in {"queued", "quarantined"} :
          /\ batch' = batch \ {id}
          /\ held' = IF requests[id].state = "screening"
                     THEN [id  |-> id,
                           req |-> [requests[id] EXCEPT !.state = verdict]]
                     ELSE NotHeld
    BY <1>2 DEF SweepReads
  <2> DEFINE q == [requests[id] EXCEPT !.state = verdict]
  <2>2. id \in RequestId /\ requests[id] \in Request /\ Coherent(requests[id])
    BY RequestsTyped DEF IInv, TypeOK, RecordsCoherent
  <2>3. /\ q \in Request /\ q.state = verdict /\ q.spec = requests[id].spec
        /\ q.sendBack = requests[id].sendBack
        /\ q.claimedMs = requests[id].claimedMs
        /\ q.claimedBy = requests[id].claimedBy
    BY <2>2 DEF Request, State
  <2>4. TypeOK'
    BY <1>2, <2>1, <2>2, <2>3 DEF SweepReads, IInv, TypeOK, Clock
  <2>5. (OneClaimPerRepo /\ RecordsCoherent)'
    BY <1>2 DEF SweepReads, IInv, OneClaimPerRepo, OneClaimPer, RecordsCoherent
  <2>6. VerdictIsCurrent'
    <3>1. CASE requests[id].state = "screening"
      <4>1. Coherent(q)
        BY <2>2, <2>3, <3>1 DEF Coherent
      <4>2. requests[id] = [q EXCEPT !.state = requests[id].state]
        BY <2>2 DEF Request
      <4>3. held'.id = id /\ held'.req = q /\ requests' = requests
        BY <1>2, <2>1, <3>1 DEF SweepReads
      <4> HIDE DEF q
      <4> QED  BY <2>3, <3>1, <4>1, <4>2, <4>3 DEF VerdictIsCurrent
    <3>2. CASE requests[id].state # "screening"
      BY <2>1, <3>2 DEF VerdictIsCurrent
    <3> QED  BY <3>1, <3>2
  <2> QED  BY <2>4, <2>5, <2>6 DEF IInv
<1>3. CASE SweepWrites
  <2>1. /\ held.id \in RequestId /\ held.req \in Request
        /\ Coherent(held.req) /\ held.req.state \in {"queued", "quarantined"}
    BY <1>3, HeldTyped DEF SweepWrites, IInv, VerdictIsCurrent
  <2>2. requests' = [requests EXCEPT ![held.id] = held.req]
    BY <1>3, <2>1, CleanedCoherent DEF SweepWrites, Put
  <2>3. TypeOK'
    BY <1>3, <2>1, <2>2 DEF SweepWrites, IInv, TypeOK, Clock
  <2>4. OneClaimPerRepo' /\ RecordsCoherent'
    BY <2>1, <2>2 DEF IInv, TypeOK, OneClaimPerRepo, OneClaimPer, RecordsCoherent
  <2>5. VerdictIsCurrent'
    BY <1>3 DEF SweepWrites, VerdictIsCurrent
  <2> QED  BY <2>3, <2>4, <2>5 DEF IInv
<1> QED  BY <1>1, <1>2, <1>3 DEF Sweep

(* What writes no record and leaves the sweep alone, or forgets it.         *)
LEMMA QuietKeeps ==
  ASSUME IInv, UNCHANGED requests, held' \in {held, NotHeld}, TypeOK'
  PROVE  IInv'
  BY DEF IInv, OneClaimPerRepo, OneClaimPer, RecordsCoherent, VerdictIsCurrent

(* A fresh volume, or one with claims of an older build, satisfies it. *)
LEMMA InitIInv == ASSUME Init PROVE IInv
<1>1. ASSUME NEW p \in Repo PROVE LegacyClaim(p) \in Request /\ Coherent(LegacyClaim(p))
  <2>1. LegacyClaim(p) \in Request /\ LegacyClaim(p).state = "claimed"
        /\ LegacyClaim(p).spec = NoSpec /\ LegacyClaim(p).claimedBy = NoOne
    BY UnfiledType DEF LegacyClaim, Unfiled, Request, State
  <2> QED  BY <2>1 DEF Coherent
<1>2. \A id \in RequestId : requests[id] \in Request /\ Coherent(requests[id])
  BY <1>1, UnfiledType DEF Init
<1>3. requests \in [RequestId -> Request]
  BY <1>2 DEF Init
<1>4. TypeOK
  BY <1>3, Bounds DEF Init, TypeOK, Clock
<1> QED  BY <1>2, <1>4 DEF Init, IInv, OneClaimPerRepo, RecordsCoherent,
                           VerdictIsCurrent

(* Every step keeps the inductive invariant. *)
LEMMA NextIInv == ASSUME IInv, [Next]_vars PROVE IInv'
<1>1. CASE Filing
  BY <1>1, FilingKeeps
<1>2. CASE Polling
  BY <1>2, PollingKeeps DEF Polling
<1>3. CASE \E id \in RequestId : ReclaimInterrupted(id)
  BY <1>3, InterruptedKeeps
<1>4. CASE Reporting
  BY <1>4, ReportingKeeps
<1>5. CASE Reviewing
  <2>1. ASSUME NEW id \in RequestId, OpenPage(id) PROVE IInv'
    <3>1. requests[id] \in Request
      BY RequestsTyped DEF IInv
    <3>2. requests[id].spec \in SpecText
      BY <2>1, <3>1 DEF OpenPage, Request
    <3>3. TypeOK'
      BY <2>1, <3>2 DEF OpenPage, IInv, TypeOK, Clock
    <3> QED  BY <2>1, <3>3, QuietKeeps DEF OpenPage
  <2> QED  BY <1>5, <2>1, AcceptKeeps, SendBackKeeps, ReleaseKeeps, DiscardKeeps
           DEF Reviewing
<1>6. CASE ToggleScreening
  <2>1. TypeOK'
    BY <1>6 DEF ToggleScreening, IInv, TypeOK, Clock
  <2> QED  BY <1>6, <2>1, QuietKeeps DEF ToggleScreening
<1>7. CASE Sweep
  BY <1>7, SweepKeeps
<1>8. CASE Restart
  <2>1. TypeOK'
    BY <1>8 DEF Restart, IInv, TypeOK, Clock
  <2> QED  BY <1>8, <2>1, QuietKeeps DEF Restart
<1>9. CASE \E d \in ClockSteps : Tick(d)
  <2>1. TypeOK'
    BY <1>9 DEF Tick, IInv, TypeOK, Clock
  <2> QED  BY <1>9, <2>1, QuietKeeps DEF Tick
<1>10. CASE UNCHANGED vars
  <2>1. TypeOK'
    BY <1>10 DEF vars, IInv, TypeOK, Clock
  <2> QED  BY <1>10, <2>1, QuietKeeps DEF vars
<1> QED  BY <1>1, <1>2, <1>3, <1>4, <1>5, <1>6, <1>7, <1>8, <1>9, <1>10 DEF Next

------------------------------------------------------------------------------
(* The theorems. *)

(* The invariant holds of every reachable state. *)
THEOREM Invariance == Spec => []IInv
  BY InitIInv, NextIInv, PTL DEF Spec

(* Every variable keeps its type in every behaviour of the store. *)
THEOREM TypeCorrect == Spec => []TypeOK
  BY Invariance, PTL DEF IInv

(* Two daemons are never sent into the tree of one repository: claim_next   *)
(* skips a busy repository, and no other handler makes a claim.             *)
THEOREM MutualExclusion == Spec => []OneClaimPerRepo
  BY Invariance, PTL DEF IInv

(* No path through the handlers leaves a record that contradicts itself.    *)
THEOREM Coherence == Spec => []RecordsCoherent
  BY Invariance, PTL DEF IInv

(* Only a discard overtakes the verdict the screening thread holds. *)
THEOREM VerdictCurrency == Spec => []VerdictIsCurrent
  BY Invariance, PTL DEF IInv

------------------------------------------------------------------------------
(* What one step can do to one record: nothing, or one of these moves. The  *)
(* action properties are read off the list.                                 *)

Moves(id) ==
  LET old == requests[id]
      new == requests'[id]
      Kept == new.sendBack = old.sendBack
  IN  \/ new = old
      \/ old.state = "unfiled" /\ new.state \in {"screening", "queued"}
      \/ old.state = "queued" /\ new.state = "claimed" /\ Kept
      \/ old.state = "claimed" /\ new.state \in {"claimed", "queued", "failed"} /\ Kept
      \/ old.state = "claimed" /\ new.state = "awaiting-review"
      \/ /\ old.state = "awaiting-review" /\ new.state = "accepted" /\ Kept
         /\ page # NoPage /\ page.id = id
         /\ page.spec = old.spec /\ new.spec = old.spec
      \/ old.state = "awaiting-review" /\ new.state = "queued" /\ new.sendBack
      \/ old.state = "quarantined" /\ new.state = "queued" /\ Kept
      \/ old.state \notin {"unfiled", "accepted"} /\ new.state = "discarded" /\ Kept
      \/ /\ old.state \in {"screening", "discarded"}
         /\ new.state \in {"queued", "quarantined"} /\ Kept
         /\ held # NotHeld /\ held.id = id

(* A write to one record leaves the others as they were. *)
LEMMA PutMoves ==
  ASSUME IInv, NEW id \in RequestId, NEW r \in Request, Put(id, r)
  PROVE  /\ requests'[id].state = r.state
         /\ requests'[id].spec = r.spec
         /\ requests'[id].sendBack = r.sendBack
         /\ \A k \in RequestId : k # id => requests'[k] = requests[k]
  BY CleanedType DEF Put, IInv, TypeOK

(* Every step moves each request by the moves an action may make. *)
LEMMA StepMoves ==
  ASSUME IInv, [Next]_vars, NEW k \in RequestId
  PROVE  Moves(k)
<1>1. ASSUME NEW id \in RequestId PROVE requests[id] \in Request /\ Coherent(requests[id])
  BY RequestsTyped DEF IInv, RecordsCoherent
<1>2. CASE Filing
  <2>1. PICK id \in RequestId, p \in Repo, f \in Filer \cup {NoOne},
             s \in {"screening", "queued"} :
               requests[id].state = "unfiled" /\ Put(id, New(p, f, s))
    BY <1>2 DEF Filing, FileByAdmin, FileByAccount, FreshId
  <2>2. New(p, f, s) \in Request /\ New(p, f, s).state = s
    BY UnfiledType DEF New, Unfiled, Request, State, IInv, TypeOK
  <2> QED  BY <2>1, <2>2, PutMoves DEF Moves
<1>3. CASE Polling
  <2>1. PICK by \in Label, serves \in SUBSET Repo : ClaimNext(by, serves)
    BY <1>3 DEF Polling
  <2> DEFINE rs == AllReclaimed
  <2>2. /\ rs \in [RequestId -> Request]
        /\ \A id \in RequestId :
             /\ requests[id].state # "claimed" => rs[id] = requests[id]
             /\ rs[id].sendBack = requests[id].sendBack
             /\ rs[id].state \in {requests[id].state, "queued"}
    BY AllReclaimedAged, AgedRequests
  <2>3. \/ requests' = rs
        \/ \E id \in Claimable(rs, serves) :
             requests' = [rs EXCEPT ![id].state     = "claimed",
                                    ![id].claimedMs = now,
                                    ![id].claimedBy = by,
                                    ![id].drafts    = Begun(@)]
    BY <2>1 DEF ClaimNext
  <2> HIDE DEF rs
  <2>4. CASE requests' = rs
    BY <2>2, <2>4 DEF Moves
  <2>5. ASSUME NEW id \in Claimable(rs, serves),
               requests' = [rs EXCEPT ![id].state     = "claimed",
                                      ![id].claimedMs = now,
                                      ![id].claimedBy = by,
                                      ![id].drafts    = Begun(@)]
        PROVE  Moves(k)
    <3>1. id \in RequestId /\ rs[id] \in Request /\ rs[id].state = "queued"
      BY <2>2 DEF Claimable
    <3>2. /\ requests'[id].state = "claimed"
          /\ requests'[id].sendBack = rs[id].sendBack
          /\ k # id => requests'[k] = rs[k]
      BY <2>2, <2>5, <3>1 DEF Request
    <3> QED  BY <2>2, <3>1, <3>2 DEF Moves
  <2> QED  BY <2>3, <2>4, <2>5
<1>4. CASE \E last \in RequestId : ReclaimInterrupted(last)
  <2>1. PICK last \in RequestId : requests' = ReclaimedUpTo(last)
    BY <1>4 DEF ReclaimInterrupted
  <2>2. /\ requests[k].state # "claimed" => requests'[k] = requests[k]
        /\ requests'[k].sendBack = requests[k].sendBack
        /\ requests'[k].state \in {requests[k].state, "queued"}
    BY <2>1, ReclaimedUpToAged, AgedRequests
  <2> QED  BY <2>2 DEF Moves
<1>5. CASE Reporting
  <2>1. PICK id \in RequestId, by \in Label :
          \/ \E s \in SpecText : RecordDrafted(id, by, s)
          \/ RecordFailed(id, by)
          \/ RecordReleased(id, by)
    BY <1>5 DEF Reporting
  <2>2. requests[id].state = "claimed"
    BY <2>1 DEF RecordDrafted, RecordFailed, RecordReleased, HoldsClaim
  <2>3. ASSUME NEW s \in SpecText, RecordDrafted(id, by, s) PROVE Moves(k)
    <3> DEFINE r == [requests[id] EXCEPT !.state = "awaiting-review",
                                         !.spec = s, !.sendBack = FALSE]
    <3>1. r \in Request /\ r.state = "awaiting-review"
      BY <1>1 DEF Request, State
    <3> QED  BY <2>2, <2>3, <3>1, PutMoves DEF RecordDrafted, Moves
  <2>4. ASSUME NEW s \in {"failed", "queued"},
               Put(id, [requests[id] EXCEPT !.state = s])
        PROVE  Moves(k)
    <3> DEFINE r == [requests[id] EXCEPT !.state = s]
    <3>1. r \in Request /\ r.state = s /\ r.sendBack = requests[id].sendBack
      BY <1>1 DEF Request, State
    <3> QED  BY <2>2, <2>4, <3>1, PutMoves DEF Moves
  <2> QED  BY <2>1, <2>3, <2>4 DEF RecordFailed, RecordReleased
<1>6. CASE Accept
  <2> DEFINE id == page.id
             r  == [requests[id] EXCEPT !.state = "accepted"]
  <2>1. id \in RequestId
    BY <1>6 DEF Accept, IInv, TypeOK
  <2>2. /\ r \in Request /\ r.state = "accepted"
        /\ r.spec = requests[id].spec /\ r.sendBack = requests[id].sendBack
    BY <1>1, <2>1 DEF Request, State
  <2> QED  BY <1>6, <2>1, <2>2, PutMoves DEF Accept, Moves
<1>7. ASSUME NEW id \in RequestId, SendBack(id) PROVE Moves(k)
  <2> DEFINE r == [requests[id] EXCEPT !.state = "queued", !.sendBack = TRUE,
                                       !.spec = NoSpec]
  <2>1. r \in Request /\ r.state = "queued" /\ r.sendBack
    BY <1>1 DEF Request, State
  <2> QED  BY <1>7, <2>1, PutMoves DEF SendBack, Moves
<1>8. ASSUME NEW id \in RequestId, ReleaseQuarantined(id) PROVE Moves(k)
  <2> DEFINE r == [requests[id] EXCEPT !.state = "queued"]
  <2>1. r \in Request /\ r.state = "queued" /\ r.sendBack = requests[id].sendBack
    BY <1>1 DEF Request, State
  <2> QED  BY <1>8, <2>1, PutMoves DEF ReleaseQuarantined, Moves
<1>9. ASSUME NEW id \in RequestId, Discard(id) PROVE Moves(k)
  <2> DEFINE r == [requests[id] EXCEPT !.state = "discarded"]
  <2>1. r \in Request /\ r.state = "discarded" /\ r.sendBack = requests[id].sendBack
    BY <1>1 DEF Request, State
  <2> QED  BY <1>9, <2>1, PutMoves DEF Discard, Moves
<1>10. CASE SweepWrites
  <2>1. /\ held # NotHeld /\ held.id \in RequestId /\ held.req \in Request
        /\ held.req.state \in {"queued", "quarantined"}
        /\ requests[held.id].state \in {"screening", "discarded"}
        /\ requests[held.id] = [held.req EXCEPT !.state = requests[held.id].state]
    BY <1>10, HeldTyped DEF SweepWrites, IInv, VerdictIsCurrent
  <2>2. requests[held.id].sendBack = held.req.sendBack
    BY <2>1 DEF Request
  <2> QED  BY <1>10, <2>1, <2>2, PutMoves DEF SweepWrites, Moves
<1>11. CASE UNCHANGED requests
  BY <1>11 DEF Moves
<1> QED
  BY <1>2, <1>3, <1>4, <1>5, <1>6, <1>7, <1>8, <1>9, <1>10, <1>11
  DEF Next, Reviewing, OpenPage, ToggleScreening, Sweep, SweepBegins, SweepReads,
      Restart, Tick, vars

(* The lifecycle of the module's table, for every request and every order   *)
(* of verbs, polls, expiries, verdicts and restarts.                        *)
THEOREM LifecycleHolds == Spec => Lifecycle
<1>1. ASSUME IInv, [Next]_vars PROVE \A id \in RequestId : LegalMove(id)
  <2> TAKE id \in RequestId
  <2>1. Moves(id)
    BY <1>1, StepMoves
  <2>2. requests[id].state \in State
    BY <1>1, RequestsTyped DEF IInv, Request
  <2>3. /\ Successors["unfiled"] = {"screening", "queued"}
        /\ Successors["screening"] = {"queued", "quarantined", "discarded"}
        /\ Successors["queued"] = {"claimed", "discarded"}
        /\ Successors["claimed"] =
             {"queued", "claimed", "awaiting-review", "failed", "discarded"}
        /\ Successors["awaiting-review"] = {"accepted", "queued", "discarded"}
        /\ Successors["quarantined"] = {"queued", "discarded"}
        /\ Successors["failed"] = {"discarded"}
        /\ Successors["accepted"] = {}
        /\ Successors["discarded"] = {"queued", "quarantined"}
    BY DEF Successors, State
  <2> QED  BY <2>1, <2>2, <2>3 DEF Moves, LegalMove, State
<1> QED  BY <1>1, Invariance, PTL DEF Spec, Lifecycle

(* A send-back note outlives expiries and hand-backs, for every request.    *)
THEOREM NoteSurvivesHolds == Spec => NoteSurvives
<1>1. ASSUME IInv, [Next]_vars PROVE \A id \in RequestId : NoteSpentByDraft(id)
  <2> TAKE id \in RequestId
  <2>1. Moves(id) /\ Coherent(requests[id])
    BY <1>1, StepMoves DEF IInv, RecordsCoherent
  <2> QED  BY <2>1 DEF Moves, NoteSpentByDraft, Coherent
<1> QED  BY <1>1, Invariance, PTL DEF Spec, NoteSurvives

(* An accepted record is never written again, by any handler or thread.     *)
THEOREM AcceptedIsSettledHolds == Spec => AcceptedIsSettled
<1>1. ASSUME IInv, [Next]_vars PROVE \A id \in RequestId : Settled(id)
  <2> TAKE id \in RequestId
  <2> QED  BY <1>1, StepMoves DEF Moves, Settled
<1> QED  BY <1>1, Invariance, PTL DEF Spec, AcceptedIsSettled

(* Nothing is accepted but the text the accepting page showed.              *)
THEOREM AcceptedWasShownHolds == Spec => AcceptedWasShown
<1>1. ASSUME IInv, [Next]_vars PROVE \A id \in RequestId : AcceptanceWasShown(id)
  <2> TAKE id \in RequestId
  <2> QED  BY <1>1, StepMoves DEF Moves, AcceptanceWasShown
<1> QED  BY <1>1, Invariance, PTL DEF Spec, AcceptedWasShown

==============================================================================
