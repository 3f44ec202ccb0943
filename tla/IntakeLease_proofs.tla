-------------------------- MODULE IntakeLease_proofs --------------------------
(***************************************************************************)
(* What IntakeStore implements, for any number of requests, repositories   *)
(* and daemons and any clock: its claims are the leases of RepoLease, and  *)
(* what it offers of each repository is a WorkQueue.                       *)
(***************************************************************************)
EXTENDS IntakeStore_proofs

ClaimOf(r) == [by |-> r.claimedBy, since |-> r.claimedMs, free |-> FALSE]

Claims(rs, p, k) == rs[k].state = "claimed" /\ rs[k].repo = p

(* LeaseHolder, of any records. *)
HolderOf(rs) ==
  [ p \in Repo |->
      IF ~ BusyIn(rs, p) THEN NoLease
      ELSE ClaimOf(rs[CHOOSE k \in RequestId : rs[k].state = "claimed" /\ rs[k].repo = p]) ]

------------------------------------------------------------------------------
(* The lease that records amount to. *)

(* The refinement mapping reads the records on the volume. *)
LEMMA HolderIs ==
  LeaseHolder = HolderOf(requests) /\ LeaseHolder' = HolderOf(requests')
  BY DEF LeaseHolder, HolderOf, ClaimOf, BusyIn

(* A repository without a claim is free. *)
LEMMA HolderFree ==
  ASSUME NEW rs, NEW p \in Repo, \A k \in RequestId : ~ Claims(rs, p, k)
  PROVE  HolderOf(rs)[p] = NoLease
  BY DEF HolderOf, BusyIn, Claims

(* One with a claim is that claim's: there is no second one to choose. *)
LEMMA HolderTaken ==
  ASSUME NEW rs, OneClaimPer(rs), NEW p \in Repo, NEW k \in RequestId, Claims(rs, p, k)
  PROVE  HolderOf(rs)[p] = ClaimOf(rs[k])
<1> DEFINE C(j) == rs[j].state = "claimed" /\ rs[j].repo = p
           chosen == CHOOSE j \in RequestId : C(j)
<1>1. C(k)
  BY DEF Claims
<1>2. chosen \in RequestId /\ C(chosen)
  BY <1>1
<1>3. chosen = k
  BY <1>1, <1>2 DEF OneClaimPer
<1>4. BusyIn(rs, p)
  BY <1>1 DEF BusyIn
<1>5. HolderOf(rs)[p] = ClaimOf(rs[chosen])
  BY <1>4 DEF HolderOf
<1> QED  BY <1>3, <1>5

(* Records with the same claims of a repository amount to the same lease.   *)
LEMMA HolderSame ==
  ASSUME NEW rs, NEW qs, OneClaimPer(rs), OneClaimPer(qs), NEW p \in Repo,
         \A k \in RequestId : \/ ~ Claims(rs, p, k) /\ ~ Claims(qs, p, k)
                              \/ qs[k] = rs[k]
  PROVE  HolderOf(qs)[p] = HolderOf(rs)[p]
<1>1. CASE \E k \in RequestId : Claims(rs, p, k)
  <2>1. PICK k \in RequestId : Claims(rs, p, k)
    BY <1>1
  <2>2. Claims(qs, p, k) /\ qs[k] = rs[k]
    BY <2>1 DEF Claims
  <2> QED  BY <2>1, <2>2, HolderTaken
<1>2. CASE \A k \in RequestId : ~ Claims(rs, p, k)
  <2>1. \A k \in RequestId : ~ Claims(qs, p, k)
    BY <1>2 DEF Claims
  <2> QED  BY <1>2, <2>1, HolderFree
<1> QED  BY <1>1, <1>2

(* It is a function on the repositories. *)
LEMMA HolderDomain ==
  ASSUME NEW rs, NEW f, \A p \in Repo : HolderOf(rs)[p] = f[p]
  PROVE  HolderOf(rs) = [p \in Repo |-> f[p]]
  BY DEF HolderOf

(* A record that is looked at ages as the lease does. (reclaim_stale) *)
LEMMA ClaimAges ==
  ASSUME NEW r \in Request, r.state = "claimed", now \in Clock
  PROVE  /\ Reclaimed(r).state = "claimed" => Lease!Aged(ClaimOf(r)) = ClaimOf(Reclaimed(r))
         /\ Reclaimed(r).state # "claimed" => Lease!Aged(ClaimOf(r)) = NoLease
<1>1. CASE r.claimedMs = NoStamp
  <2>1. Reclaimed(r) = [r EXCEPT !.claimedMs = now]
    BY <1>1 DEF Reclaimed
  <2>2. /\ Reclaimed(r).state = "claimed" /\ Reclaimed(r).claimedMs = now
        /\ Reclaimed(r).claimedBy = r.claimedBy
    BY <2>1 DEF Request
  <2> QED  BY <1>1, <2>2 DEF Lease!Aged, Lease!NoStamp, NoStamp, ClaimOf
<1>2. CASE r.claimedMs # NoStamp /\ now - r.claimedMs < ClaimTimeout
  BY <1>2 DEF Reclaimed, Lease!Aged, Lease!NoStamp, NoStamp, ClaimOf
<1>3. CASE r.claimedMs # NoStamp /\ ~ (now - r.claimedMs < ClaimTimeout)
  <2> DEFINE q == [r EXCEPT !.state = "queued"]
  <2>1. Reclaimed(r) = Cleaned(q) /\ q \in Request /\ q.state = "queued"
    BY <1>3 DEF Reclaimed, Request, State
  <2>2. Reclaimed(r).state = "queued"
    BY <2>1, CleanedType
  <2> QED  BY <1>3, <2>2
           DEF Lease!Aged, Lease!NoStamp, Lease!NoLease, NoStamp, NoLease, ClaimOf
<1> QED  BY <1>1, <1>2, <1>3

(* Looking at some records ages the leases of those claimed among them. *)
LEMMA HolderAges ==
  ASSUME IInv, NEW some \in SUBSET RequestId,
         NEW rs, rs = [ id \in RequestId |-> IF id \in some THEN Reclaimed(requests[id])
                                             ELSE requests[id] ]
  PROVE  HolderOf(rs) =
           [ p \in Repo |->
               IF \E k \in some : Claims(requests, p, k)
               THEN Lease!Aged(HolderOf(requests)[p]) ELSE HolderOf(requests)[p] ]
<1>1. /\ OneClaimPer(rs) /\ OneClaimPer(requests) /\ now \in Clock
      /\ \A id \in RequestId :
           /\ rs[id].repo = requests[id].repo
           /\ requests[id].state # "claimed" => rs[id] = requests[id]
           /\ rs[id].state = "claimed" => requests[id].state = "claimed"
  BY AgedRequests DEF IInv, OneClaimPerRepo, TypeOK
<1>2. ASSUME NEW p \in Repo, NEW k \in some, Claims(requests, p, k)
      PROVE  HolderOf(rs)[p] = Lease!Aged(HolderOf(requests)[p])
  <2>1. requests[k] \in Request /\ requests[k].state = "claimed" /\ k \in RequestId
    BY <1>2, RequestsTyped DEF IInv, Claims
  <2>2. rs[k] = Reclaimed(requests[k])
    BY <2>1
  <2>3. HolderOf(requests)[p] = ClaimOf(requests[k])
    BY <1>1, <1>2, <2>1, HolderTaken
  <2>4. CASE rs[k].state = "claimed"
    <3>1. Claims(rs, p, k)
      BY <1>1, <1>2, <2>1, <2>4 DEF Claims
    <3>2. HolderOf(rs)[p] = ClaimOf(rs[k])
      BY <1>1, <2>1, <3>1, HolderTaken
    <3> QED  BY <1>1, <2>1, <2>2, <2>3, <2>4, <3>2, ClaimAges
  <2>5. CASE rs[k].state # "claimed"
    <3>1. \A j \in RequestId : ~ Claims(rs, p, j)
      BY <1>1, <1>2, <2>1, <2>5 DEF Claims, OneClaimPer
    <3>2. HolderOf(rs)[p] = NoLease
      BY <3>1, HolderFree
    <3> QED  BY <1>1, <2>1, <2>2, <2>3, <2>5, <3>2, ClaimAges
  <2> QED  BY <2>4, <2>5
<1>3. ASSUME NEW p \in Repo, \A k \in some : ~ Claims(requests, p, k)
      PROVE  HolderOf(rs)[p] = HolderOf(requests)[p]
  <2>1. \A k \in RequestId : \/ ~ Claims(requests, p, k) /\ ~ Claims(rs, p, k)
                             \/ rs[k] = requests[k]
    BY <1>1, <1>3 DEF Claims
  <2> QED  BY <1>1, <2>1, HolderSame
<1> DEFINE f == [ p \in Repo |->
                    IF \E k \in some : Claims(requests, p, k)
                    THEN Lease!Aged(HolderOf(requests)[p]) ELSE HolderOf(requests)[p] ]
<1>4. \A p \in Repo : HolderOf(rs)[p] = f[p]
  BY <1>2, <1>3
<1>5. HolderOf(rs) = [p \in Repo |-> f[p]]
  BY <1>4, HolderDomain
<1> QED  BY <1>5

------------------------------------------------------------------------------
(* Every step of the store is a step of the leases, or none. *)

(* Records that keep their claims keep the leases. *)
LEMMA NoClaimMoves ==
  ASSUME IInv, IInv', now' = now,
         \A k \in RequestId :
           \/ requests[k].state # "claimed" /\ requests'[k].state # "claimed"
           \/ requests'[k] = requests[k]
  PROVE  UNCHANGED Lease!vars
<1>1. OneClaimPer(requests) /\ OneClaimPer(requests')
  BY DEF IInv, OneClaimPerRepo, OneClaimPer
<1>2. \A p \in Repo : HolderOf(requests')[p] = HolderOf(requests)[p]
  BY <1>1, HolderSame DEF Claims
<1>3. HolderOf(requests') = HolderOf(requests)
  BY <1>2, HolderDomain DEF HolderOf
<1> QED  BY <1>3, HolderIs DEF Lease!vars

(* Writing a record that is no claim ends the lease it was, if any. *)
LEMMA PutSteps ==
  ASSUME IInv, IInv', NEW id \in RequestId, NEW r \in Request, Put(id, r),
         r.state # "claimed", now' = now
  PROVE  [Lease!Next]_(Lease!vars)
<1>1. requests'[id].state # "claimed" /\ \A k \in RequestId : k # id => requests'[k] = requests[k]
  BY PutMoves
<1>2. CASE requests[id].state # "claimed"
  <2>1. UNCHANGED Lease!vars
    BY <1>1, <1>2, NoClaimMoves
  <2> QED  BY <2>1
<1>3. CASE requests[id].state = "claimed"
  <2> DEFINE p == requests[id].repo
  <2>1. OneClaimPer(requests) /\ OneClaimPer(requests')
    BY DEF IInv, OneClaimPerRepo, OneClaimPer
  <2>2. ASSUME NEW q \in Repo, q # p PROVE HolderOf(requests')[q] = HolderOf(requests)[q]
    <3>1. \A k \in RequestId : \/ ~ Claims(requests, q, k) /\ ~ Claims(requests', q, k)
                               \/ requests'[k] = requests[k]
      BY <1>1, <2>2 DEF Claims
    <3> QED  BY <2>1, <3>1, HolderSame
  <2>3. CASE p \in Repo
    <3>1. HolderOf(requests)[p] = ClaimOf(requests[id])
      BY <1>3, <2>1, <2>3, HolderTaken DEF Claims
    <3>2. \A k \in RequestId : ~ Claims(requests', p, k)
      BY <1>1, <1>3, <2>1 DEF Claims, OneClaimPer
    <3>3. HolderOf(requests')[p] = NoLease
      BY <2>3, <3>2, HolderFree
    <3> DEFINE f == [HolderOf(requests) EXCEPT ![p] = NoLease]
    <3>4. \A q \in Repo : HolderOf(requests')[q] = f[q]
      <4>1. HolderOf(requests) = [q \in Repo |-> HolderOf(requests)[q]]
        BY HolderDomain
      <4> QED  BY <2>2, <3>3, <4>1
    <3>5. HolderOf(requests') = [q \in Repo |-> f[q]]
      BY <3>4, HolderDomain
    <3>6. HolderOf(requests') = f
      BY <3>5 DEF HolderOf
    <3>7. Lease!Drop(p)
      BY <3>1, <3>6, HolderIs DEF Lease!Drop, Lease!NoLease, Lease!NoStamp, NoLease, NoStamp, ClaimOf
    <3> QED  BY <2>3, <3>7 DEF Lease!Next
  <2>4. CASE p \notin Repo
    <3>1. \A q \in Repo : HolderOf(requests')[q] = HolderOf(requests)[q]
      BY <2>2, <2>4
    <3>2. HolderOf(requests') = HolderOf(requests)
      BY <3>1, HolderDomain DEF HolderOf
    <3>3. UNCHANGED Lease!vars
      BY <3>2, HolderIs DEF Lease!vars
    <3> QED  BY <3>3
  <2> QED  BY <2>3, <2>4
<1> QED  BY <1>2, <1>3

(* A look at some records is a look at some leases. *)
LEMMA AgeSteps ==
  ASSUME IInv, now' = now,
         requests' \in { [ id \in RequestId |-> IF id \in some THEN Reclaimed(requests[id])
                                                ELSE requests[id] ] : some \in SUBSET RequestId }
  PROVE  Lease!Next
<1>1. PICK some \in SUBSET RequestId :
         requests' = [ id \in RequestId |-> IF id \in some THEN Reclaimed(requests[id])
                                            ELSE requests[id] ]
  OBVIOUS
<1> DEFINE looked == { p \in Repo : \E k \in some : Claims(requests, p, k) }
<1>2. HolderOf(requests') =
        [ p \in Repo |-> IF p \in looked THEN Lease!Aged(HolderOf(requests)[p])
                         ELSE HolderOf(requests)[p] ]
  BY <1>1, HolderAges
<1>3. Lease!Age(looked)
  BY <1>2, HolderIs DEF Lease!Age
<1> QED  BY <1>3 DEF Lease!Next

(* A poll grants the lease of a repository that is free by then, one at     *)
(* most. (claim_next) *)
LEMMA PollSteps ==
  ASSUME IInv, IInv', NEW by \in Label, NEW serves \in SUBSET Repo, ClaimNext(by, serves)
  PROVE  Lease!Next
<1> DEFINE rs == AllReclaimed
<1>1. now' = now
  BY DEF ClaimNext
<1>2. CASE requests' = rs
  BY <1>1, <1>2, AllReclaimedAged, AgeSteps
<1>3. ASSUME NEW id \in Claimable(rs, serves),
             requests' = [rs EXCEPT ![id].state     = "claimed",
                                    ![id].claimedMs = now,
                                    ![id].claimedBy = by,
                                    ![id].drafts    = Begun(@)]
      PROVE  Lease!Next
  <2> DEFINE p == rs[id].repo
  <2>1. /\ rs \in [RequestId -> Request] /\ OneClaimPer(rs)
        /\ \A k \in RequestId : requests[k].state # "claimed" => rs[k] = requests[k]
    BY AllReclaimedAged, AgedRequests
  <2>2. id \in RequestId /\ p \in Repo /\ ~ BusyIn(rs, p) /\ rs[id] \in Request
    BY <2>1 DEF Claimable
  <2>3. HolderOf(rs) =
          [ q \in Repo |-> IF \E k \in RequestId : Claims(requests, q, k)
                           THEN Lease!Aged(HolderOf(requests)[q]) ELSE HolderOf(requests)[q] ]
    <3>1. rs = [ k \in RequestId |-> IF k \in RequestId THEN Reclaimed(requests[k])
                                     ELSE requests[k] ]
      BY DEF AllReclaimed
    <3> HIDE DEF rs
    <3> QED  BY <3>1, HolderAges
  <2> HIDE DEF rs
  <2>4. ASSUME NEW q \in Repo PROVE HolderOf(rs)[q] = Lease!Aged(HolderOf(requests)[q])
    <3>1. CASE \E k \in RequestId : Claims(requests, q, k)
      BY <2>3, <3>1
    <3>2. CASE \A k \in RequestId : ~ Claims(requests, q, k)
      <4>1. HolderOf(requests)[q] = NoLease
        BY <3>2, HolderFree
      <4> QED  BY <2>3, <3>2, <4>1 DEF Lease!Aged, NoLease
    <3> QED  BY <3>1, <3>2
  <2>5. /\ requests'[id].state = "claimed" /\ requests'[id].repo = p
        /\ requests'[id].claimedMs = now /\ requests'[id].claimedBy = by
        /\ \A k \in RequestId : k # id => requests'[k] = rs[k]
    BY <1>3, <2>1, <2>2 DEF Request
  <2>6. OneClaimPer(requests')
    BY DEF IInv, OneClaimPerRepo, OneClaimPer
  <2>7. Lease!Aged(HolderOf(requests)[p]).free
    <3>1. HolderOf(rs)[p] = NoLease
      BY <2>2, HolderFree DEF BusyIn, Claims
    <3> QED  BY <2>2, <2>4, <3>1 DEF NoLease
  <2>8. HolderOf(requests')[p] = [by |-> by, since |-> now, free |-> FALSE]
    <3>1. HolderOf(requests')[p] = ClaimOf(requests'[id])
      BY <2>2, <2>5, <2>6, HolderTaken DEF Claims
    <3> QED  BY <2>5, <3>1 DEF ClaimOf
  <2>9. ASSUME NEW q \in Repo, q # p PROVE HolderOf(requests')[q] = HolderOf(rs)[q]
    <3>1. \A k \in RequestId : \/ ~ Claims(rs, q, k) /\ ~ Claims(requests', q, k)
                               \/ requests'[k] = rs[k]
      BY <2>5, <2>9 DEF Claims
    <3> QED  BY <2>1, <2>6, <3>1, HolderSame
  <2> DEFINE f == [ q \in Repo |-> IF q = p THEN [by |-> by, since |-> now, free |-> FALSE]
                                   ELSE Lease!Aged(HolderOf(requests)[q]) ]
  <2>10. \A q \in Repo : HolderOf(requests')[q] = f[q]
    BY <2>4, <2>8, <2>9
  <2>11. HolderOf(requests') = [q \in Repo |-> f[q]]
    BY <2>10, HolderDomain
  <2>12. Lease!Grant(p, by)
    BY <1>1, <2>7, <2>11, HolderIs DEF Lease!Grant
  <2> QED  BY <2>2, <2>12 DEF Lease!Next
<1>4. requests' = rs \/ \E id \in Claimable(rs, serves) :
        requests' = [rs EXCEPT ![id].state     = "claimed",
                               ![id].claimedMs = now,
                               ![id].claimedBy = by,
                               ![id].drafts    = Begun(@)]
  BY DEF ClaimNext
<1> QED  BY <1>2, <1>3, <1>4

(* Every write of the store by another handler or thread is of a record     *)
(* that is no claim. *)
LEMMA WriteSteps ==
  ASSUME IInv, IInv', Filing \/ Reporting \/ Reviewing \/ Sweep
  PROVE  [Lease!Next]_(Lease!vars)
<1>1. ASSUME NEW id \in RequestId PROVE requests[id] \in Request
  BY RequestsTyped DEF IInv
<1>2. ASSUME NEW id \in RequestId, NEW s \in State \ {"claimed"}, now' = now,
             Put(id, [requests[id] EXCEPT !.state = s])
      PROVE  [Lease!Next]_(Lease!vars)
  <2> DEFINE r == [requests[id] EXCEPT !.state = s]
  <2>1. r \in Request /\ r.state # "claimed"
    BY <1>1 DEF Request
  <2> QED  BY <1>2, <2>1, PutSteps
<1>3. CASE Filing
  <2>1. PICK id \in RequestId, p \in Repo, f \in Filer \cup {NoOne},
             s \in {"screening", "queued"} :
               Put(id, New(p, f, s)) /\ now' = now
    BY <1>3 DEF Filing, FileByAdmin, FileByAccount
  <2>2. New(p, f, s) \in Request /\ New(p, f, s).state = s
    BY UnfiledType DEF New, Unfiled, Request, State, IInv, TypeOK
  <2> QED  BY <2>1, <2>2, PutSteps
<1>4. CASE Reporting
  <2>1. PICK id \in RequestId, by \in Label :
          \/ \E s \in SpecText : RecordDrafted(id, by, s)
          \/ RecordFailed(id, by)
          \/ RecordReleased(id, by)
    BY <1>4 DEF Reporting
  <2>2. ASSUME NEW s \in SpecText, RecordDrafted(id, by, s) PROVE [Lease!Next]_(Lease!vars)
    <3> DEFINE r == [requests[id] EXCEPT !.state = "awaiting-review",
                                         !.spec = s, !.sendBack = FALSE]
    <3>1. r \in Request /\ r.state # "claimed"
      BY <1>1 DEF Request, State
    <3> QED  BY <2>2, <3>1, PutSteps DEF RecordDrafted
  <2> QED  BY <1>2, <2>1, <2>2 DEF RecordFailed, RecordReleased, State
<1>5. CASE Accept
  <2>1. page.id \in RequestId
    BY <1>5 DEF Accept, IInv, TypeOK
  <2> QED  BY <1>2, <1>5, <2>1 DEF Accept, State
<1>6. ASSUME NEW id \in RequestId, SendBack(id) PROVE [Lease!Next]_(Lease!vars)
  <2> DEFINE r == [requests[id] EXCEPT !.state = "queued", !.sendBack = TRUE,
                                       !.spec = NoSpec]
  <2>1. r \in Request /\ r.state # "claimed"
    BY <1>1 DEF Request, State
  <2> QED  BY <1>6, <2>1, PutSteps DEF SendBack
<1>7. ASSUME NEW id \in RequestId, ReleaseQuarantined(id) \/ Discard(id)
      PROVE  [Lease!Next]_(Lease!vars)
  BY <1>2, <1>7 DEF ReleaseQuarantined, Discard, State
<1>8. ASSUME UNCHANGED <<requests, now>> PROVE [Lease!Next]_(Lease!vars)
  <2>1. UNCHANGED Lease!vars
    BY <1>8, NoClaimMoves
  <2> QED  BY <2>1
<1>9. CASE SweepWrites
  <2>1. /\ held.id \in RequestId /\ held.req \in Request
        /\ held.req.state # "claimed" /\ Put(held.id, held.req) /\ now' = now
    BY <1>9, HeldTyped DEF SweepWrites, IInv, VerdictIsCurrent
  <2> QED  BY <2>1, PutSteps
<1>10. CASE Reviewing
  BY <1>5, <1>6, <1>7, <1>8, <1>10 DEF Reviewing, OpenPage
<1>11. CASE Sweep
  BY <1>8, <1>9, <1>11 DEF Sweep, SweepBegins, SweepReads
<1> QED  BY <1>3, <1>4, <1>10, <1>11

------------------------------------------------------------------------------
(* The claims on the volume are leases: whatever handlers, expiries, lost   *)
(* answers, verdicts and restarts do, a repository's claim changes hands    *)
(* only once it ended or outlived its timeout, one per poll.                *)
THEOREM ClaimsAreLeases == Spec => ImplementsLease
<1>1. Init => Lease!Init
  <2> SUFFICES ASSUME Init PROVE Lease!Init
    OBVIOUS
  <2>1. ASSUME NEW p \in Repo PROVE HolderOf(requests)[p] \in {Lease!NoLease, Lease!Unknown}
    <3>1. CASE \E k \in RequestId : Claims(requests, p, k)
      <4>1. PICK k \in RequestId : Claims(requests, p, k)
        BY <3>1
      <4>2. requests[k] = LegacyClaim(requests[k].repo)
        <5>1. requests[k] \in {Unfiled} \cup { LegacyClaim(q) : q \in Repo }
          BY DEF Init
        <5>2. requests[k] # Unfiled
          BY <4>1 DEF Claims, Unfiled
        <5> QED  BY <5>1, <5>2 DEF LegacyClaim, Unfiled
      <4>3. requests[k].claimedBy = NoOne /\ requests[k].claimedMs = NoStamp
        BY <4>2 DEF LegacyClaim, Unfiled
      <4>4. HolderOf(requests)[p] = ClaimOf(requests[k])
        BY <4>1, HolderTaken DEF Init
      <4> QED  BY <4>3, <4>4 DEF ClaimOf, NoStamp, Lease!Unknown, Lease!NoStamp
    <3>2. CASE \A k \in RequestId : ~ Claims(requests, p, k)
      BY <3>2, HolderFree DEF NoLease, NoStamp, Lease!NoLease, Lease!NoStamp
    <3> QED  BY <3>1, <3>2
  <2>2. HolderOf(requests) \in [Repo -> {Lease!NoLease, Lease!Unknown}]
    BY <2>1 DEF HolderOf
  <2> QED  BY <2>2, HolderIs DEF Init, Lease!Init
<1>2. ASSUME IInv, [Next]_vars PROVE [Lease!Next]_(Lease!vars)
  <2>1. IInv'
    BY <1>2, NextIInv
  <2>2. CASE Filing \/ Reporting \/ Reviewing \/ Sweep
    BY <1>2, <2>1, <2>2, WriteSteps
  <2>3. CASE Polling
    BY <1>2, <2>1, <2>3, PollSteps DEF Polling
  <2>4. ASSUME NEW last \in RequestId, ReclaimInterrupted(last) PROVE Lease!Next
    BY <1>2, <2>4, ReclaimedUpToAged, AgeSteps DEF ReclaimInterrupted
  <2>5. ASSUME NEW d \in ClockSteps, Tick(d) PROVE Lease!Next
    <3>1. LeaseHolder' = LeaseHolder /\ now' = now + d /\ now + d \in Clock
      BY <2>5, HolderIs DEF Tick
    <3>2. Lease!Tick(d)
      BY <3>1 DEF Lease!Tick, Lease!Clock, Clock
    <3> QED  BY <2>5, <3>2 DEF Lease!Next
  <2>6. CASE UNCHANGED <<requests, now>>
    <3>1. LeaseHolder' = LeaseHolder /\ now' = now
      BY <2>6, HolderIs
    <3> QED  BY <3>1 DEF Lease!vars
  <2> QED  BY <1>2, <2>2, <2>3, <2>4, <2>5, <2>6 DEF Next, ToggleScreening, Restart, vars
<1> QED  BY <1>1, <1>2, Invariance, PTL DEF Spec, ImplementsLease, Lease!Spec
------------------------------------------------------------------------------
(* Every step of the store is a step of each repository's work queue, or    *)
(* none.                                                                    *)

Hidden(h, id) == h # NotHeld /\ h.id = id

StageOf(s, hidden) ==
  IF hidden \/ s \in {"unfiled", "screening", "quarantined"} THEN "none"
  ELSE IF s \in {"queued", "claimed"} THEN s
  ELSE IF s = "awaiting-review" THEN "drafted" ELSE "over"

(* What a repository's queue shows of a record. *)
ViewOf(p, r, hidden) ==
  IF r.repo = p
  THEN [state |-> StageOf(r.state, hidden), note |-> r.sendBack, shown |-> r.spec]
  ELSE [state |-> "none", note |-> FALSE, shown |-> NoSpec]

(* What may become of one request in one step, but for a claim.             *)
Legal(a, b) ==
  \/ b = a
  \/ /\ b.note = a.note /\ b.shown = a.shown
     /\ \/ a.state \in {"none", "claimed"} /\ b.state = "queued"
        \/ a.state # "over" /\ b.state = "over"
  \/ a.state = "drafted" /\ b = [state |-> "queued", note |-> TRUE, shown |-> NoSpec]
  \/ /\ a.state = "claimed" /\ b.state = "drafted" /\ ~ b.note /\ b.shown \in SpecText

WorkStep(p) == UNCHANGED Offered(p) \/ Work(p)!Next

(* The refinement mapping is the view of the records on the volume. *)
LEMMA OfferedIs ==
  ASSUME IInv, NEW p \in Repo
  PROVE  Offered(p) = [id \in RequestId |-> ViewOf(p, requests[id], Hidden(held, id))]
<1>1. ASSUME NEW id \in RequestId
      PROVE  Stage(id) = StageOf(requests[id].state, Hidden(held, id))
  <2>1. requests[id].state \in State
    BY RequestsTyped DEF IInv, Request
  <2> QED  BY <2>1 DEF Stage, StageOf, Hidden, State
<1> QED  BY <1>1 DEF Offered, ViewOf

(* The same after a step. *)
LEMMA OfferedNext ==
  ASSUME IInv', NEW p \in Repo
  PROVE  Offered(p)' = [id \in RequestId |-> ViewOf(p, requests'[id], Hidden(held', id))]
<1>1. ASSUME NEW id \in RequestId
      PROVE  Stage(id)' = StageOf(requests'[id].state, Hidden(held', id))
  <2>1. requests'[id].state \in State
    BY DEF IInv, TypeOK, Request
  <2> QED  BY <2>1 DEF Stage, StageOf, Hidden, State
<1> QED  BY <1>1 DEF Offered, ViewOf

(* A view is a record of three fields. *)
LEMMA ViewTyped ==
  ASSUME NEW p, NEW r \in Request, NEW hidden \in BOOLEAN
  PROVE  ViewOf(p, r, hidden) \in [state : {"none", "queued", "claimed", "drafted", "over"},
                                   note : BOOLEAN, shown : SpecText \cup {NoSpec}]
  BY DEF ViewOf, StageOf, Request, State

(* put does not change what is shown of a record. *)
LEMMA ViewCleaned ==
  ASSUME NEW p, NEW r \in Request, NEW hidden \in BOOLEAN
  PROVE  ViewOf(p, Cleaned(r), hidden) = ViewOf(p, r, hidden)
  BY CleanedType DEF ViewOf

(* One request moves, by a legal move. *)
LEMMA OneMoves ==
  ASSUME IInv, IInv', NEW p \in Repo, NEW id \in RequestId,
         \A k \in RequestId \ {id} : Offered(p)'[k] = Offered(p)[k],
         Legal(Offered(p)[id], Offered(p)'[id])
  PROVE  WorkStep(p)
<1> DEFINE Entry == [state : {"none", "queued", "claimed", "drafted", "over"},
                     note : BOOLEAN, shown : SpecText \cup {NoSpec}]
           f == Offered(p)
           g == Offered(p)'
           a == f[id]
           b == g[id]
<1>1. f \in [RequestId -> Entry]
  <2>1. \A k \in RequestId : requests[k] \in Request /\ Hidden(held, k) \in BOOLEAN
    BY RequestsTyped DEF IInv, Hidden
  <2> QED  BY <2>1, OfferedIs, ViewTyped
<1>2. g \in [RequestId -> Entry]
  <2>1. \A k \in RequestId : requests'[k] \in Request /\ Hidden(held', k) \in BOOLEAN
    BY DEF IInv, TypeOK, Hidden
  <2> QED  BY <2>1, OfferedNext, ViewTyped
<1>3. \A k \in RequestId \ {id} : g[k] = f[k]
  OBVIOUS
<1>4. Legal(a, b)
  OBVIOUS
<1> HIDE DEF f, g
<1>5. g = [f EXCEPT ![id] = b]
  BY <1>1, <1>2, <1>3
<1>6. a \in Entry /\ b \in Entry
  BY <1>1, <1>2
<1>7. CASE b = a
  <2>1. g = f
    BY <1>1, <1>5, <1>7
  <2> QED  BY <2>1 DEF f, g, WorkStep
<1>8. ASSUME NEW s, b.note = a.note, b.shown = a.shown, b.state = s
      PROVE  Work(p)!Becomes(id, s)
  <2>1. b = [a EXCEPT !.state = s]
    BY <1>6, <1>8
  <2>2. g = [f EXCEPT ![id].state = s]
    BY <1>1, <1>5, <2>1
  <2> QED  BY <2>2 DEF f, g, Work!Becomes
<1>9. CASE b.note = a.note /\ b.shown = a.shown /\ a.state \in {"none", "claimed"} /\ b.state = "queued"
  <2>1. Work(p)!Offer(id) \/ Work(p)!Return(id)
    BY <1>8, <1>9 DEF f, Work!Offer, Work!Return
  <2> QED  BY <2>1 DEF WorkStep, Work!Next
<1>10. CASE b.note = a.note /\ b.shown = a.shown /\ a.state # "over" /\ b.state = "over"
  <2>1. Work(p)!Close(id)
    BY <1>8, <1>10 DEF f, Work!Close
  <2> QED  BY <2>1 DEF WorkStep, Work!Next
<1>11. CASE a.state = "drafted" /\ b = [state |-> "queued", note |-> TRUE, shown |-> NoSpec]
  <2>1. Work(p)!SendBack(id)
    BY <1>5, <1>11 DEF f, g, Work!SendBack
  <2> QED  BY <2>1 DEF WorkStep, Work!Next
<1>12. CASE a.state = "claimed" /\ b.state = "drafted" /\ ~ b.note /\ b.shown \in SpecText
  <2>1. b = [state |-> "drafted", note |-> FALSE, shown |-> b.shown]
    BY <1>6, <1>12
  <2>2. Work(p)!Submit(id, b.shown)
    BY <1>5, <1>12, <2>1 DEF f, g, Work!Submit
  <2> QED  BY <1>12, <2>2 DEF WorkStep, Work!Next
<1> QED  BY <1>4, <1>7, <1>9, <1>10, <1>11, <1>12 DEF Legal

(* A write of one record that changes its view by a legal move.             *)
LEMMA PutOffers ==
  ASSUME IInv, IInv', NEW p \in Repo, NEW id \in RequestId, NEW r \in Request, Put(id, r),
         \A k \in RequestId \ {id} : Hidden(held', k) = Hidden(held, k),
         Legal(ViewOf(p, requests[id], Hidden(held, id)), ViewOf(p, r, Hidden(held', id)))
  PROVE  WorkStep(p)
<1>1. requests' = [requests EXCEPT ![id] = Cleaned(r)] /\ requests \in [RequestId -> Request]
  BY DEF Put, IInv, TypeOK
<1>2. requests'[id] = Cleaned(r) /\ \A k \in RequestId \ {id} : requests'[k] = requests[k]
  BY <1>1
<1>3. ViewOf(p, requests'[id], Hidden(held', id)) = ViewOf(p, r, Hidden(held', id))
  BY <1>2, ViewCleaned DEF Hidden
<1>4. Offered(p)'[id] = ViewOf(p, r, Hidden(held', id))
      /\ Offered(p)[id] = ViewOf(p, requests[id], Hidden(held, id))
  BY <1>3, OfferedIs, OfferedNext
<1>5. \A k \in RequestId \ {id} : Offered(p)'[k] = Offered(p)[k]
  BY <1>2, OfferedIs, OfferedNext
<1> QED  BY <1>4, <1>5, OneMoves

(* No verdict is held on a record that is past screening. *)
LEMMA NotHidden ==
  ASSUME IInv, NEW id \in RequestId, requests[id].state \notin {"screening", "discarded"}
  PROVE  ~ Hidden(held, id)
  BY DEF IInv, VerdictIsCurrent, Hidden

(* A new filing is on offer, or waits for its verdict. (file_now) *)
LEMMA FilingOffers ==
  ASSUME IInv, IInv', NEW p \in Repo, Filing
  PROVE  WorkStep(p)
<1>1. PICK id \in RequestId, q \in Repo, f \in Filer \cup {NoOne},
           s \in {"screening", "queued"} :
             Put(id, New(q, f, s)) /\ requests[id].state = "unfiled" /\ held' = held
  BY DEF Filing, FileByAdmin, FileByAccount, FreshId
<1> DEFINE r == New(q, f, s)
<1>2. /\ r \in Request /\ r.state = s /\ r.sendBack = FALSE /\ r.spec = NoSpec
  BY UnfiledType DEF New, Unfiled, Request, State, IInv, TypeOK
<1>3. requests[id].sendBack = FALSE /\ requests[id].spec = NoSpec /\ ~ Hidden(held, id)
  BY <1>1, NotHidden, RequestsTyped DEF IInv, RecordsCoherent, Coherent, Request
<1> HIDE DEF r
<1>4. Legal(ViewOf(p, requests[id], Hidden(held, id)), ViewOf(p, r, Hidden(held', id)))
  BY <1>1, <1>2, <1>3 DEF Legal, ViewOf, StageOf
<1>5. Put(id, r) /\ \A k \in RequestId \ {id} : Hidden(held', k) = Hidden(held, k)
  BY <1>1 DEF r, Hidden
<1> QED  BY <1>2, <1>4, <1>5, PutOffers

(* A verb that gives a record another state, and keeps the rest. *)
LEMMA VerbOffers ==
  ASSUME IInv, IInv', NEW p \in Repo, NEW id \in RequestId, NEW s \in State,
         Put(id, [requests[id] EXCEPT !.state = s]), held' = held,
         \/ requests[id].state = "claimed" /\ s \in {"queued", "failed"}
         \/ requests[id].state = "awaiting-review" /\ s = "accepted"
         \/ requests[id].state = "quarantined" /\ s = "queued"
         \/ requests[id].state \notin {"unfiled", "accepted"} /\ s = "discarded"
  PROVE  WorkStep(p)
<1> DEFINE old == requests[id]
           r == [old EXCEPT !.state = s]
           hidden == Hidden(held, id)
<1>1. old \in Request
  BY RequestsTyped DEF IInv
<1>2. /\ r \in Request /\ r.state = s /\ r.repo = old.repo
      /\ r.sendBack = old.sendBack /\ r.spec = old.spec
  BY <1>1 DEF Request
<1>3. hidden => s = "discarded"
  BY NotHidden
<1>4. Legal(ViewOf(p, old, hidden), ViewOf(p, r, hidden))
  <2> HIDE DEF r, hidden
  <2>1. CASE hidden
    BY <1>2, <1>3, <2>1 DEF Legal, ViewOf, StageOf
  <2>2. CASE ~ hidden /\ old.repo = p
    <3>1. ViewOf(p, old, hidden).note = ViewOf(p, r, hidden).note
          /\ ViewOf(p, old, hidden).shown = ViewOf(p, r, hidden).shown
      BY <1>2, <2>2 DEF ViewOf
    <3>2. /\ ViewOf(p, old, hidden).state = StageOf(old.state, hidden)
          /\ ViewOf(p, r, hidden).state = StageOf(s, hidden)
      BY <1>2, <2>2 DEF ViewOf
    <3>3. CASE old.state \in {"failed", "discarded"}
      <4>1. s = "discarded"
        BY <3>3
      <4>2. ViewOf(p, r, hidden) = ViewOf(p, old, hidden)
        BY <1>2, <2>2, <3>3, <4>1 DEF ViewOf, StageOf
      <4> QED  BY <4>2 DEF Legal
    <3>4. CASE old.state \notin {"failed", "discarded"}
      <4>1. \/ StageOf(old.state, hidden) \in {"none", "claimed"} /\ StageOf(s, hidden) = "queued"
            \/ StageOf(old.state, hidden) # "over" /\ StageOf(s, hidden) = "over"
        BY <1>1, <2>2, <3>4 DEF StageOf, Request, State
      <4> QED  BY <3>1, <3>2, <4>1 DEF Legal
    <3> QED  BY <3>3, <3>4
  <2>3. CASE old.repo # p
    BY <1>2, <2>3 DEF Legal, ViewOf
  <2> QED  BY <2>1, <2>2, <2>3
<1>5. \A k \in RequestId \ {id} : Hidden(held', k) = Hidden(held, k)
  BY DEF Hidden
<1>6. Hidden(held', id) = hidden
  BY DEF Hidden
<1> HIDE DEF hidden
<1> QED  BY <1>2, <1>4, <1>5, <1>6, PutOffers DEF hidden

(* A report or a verdict of a reviewer, each on one record. *)
LEMMA DecisionOffers ==
  ASSUME IInv, IInv', NEW p \in Repo, Reporting \/ Reviewing
  PROVE  WorkStep(p)
<1>1. ASSUME NEW id \in RequestId PROVE requests[id] \in Request
  BY RequestsTyped DEF IInv
<1>2. ASSUME NEW id \in RequestId, NEW by \in Label, RecordFailed(id, by) \/ RecordReleased(id, by)
      PROVE  WorkStep(p)
  BY <1>2, VerbOffers DEF RecordFailed, RecordReleased, HoldsClaim, State
<1>3. CASE Accept
  <2>1. page.id \in RequestId
    BY <1>3 DEF Accept, IInv, TypeOK
  <2> QED  BY <1>3, <2>1, VerbOffers DEF Accept, State
<1>4. ASSUME NEW id \in RequestId, ReleaseQuarantined(id) \/ Discard(id)
      PROVE  WorkStep(p)
  BY <1>4, VerbOffers DEF ReleaseQuarantined, Discard, State
<1>5. ASSUME NEW id \in RequestId, NEW by \in Label, NEW spec \in SpecText, RecordDrafted(id, by, spec)
      PROVE  WorkStep(p)
  <2> DEFINE r == [requests[id] EXCEPT !.state = "awaiting-review",
                                       !.spec = spec, !.sendBack = FALSE]
  <2>1. requests[id].state = "claimed" /\ Put(id, r) /\ held' = held
    BY <1>5 DEF RecordDrafted, HoldsClaim
  <2>2. /\ r \in Request /\ r.state = "awaiting-review" /\ r.repo = requests[id].repo
        /\ r.sendBack = FALSE /\ r.spec = spec
    BY <1>1 DEF Request, State
  <2> HIDE DEF r
  <2>3. ~ Hidden(held, id)
    BY <2>1, NotHidden
  <2>4. Legal(ViewOf(p, requests[id], Hidden(held, id)), ViewOf(p, r, Hidden(held', id)))
    BY <2>1, <2>2, <2>3 DEF Legal, ViewOf, StageOf
  <2>5. \A k \in RequestId \ {id} : Hidden(held', k) = Hidden(held, k)
    BY <2>1
  <2> QED  BY <2>1, <2>2, <2>4, <2>5, PutOffers
<1>6. ASSUME NEW id \in RequestId, SendBack(id)
      PROVE  WorkStep(p)
  <2> DEFINE r == [requests[id] EXCEPT !.state = "queued", !.sendBack = TRUE,
                                       !.spec = NoSpec]
  <2>1. requests[id].state = "awaiting-review" /\ Put(id, r) /\ held' = held
    BY <1>6 DEF SendBack
  <2>2. /\ r \in Request /\ r.state = "queued" /\ r.repo = requests[id].repo
        /\ r.sendBack = TRUE /\ r.spec = NoSpec
    BY <1>1 DEF Request, State
  <2> HIDE DEF r
  <2>3. ~ Hidden(held, id)
    BY <2>1, NotHidden
  <2>4. Legal(ViewOf(p, requests[id], Hidden(held, id)), ViewOf(p, r, Hidden(held', id)))
    BY <2>1, <2>2, <2>3 DEF Legal, ViewOf, StageOf
  <2>5. \A k \in RequestId \ {id} : Hidden(held', k) = Hidden(held, k)
    BY <2>1
  <2> QED  BY <2>1, <2>2, <2>4, <2>5, PutOffers
<1>7. ASSUME UNCHANGED <<requests, held>> PROVE WorkStep(p)
  BY <1>7, OfferedIs, OfferedNext DEF WorkStep
<1> QED  BY <1>2, <1>3, <1>4, <1>5, <1>6, <1>7 DEF Reporting, Reviewing, OpenPage

(* The screening thread hides a request while it holds its verdict, and     *)
(* shows it, or its discard, once that is written. (finish_screening)       *)
LEMMA SweepOffers ==
  ASSUME IInv, IInv', NEW p \in Repo, Sweep \/ Restart
  PROVE  WorkStep(p)
<1>1. CASE UNCHANGED <<requests, held>>
  BY <1>1, OfferedIs, OfferedNext DEF WorkStep
<1>2. ASSUME NEW id \in RequestId, requests[id].state = "screening", requests' = requests,
             held = NotHeld, \A k \in RequestId \ {id} : ~ Hidden(held', k)
      PROVE  WorkStep(p)
  <2>1. ViewOf(p, requests[id], Hidden(held', id)) = ViewOf(p, requests[id], Hidden(held, id))
    BY <1>2 DEF ViewOf, StageOf
  <2>2. \A k \in RequestId : ViewOf(p, requests'[k], Hidden(held', k)) = ViewOf(p, requests[k], Hidden(held, k))
    BY <1>2, <2>1 DEF Hidden
  <2> QED  BY <2>2, OfferedIs, OfferedNext DEF WorkStep
<1>3. CASE SweepReads
  <2>1. PICK id \in RequestId :
          /\ held = NotHeld /\ requests' = requests
          /\ \/ held' = NotHeld
             \/ requests[id].state = "screening" /\ held'.id = id
    BY <1>3 DEF SweepReads, IInv, TypeOK
  <2> QED  BY <1>1, <1>2, <2>1 DEF Hidden
<1>4. CASE SweepWrites
  <2> DEFINE id == held.id
             r == held.req
  <2>1. /\ held # NotHeld /\ id \in RequestId /\ r \in Request
        /\ r.state \in {"queued", "quarantined"}
        /\ requests[id].state \in {"screening", "discarded"}
        /\ requests[id] = [r EXCEPT !.state = requests[id].state]
        /\ Put(id, r) /\ held' = NotHeld
    BY <1>4, HeldTyped DEF SweepWrites, IInv, VerdictIsCurrent
  <2>2. requests[id].repo = r.repo /\ requests[id].sendBack = r.sendBack /\ requests[id].spec = r.spec
    BY <2>1 DEF Request
  <2>3. Hidden(held, id) /\ ~ Hidden(held', id)
    BY <2>1 DEF Hidden
  <2>4. Legal(ViewOf(p, requests[id], Hidden(held, id)), ViewOf(p, r, Hidden(held', id)))
    BY <2>1, <2>2, <2>3 DEF Legal, ViewOf, StageOf
  <2>5. \A k \in RequestId \ {id} : Hidden(held', k) = Hidden(held, k)
    BY <2>1 DEF Hidden
  <2> QED  BY <2>1, <2>4, <2>5, PutOffers
<1>5. ASSUME Restart, held # NotHeld
      PROVE  WorkStep(p)
  <2> DEFINE id == held.id
  <2>1. /\ id \in RequestId /\ requests[id].state \in {"screening", "discarded"}
        /\ held' = NotHeld /\ requests' = requests
    BY <1>5, HeldTyped DEF Restart, IInv, VerdictIsCurrent
  <2>2. Hidden(held, id) /\ ~ Hidden(held', id)
        /\ \A k \in RequestId \ {id} : Hidden(held', k) = Hidden(held, k)
    BY <1>5, <2>1 DEF Hidden
  <2>3. Legal(ViewOf(p, requests[id], Hidden(held, id)), ViewOf(p, requests[id], Hidden(held', id)))
    BY <2>1, <2>2 DEF Legal, ViewOf, StageOf
  <2>4. Legal(Offered(p)[id], Offered(p)'[id])
    BY <2>1, <2>3, OfferedIs, OfferedNext
  <2>5. \A k \in RequestId \ {id} : Offered(p)'[k] = Offered(p)[k]
    BY <2>1, <2>2, OfferedIs, OfferedNext
  <2> QED  BY <2>1, <2>4, <2>5, OneMoves
<1> QED  BY <1>1, <1>3, <1>4, <1>5 DEF Sweep, SweepBegins, Restart

(* A look at some records, which is all a repository sees of a step,        *)
(* returns its claim, or none.                                              *)
LEMMA AgeOffers ==
  ASSUME IInv, IInv', NEW p \in Repo, NEW rs,
         rs \in { [ id \in RequestId |-> IF id \in some THEN Reclaimed(requests[id])
                                         ELSE requests[id] ] : some \in SUBSET RequestId },
         \A k \in RequestId : ViewOf(p, requests'[k], Hidden(held', k))
                                = ViewOf(p, rs[k], Hidden(held, k))
  PROVE  WorkStep(p)
<1>1. \A id \in RequestId :
        /\ rs[id].repo = requests[id].repo
        /\ requests[id].state # "claimed" => rs[id] = requests[id]
        /\ rs[id].spec = requests[id].spec
        /\ rs[id].sendBack = requests[id].sendBack
        /\ rs[id].state \in {requests[id].state, "queued"}
  BY AgedRequests
<1> DEFINE V(k) == ViewOf(p, requests[k], Hidden(held, k))
           W(k) == ViewOf(p, rs[k], Hidden(held, k))
<1>2. ASSUME NEW k \in RequestId, ~ Claims(requests, p, k) PROVE W(k) = V(k)
  BY <1>1, <1>2 DEF Claims, ViewOf
<1>3. ASSUME NEW k \in RequestId, Claims(requests, p, k) PROVE Legal(V(k), W(k))
  <2>1. ~ Hidden(held, k)
    BY <1>3, NotHidden DEF Claims
  <2> QED  BY <1>1, <1>3, <2>1 DEF Claims, Legal, ViewOf, StageOf
<1>4. \A k \in RequestId : Offered(p)[k] = V(k) /\ Offered(p)'[k] = W(k)
  BY OfferedIs, OfferedNext
<1>5. CASE \E k \in RequestId : Claims(requests, p, k)
  <2>1. PICK id \in RequestId : Claims(requests, p, id)
    BY <1>5
  <2>2. \A k \in RequestId \ {id} : ~ Claims(requests, p, k)
    BY <2>1 DEF Claims, IInv, OneClaimPerRepo, OneClaimPer
  <2> HIDE DEF V, W
  <2>3. \A k \in RequestId \ {id} : Offered(p)'[k] = Offered(p)[k]
    BY <1>2, <1>4, <2>2
  <2>4. Legal(Offered(p)[id], Offered(p)'[id])
    BY <1>3, <1>4, <2>1
  <2> QED  BY <2>3, <2>4, OneMoves
<1>6. CASE \A k \in RequestId : ~ Claims(requests, p, k)
  <2>1. \A k \in RequestId : W(k) = V(k)
    BY <1>2, <1>6
  <2> HIDE DEF V, W
  <2>2. Offered(p)' = Offered(p)
    <3>1. Offered(p) = [k \in RequestId |-> V(k)] /\ Offered(p)' = [k \in RequestId |-> W(k)]
      BY <1>4, OfferedIs, OfferedNext DEF V, W
    <3> QED  BY <2>1, <3>1
  <2> QED  BY <2>2 DEF WorkStep
<1> QED  BY <1>5, <1>6

(* A poll returns the claims it finds too old, and hands out the oldest     *)
(* request of those that wait, if the repository is free by then.           *)
LEMMA PollOffers ==
  ASSUME IInv, IInv', NEW p \in Repo, NEW by \in Label, NEW serves \in SUBSET Repo,
         ClaimNext(by, serves)
  PROVE  WorkStep(p)
<1> DEFINE rs == AllReclaimed
           V(k) == ViewOf(p, requests[k], Hidden(held, k))
           R(k) == ViewOf(p, rs[k], Hidden(held, k))
           W(k) == ViewOf(p, requests'[k], Hidden(held', k))
<1>1. /\ rs \in [RequestId -> Request] /\ OneClaimPer(rs)
      /\ \A k \in RequestId :
           /\ rs[k].repo = requests[k].repo
           /\ requests[k].state # "claimed" => rs[k] = requests[k]
           /\ rs[k].spec = requests[k].spec
           /\ rs[k].sendBack = requests[k].sendBack
           /\ rs[k].state \in {requests[k].state, "queued"}
  BY AllReclaimedAged, AgedRequests
<1>2. held' = held
  BY DEF ClaimNext
<1>3. ASSUME \A k \in RequestId : W(k) = R(k) PROVE WorkStep(p)
  <2>1. \A k \in RequestId : ViewOf(p, requests'[k], Hidden(held', k))
                               = ViewOf(p, rs[k], Hidden(held, k))
    BY <1>3
  <2> HIDE DEF rs
  <2> QED  BY <2>1, AllReclaimedAged, AgeOffers DEF rs
<1>4. CASE requests' = rs
  <2>1. \A k \in RequestId : W(k) = R(k)
    BY <1>2, <1>4
  <2> QED  BY <1>3, <2>1
<1>5. ASSUME NEW id \in Claimable(rs, serves), IsOldest(id, Claimable(rs, serves)),
             requests' = [rs EXCEPT ![id].state     = "claimed",
                                    ![id].claimedMs = now,
                                    ![id].claimedBy = by,
                                    ![id].drafts    = Begun(@)]
      PROVE  WorkStep(p)
  <2> HIDE DEF rs
  <2>1. /\ id \in RequestId /\ rs[id].state = "queued" /\ rs[id].repo \in serves
        /\ ~ BusyIn(rs, rs[id].repo) /\ rs[id] \in Request
    BY <1>1 DEF Claimable
  <2>2. /\ requests'[id].state = "claimed" /\ requests'[id].repo = rs[id].repo
        /\ requests'[id].sendBack = rs[id].sendBack /\ requests'[id].spec = rs[id].spec
        /\ \A k \in RequestId \ {id} : requests'[k] = rs[k]
    BY <1>1, <1>5, <2>1 DEF Request
  <2>3. ~ Hidden(held, id)
    <3>1. requests[id].state \notin {"screening", "discarded"}
      BY <1>1, <2>1
    <3> QED  BY <2>1, <3>1, NotHidden
  <2>4. \A k \in RequestId \ {id} : W(k) = R(k)
    BY <1>2, <2>2
  <2>5. CASE rs[id].repo # p
    <3>1. W(id) = R(id)
      BY <2>2, <2>5 DEF ViewOf
    <3>2. \A k \in RequestId : W(k) = R(k)
      BY <2>4, <3>1
    <3> HIDE DEF W, R
    <3> QED  BY <1>3, <3>2
  <2>6. CASE rs[id].repo = p
    <3> DEFINE free == Work(p)!Free
    <3>1. Offered(p) = [k \in RequestId |-> V(k)] /\ Offered(p)' = [k \in RequestId |-> W(k)]
      BY OfferedIs, OfferedNext
    <3>2. ASSUME NEW k \in RequestId, Claims(requests, p, k)
          PROVE  V(k).state = "claimed" /\ R(k) = [V(k) EXCEPT !.state = "queued"]
      <4>1. ~ Hidden(held, k)
        BY <3>2, NotHidden DEF Claims
      <4>2. rs[k].state = "queued"
        BY <1>1, <2>1, <2>6, <3>2 DEF Claims, BusyIn
      <4> QED  BY <1>1, <3>2, <4>1, <4>2 DEF Claims, ViewOf, StageOf
    <3>3. ASSUME NEW k \in RequestId, ~ Claims(requests, p, k)
          PROVE  V(k).state # "claimed" /\ R(k) = V(k)
      BY <1>1, <3>3 DEF Claims, ViewOf, StageOf
    <3>4. free = [k \in RequestId |-> R(k)]
      <4>1. free = [k \in RequestId |-> IF V(k).state = "claimed"
                                        THEN [V(k) EXCEPT !.state = "queued"] ELSE V(k)]
        <5> HIDE DEF V
        <5> QED  BY <3>1 DEF Work!Free, Work!Holders
      <4> HIDE DEF free, V, R
      <4> QED  BY <3>2, <3>3, <4>1
    <3>5. ASSUME NEW k \in RequestId, R(k).state = "queued" PROVE id <= k
      <4>1. rs[k].repo = p /\ rs[k].state = "queued"
        BY <1>1, <3>5 DEF ViewOf, StageOf
      <4>2. k \in Claimable(rs, serves)
        BY <2>1, <2>6, <4>1 DEF Claimable
      <4> QED  BY <1>5, <4>2 DEF IsOldest
    <3>6. R(id).state = "queued" /\ W(id) = [R(id) EXCEPT !.state = "claimed"]
      BY <1>2, <2>1, <2>2, <2>3, <2>6 DEF ViewOf, StageOf
    <3>7. Offered(p)' = [free EXCEPT ![id].state = "claimed"]
      <4> HIDE DEF free, V, R, W
      <4> QED  BY <2>1, <2>4, <3>1, <3>4, <3>6
    <3>8. free[id].state = "queued" /\ \A k \in RequestId : free[k].state = "queued" => id <= k
      <4> HIDE DEF free, V, R, W
      <4> QED  BY <2>1, <3>4, <3>5, <3>6
    <3>9. Work(p)!Claim(id)
      BY <3>7, <3>8 DEF Work!Claim
    <3> QED  BY <2>1, <3>9 DEF WorkStep, Work!Next
  <2> QED  BY <2>5, <2>6
<1>6. requests' = rs \/ \E id \in Claimable(rs, serves) :
        /\ IsOldest(id, Claimable(rs, serves))
        /\ requests' = [rs EXCEPT ![id].state     = "claimed",
                                  ![id].claimedMs = now,
                                  ![id].claimedBy = by,
                                  ![id].drafts    = Begun(@)]
  BY DEF ClaimNext
<1> HIDE DEF rs, V, R, W
<1> QED  BY <1>4, <1>5, <1>6

(* What an older build left is a claim of each repository at most.          *)
LEMMA InitOffers ==
  ASSUME Init, NEW p \in Repo
  PROVE  Work(p)!Init
<1>1. IInv /\ held = NotHeld /\ OneClaimPer(requests)
  BY InitIInv DEF Init
<1>2. ASSUME NEW id \in RequestId
      PROVE  /\ requests[id].state \in {"unfiled", "claimed"}
             /\ requests[id].sendBack = FALSE /\ requests[id].spec = NoSpec
  <2>1. requests[id] \in {Unfiled} \cup { LegacyClaim(q) : q \in Repo }
    BY DEF Init
  <2>2. CASE requests[id] = Unfiled
    BY <2>2 DEF Unfiled
  <2>3. ASSUME NEW q \in Repo, requests[id] = LegacyClaim(q)
        PROVE  /\ requests[id].state = "claimed"
               /\ requests[id].sendBack = FALSE /\ requests[id].spec = NoSpec
    BY <2>3 DEF LegacyClaim, Unfiled
  <2> QED  BY <2>1, <2>2, <2>3
<1> DEFINE V(k) == ViewOf(p, requests[k], Hidden(held, k))
<1>3. ASSUME NEW k \in RequestId
      PROVE  /\ V(k) \in [state : {"none", "claimed"}, note : {FALSE}, shown : {NoSpec}]
             /\ V(k).state = "claimed" => Claims(requests, p, k)
  BY <1>1, <1>2 DEF ViewOf, StageOf, Hidden, Claims
<1>4. Offered(p) = [k \in RequestId |-> V(k)]
  BY <1>1, OfferedIs
<1> HIDE DEF V
<1>5. \A i, k \in Work(p)!Holders : i = k
  BY <1>1, <1>3, <1>4 DEF Work!Holders, Claims, OneClaimPer
<1> QED  BY <1>3, <1>4, <1>5 DEF Work!Init

(* Of every repository the store offers daemons a work queue: one claim at  *)
(* most, the oldest first, notes and drafts kept, nothing closed offered    *)
(* again, whatever handlers, expiries, verdicts and restarts do.            *)
THEOREM StoreOffersWork == Spec => ImplementsWorkQueue
<1>1. Init => \A p \in Repo : Work(p)!Init
  BY InitOffers
<1>2. ASSUME IInv, [Next]_vars, NEW p \in Repo PROVE WorkStep(p)
  <2>1. IInv'
    BY <1>2, NextIInv
  <2>2. CASE Filing
    BY <1>2, <2>1, <2>2, FilingOffers
  <2>3. CASE Reporting \/ Reviewing
    BY <1>2, <2>1, <2>3, DecisionOffers
  <2>4. CASE Sweep \/ Restart
    BY <1>2, <2>1, <2>4, SweepOffers
  <2>5. CASE Polling
    BY <1>2, <2>1, <2>5, PollOffers DEF Polling
  <2>6. ASSUME NEW last \in RequestId, ReclaimInterrupted(last) PROVE WorkStep(p)
    <3>1. \A k \in RequestId : ViewOf(p, requests'[k], Hidden(held', k))
                                 = ViewOf(p, ReclaimedUpTo(last)[k], Hidden(held, k))
      BY <2>6 DEF ReclaimInterrupted
    <3> QED  BY <1>2, <2>1, <3>1, ReclaimedUpToAged, AgeOffers
  <2>7. CASE UNCHANGED <<requests, held>>
    BY <1>2, <2>1, <2>7, OfferedIs, OfferedNext DEF WorkStep
  <2> QED  BY <1>2, <2>2, <2>3, <2>4, <2>5, <2>6, <2>7 DEF Next, ToggleScreening, Tick, vars
<1>3. IInv /\ [Next]_vars => [\A p \in Repo : UNCHANGED Offered(p) \/ Work(p)!Next]_vars
  BY <1>2 DEF WorkStep
<1> QED  BY <1>1, <1>3, Invariance, PTL DEF Spec, ImplementsWorkQueue
===============================================================================
