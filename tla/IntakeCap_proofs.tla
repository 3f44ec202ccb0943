--------------------------- MODULE IntakeCap_proofs ---------------------------
(***************************************************************************)
(* The daily filing cap of IntakeStore, proved for any number of requests  *)
(* and accounts, any window and cap, and any movement of the clock.        *)
(***************************************************************************)
EXTENDS IntakeStore_proofs, FiniteSetTheorems

FiledBy(f) == { id \in RequestId : requests[id].state # "unfiled" /\ requests[id].filer = f }

FiledIn(f, t) == { id \in FiledBy(f) : requests[id].filedMs \in t .. t + Window }

(* Cardinalities add up only of finite sets: an account has filed so many.  *)
FinitelyFiled == \A f \in Filer : IsFiniteSet(FiledBy(f))

CapInv == FinitelyFiled /\ FilingCap

(* A record that is an account's filing was the same filing before. *)
KeepsFiling(k) ==
  requests'[k].state # "unfiled" /\ requests'[k].filer \in Filer =>
    /\ requests[k].state # "unfiled"
    /\ requests'[k].filer = requests[k].filer /\ requests'[k].filedMs = requests[k].filedMs

------------------------------------------------------------------------------
(* Who filed a request and when is settled at its filing. *)

(* put does not touch them. (Store::put) *)
LEMMA CleanedFiling ==
  ASSUME NEW r \in Request
  PROVE  Cleaned(r).filer = r.filer /\ Cleaned(r).filedMs = r.filedMs
<1>1. CASE r.state = "claimed"
  BY <1>1 DEF Cleaned
<1>2. CASE r.state # "claimed"
  <2>1. Cleaned(r) = [r EXCEPT !.claimedMs = NoStamp, !.claimedBy = NoOne]
    BY <1>2 DEF Cleaned
  <2> QED  BY <2>1 DEF Request
<1> QED  BY <1>1, <1>2

(* Neither does expiry. (reclaim_stale) *)
LEMMA ReclaimedFiling ==
  ASSUME NEW r \in Request
  PROVE  Reclaimed(r).filer = r.filer /\ Reclaimed(r).filedMs = r.filedMs
<1> DEFINE q == [r EXCEPT !.state = "queued"]
<1>1. q \in Request /\ q.filer = r.filer /\ q.filedMs = r.filedMs
  BY DEF Request, State
<1>2. Cleaned(q).filer = r.filer /\ Cleaned(q).filedMs = r.filedMs
  BY <1>1, CleanedFiling
<1> HIDE DEF q
<1>3. Reclaimed(r) \in {r, [r EXCEPT !.claimedMs = now], Cleaned(q)}
  BY DEF Reclaimed, q
<1> QED  BY <1>2, <1>3 DEF Request

(* A write of a record by the same filer of the same moment keeps them. *)
LEMMA PutFiling ==
  ASSUME IInv, NEW id \in RequestId, NEW r \in Request, Put(id, r),
         \/ r.filer \notin Filer
         \/ /\ requests[id].state # "unfiled"
            /\ r.filer = requests[id].filer /\ r.filedMs = requests[id].filedMs
  PROVE  \A k \in RequestId : KeepsFiling(k)
<1>1. requests'[id].filer = r.filer /\ requests'[id].filedMs = r.filedMs
  BY CleanedFiling DEF Put, IInv, TypeOK
<1> QED  BY <1>1, PutMoves DEF KeepsFiling

(* An expiry of any of the records does. *)
LEMMA AgedFiling ==
  ASSUME IInv,
         NEW rs \in { [ id \in RequestId |-> IF id \in some THEN Reclaimed(requests[id])
                                             ELSE requests[id] ] : some \in SUBSET RequestId },
         NEW k \in RequestId
  PROVE  /\ rs[k].filer = requests[k].filer /\ rs[k].filedMs = requests[k].filedMs
         /\ requests[k].state = "unfiled" => rs[k].state = "unfiled"
<1>1. rs[k] \in {requests[k], Reclaimed(requests[k])} /\ requests[k] \in Request
  BY RequestsTyped DEF IInv
<1>2. requests[k].state = "unfiled" => Reclaimed(requests[k]) = requests[k]
  BY DEF Reclaimed
<1> QED  BY <1>1, <1>2, ReclaimedFiling

(* Every step but an account's filing keeps every filing. *)
LEMMA StepFiling ==
  ASSUME IInv, [Next]_vars,
         ~ \E id \in RequestId, p \in Repo, f \in Filer : FileByAccount(id, p, f)
  PROVE  \A k \in RequestId : KeepsFiling(k)
<1>1. ASSUME NEW id \in RequestId PROVE requests[id] \in Request
  BY RequestsTyped DEF IInv
<1>2. ASSUME NEW id \in RequestId, NEW s \in State, requests[id].state # "unfiled",
             Put(id, [requests[id] EXCEPT !.state = s])
      PROVE  \A k \in RequestId : KeepsFiling(k)
  <2> DEFINE r == [requests[id] EXCEPT !.state = s]
  <2>1. r \in Request /\ r.filer = requests[id].filer /\ r.filedMs = requests[id].filedMs
    BY <1>1 DEF Request
  <2> HIDE DEF r
  <2>2. Put(id, r)
    BY <1>2 DEF r
  <2> QED  BY <1>2, <2>1, <2>2, PutFiling
<1>3. CASE Filing
  <2>1. PICK id \in RequestId, p \in Repo : Put(id, New(p, NoOne, "queued"))
    BY <1>3 DEF Filing, FileByAdmin
  <2>2. New(p, NoOne, "queued") \in Request /\ New(p, NoOne, "queued").filer = NoOne
    BY UnfiledType DEF New, Unfiled, Request, State, IInv, TypeOK
  <2> QED  BY <2>1, <2>2, Nones, PutFiling
<1>4. CASE Polling
  <2>1. PICK by \in Label, serves \in SUBSET Repo : ClaimNext(by, serves)
    BY <1>4 DEF Polling
  <2> DEFINE rs == AllReclaimed
  <2>2. /\ rs \in [RequestId -> Request]
        /\ \A k \in RequestId :
             /\ rs[k].filer = requests[k].filer /\ rs[k].filedMs = requests[k].filedMs
             /\ requests[k].state = "unfiled" => rs[k].state = "unfiled"
    BY AllReclaimedAged, AgedRequests, AgedFiling
  <2>3. \/ requests' = rs
        \/ \E id \in Claimable(rs, serves) :
             requests' = [rs EXCEPT ![id].state     = "claimed",
                                    ![id].claimedMs = now,
                                    ![id].claimedBy = by,
                                    ![id].drafts    = Begun(@)]
    BY <2>1 DEF ClaimNext
  <2> HIDE DEF rs
  <2>4. CASE requests' = rs
    BY <2>2, <2>4 DEF KeepsFiling
  <2>5. ASSUME NEW id \in Claimable(rs, serves),
               requests' = [rs EXCEPT ![id].state     = "claimed",
                                      ![id].claimedMs = now,
                                      ![id].claimedBy = by,
                                      ![id].drafts    = Begun(@)]
        PROVE  \A k \in RequestId : KeepsFiling(k)
    <3>1. id \in RequestId /\ rs[id] \in Request /\ rs[id].state = "queued"
      BY <2>2 DEF Claimable
    <3>2. /\ requests'[id].filer = rs[id].filer /\ requests'[id].filedMs = rs[id].filedMs
          /\ \A k \in RequestId : k # id => requests'[k] = rs[k]
      BY <2>2, <2>5, <3>1 DEF Request
    <3> QED  BY <2>2, <3>1, <3>2 DEF KeepsFiling
  <2> QED  BY <2>3, <2>4, <2>5
<1>5. CASE \E last \in RequestId : ReclaimInterrupted(last)
  <2>1. PICK last \in RequestId : requests' = ReclaimedUpTo(last)
    BY <1>5 DEF ReclaimInterrupted
  <2> QED  BY <2>1, ReclaimedUpToAged, AgedFiling DEF KeepsFiling
<1>6. CASE Reporting
  <2>1. PICK id \in RequestId, by \in Label :
          \/ \E s \in SpecText : RecordDrafted(id, by, s)
          \/ RecordFailed(id, by)
          \/ RecordReleased(id, by)
    BY <1>6 DEF Reporting
  <2>2. ASSUME NEW s \in SpecText, RecordDrafted(id, by, s)
        PROVE  \A k \in RequestId : KeepsFiling(k)
    <3> DEFINE r == [requests[id] EXCEPT !.state = "awaiting-review",
                                         !.spec = s, !.sendBack = FALSE]
    <3>1. r \in Request /\ r.filer = requests[id].filer /\ r.filedMs = requests[id].filedMs
      BY <1>1 DEF Request, State
    <3> HIDE DEF r
    <3>2. Put(id, r) /\ requests[id].state # "unfiled"
      BY <2>2 DEF RecordDrafted, HoldsClaim, r
    <3> QED  BY <3>1, <3>2, PutFiling
  <2> QED  BY <1>2, <2>1, <2>2 DEF RecordFailed, RecordReleased, HoldsClaim, State
<1>7. CASE Accept
  <2>1. page.id \in RequestId
    BY <1>7 DEF Accept, IInv, TypeOK
  <2> QED  BY <1>2, <1>7, <2>1 DEF Accept, State
<1>8. ASSUME NEW id \in RequestId, SendBack(id) PROVE \A k \in RequestId : KeepsFiling(k)
  <2> DEFINE r == [requests[id] EXCEPT !.state = "queued", !.sendBack = TRUE,
                                       !.spec = NoSpec]
  <2>1. r \in Request /\ r.filer = requests[id].filer /\ r.filedMs = requests[id].filedMs
    BY <1>1 DEF Request, State
  <2> HIDE DEF r
  <2>2. Put(id, r) /\ requests[id].state # "unfiled"
    BY <1>8 DEF SendBack, r
  <2> QED  BY <2>1, <2>2, PutFiling
<1>9. ASSUME NEW id \in RequestId, ReleaseQuarantined(id) \/ Discard(id)
      PROVE  \A k \in RequestId : KeepsFiling(k)
  BY <1>2, <1>9 DEF ReleaseQuarantined, Discard, State
<1>10. CASE SweepWrites
  <2>1. /\ held.id \in RequestId /\ held.req \in Request
        /\ Put(held.id, held.req)
        /\ requests[held.id].state # "unfiled"
        /\ requests[held.id] = [held.req EXCEPT !.state = requests[held.id].state]
    BY <1>10, HeldTyped DEF SweepWrites, IInv, VerdictIsCurrent
  <2>2. /\ requests[held.id].filer = held.req.filer
        /\ requests[held.id].filedMs = held.req.filedMs
    BY <2>1 DEF Request
  <2> QED  BY <2>1, <2>2, PutFiling
<1>11. CASE UNCHANGED requests
  BY <1>11 DEF KeepsFiling
<1> QED
  BY <1>3, <1>4, <1>5, <1>6, <1>7, <1>8, <1>9, <1>10, <1>11
  DEF Next, Reviewing, OpenPage, ToggleScreening, Sweep, SweepBegins, SweepReads,
      Restart, Tick, vars

------------------------------------------------------------------------------
(* The cap. *)

(* FilingCap counts the filings of an account within a window. *)
LEMMA CapCounts ==
  FilingCap <=> \A f \in Filer, t \in Clock : Cardinality(FiledIn(f, t)) <= MaxDailyFilings
<1>1. ASSUME NEW f, NEW t
      PROVE  FiledIn(f, t) = { id \in RequestId : /\ requests[id].state # "unfiled"
                                                  /\ requests[id].filer = f
                                                  /\ requests[id].filedMs \in t .. t + Window }
  BY DEF FiledIn, FiledBy
<1> QED  BY <1>1 DEF FilingCap

(* The same of the records after a step. *)
LEMMA CapCountsNext ==
  FilingCap' <=> \A f \in Filer, t \in Clock : Cardinality(FiledIn(f, t)') <= MaxDailyFilings
<1>1. ASSUME NEW f \in Filer, NEW t \in Clock
      PROVE  FiledIn(f, t)' = { id \in RequestId : /\ requests'[id].state # "unfiled"
                                                   /\ requests'[id].filer = f
                                                   /\ requests'[id].filedMs \in t .. t + Window }
  BY DEF FiledIn, FiledBy
<1> QED  BY <1>1 DEF FilingCap

(* Fewer filings are within the cap. *)
LEMMA FewerFiled ==
  ASSUME NEW S, IsFiniteSet(S), NEW T \in SUBSET S, NEW n \in Nat, Cardinality(S) <= n
  PROVE  IsFiniteSet(T) /\ Cardinality(T) <= n
  BY FS_Subset, FS_CardinalityType

(* What keeps every filing keeps the cap. *)
LEMMA KeptIsCapped ==
  ASSUME CapInv, \A k \in RequestId : KeepsFiling(k) PROVE CapInv'
<1>1. MaxDailyFilings \in Nat
  BY Bounds
<1>2. ASSUME NEW f \in Filer PROVE IsFiniteSet(FiledBy(f)') /\ FiledBy(f)' \subseteq FiledBy(f)
  <2>1. FiledBy(f)' \subseteq FiledBy(f)
    BY DEF FiledBy, KeepsFiling
  <2> QED  BY <2>1, FS_Subset DEF CapInv, FinitelyFiled
<1>3. ASSUME NEW f \in Filer, NEW t \in Clock
      PROVE  Cardinality(FiledIn(f, t)') <= MaxDailyFilings
  <2>1. FiledIn(f, t)' \subseteq FiledIn(f, t)
    BY DEF FiledIn, FiledBy, KeepsFiling
  <2>2. IsFiniteSet(FiledIn(f, t))
    BY FS_Subset DEF CapInv, FinitelyFiled, FiledIn
  <2>3. Cardinality(FiledIn(f, t)) <= MaxDailyFilings
    BY CapCounts DEF CapInv
  <2> QED  BY <1>1, <2>1, <2>2, <2>3, FewerFiled
<1> QED  BY <1>2, <1>3, CapCountsNext DEF CapInv, FinitelyFiled

(* A filing is let in only while the window up to now, which holds what is  *)
(* counted in any window now is in, has room for it. (api_file) *)
LEMMA FiledIsCapped ==
  ASSUME IInv, CapInv, NEW id \in RequestId, NEW p \in Repo, NEW g \in Filer,
         FileByAccount(id, p, g)
  PROVE  CapInv'
<1> DEFINE s == IF screening THEN "screening" ELSE "queued"
           r == New(p, g, s)
           recent == { k \in FiledBy(g) : requests[k].filedMs >= Since }
<1>1. now \in Clock /\ now \in Nat /\ Window \in Nat /\ MaxDailyFilings \in Nat
  BY Bounds DEF IInv, TypeOK, Clock
<1>2. r \in Request /\ r.filer = g /\ r.filedMs = now
  BY UnfiledType DEF New, Unfiled, Request, State, IInv, TypeOK
<1>3. /\ requests'[id].filer = g /\ requests'[id].filedMs = now
      /\ \A k \in RequestId : k # id => requests'[k] = requests[k]
  <2>1. Put(id, r)
    BY DEF FileByAccount
  <2> HIDE DEF r
  <2> QED  BY <1>2, <2>1, PutMoves, CleanedFiling DEF Put, IInv, TypeOK
<1>4. Cardinality(recent) < MaxDailyFilings
  <2>1. recent = { k \in RequestId : /\ requests[k].state # "unfiled"
                                     /\ requests[k].filer = g
                                     /\ requests[k].filedMs >= Since }
    BY DEF FiledBy
  <2> HIDE DEF recent
  <2> QED  BY <2>1 DEF FileByAccount, FiledSince
<1>5. IsFiniteSet(recent)
  BY FS_Subset DEF CapInv, FinitelyFiled
<1>6. ASSUME NEW f \in Filer PROVE IsFiniteSet(FiledBy(f)')
  <2>1. FiledBy(f)' \subseteq FiledBy(f) \cup {id}
    BY <1>3 DEF FiledBy
  <2>2. IsFiniteSet(FiledBy(f) \cup {id})
    BY FS_AddElement DEF CapInv, FinitelyFiled
  <2> QED  BY <2>1, <2>2, FS_Subset
<1>7. ASSUME NEW f \in Filer, NEW t \in Clock
      PROVE  Cardinality(FiledIn(f, t)') <= MaxDailyFilings
  <2>1. CASE f = g /\ now \in t .. t + Window
    <3>1. \A k \in FiledBy(g) : requests[k].filedMs \in t .. t + Window =>
                                  requests[k].filedMs >= Since
      <4>1. t \in Nat
        BY DEF Clock
      <4>2. Since <= t /\ Since \in Int
        BY <1>1, <2>1, <4>1 DEF Since
      <4> QED  BY <1>1, <4>1, <4>2
    <3>2. FiledIn(f, t)' \subseteq recent \cup {id}
      BY <1>3, <2>1, <3>1 DEF FiledIn, FiledBy
    <3>3. IsFiniteSet(recent \cup {id}) /\ Cardinality(recent \cup {id}) <= MaxDailyFilings
      <4> HIDE DEF recent
      <4>1. /\ IsFiniteSet(recent \cup {id})
            /\ Cardinality(recent \cup {id}) \in {Cardinality(recent), Cardinality(recent) + 1}
        BY <1>5, FS_AddElement
      <4>2. Cardinality(recent) \in Nat
        BY <1>5, FS_CardinalityType
      <4> QED  BY <1>1, <1>4, <4>1, <4>2
    <3> HIDE DEF recent
    <3> QED  BY <1>1, <3>2, <3>3, FewerFiled
  <2>2. CASE f # g \/ now \notin t .. t + Window
    <3>1. FiledIn(f, t)' \subseteq FiledIn(f, t)
      BY <1>3, <2>2 DEF FiledIn, FiledBy
    <3>2. IsFiniteSet(FiledIn(f, t))
      BY FS_Subset DEF CapInv, FinitelyFiled, FiledIn
    <3>3. Cardinality(FiledIn(f, t)) <= MaxDailyFilings
      BY CapCounts DEF CapInv
    <3> QED  BY <1>1, <3>1, <3>2, <3>3, FewerFiled
  <2> QED  BY <2>1, <2>2
<1> QED  BY <1>6, <1>7, CapCountsNext DEF CapInv, FinitelyFiled

(* No account has more filings in any window than the cap: what discards,   *)
(* verdicts, restarts and a clock that is set back do refunds nothing.      *)
(* (filed_since)                                                            *)
THEOREM FilingCapHolds == Spec => []FilingCap
<1>1. Init => CapInv
  <2> SUFFICES ASSUME Init PROVE CapInv
    OBVIOUS
  <2>1. ASSUME NEW f \in Filer PROVE FiledBy(f) = {}
    <3>1. ASSUME NEW id \in RequestId PROVE requests[id].filer = NoOne
      <4>1. requests[id] \in {Unfiled} \cup { LegacyClaim(q) : q \in Repo }
        BY DEF Init
      <4>2. Unfiled.filer = NoOne
        BY DEF Unfiled
      <4>3. \A q \in Repo : LegacyClaim(q).filer = NoOne
        BY DEF LegacyClaim, Unfiled
      <4> QED  BY <4>1, <4>2, <4>3
    <3> QED  BY <2>1, <3>1, Nones DEF FiledBy
  <2>2. \A f \in Filer, t \in Clock : FiledIn(f, t) = {}
    BY <2>1 DEF FiledIn
  <2> QED  BY <2>1, <2>2, FS_EmptySet, CapCounts, Bounds DEF CapInv, FinitelyFiled
<1>2. ASSUME IInv, CapInv, [Next]_vars PROVE CapInv'
  BY <1>2, StepFiling, KeptIsCapped, FiledIsCapped
<1> QED  BY <1>1, <1>2, Invariance, PTL DEF Spec, CapInv
===============================================================================
