----------------------------- MODULE IntakeStore -----------------------------
(***************************************************************************)
(* The intake server's request store and everything that writes to it:     *)
(* the verbs daemons and reviewers reach over HTTP, and the background     *)
(* screening sweep.  (src/crates/sc-server: store.rs, routes.rs, serve.rs) *)
(*                                                                         *)
(* Every HTTP handler runs with the rate limiter's mutex held, from        *)
(* dispatch to response, so each verb below is ONE action.  The screening  *)
(* thread takes no lock: its read of a request and its write of the        *)
(* verdict are TWO actions, and handlers run between them.                 *)
(*                                                                         *)
(* The environment is open: any daemon label may report on any request at  *)
(* any time, and any reviewer may press any button.  What holds here holds *)
(* whatever the daemons and the browsers do.                               *)
(***************************************************************************)
EXTENDS Integers, FiniteSets, FiniteSetsExt

CONSTANTS
  RequestId,        \* ids, ordered as new_id orders them: oldest smallest
  Repo,             \* repository names
  Label,            \* daemon labels, one per enrolled machine key
  Filer,            \* public accounts
  SpecText,         \* drafted texts, told apart by their digest
  NoRepo, NoOne, NoSpec, NoPage, NotHeld,     \* the None of each type
  ClaimTimeout,     \* CLAIM_TIMEOUT_MS
  Window,           \* FILING_WINDOW_MS
  MaxDailyFilings,  \* per account and window
  MaxDailyDrafts,   \* per repository and window
  ScreenBatch,      \* SCREEN_BATCH: pending filings taken by one sweep
  MaxClock,         \* BOUND: the last instant of the model
  ClockSteps,       \* how the wall clock may move in one tick
  MayRestart,       \* may the server process be killed and started again?
  MayToggle         \* may the administrator switch screening on and off?

NoStamp == -1
Clock == 0 .. MaxClock

ASSUME Bounds ==
  /\ RequestId \subseteq Nat
  /\ MaxClock \in Nat
  /\ ClaimTimeout \in Nat \ {0}
  /\ Window \in Nat
  /\ MaxDailyFilings \in Nat \ {0}
  /\ MaxDailyDrafts \in Nat \ {0}
  /\ ScreenBatch \in Nat \ {0}
  /\ ClockSteps \subseteq Int
  /\ MayRestart \in BOOLEAN
  /\ MayToggle \in BOOLEAN

ASSUME Nones ==
  /\ NoRepo \notin Repo
  /\ NoOne \notin Label \cup Filer
  /\ NoSpec \notin SpecText

VARIABLES
  requests,   \* the records on the volume, by id
  now,        \* now_ms(): the wall clock
  screening,  \* is a screener configured in the settings?
  batch,      \* the sweep: ids it listed and has not reached yet
  held,       \* the sweep: the request it has read and not yet written back
  page        \* what the reviewer's browser last rendered: a request's spec

vars == <<requests, now, screening, batch, held, page>>

------------------------------------------------------------------------------
(* Records. *)

State == { "unfiled", "screening", "queued", "claimed", "awaiting-review",
           "accepted", "quarantined", "discarded", "failed" }

(* drafts counts the drafting runs begun at each instant, capped at the     *)
(* budget it is compared with: past the cap every count decides alike.      *)
DraftLog == [Clock -> 0 .. MaxDailyDrafts]
NoDrafts == [t \in Clock |-> 0]

Request ==
  [ state     : State,
    repo      : Repo \cup {NoRepo},
    filer     : Filer \cup {NoOne},
    filedMs   : Clock,
    claimedMs : Clock \cup {NoStamp},
    claimedBy : Label \cup {NoOne},
    spec      : SpecText \cup {NoSpec},
    sendBack  : BOOLEAN,              \* is a send-back note waiting?
    drafts    : DraftLog ]

Unfiled ==
  [ state |-> "unfiled", repo |-> NoRepo, filer |-> NoOne, filedMs |-> 0,
    claimedMs |-> NoStamp, claimedBy |-> NoOne, spec |-> NoSpec,
    sendBack |-> FALSE, drafts |-> NoDrafts ]

New(repo, filer, state) ==
  [Unfiled EXCEPT !.state = state, !.repo = repo, !.filer = filer,
                  !.filedMs = now]

ASSUME NoneHeld == NotHeld \notin [id : RequestId, req : Request]

(* A record written before claims carried a stamp and a holder. *)
LegacyClaim(repo) == [Unfiled EXCEPT !.state = "claimed", !.repo = repo]

(* Variants named ...Wrong hold one plausible slip each; no action uses      *)
(* them. Put in the place of the definition that follows, each breaks a      *)
(* property below.                                                           *)

(* Wrong: each verb is trusted to clear the claim itself. *)
CleanedWrong(r) == r

(* Store::put drops the claim of anything not Claimed. *)
Cleaned(r) ==
  IF r.state = "claimed" THEN r
  ELSE [r EXCEPT !.claimedMs = NoStamp, !.claimedBy = NoOne]

Put(id, r) == requests' = [requests EXCEPT ![id] = Cleaned(r)]

InState(s) == { id \in RequestId : requests[id].state = s }

------------------------------------------------------------------------------
(* Queries. *)

Since == IF now > Window THEN now - Window ELSE 0

(* Wrong: a discarded filing is refunded. *)
FiledSinceWrong(filer) ==
  Cardinality({ id \in RequestId : /\ requests[id].state \notin {"unfiled", "discarded"}
                                   /\ requests[id].filer = filer
                                   /\ requests[id].filedMs >= Since })

(* filed_since: every state counts. *)
FiledSince(filer) ==
  Cardinality({ id \in RequestId : /\ requests[id].state # "unfiled"
                                   /\ requests[id].filer = filer
                                   /\ requests[id].filedMs >= Since })

(* drafts_since: drafting runs the repository was sent into. *)
DraftsSince(repo) ==
  LET runs == { id \in RequestId : requests[id].repo = repo }
                \X { t \in Clock : t >= Since }
  IN  MapThenSumSet(LAMBDA p : requests[p[1]].drafts[p[2]], runs)

WithinBudget(repo) == DraftsSince(repo) < MaxDailyDrafts

(* Begin a run now, and forget the runs that left the window. *)
Begun(log) ==
  [ t \in Clock |->
      IF now - t > Window THEN 0
      ELSE IF t = now /\ log[t] < MaxDailyDrafts THEN log[t] + 1
      ELSE log[t] ]

(* Wrong: a reclaimed request is as good as new. *)
ReclaimedForgettingWrong(r) ==
  IF r.state # "claimed" THEN r
  ELSE IF r.claimedMs = NoStamp THEN [r EXCEPT !.claimedMs = now]
  ELSE IF now - r.claimedMs < ClaimTimeout THEN r
  ELSE Cleaned([r EXCEPT !.state = "queued", !.sendBack = FALSE])

(* Wrong: a claim is taken back at the first poll that finds it. *)
ReclaimedAtOnceWrong(r) ==
  IF r.state = "claimed" THEN Cleaned([r EXCEPT !.state = "queued"]) ELSE r

(* Wrong: a record with no stamp cannot be judged, so it is left alone. *)
ReclaimedStampedWrong(r) ==
  IF r.state = "claimed" /\ r.claimedMs # NoStamp /\ now - r.claimedMs >= ClaimTimeout
  THEN Cleaned([r EXCEPT !.state = "queued"])
  ELSE r

(* One record under reclaim_stale. A record with no stamp starts its clock. *)
Reclaimed(r) ==
  IF r.state # "claimed" THEN r
  ELSE IF r.claimedMs = NoStamp THEN [r EXCEPT !.claimedMs = now]
  ELSE IF now - r.claimedMs < ClaimTimeout THEN r
  ELSE Cleaned([r EXCEPT !.state = "queued"])

(* reclaim_stale walks the ids in order; it can die after any of them. *)
ReclaimedUpTo(last) ==
  [ id \in RequestId |-> IF id <= last THEN Reclaimed(requests[id])
                         ELSE requests[id] ]

AllReclaimed == [ id \in RequestId |-> Reclaimed(requests[id]) ]

BusyIn(rs, repo) ==
  \E id \in RequestId : rs[id].state = "claimed" /\ rs[id].repo = repo

(* Wrong: any queued request of a served repository will do. *)
ClaimableBusyWrong(rs, serves) ==
  { id \in RequestId : rs[id].state = "queued" /\ rs[id].repo \in serves }

(* Wrong: whatever nobody has decided against will do. *)
ClaimableUnscreenedWrong(rs, serves) ==
  { id \in RequestId : /\ rs[id].state \in {"queued", "screening"}
                       /\ rs[id].repo \in serves
                       /\ ~ BusyIn(rs, rs[id].repo) }

(* What claim_next may hand out of rs: queued, served, repository not busy. *)
Claimable(rs, serves) ==
  { id \in RequestId : /\ rs[id].state = "queued"
                       /\ rs[id].repo \in serves
                       /\ ~ BusyIn(rs, rs[id].repo) }

IsOldest(id, ids) == id \in ids /\ \A k \in ids : id <= k

HoldsClaim(id, by) ==
  /\ requests[id].state = "claimed"
  /\ requests[id].claimedBy \in {by, NoOne}

------------------------------------------------------------------------------
(* Filing (api_file, file_now). *)

(* new_id puts the time first, then a counter: ids sort as they were filed. *)
FreshId(id) ==
  /\ requests[id].state = "unfiled"
  /\ \A k \in RequestId :
       requests[k].state # "unfiled" => (k < id <=> requests[k].filedMs <= now)

FileByAdmin(id, repo) ==
  /\ FreshId(id)
  /\ Put(id, New(repo, NoOne, "queued"))
  /\ UNCHANGED <<now, screening, batch, held, page>>

FileByAccount(id, repo, filer) ==
  /\ FreshId(id)
  /\ FiledSince(filer) < MaxDailyFilings
  /\ Put(id, New(repo, filer, IF screening THEN "screening" ELSE "queued"))
  /\ UNCHANGED <<now, screening, batch, held, page>>

------------------------------------------------------------------------------
(* The daemon side (daemon_route). *)

(* GET work: stale claims go back first, then the oldest claimable request  *)
(* is handed over; when there is none only the reclaiming remains.          *)
ClaimNext(by, serves) ==
  /\ LET rs   == AllReclaimed
         free == Claimable(rs, serves)
     IN  \/ /\ free = {}
            /\ requests' = rs
         \/ \E id \in free :
              /\ IsOldest(id, free)
              /\ requests' = [rs EXCEPT ![id].state     = "claimed",
                                        ![id].claimedMs = now,
                                        ![id].claimedBy = by,
                                        ![id].drafts    = Begun(@)]
  /\ UNCHANGED <<now, screening, batch, held, page>>

(* The same scan stopped by a write error, or by the process dying.         *)
ReclaimInterrupted(last) ==
  /\ requests' = ReclaimedUpTo(last)
  /\ UNCHANGED <<now, screening, batch, held, page>>

RecordDrafted(id, by, spec) ==
  /\ HoldsClaim(id, by)
  /\ Put(id, [requests[id] EXCEPT !.state = "awaiting-review",
                                  !.spec = spec, !.sendBack = FALSE])
  /\ UNCHANGED <<now, screening, batch, held, page>>

RecordFailed(id, by) ==
  /\ HoldsClaim(id, by)
  /\ Put(id, [requests[id] EXCEPT !.state = "failed"])
  /\ UNCHANGED <<now, screening, batch, held, page>>

RecordReleased(id, by) ==
  /\ HoldsClaim(id, by)
  /\ Put(id, [requests[id] EXCEPT !.state = "queued"])
  /\ UNCHANGED <<now, screening, batch, held, page>>

------------------------------------------------------------------------------
(* The review side (api_verb). *)

(* Wrong: the page of a request with no draft carries an empty digest. *)
OpenPageWrong(id) ==
  /\ page' = [id |-> id, spec |-> requests[id].spec]
  /\ UNCHANGED <<requests, now, screening, batch, held>>

(* The reviewer's browser renders a request, with its spec's digest.        *)
OpenPage(id) ==
  /\ requests[id].spec # NoSpec
  /\ page' = [id |-> id, spec |-> requests[id].spec]
  /\ UNCHANGED <<requests, now, screening, batch, held>>

(* Wrong: the id alone is approved. *)
AcceptWrong ==
  /\ page # NoPage
  /\ requests[page.id].state = "awaiting-review"
  /\ Put(page.id, [requests[page.id] EXCEPT !.state = "accepted"])
  /\ UNCHANGED <<now, screening, batch, held, page>>

(* The POST carries the digest of the page, however old the page is.        *)
Accept ==
  /\ page # NoPage
  /\ requests[page.id].state = "awaiting-review"
  /\ requests[page.id].spec = page.spec
  /\ Put(page.id, [requests[page.id] EXCEPT !.state = "accepted"])
  /\ UNCHANGED <<now, screening, batch, held, page>>

(* A send-back buys another run, so it is charged to the repository first;  *)
(* the note is never blank.                                                 *)
SendBack(id) ==
  /\ WithinBudget(requests[id].repo)
  /\ requests[id].state = "awaiting-review"
  /\ Put(id, [requests[id] EXCEPT !.state = "queued", !.sendBack = TRUE,
                                  !.spec = NoSpec])
  /\ UNCHANGED <<now, screening, batch, held, page>>

(* Wrong: the button also admits what is still being screened. *)
ReleaseQuarantinedWrong(id) ==
  /\ WithinBudget(requests[id].repo)
  /\ requests[id].state \in {"screening", "quarantined"}
  /\ Put(id, [requests[id] EXCEPT !.state = "queued"])
  /\ UNCHANGED <<now, screening, batch, held, page>>

ReleaseQuarantined(id) ==
  /\ WithinBudget(requests[id].repo)
  /\ requests[id].state = "quarantined"
  /\ Put(id, [requests[id] EXCEPT !.state = "queued"])
  /\ UNCHANGED <<now, screening, batch, held, page>>

(* Wrong: a settled request can be discarded too. *)
DiscardWrong(id) ==
  /\ requests[id].state # "unfiled"
  /\ Put(id, [requests[id] EXCEPT !.state = "discarded"])
  /\ UNCHANGED <<now, screening, batch, held, page>>

(* Anything filed and not accepted, in whatever state.                      *)
Discard(id) ==
  /\ requests[id].state \notin {"unfiled", "accepted"}
  /\ Put(id, [requests[id] EXCEPT !.state = "discarded"])
  /\ UNCHANGED <<now, screening, batch, held, page>>

(* The administrator configures a screener, or removes it.                  *)
ToggleScreening ==
  /\ MayToggle
  /\ screening' = ~ screening
  /\ UNCHANGED <<requests, now, batch, held, page>>

------------------------------------------------------------------------------
(* The screening thread (spawn_screening, screen_pending, finish_screening). *)

(* Wrong: one filing too few is taken. *)
SweepBeginsWrong ==
  /\ screening
  /\ batch = {} /\ held = NotHeld
  /\ LET pending == InState("screening")
     IN  batch' = { id \in pending :
                      Cardinality({ k \in pending : k < id }) < ScreenBatch - 1 }
  /\ UNCHANGED <<requests, now, screening, held, page>>

SweepBegins ==
  /\ screening
  /\ batch = {} /\ held = NotHeld
  /\ LET pending == InState("screening")
     IN  batch' = { id \in pending :
                      Cardinality({ k \in pending : k < id }) < ScreenBatch }
  /\ UNCHANGED <<requests, now, screening, held, page>>

(* The model has answered for the next listed request: the record is read   *)
(* again, and kept to be written only if it is still being screened.        *)
SweepReads ==
  /\ held = NotHeld
  /\ \E id \in batch, verdict \in {"queued", "quarantined"} :
       /\ IsOldest(id, batch)
       /\ batch' = batch \ {id}
       /\ held' = IF requests[id].state = "screening"
                  THEN [id  |-> id,
                        req |-> [requests[id] EXCEPT !.state = verdict]]
                  ELSE NotHeld
  /\ UNCHANGED <<requests, now, screening, page>>

SweepWrites ==
  /\ held # NotHeld
  /\ Put(held.id, held.req)
  /\ held' = NotHeld
  /\ UNCHANGED <<now, screening, batch, page>>

------------------------------------------------------------------------------
(* The machine. *)

(* The records and the settings are on the volume; the sweep is not.        *)
Restart ==
  /\ MayRestart
  /\ batch' = {} /\ held' = NotHeld
  /\ UNCHANGED <<requests, now, screening, page>>

Tick(d) ==
  /\ now + d \in Clock
  /\ now' = now + d
  /\ UNCHANGED <<requests, screening, batch, held, page>>

------------------------------------------------------------------------------
OneClaimPer(rs) ==
  \A i, k \in RequestId :
    /\ rs[i].state = "claimed" /\ rs[k].state = "claimed"
    /\ rs[i].repo = rs[k].repo
    => i = k

(* A fresh volume, or one an older build left claims on.                    *)
Init ==
  /\ requests \in [RequestId -> {Unfiled} \cup { LegacyClaim(p) : p \in Repo }]
  /\ OneClaimPer(requests)
  /\ now = 0
  /\ screening \in BOOLEAN
  /\ batch = {} /\ held = NotHeld
  /\ page = NoPage

Filing ==
  \E id \in RequestId, p \in Repo :
    \/ FileByAdmin(id, p)
    \/ \E f \in Filer : FileByAccount(id, p, f)

(* Naming no repository means serving any, which is serving them all.       *)
Polling == \E by \in Label, serves \in (SUBSET Repo) \ {{}} : ClaimNext(by, serves)

Reporting ==
  \E id \in RequestId, by \in Label :
    \/ \E s \in SpecText : RecordDrafted(id, by, s)
    \/ RecordFailed(id, by)
    \/ RecordReleased(id, by)

Reviewing ==
  \/ Accept
  \/ \E id \in RequestId : \/ OpenPage(id)
                           \/ SendBack(id)
                           \/ ReleaseQuarantined(id)
                           \/ Discard(id)

Sweep == SweepBegins \/ SweepReads \/ SweepWrites

Next ==
  \/ Filing
  \/ Polling
  \/ \E id \in RequestId : ReclaimInterrupted(id)
  \/ Reporting
  \/ Reviewing
  \/ ToggleScreening
  \/ Sweep
  \/ Restart
  \/ \E d \in ClockSteps : Tick(d)

Spec == Init /\ [][Next]_vars

(* Daemons poll for ever; the screening thread loops for ever; time passes. *)
Fairness == WF_vars(Polling) /\ WF_vars(Sweep) /\ WF_vars(Tick(1))

FairSpec == Spec /\ Fairness

------------------------------------------------------------------------------
(* Properties. *)

(* Every variable stays within its type. *)
TypeOK ==
  /\ requests \in [RequestId -> Request]
  /\ now \in Clock
  /\ screening \in BOOLEAN
  /\ batch \subseteq RequestId
  /\ held \in [id : RequestId, req : Request] \cup {NotHeld}
  /\ page \in [id : RequestId, spec : SpecText] \cup {NoPage}

(* No repository ever has two requests claimed at once, whatever mixture of *)
(* polls, expiries, verdicts and legacy records led here: claim_next's      *)
(* promise that two daemons are never sent into the same tree.              *)
OneClaimPerRepo == OneClaimPer(requests)

(* A record never contradicts itself, on whichever path it came: a claim    *)
(* stamp or holder only while claimed (put), a draft exactly where a        *)
(* reviewer can act on it, a waiting note only on work that is to be redone *)
(* or that ended before it was.                                             *)
Coherent(r) ==
  /\ r.state # "claimed" => r.claimedMs = NoStamp /\ r.claimedBy = NoOne
  /\ r.claimedBy # NoOne => r.claimedMs # NoStamp
  /\ r.state \in {"awaiting-review", "accepted"} => r.spec # NoSpec
  /\ r.spec # NoSpec => r.state \in {"awaiting-review", "accepted", "discarded"}
  /\ r.sendBack => r.state \in {"queued", "claimed", "failed", "discarded"}

RecordsCoherent == \A id \in RequestId : Coherent(requests[id])

(* What the sweep is about to write back differs from the record on the     *)
(* volume by the verdict alone, unless the request was discarded meanwhile: *)
(* nothing but a discard can overtake a verdict.                            *)
VerdictIsCurrent ==
  held # NotHeld =>
    /\ held.req.state \in {"queued", "quarantined"}
    /\ Coherent(held.req)
    /\ requests[held.id].state \in {"screening", "discarded"}
    /\ requests[held.id] =
         [held.req EXCEPT !.state = requests[held.id].state]

(* The life of a request (the verbs' own state checks, put together). In    *)
(* particular only queued work is claimed, so nothing unscreened reaches a  *)
(* daemon; accepted is final; failed is left only by a discard.             *)
Successors ==
  [ s \in State |->
      CASE s = "unfiled"         -> {"screening", "queued"}
        [] s = "screening"       -> {"queued", "quarantined", "discarded"}
        [] s = "queued"          -> {"claimed", "discarded"}
        [] s = "claimed"         -> {"queued", "claimed", "awaiting-review",
                                     "failed", "discarded"}
        [] s = "awaiting-review" -> {"accepted", "queued", "discarded"}
        [] s = "quarantined"     -> {"queued", "discarded"}
        [] s = "failed"          -> {"discarded"}
        [] s = "accepted"        -> {}
        [] s = "discarded"       -> {"queued", "quarantined"} ]

(* A discarded request moves only under a verdict the sweep already held.   *)
LegalMove(id) ==
  LET old == requests[id].state
      new == requests'[id].state
  IN  old # new =>
        /\ new \in Successors[old]
        /\ old = "discarded" => held # NotHeld /\ held.id = id

(* Every request lives by the table above. *)
Lifecycle == [][\A id \in RequestId : LegalMove(id)]_vars

(* The reviewer's reason for a send-back is lost on no path but the draft   *)
(* it grounds: not when the claim expires, not when a daemon hands it back. *)
NoteSpentByDraft(id) ==
  requests[id].sendBack /\ ~ requests'[id].sendBack =>
    /\ requests[id].state = "claimed"
    /\ requests'[id].state = "awaiting-review"

(* No note is lost (reclaim_stale, record_released, discard keep it). *)
NoteSurvives == [][\A id \in RequestId : NoteSpentByDraft(id)]_vars

(* A decision once recorded is never touched again, neither its state nor   *)
(* the text that was signed off (discard's refusal of a settled request).   *)
Settled(id) == requests[id].state = "accepted" => requests'[id] = requests[id]

(* No accepted record is ever rewritten. *)
AcceptedIsSettled == [][\A id \in RequestId : Settled(id)]_vars

(* Consent attaches to bytes: a request becomes accepted only while the     *)
(* text on record is the text on the reviewer's page, however many redrafts *)
(* came between reading and pressing.                                       *)
AcceptanceWasShown(id) ==
  requests[id].state # "accepted" /\ requests'[id].state = "accepted" =>
    /\ page # NoPage /\ page.id = id /\ page.spec = requests[id].spec
    /\ requests'[id].spec = page.spec

(* Every acceptance is of the text the reviewer was shown (accept). *)
AcceptedWasShown == [][\A id \in RequestId : AcceptanceWasShown(id)]_vars

(* Within any window no account has more filings than the cap, whatever     *)
(* became of them and wherever the clock went: discarding refunds nothing   *)
(* (filed_since).                                                           *)
FilingCap ==
  \A f \in Filer, t \in Clock :
    Cardinality({ id \in RequestId :
                    /\ requests[id].state # "unfiled"
                    /\ requests[id].filer = f
                    /\ requests[id].filedMs \in t .. t + Window }) <= MaxDailyFilings

(* A daemon that dies with a claim does not hold its repository for ever:   *)
(* as long as somebody polls, a claim ends, whether or not it was stamped.  *)
(* (Claims too late for their expiry to fall inside the model are exempt.)  *)
EveryClaimEnds ==
  \A id \in RequestId, t \in Clock \cup {NoStamp} :
    LET Held == requests[id].state = "claimed" /\ requests[id].claimedMs = t
    IN  (Held /\ t + ClaimTimeout <= MaxClock) ~> ~ Held

(* No filing is parked in screening: a verdict reaches it.                  *)
ScreeningEnds ==
  \A id \in RequestId :
    requests[id].state = "screening" ~> requests[id].state # "screening"

(* Discarding is the last word: a verdict that was late finds the request   *)
(* no longer being screened and is refused (finish_screening).              *)
DiscardIsFinal ==
  [][\A id \in RequestId :
       requests[id].state = "discarded" => requests'[id].state = "discarded"]_vars

------------------------------------------------------------------------------
(* Refinement: per repository, the claims are a lease. *)

NoLease == [by |-> NoOne, since |-> NoStamp, free |-> TRUE]

LeaseHolder ==
  [ p \in Repo |->
      IF ~ BusyIn(requests, p) THEN NoLease
      ELSE LET id == CHOOSE k \in RequestId :
                       requests[k].state = "claimed" /\ requests[k].repo = p
           IN  [ by |-> requests[id].claimedBy, since |-> requests[id].claimedMs,
                 free |-> FALSE ] ]

Lease == INSTANCE RepoLease WITH holder <- LeaseHolder

(* The store implements a lease per repository that changes hands only once *)
(* it is free or expired, in a step that grants at most one.                *)
ImplementsLease == Lease!Spec

------------------------------------------------------------------------------
(* Refinement: what a daemon sees of the requests of a repository. *)

(* A request is on offer once it is past screening: not while a verdict on  *)
(* it is still to be written, although it may be discarded in between.      *)
Stage(id) ==
  IF held # NotHeld /\ held.id = id THEN "none"
  ELSE CASE requests[id].state \in {"unfiled", "screening", "quarantined"} -> "none"
         [] requests[id].state \in {"queued", "claimed"} -> requests[id].state
         [] requests[id].state = "awaiting-review" -> "drafted"
         [] requests[id].state \in {"accepted", "failed", "discarded"} -> "over"

Offered(p) ==
  [ id \in RequestId |->
      IF requests[id].repo = p
      THEN [ state |-> Stage(id), note |-> requests[id].sendBack,
             shown |-> requests[id].spec ]
      ELSE [state |-> "none", note |-> FALSE, shown |-> NoSpec] ]

Work(p) == INSTANCE WorkQueue WITH Id <- RequestId, Drafts <- SpecText,
                                   NoDraft <- NoSpec, work <- Offered(p)

(* Of each repository the store offers daemons a work queue, whatever the   *)
(* screening thread, other daemons and reviewers do between their calls.    *)
(* (claim_next, record_drafted, send_back)                                  *)
ImplementsWorkQueue ==
  /\ \A p \in Repo : Work(p)!Init
  /\ [][\A p \in Repo : UNCHANGED Offered(p) \/ Work(p)!Next]_vars
=============================================================================
