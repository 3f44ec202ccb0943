------------------------------ MODULE Workflow ------------------------------
(***************************************************************************)
(* The staged workflow over one artifact directory: runs of the phase      *)
(* pipeline (the desktop, the command line, the daemon: processes or       *)
(* threads), each of which takes the directory's lease, adopts what an     *)
(* earlier run left in state.json, drafts the next phase, saves, asks the  *)
(* gate, and saves its answer.  (src/crates/sc-workflow: lease.rs,         *)
(* state.rs, runner/drive.rs, gate.rs)                                     *)
(*                                                                         *)
(* Both files are read, judged and written without a lock, so the lease    *)
(* (acquire, heartbeat, release) and the save are each two steps here, and *)
(* a run may be paused for any time or die between any two steps.  Time is *)
(* kept as ages, in units of which EXPIRY is a whole number.               *)
(***************************************************************************)
EXTENDS Integers

CONSTANTS
  Runs,       \* the threads that may run the pipeline on the directory
  Tasks,      \* tasks whose slug names this directory
  Alike,      \* pairs of them of which one's first line continues the other's
  Modes,      \* the modes in use: see Mode
  Last,       \* the phases are 1 .. Last
  Needs,      \* of each phase, the earlier ones it is generated from
  Breakdown,  \* the phase whose approval has the frozen tests written
  Text,       \* what an artifact may say
  Says,       \* what one of a phase may say when it is generated or edited
  Plans,      \* what a plan file the task refers to may say
  Expiry,     \* EXPIRY
  MaxSaves,   \* bound: saves of the directory
  NoRun, NoTask, NoText

Phases == 1 .. Last
Specs == 1
NoPhase == 0

(* tests: are the contract tests written?   stop: the phase after whose     *)
(* approval the run ends, NoPhase to go through to the last.                *)
Mode == [tests : BOOLEAN, stop : Phases \cup {NoPhase}]
NoMode == [tests |-> FALSE, stop |-> NoPhase]

ASSUME WorkflowConstants ==
  /\ Alike \subseteq Tasks \X Tasks
  /\ \A t \in Tasks : <<t, t>> \in Alike
  /\ \A t, u \in Tasks : <<t, u>> \in Alike => <<u, t>> \in Alike
  /\ Last \in Nat \ {0}
  /\ Needs \in [Phases -> SUBSET Phases]
  /\ \A p \in Phases : Needs[p] \subseteq 1 .. p - 1
  /\ Breakdown \in Phases \ {Specs}
  /\ Modes \subseteq Mode
  /\ Says \in [Phases -> SUBSET Text]
  /\ Plans \subseteq Text
  /\ Expiry \in Nat
  /\ MaxSaves \in Nat
  /\ NoRun \notin Runs
  /\ NoTask \notin Tasks
  /\ NoText \notin Text

Ages == 0 .. Expiry + 1

(* What an artifact says, and on: what those of each phase it needs said    *)
(* when it was generated (what it says itself, if it is from a plan file).  *)
Artifact ==
  [ status : {"none", "draft", "approved"},
    text : Text \cup {NoText}, on : [Phases -> Text \cup {NoText}] ]

(* The contents of state.json; gen = 0 when there is none.  tests: the text *)
(* of the breakdown the recorded contract tests were written from.          *)
State ==
  [ task : Tasks \cup {NoTask}, art : [Phases -> Artifact], notes : SUBSET Phases,
    tests : Text \cup {NoText}, gen : 0 .. MaxSaves ]

NoArtifact == [status |-> "none", text |-> NoText, on |-> [q \in Phases |-> NoText]]
NoDraft == [phase |-> NoPhase, art |-> NoArtifact]
New(task) ==
  [ task |-> task, art |-> [p \in Phases |-> NoArtifact], notes |-> {},
    tests |-> NoText, gen |-> 0 ]

Lease == [run : Runs \cup {NoRun}, age : Ages]
NoLease == [run |-> NoRun, age |-> 0]

VARIABLES
  lease,    \* lease.json
  disk,     \* state.json
  pc,       \* where each run is
  mode,     \* its mode
  state,    \* its WorkflowState
  draft,    \* the draft it restored and has yet to offer again
  at,       \* the phase it is at
  why,      \* what its save is for
  since,    \* age of its last heartbeat, or of the time it is acquiring at
  beating,  \* runs whose heartbeat has read the lease and has yet to write it
  current,  \* runs whose state continues what is on disk       (history)
  raced,    \* a lease file was written over one not seen       (history)
  torn      \* a save landed between another's check and write  (history)

vars == <<lease, disk, pc, mode, state, draft, at, why, since, beating, current, raced, torn>>
local == <<mode, state, draft, at, why>>
plan == <<disk, current, torn>>

Idle == {r \in Runs : pc[r] = "idle"}
Working == {r \in Runs : pc[r] \notin {"idle", "taking"}}

------------------------------------------------------------------------------
(* state.rs *)

Approved(s, p) == s.art[p].status = "approved"
Open(s) == {p \in Phases : ~ Approved(s, p)}
First(S) == CHOOSE p \in S : \A q \in S : p <= q
NextPhase(s) == IF Open(s) = {} THEN NoPhase ELSE First(Open(s))
Drafts(s) == {p \in Phases : s.art[p].status = "draft"}
PendingDraft(s) ==
  IF Drafts(s) = {} THEN NoDraft
  ELSE [phase |-> First(Drafts(s)), art |-> s.art[First(Drafts(s))]]
Grounds(s, p) == [q \in Phases |-> IF q \in Needs[p] THEN s.art[q].text ELSE NoText]

WithArtifact(s, p, a) == [s EXCEPT !.art[p] = a]

Approve(s, p) ==
  [s EXCEPT !.art[p].status = IF @ = "none" THEN @ ELSE "approved",
            !.notes = @ \ {p}]

(* Wrong: what was built on the phase stays.                                *)
InvalidateFromWrong(s, p) == [s EXCEPT !.art[p] = NoArtifact]

InvalidateFrom(s, p) ==
  [s EXCEPT !.art = [q \in Phases |-> IF q < p THEN @[q] ELSE NoArtifact]]

(* Wrong: the draft a run left is adopted as if it were approved.           *)
ResumedWrong(s, task) ==
  [s EXCEPT !.task = task,
            !.art = [p \in Phases |-> [@[p] EXCEPT !.status = IF @ = "draft" THEN "approved" ELSE @]]]

(* What a run resumes with: the approved artifacts, the notes, the tests    *)
(* and the generation; the pending draft is held aside.  The task is its    *)
(* own, and is what its first save leaves there.                            *)
Resumed(s, task) ==
  [s EXCEPT !.task = task,
            !.art = [p \in Phases |-> IF Approved(s, p) THEN @[p] ELSE NoArtifact]]

------------------------------------------------------------------------------
(* lease.rs *)

IsLive(l) == l.run # NoRun /\ l.age <= Expiry
(* Wrong: any lease is taken for one of ours (the process alone, no token). *)
IsHeldByWrong(l, r) == l.run # NoRun
IsHeldBy(l, r) == l.run = r

Set(f, r, v) == [f EXCEPT ![r] = v]

(* acquire, up to the verdict that the directory is free.                   *)
Acquire(r) ==
  /\ pc[r] = "idle"
  /\ ~ IsLive(lease)
  /\ pc' = Set(pc, r, "taking")
  /\ since' = Set(since, r, 0)
  /\ UNCHANGED <<lease, local, beating, plan, raced>>

TakeLease(r) ==
  /\ pc[r] = "taking"
  /\ lease' = [run |-> r, age |-> since[r]]
  /\ raced' = (raced \/ IsLive(lease))
  /\ pc' = Set(pc, r, "loading")
  /\ UNCHANGED <<local, since, beating, plan>>

(* A heartbeat that has read the lease and is slow to write it is as one    *)
(* that reads it late: only reading an aged lease makes a difference.       *)
BeatReads(r) ==
  /\ r \in Working
  /\ pc[r] \notin {"dropping", "removing"}
  /\ r \notin beating
  /\ IsHeldBy(lease, r) /\ lease.age > 0
  /\ beating' = beating \cup {r}
  /\ UNCHANGED <<lease, pc, local, since, plan, raced>>

BeatWrites(r) ==
  /\ r \in beating
  /\ lease' = [run |-> r, age |-> 0]
  /\ since' = Set(since, r, 0)
  /\ raced' = (raced \/ ~ IsHeldBy(lease, r))
  /\ beating' = beating \ {r}
  /\ UNCHANGED <<pc, local, plan>>

(* The run is over: its state goes with it.                                 *)
Over(r) ==
  /\ pc' = Set(pc, r, "idle")
  /\ mode' = Set(mode, r, NoMode)
  /\ state' = Set(state, r, New(NoTask))
  /\ draft' = Set(draft, r, NoDraft)
  /\ at' = Set(at, r, NoPhase)
  /\ why' = Set(why, r, "draft")
  /\ since' = Set(since, r, 0)
  /\ current' = current \ {r}
  /\ UNCHANGED <<disk, torn>>

(* Drop: the heartbeat thread is joined, then the lease is read ...         *)
DropReads(r) ==
  /\ pc[r] = "dropping"
  /\ r \notin beating
  /\ IF IsHeldBy(lease, r)
       THEN pc' = Set(pc, r, "removing") /\ UNCHANGED <<local, since, plan>>
       ELSE Over(r)
  /\ UNCHANGED <<lease, beating, raced>>

(* ... and removed.                                                         *)
DropRemoves(r) ==
  /\ pc[r] = "removing"
  /\ lease' = NoLease
  /\ raced' = (raced \/ ~ IsHeldBy(lease, r))
  /\ Over(r)
  /\ UNCHANGED beating

(* The process dies; its lease stays.                                       *)
Crash(r) ==
  /\ pc[r] # "idle"
  /\ Over(r)
  /\ beating' = beating \ {r}
  /\ UNCHANGED <<lease, raced>>

(* Wrong: an age that does not saturate.                                    *)
OlderWrong(age) == age + 1
Older(age) == IF age > Expiry THEN age ELSE age + 1

Tick ==
  /\ lease' = IF lease.run = NoRun THEN lease ELSE [lease EXCEPT !.age = Older(@)]
  /\ since' = [r \in Runs |-> IF pc[r] = "idle" THEN 0 ELSE Older(since[r])]
  /\ UNCHANGED <<pc, local, beating, plan, raced>>

------------------------------------------------------------------------------
(* runner/drive.rs *)

Goes(r, place) ==
  /\ pc' = Set(pc, r, place)
  /\ UNCHANGED <<state, why>>

(* save_to, up to its comparison with what is on disk: a refusal ends the   *)
(* run with an error.                                                       *)
Save(r, s, purpose) ==
  IF disk.gen > s.gen
    THEN Goes(r, "dropping")
    ELSE /\ s.gen < MaxSaves
         /\ state' = Set(state, r, s)
         /\ why' = Set(why, r, purpose)
         /\ pc' = Set(pc, r, "writing")

(* Wrong: the stored task is never read back.                               *)
ConflictWrong(task) == FALSE

(* task_conflict: neither first line starts with the other (an empty one    *)
(* starts every line).                                                      *)
Conflict(task) == disk.gen > 0 /\ <<disk.task, task>> \notin Alike

(* The run adopts what is on disk, unless that is another task's, and takes *)
(* the plan file its task refers to, if it has one, for an approved         *)
(* specification.                                                           *)
Load(r, task, m) ==
  /\ pc[r] = "loading"
  /\ IF Conflict(task)
       THEN Goes(r, "dropping") /\ UNCHANGED <<mode, draft, current>>
       ELSE /\ mode' = Set(mode, r, m)
            /\ draft' = Set(draft, r, PendingDraft(disk))
            /\ current' = current \cup {r}
            /\ \/ /\ pc' = Set(pc, r, "next")
                  /\ state' = Set(state, r, Resumed(disk, task))
                  /\ UNCHANGED why
               \/ \E text \in Plans :
                    LET seed == [ status |-> "draft", text |-> text,
                                  on |-> [q \in Phases |-> text] ]
                    IN Save(r, Approve(WithArtifact(Resumed(disk, task), Specs, seed), Specs), "seed")
  /\ UNCHANGED <<lease, at, since, beating, disk, torn, raced>>

(* The next phase: the restored draft if it is for this phase, else a       *)
(* generated one; an empty one ends the run.                                *)
Draft(r) ==
  /\ pc[r] = "next"
  /\ LET s == state[r]
         p == NextPhase(s)
     IN IF p = NoPhase THEN Goes(r, "dropping") /\ UNCHANGED <<draft, at>>
        ELSE /\ at' = Set(at, r, p)
             /\ draft' = Set(draft, r, NoDraft)
             /\ IF draft[r].phase = p
                  THEN Save(r, WithArtifact(s, p, draft[r].art), "draft")
                  ELSE \/ Goes(r, "dropping")
                       \/ \E text \in Says[p] :
                            LET a == [status |-> "draft", text |-> text, on |-> Grounds(s, p)]
                            IN Save(r, WithArtifact(s, p, a), "draft")
  /\ UNCHANGED <<lease, mode, since, beating, plan, raced>>

AfterSave(r) ==
  CASE why[r] = "draft" -> "gate"
    [] why[r] = "accept" /\ at[r] = Breakdown /\ mode[r].tests -> "tests"
    [] why[r] \in {"accept", "tests"} /\ mode[r].stop = at[r] -> "dropping"
    [] OTHER -> "next"

(* Wrong: a save does not advance the generation.                           *)
NumberedWrong(s) == s
Numbered(s) == [s EXCEPT !.gen = @ + 1]

(* save_to, from there: the artifacts' files and state.json.                *)
WriteSave(r) ==
  /\ pc[r] = "writing"
  /\ disk' = Numbered(state[r])
  /\ state' = Set(state, r, Numbered(state[r]))
  /\ pc' = Set(pc, r, AfterSave(r))
  /\ current' = {r}
  /\ torn' = (torn \/ \E s \in Runs \ {r} : pc[s] = "writing")
  /\ UNCHANGED <<lease, mode, draft, at, why, since, beating, raced>>

(* The gate's answers.  A human who revises leaves any text in the file.    *)
Accept(r) ==
  /\ pc[r] = "gate"
  /\ \/ Save(r, Approve(state[r], at[r]), "accept")
     \/ \E text \in Says[at[r]] :
          LET a == [state[r].art[at[r]] EXCEPT !.status = "draft", !.text = text]
          IN Save(r, Approve(WithArtifact(state[r], at[r], a), at[r]), "accept")
  /\ UNCHANGED <<lease, mode, draft, at, since, beating, plan, raced>>

SendBack(r) ==
  /\ pc[r] = "gate"
  /\ \E target \in 1 .. at[r], noted \in BOOLEAN :
       Save(r, [InvalidateFrom(state[r], target) EXCEPT
                  !.notes = IF noted THEN @ \cup {target} ELSE @,
                  !.tests = IF target <= Breakdown THEN NoText ELSE @], "back")
  /\ UNCHANGED <<lease, mode, draft, at, since, beating, plan, raced>>

Abort(r) ==
  /\ pc[r] = "gate"
  /\ Goes(r, "dropping")
  /\ UNCHANGED <<lease, mode, draft, at, since, beating, plan, raced>>

(* The contract tests are written into the workspace, or fail to be.        *)
WriteTests(r) ==
  /\ pc[r] = "tests"
  /\ \/ Save(r, [state[r] EXCEPT !.tests = state[r].art[Breakdown].text], "tests")
     \/ Goes(r, "dropping")
  /\ UNCHANGED <<lease, mode, draft, at, since, beating, plan, raced>>

------------------------------------------------------------------------------
Init ==
  /\ lease = NoLease
  /\ disk = New(NoTask)
  /\ pc = [r \in Runs |-> "idle"]
  /\ mode = [r \in Runs |-> NoMode]
  /\ state = [r \in Runs |-> New(NoTask)]
  /\ draft = [r \in Runs |-> NoDraft]
  /\ at = [r \in Runs |-> NoPhase]
  /\ why = [r \in Runs |-> "draft"]
  /\ since = [r \in Runs |-> 0]
  /\ beating = {}
  /\ current = {}
  /\ raced = FALSE
  /\ torn = FALSE

Leasing(r) ==
  Acquire(r) \/ TakeLease(r) \/ BeatReads(r) \/ BeatWrites(r) \/ DropReads(r) \/ DropRemoves(r)

Planning(r) ==
  (\E task \in Tasks, m \in Modes : Load(r, task, m)) \/ Draft(r) \/ WriteSave(r) \/ WriteTests(r)

Answering(r) == Accept(r) \/ SendBack(r) \/ Abort(r)

Next == Tick \/ \E r \in Runs : Leasing(r) \/ Planning(r) \/ Answering(r) \/ Crash(r)

Spec == Init /\ [][Next]_vars

------------------------------------------------------------------------------
(* Properties. *)

Places == {"idle", "taking", "loading", "next", "writing", "gate", "tests",
           "dropping", "removing"}

(* The variables keep their types. *)
TypeOK ==
  /\ lease \in Lease
  /\ disk \in State
  /\ pc \in [Runs -> Places]
  /\ mode \in [Runs -> Mode]
  /\ state \in [Runs -> State]
  /\ draft \in [Runs -> [phase : Phases \cup {NoPhase}, art : Artifact]]
  /\ at \in [Runs -> Phases \cup {NoPhase}]
  /\ why \in [Runs -> {"seed", "draft", "accept", "back", "tests"}]
  /\ since \in [Runs -> Ages]
  /\ beating \subseteq Runs
  /\ current \subseteq Runs
  /\ raced \in BOOLEAN /\ torn \in BOOLEAN

(* However runs are paused, killed, taken over from and come back, no two   *)
(* of them are at work with a heartbeat younger than EXPIRY, unless one     *)
(* wrote or removed a lease file that had changed since it read it.         *)
(* (lease.rs: "a project is either the daemon's or the GUI's at any moment")*)
OneFreshHolder ==
  raced \/ \A r, s \in Working : since[r] <= Expiry /\ since[s] <= Expiry => r = s

(* A run whose state is not the one on disk is never let past save_to's     *)
(* comparison: one that was paused and taken over from does not clobber its *)
(* successor, unless two saves landed in one another's window before.       *)
(* (state.rs: "a stale writer fails loudly")                                *)
StaleSavesRefused ==
  torn \/ \A r \in Runs : pc[r] = "writing" => r \in current

(* Is the specification taken from a plan file?                             *)
Seeded(s) == s.art[Specs].on[Specs] # NoText

(* What is on disk is always a plan a run may continue: an approved chain,  *)
(* then at most one draft, each generated from what the artifacts it needs  *)
(* say now (but for a plan file's text, which may change under it), and     *)
(* tests only for the approved breakdown they were written from.            *)
PlanCoherent ==
  /\ \A p \in Phases : \A q \in 1 .. p - 1 : disk.art[p] # NoArtifact => Approved(disk, q)
  /\ \A p \in Phases : \A q \in Needs[p] :
       disk.art[p] # NoArtifact =>
         disk.art[p].on[q] = disk.art[q].text \/ (q = Specs /\ Seeded(disk))
  /\ disk.tests # NoText =>
       Approved(disk, Breakdown) /\ disk.tests = disk.art[Breakdown].text

Saving(purposes) ==
  \E r \in Runs : pc[r] = "writing" /\ pc'[r] # pc[r] /\ why[r] \in purposes

(* An artifact becomes approved, or an approved one changes, only in a save *)
(* that follows the gate's answer on that phase, or for a specification     *)
(* taken from a plan file: a draft that is resumed is offered again, never  *)
(* adopted.  (drive.rs: "only a human may do that")                         *)
OnlyGateApproves ==
  [][ \A p \in Phases :
        ~ torn' /\ Approved(disk', p) /\ disk'.art[p] # disk.art[p] =>
          \/ p = Specs /\ Saving({"seed"})
          \/ \E r \in Runs : pc[r] = "writing" /\ why[r] = "accept" /\ at[r] = p ]_vars

(* The draft a run left at its gate stays the draft that is reviewed: it is *)
(* approved, edited or sent back, or gives way to a plan file, and is never *)
(* replaced by another draft; a note stays until its phase is approved.     *)
(* Through any number of crashes and resumptions.                           *)
PendingKept ==
  [][ ~ torn' =>
        /\ \A p \in Drafts(disk) :
             \/ disk'.art[p] = disk.art[p]
             \/ Approved(disk', p)
             \/ disk'.art[p] = NoArtifact /\ Saving({"back", "seed"})
        /\ \A p \in disk.notes : p \in disk'.notes \/ Approved(disk', p) ]_vars

(* A design is taken over only by a task whose first line continues, or is  *)
(* continued by, that of the task it was last saved for: not by any other   *)
(* of the same slug, however long ago its run looked.  (task_conflict)      *)
OneTaskPerDirectory ==
  [][disk.gen > 0 /\ ~ torn' => <<disk.task, disk'.task>> \in Alike]_vars

(* state.json is one design, drafted, approved, frozen and sent back phase  *)
(* by phase, whichever runs save it and whatever becomes of them, and is    *)
(* handed on among alike tasks only, until two saves overlap.               *)
(* (state.rs; drive.rs: task_conflict)                                      *)
There(p) == disk.art[p].status # "none"
Design ==
  INSTANCE Plan WITH
    Task <- Tasks, File <- Plans,
    task <- IF disk.gen = 0 THEN NoTask ELSE disk.task,
    says <- [p \in Phases |-> IF There(p) THEN disk.art[p].text ELSE NoText],
    approved <- {p \in Phases : Approved(disk, p)},
    notes <- disk.notes, tests <- disk.tests, overlapped <- torn

ImplementsPlan == Design!Spec
=============================================================================
