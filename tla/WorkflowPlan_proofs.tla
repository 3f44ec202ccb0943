------------------------- MODULE WorkflowPlan_proofs -------------------------
(***************************************************************************)
(* The staged workflow keeps what Plan promises of a design, for any       *)
(* numbers of runs, phases, texts and saves: every save of a run, through  *)
(* every pause, crash and takeover, is one step of the design, until two   *)
(* saves overlap.                                                          *)
(***************************************************************************)
EXTENDS Workflow_proofs

(* What is there says something. *)
Said(s) == \A p \in Phases : s.art[p].status = "none" \/ s.art[p].text \in Text

(* What the save of state s, for purpose w at phase p, makes of a plan d.   *)
Takes(d, s) ==
  /\ Approved(s, Specs) /\ s.art[Specs].text \in Plans
  /\ \A q \in Phases \ {Specs} : s.art[q] = IF Approved(d, q) THEN d.art[q] ELSE NoArtifact
  /\ s.notes = d.notes \ {Specs} /\ s.tests = d.tests
Drafting(d, s, p) ==
  /\ OnDraft(s, p) /\ ~ Approved(d, p) /\ \A q \in Phases : q < p => Approved(d, q)
  /\ OnDraft(d, p) => s.art[p] = d.art[p]
  /\ d.art[p].status \in {"none", "draft"}
  /\ \A q \in Phases \ {p} : s.art[q] = d.art[q]
  /\ s.notes = d.notes /\ s.tests = d.tests
Accepts(d, s, p) ==
  /\ OnDraft(d, p) /\ Approved(s, p)
  /\ \A q \in Phases \ {p} : s.art[q] = d.art[q]
  /\ s.notes = d.notes \ {p} /\ s.tests = d.tests
SendsBack(d, s, p) ==
  /\ OnDraft(d, p)
  /\ \E target \in Phases :
       /\ target <= p
       /\ \A q \in Phases : s.art[q] = IF q < target THEN d.art[q] ELSE NoArtifact
       /\ s.notes \in {d.notes, d.notes \cup {target}}
       /\ s.tests = IF target <= Breakdown THEN NoText ELSE d.tests
Freezes(d, s) ==
  /\ Approved(d, Breakdown) /\ Clean(d) /\ d.tests = NoText
  /\ s.art = d.art /\ s.notes = d.notes /\ s.tests = d.art[Breakdown].text
Moves(d, s, w, p) ==
  /\ w = "seed" => Takes(d, s)
  /\ w = "draft" => Drafting(d, s, p)
  /\ w = "accept" => Accepts(d, s, p)
  /\ w = "back" => SendsBack(d, s, p)
  /\ w = "tests" => Freezes(d, s)

(* What is said of a run beyond PlanInv: its task is one, its tests are     *)
(* written once, and the save it is at is a step of the design.  now: does  *)
(* its state go on from the disk?                                           *)
Busy == {"next", "writing", "gate", "tests"}
Knows(place, s, w, p, d, now) ==
  /\ Said(s) /\ (d.phase # NoPhase => d.art.text \in Text)
  /\ place \in Busy => s.task \in Tasks
  /\ place = "tests" \/ (place = "writing" /\ w = "accept" /\ p = Breakdown) => s.tests = NoText
  /\ now /\ place \in {"next", "gate", "tests"} => s.tests = disk.tests
  /\ now /\ place = "writing" => Moves(disk, s, w, p)

SavesInv ==
  /\ Said(disk)
  /\ \A r \in Runs : Knows(pc[r], state[r], why[r], at[r], draft[r], r \in current)

(* A step of one run that leaves the disk alone. *)
LEMMA KnowsStep ==
  ASSUME FileTypes, RunTypes, SavesInv, NEW r \in Runs, NEW place, NEW s, NEW w, NEW p, NEW d,
         Becomes(r, place, s, w, p, d), disk' = disk,
         \A q \in Runs \ {r} : q \in current' <=> q \in current,
         Knows(place, s, w, p, d, r \in current')
  PROVE  SavesInv'
<1>1. /\ pc'[r] = place /\ state'[r] = s /\ why'[r] = w /\ at'[r] = p /\ draft'[r] = d
      /\ \A q \in Runs \ {r} : /\ pc'[q] = pc[q] /\ state'[q] = state[q] /\ why'[q] = why[q]
                               /\ at'[q] = at[q] /\ draft'[q] = draft[q]
  BY DEF RunTypes, Becomes, Set
<1>2. \A q \in Runs : Knows(pc'[q], state'[q], why'[q], at'[q], draft'[q], q \in current')
  BY <1>1 DEF SavesInv, Knows
<1>3. Said(disk)'
  BY DEF SavesInv, Said
<1>4. ASSUME NEW q \in Runs PROVE Knows(pc[q], state[q], why[q], at[q], draft[q], q \in current)'
  BY <1>2 DEF Knows, Said, Moves, Takes, Drafting, Accepts, SendsBack, Freezes, OnDraft, Approved, Clean
<1> QED  BY <1>3, <1>4 DEF SavesInv

(* What a run knows of itself. *)
LEMMA KnownFacts ==
  ASSUME SavesInv, NEW r \in Runs
  PROVE  /\ Said(disk) /\ Said(state[r])
         /\ draft[r].phase # NoPhase => draft[r].art.text \in Text
         /\ Knows(pc[r], state[r], why[r], at[r], draft[r], r \in current)
BY DEF SavesInv, Knows

(* A run that stops, or is on its way there or to its start. *)
LEMMA QuietStep ==
  ASSUME FileTypes, RunTypes, SavesInv, NEW r \in Runs,
         NEW place \in Places \ Busy, NEW p,
         pc' = Set(pc, r, place), UNCHANGED <<disk, state, why, current>>,
         at' = Set(at, r, p), draft' \in {draft, Set(draft, r, NoDraft)}
  PROVE  SavesInv'
<1>1. PICK d \in {draft[r], NoDraft} : draft' = Set(draft, r, d)
  BY PartTypes
<1>2. d.phase # NoPhase => d.art.text \in Text
  BY KnownFacts DEF NoDraft
<1>3. Becomes(r, place, state[r], why[r], p, d)
  BY <1>1, PartTypes DEF Becomes
<1>4. Knows(place, state[r], why[r], p, d, r \in current')
  BY <1>2, KnownFacts DEF Knows, Busy, Places
<1> QED  BY <1>3, <1>4, KnowsStep

(* Save, let past or refused. (save_to) *)
LEMMA SaveKnows ==
  ASSUME FileTypes, RunTypes, SavesInv, NEW r \in Runs, NEW s, NEW w, NEW p, NEW d,
         Save(r, s, w), at' = Set(at, r, p), draft' = Set(draft, r, d), disk' = disk,
         current' \in {current, current \cup {r}},
         Knows("writing", s, w, p, d, r \in current')
  PROVE  SavesInv'
<1>1. CASE disk.gen > s.gen
  <2>1. Becomes(r, "dropping", state[r], why[r], p, d)
    BY <1>1, PartTypes DEF Save, Goes, Becomes
  <2>2. Knows("dropping", state[r], why[r], p, d, r \in current')
    BY KnownFacts DEF Knows, Busy
  <2> QED  BY <2>1, <2>2, KnowsStep
<1>2. CASE ~ (disk.gen > s.gen)
  <2>1. Becomes(r, "writing", s, w, p, d)
    BY <1>2 DEF Save, Becomes
  <2> QED  BY <2>1, KnowsStep
<1> QED  BY <1>1, <1>2

(* What is adopted says something, and is the task's. *)
LEMMA LoadSaves ==
  ASSUME FileTypes, RunTypes, PlanInv, SavesInv, NEW r \in Runs,
         NEW task \in Tasks, NEW m \in Modes, Load(r, task, m)
  PROVE  SavesInv'
<1> DEFINE t == Resumed(disk, task)
           d == PendingDraft(disk)
<1>0. pc[r] = "loading" /\ UNCHANGED <<disk, at>> /\ disk \in State /\ Coherent(disk) /\ Said(disk)
  BY KnownFacts DEF Load, RunTypes, PlanInv
<1>1. CASE Conflict(task)
  <2>1. pc' = Set(pc, r, "dropping") /\ UNCHANGED <<disk, state, why, current, draft>>
    BY <1>0, <1>1 DEF Load, Goes
  <2>2. at' = Set(at, r, at[r]) /\ "dropping" \in Places \ Busy
    BY <1>0, PartTypes DEF Places, Busy
  <2> QED  BY <2>1, <2>2, QuietStep
<1>2. CASE ~ Conflict(task)
  <2>1. /\ draft' = Set(draft, r, d) /\ at' = Set(at, r, at[r]) /\ current' = current \cup {r}
    BY <1>0, <1>2, PartTypes DEF Load
  <2>2. /\ t \in State /\ t.task = task /\ t.notes = disk.notes /\ t.tests = disk.tests
        /\ \A q \in Phases : t.art[q] = IF Approved(disk, q) THEN disk.art[q] ELSE NoArtifact
    BY <1>0, ResumedFields
  <2>3. Said(t)
    BY <1>0, <2>2, NothingIsArtifact DEF Said
  <2>4. d.phase # NoPhase => d.art.text \in Text
    <3>1. d.phase # NoPhase => d.phase \in Phases /\ d.art.status = "draft"
      BY <1>0, PendingFacts
    <3>2. Drafts(disk) # {} => d.phase \in Phases /\ d.art = disk.art[d.phase]
      BY <1>0, PendingFacts
    <3>3. Drafts(disk) = {} => d.phase = NoPhase
      BY DEF PendingDraft, NoDraft
    <3> HIDE DEF d
    <3> QED  BY <1>0, <3>1, <3>2, <3>3 DEF Said
  <2>5. Coherent(t) /\ Clean(t)
    BY <1>0, ResumedCoheres
  <2>6. CASE pc' = Set(pc, r, "next") /\ state' = Set(state, r, t) /\ UNCHANGED why
    <3>1. Becomes(r, "next", t, why[r], at[r], d)
      BY <2>1, <2>6, PartTypes DEF Becomes
    <3> HIDE DEF t, d
    <3>2. Knows("next", t, why[r], at[r], d, r \in current')
      BY <2>2, <2>3, <2>4 DEF Knows
    <3> QED  BY <1>0, <2>1, <3>1, <3>2, KnowsStep
  <2>7. CASE ~ (pc' = Set(pc, r, "next") /\ state' = Set(state, r, t) /\ UNCHANGED why)
    <3>1. PICK text \in Plans :
            LET seed == [status |-> "draft", text |-> text, on |-> [q \in Phases |-> text]]
            IN Save(r, Approve(WithArtifact(t, Specs, seed), Specs), "seed")
      BY <1>2, <2>7 DEF Load
    <3> DEFINE seed == [status |-> "draft", text |-> text, on |-> [q \in Phases |-> text]]
               u == Approve(WithArtifact(t, Specs, seed), Specs)
    <3>2. text \in Text
      BY <3>1, WorkflowConstants
    <3>3. /\ u.task = t.task /\ u.notes = t.notes \ {Specs} /\ u.tests = t.tests
          /\ \A q \in Phases \ {Specs} : u.art[q] = t.art[q]
          /\ Approved(u, Specs) /\ u.art[Specs].text = text
      BY <2>2, <2>5, <3>2, SeedCoheres
    <3>4. Save(r, u, "seed")
      BY <3>1
    <3> HIDE DEF u, t, d
    <3>5. Takes(disk, u)
      BY <2>2, <3>1, <3>3 DEF Takes
    <3>6. Said(u)
      BY <2>3, <3>2, <3>3 DEF Said
    <3>7. Knows("writing", u, "seed", at[r], d, r \in current')
      BY <2>2, <2>4, <3>3, <3>5, <3>6 DEF Knows, Moves
    <3> QED  BY <1>0, <2>1, <3>4, <3>7, SaveKnows
  <2> QED  BY <2>6, <2>7
<1> QED  BY <1>1, <1>2

(* A draft is of the phase that is due, and is the one on disk if there is  *)
(* one. *)
LEMMA DraftSaves ==
  ASSUME FileTypes, RunTypes, PlanInv, SavesInv, NEW r \in Runs, Draft(r)
  PROVE  SavesInv'
<1> DEFINE s == state[r]
           p == NextPhase(s)
<1>0. /\ pc[r] = "next" /\ UNCHANGED <<disk, current>> /\ s \in State
      /\ NoDraft.phase = NoPhase /\ "dropping" \in Places \ Busy
  BY PartTypes DEF Draft, NoDraft, plan, Places, Busy
<1>1. Said(s) /\ (draft[r].phase # NoPhase => draft[r].art.text \in Text)
  BY KnownFacts
<1>2. s.task \in Tasks /\ (r \in current => s.tests = disk.tests)
  BY <1>0, KnownFacts DEF Knows, Busy
<1>3. CASE p = NoPhase
  <2>1. pc' = Set(pc, r, "dropping") /\ UNCHANGED <<state, why, draft>> /\ at' = Set(at, r, at[r])
    BY <1>3, PartTypes DEF Draft, Goes
  <2> QED  BY <1>0, <2>1, QuietStep
<1>4. ASSUME p # NoPhase, Goes(r, "dropping") PROVE SavesInv'
  <2>1. /\ at' = Set(at, r, p) /\ draft' = Set(draft, r, NoDraft)
        /\ pc' = Set(pc, r, "dropping") /\ UNCHANGED <<state, why>>
    BY <1>4 DEF Draft, Goes
  <2> HIDE DEF p
  <2> QED  BY <1>0, <2>1, QuietStep
<1>5. ASSUME p # NoPhase, NEW a \in Artifact, a.status = "draft", a.text \in Text,
             Save(r, WithArtifact(s, p, a), "draft"),
             r \in current => \A q \in Drafts(disk) : q = p /\ a = disk.art[q]
      PROVE  SavesInv'
  <2> DEFINE t == WithArtifact(s, p, a)
  <2>1. p \in Phases /\ ~ Approved(s, p) /\ \A q \in Phases : q < p => Approved(s, q)
    BY <1>0, <1>5, NextFacts
  <2>2. at' = Set(at, r, p) /\ draft' = Set(draft, r, NoDraft)
    BY <1>5 DEF Draft
  <2> HIDE DEF p
  <2>3. /\ t.task = s.task /\ t.notes = s.notes /\ t.tests = s.tests
        /\ t.art[p] = a /\ \A q \in Phases \ {p} : t.art[q] = s.art[q]
    BY <1>0, <1>5, <2>1, WithArtifactFields
  <2>4. Save(r, t, "draft")
    BY <1>5
  <2> HIDE DEF t
  <2>5. Said(t)
    BY <1>1, <1>5, <2>3 DEF Said
  <2>6. ASSUME r \in current PROVE Drafting(disk, t, p)
    <3>1. Follows("next", s, why[r], at[r], draft[r])
      BY <1>0, <2>6 DEF PlanInv
    <3>2. /\ s.notes = disk.notes
          /\ \A q \in Phases : s.art[q] = IF Approved(disk, q) THEN disk.art[q] ELSE NoArtifact
      BY <3>1 DEF Follows
    <3>3. ~ Approved(disk, p) /\ \A q \in Phases : q < p => Approved(disk, q)
      BY <2>1, <3>2 DEF Approved, NoArtifact
    <3>4. disk \in State /\ Coherent(disk)
      BY DEF RunTypes, PlanInv
    <3>5. ASSUME NEW q \in Phases \ {p} PROVE t.art[q] = disk.art[q]
      <4>1. CASE Approved(disk, q)
        BY <2>3, <3>2, <4>1
      <4>2. CASE ~ Approved(disk, q)
        <5>1. p < q
          BY <2>1, <3>3, <3>5, <4>2, PhasesFacts
        <5>2. disk.art[q] = NoArtifact
          BY <2>1, <3>3, <3>4, <3>5, <5>1, NothingAfter DEF Coherent
        <5> QED  BY <2>3, <3>2, <4>2, <5>2
      <4> QED  BY <4>1, <4>2
    <3>6. OnDraft(disk, p) => t.art[p] = disk.art[p]
      BY <1>5, <2>1, <2>3, <2>6 DEF OnDraft, Drafts
    <3>7. disk.art[p].status \in {"none", "draft"}
      BY <2>1, <3>3, <3>4 DEF State, Artifact, Approved
    <3>8. OnDraft(t, p)
      BY <1>5, <2>1, <2>3 DEF OnDraft
    <3> QED  BY <1>2, <2>3, <2>6, <3>2, <3>3, <3>5, <3>6, <3>7, <3>8 DEF Drafting
  <2>7. Knows("writing", t, "draft", p, NoDraft, r \in current')
    BY <1>0, <1>2, <2>3, <2>5, <2>6 DEF Knows, Moves
  <2> QED  BY <1>0, <2>2, <2>4, <2>7, SaveKnows
<1>6. ASSUME p # NoPhase, ~ Goes(r, "dropping") PROVE SavesInv'
  <2>1. p \in Phases /\ ~ Approved(s, p)
    BY <1>0, <1>6, NextFacts
  <2>2. ASSUME r \in current
        PROVE  \A q \in Drafts(disk) : q = p /\ draft[r].phase = p /\ draft[r].art = disk.art[q]
    BY <1>0, <1>6, <2>2, RestoredFacts
  <2>3. CASE draft[r].phase = p
    <3>1. Save(r, WithArtifact(s, p, draft[r].art), "draft")
      BY <1>6, <2>3 DEF Draft
    <3>2. draft[r].art \in Artifact /\ draft[r].art.status = "draft"
      BY <1>0, <1>6, <2>3, PartTypes DEF Held, PlanInv, Good
    <3> HIDE DEF p
    <3> QED  BY <1>1, <1>5, <1>6, <2>2, <2>3, <3>1, <3>2 DEF p
  <2>4. CASE draft[r].phase # p
    <3>1. PICK text \in Says[p] :
            Save(r, WithArtifact(s, p, [status |-> "draft", text |-> text, on |-> Grounds(s, p)]), "draft")
      BY <1>6, <2>4 DEF Draft
    <3> DEFINE a == [status |-> "draft", text |-> text, on |-> Grounds(s, p)]
    <3>2. text \in Text
      BY <2>1, <3>1, WorkflowConstants
    <3>3. Grounds(s, p) \in [Phases -> Text \cup {NoText}]
      BY <1>0, <2>1 DEF Grounds, State, Artifact
    <3>4. a \in Artifact /\ a.status = "draft" /\ a.text \in Text
      BY <3>2, <3>3 DEF Artifact
    <3> HIDE DEF a
    <3>5. Save(r, WithArtifact(s, p, a), "draft")
      BY <3>1 DEF a
    <3> HIDE DEF p
    <3> QED  BY <1>5, <1>6, <2>2, <2>4, <3>4, <3>5
  <2> QED  BY <2>3, <2>4
<1> QED  BY <1>3, <1>4, <1>6

(* The gate's answers, as steps of the design. (drive.rs: on GateDecision)  *)
LEMMA AnswerSaves ==
  ASSUME FileTypes, RunTypes, PlanInv, SavesInv, NEW r \in Runs, Answering(r)
  PROVE  SavesInv'
<1> DEFINE s == state[r]
           p == at[r]
<1>0. /\ pc[r] = "gate" /\ UNCHANGED <<disk, at, draft, current>>
      /\ at' = Set(at, r, p) /\ draft' = Set(draft, r, draft[r])
  BY PartTypes DEF Answering, Accept, SendBack, Abort, plan
<1>1. /\ s \in State /\ Coherent(s) /\ p \in Phases /\ s.art[p].status = "draft"
      /\ draft[r].phase = NoPhase
      /\ r \in current => s.art = disk.art /\ s.notes = disk.notes
  BY <1>0, GateFacts DEF OnDraft
<1>2. Said(s) /\ s.task \in Tasks /\ (r \in current => s.tests = disk.tests)
  BY <1>0, KnownFacts DEF Knows, Busy
<1>3. ASSUME NEW u \in State, u.art[p].status = "draft", u.art[p].text \in Text,
             u.task = s.task, u.notes = s.notes, u.tests = s.tests,
             \A q \in Phases \ {p} : u.art[q] = s.art[q],
             Save(r, Approve(u, p), "accept")
      PROVE  SavesInv'
  <2> DEFINE t == Approve(u, p)
  <2>1. /\ t.task = s.task /\ t.notes = s.notes \ {p} /\ t.tests = s.tests
        /\ Approved(t, p) /\ t.art[p].text \in Text
        /\ \A q \in Phases \ {p} : t.art[q] = s.art[q]
    BY <1>1, <1>3, ApproveFields
  <2>2. Save(r, t, "accept")
    BY <1>3
  <2> HIDE DEF t
  <2>3. Said(t)
    BY <1>1, <1>2, <2>1 DEF Said
  <2>4. p = Breakdown => s.tests = NoText
    BY <1>1 DEF Coherent, Tested, Approved
  <2>5. r \in current => Accepts(disk, t, p)
    BY <1>1, <1>2, <2>1 DEF Accepts, OnDraft
  <2>6. Knows("writing", t, "accept", p, draft[r], r \in current')
    BY <1>0, <1>1, <1>2, <2>1, <2>3, <2>4, <2>5 DEF Knows, Moves
  <2> QED  BY <1>0, <2>2, <2>6, SaveKnows
<1>4. CASE Accept(r)
  <2>1. CASE Save(r, Approve(s, p), "accept")
    <3>1. s.art[p].text \in Text
      BY <1>1, <1>2 DEF Said
    <3> QED  BY <1>1, <1>3, <2>1, <3>1
  <2>2. CASE ~ Save(r, Approve(s, p), "accept")
    <3>1. PICK text \in Says[p] :
            LET a == [s.art[p] EXCEPT !.status = "draft", !.text = text]
            IN Save(r, Approve(WithArtifact(s, p, a), p), "accept")
      BY <1>4, <2>2 DEF Accept
    <3> DEFINE a == [s.art[p] EXCEPT !.status = "draft", !.text = text]
               u == WithArtifact(s, p, a)
    <3>2. text \in Text
      BY <1>1, <3>1, WorkflowConstants
    <3>3. s.art[p] \in Artifact
      BY <1>1 DEF State
    <3>4. a \in Artifact /\ a.status = "draft" /\ a.text = text
      BY <3>2, <3>3 DEF Artifact
    <3>5. Save(r, Approve(u, p), "accept")
      BY <3>1
    <3> HIDE DEF a
    <3>6. /\ u \in State /\ u.task = s.task /\ u.notes = s.notes /\ u.tests = s.tests
          /\ u.art[p] = a /\ \A q \in Phases \ {p} : u.art[q] = s.art[q]
      BY <1>1, <3>4, WithArtifactFields
    <3> HIDE DEF u
    <3> QED  BY <1>3, <3>2, <3>4, <3>5, <3>6
  <2> QED  BY <2>1, <2>2
<1>5. CASE SendBack(r)
  <2>1. PICK target \in 1 .. p, noted \in BOOLEAN : Save(r, Back(s, target, noted), "back")
    BY <1>5 DEF SendBack, Back
  <2>2. target \in Phases /\ target <= p
    BY <1>1, PhasesFacts
  <2> DEFINE t == Back(s, target, noted)
  <2>3. /\ t.task = s.task /\ t.notes \in {s.notes, s.notes \cup {target}}
        /\ t.tests = IF target <= Breakdown THEN NoText ELSE s.tests
        /\ \A q \in Phases : t.art[q] = IF q < target THEN s.art[q] ELSE NoArtifact
    BY <1>1, <2>2, BackFields
  <2>4. Save(r, t, "back")
    BY <2>1
  <2> HIDE DEF t
  <2>5. Said(t)
    BY <1>2, <2>3, NothingIsArtifact DEF Said
  <2>6. r \in current => SendsBack(disk, t, p)
    BY <1>1, <1>2, <2>2, <2>3 DEF SendsBack, OnDraft
  <2>7. Knows("writing", t, "back", p, draft[r], r \in current')
    BY <1>0, <1>1, <1>2, <2>3, <2>5, <2>6 DEF Knows, Moves
  <2> QED  BY <1>0, <2>4, <2>7, SaveKnows
<1>6. CASE Abort(r)
  <2>1. pc' = Set(pc, r, "dropping") /\ UNCHANGED <<state, why>> /\ "dropping" \in Places \ Busy
    BY <1>6 DEF Abort, Goes, Places, Busy
  <2> QED  BY <1>0, <2>1, QuietStep
<1> QED  BY <1>4, <1>5, <1>6 DEF Answering

(* The tests are written from what is approved, and once. *)
LEMMA TestsSave ==
  ASSUME FileTypes, RunTypes, PlanInv, SavesInv, NEW r \in Runs, WriteTests(r)
  PROVE  SavesInv'
<1> DEFINE s == state[r]
           t == [s EXCEPT !.tests = s.art[Breakdown].text]
<1>0. /\ pc[r] = "tests" /\ UNCHANGED <<disk, current>> /\ s \in State
      /\ at' = Set(at, r, at[r]) /\ draft' = Set(draft, r, draft[r]) /\ draft' = draft
  BY PartTypes DEF WriteTests, plan
<1>1. CASE Goes(r, "dropping")
  <2>1. pc' = Set(pc, r, "dropping") /\ UNCHANGED <<state, why>> /\ "dropping" \in Places \ Busy
    BY <1>1 DEF Goes, Places, Busy
  <2> QED  BY <1>0, <2>1, QuietStep
<1>2. CASE Save(r, t, "tests")
  <2>1. /\ Coherent(s) /\ Clean(s) /\ Approved(s, Breakdown)
        /\ r \in current => s.art = disk.art /\ s.notes = disk.notes
    BY <1>0 DEF PlanInv, Good, Follows
  <2>2. /\ Said(s) /\ s.task \in Tasks /\ s.tests = NoText
        /\ r \in current => s.tests = disk.tests
        /\ draft[r].phase # NoPhase => draft[r].art.text \in Text
    BY <1>0, KnownFacts DEF Knows, Busy
  <2>3. t.art = s.art /\ t.task = s.task /\ t.notes = s.notes
    BY <1>0, <2>1, TestsCohere
  <2>4. t.tests = s.art[Breakdown].text
    BY <1>0 DEF State
  <2> HIDE DEF t
  <2>5. r \in current => Freezes(disk, t)
    BY <2>1, <2>2, <2>3, <2>4 DEF Freezes, Approved, Clean
  <2>6. Knows("writing", t, "tests", at[r], draft[r], r \in current')
    BY <1>0, <2>2, <2>3, <2>5 DEF Knows, Moves, Said
  <2> QED  BY <1>0, <1>2, <2>6, SaveKnows
<1> QED  BY <1>1, <1>2 DEF WriteTests

(* The write of a save. *)
LEMMA WriteSaves ==
  ASSUME FileTypes, RunTypes, PlanInv, SavesInv, NEW r \in Runs, WriteSave(r)
  PROVE  SavesInv'
<1> DEFINE s == state[r]
           t == Numbered(s)
           place == AfterSave(r)
<1>0. /\ pc[r] = "writing" /\ disk' = t /\ state' = Set(state, r, t)
      /\ pc' = Set(pc, r, place) /\ current' = {r}
      /\ UNCHANGED <<draft, at, why>> /\ s \in State
  BY PartTypes DEF WriteSave
<1>1. Knows("writing", s, why[r], at[r], draft[r], r \in current)
  BY <1>0, KnownFacts
<1>2. t.art = s.art /\ t.notes = s.notes /\ t.tests = s.tests /\ t.task = s.task
  BY <1>0 DEF Numbered, State
<1>3. /\ place \in {"gate", "tests", "dropping", "next"}
      /\ place = "tests" => why[r] = "accept" /\ at[r] = Breakdown
  BY DEF AfterSave
<1> HIDE DEF t, place
<1>4. /\ pc'[r] = place /\ state'[r] = t
      /\ \A q \in Runs \ {r} : pc'[q] = pc[q] /\ state'[q] = state[q]
  BY <1>0 DEF Set, RunTypes
<1>5. Said(t)
  BY <1>1, <1>2 DEF Knows, Said
<1>6. Said(disk)'
  BY <1>0, <1>5 DEF Said
<1>7. ASSUME NEW q \in Runs PROVE Knows(pc[q], state[q], why[q], at[q], draft[q], q \in current)'
  <2>1. Knows(pc[q], state[q], why[q], at[q], draft[q], q \in current)
    BY KnownFacts
  <2>2. CASE q = r
    BY <1>0, <1>1, <1>2, <1>3, <1>4, <1>5, <2>2 DEF Knows, Busy, Said
  <2>3. CASE q # r
    BY <1>0, <1>4, <2>1, <2>3 DEF Knows, Busy, Said
  <2> QED  BY <2>2, <2>3
<1> QED  BY <1>6, <1>7 DEF SavesInv

(* A step that changes nothing of this. *)
LEMMA SavesAlone ==
  ASSUME RunTypes, SavesInv, UNCHANGED <<pc, state, why, at, draft, current, disk>> PROVE SavesInv'
<1>1. Said(disk)'
  BY DEF SavesInv, Said
<1>2. ASSUME NEW q \in Runs PROVE Knows(pc[q], state[q], why[q], at[q], draft[q], q \in current)'
  <2>1. Knows(pc[q], state[q], why[q], at[q], draft[q], q \in current)
    BY KnownFacts
  <2> QED
    BY <2>1 DEF Knows, Said, Moves, Takes, Drafting, Accepts, SendsBack, Freezes, OnDraft, Approved, Clean
<1> QED  BY <1>1, <1>2 DEF SavesInv

(* The lease, a run's end and its death. *)
LEMMA LeasingSaves ==
  ASSUME FileTypes, RunTypes, SavesInv, NEW r \in Runs, Leasing(r) \/ Crash(r)
  PROVE  SavesInv'
<1>1. CASE Over(r)
  <2>1. Becomes(r, "idle", New(NoTask), "draft", NoPhase, NoDraft)
    BY <1>1 DEF Over, Becomes
  <2>2. Knows("idle", New(NoTask), "draft", NoPhase, NoDraft, r \in current')
    BY NothingIsArtifact DEF Knows, Said, New, NoDraft, Busy
  <2>3. disk' = disk /\ \A q \in Runs \ {r} : q \in current' <=> q \in current
    BY <1>1 DEF Over
  <2> QED  BY <2>1, <2>2, <2>3, KnowsStep
<1>2. CASE BeatReads(r) \/ BeatWrites(r)
  BY <1>2, SavesAlone DEF BeatReads, BeatWrites, local, plan
<1>3. ASSUME NEW place \in {"taking", "loading", "removing"},
             pc' = Set(pc, r, place), UNCHANGED <<local, plan>>
      PROVE  SavesInv'
  <2>1. UNCHANGED <<disk, state, why, current, draft>> /\ at' = Set(at, r, at[r])
    BY <1>3, PartTypes DEF local, plan
  <2>2. place \in Places \ Busy
    BY DEF Places, Busy
  <2> QED  BY <1>3, <2>1, <2>2, QuietStep
<1>4. CASE Acquire(r)
  BY <1>3, <1>4 DEF Acquire
<1>5. CASE TakeLease(r)
  BY <1>3, <1>5 DEF TakeLease
<1>6. CASE DropReads(r)
  BY <1>1, <1>3, <1>6 DEF DropReads
<1> QED  BY <1>1, <1>2, <1>4, <1>5, <1>6 DEF Leasing, DropRemoves, Crash

(* Every save a run is let past with is a step of the design. *)
THEOREM SavesContinue == Spec => []SavesInv
<1>1. ASSUME Init PROVE SavesInv
  BY <1>1, NothingIsArtifact DEF Init, SavesInv, Knows, Said, New, NoDraft, Busy
<1>2. ASSUME IInv, SavesInv, [Next]_vars PROVE SavesInv'
  <2> USE DEF IInv
  <2>1. CASE UNCHANGED vars
    BY <1>2, <2>1, SavesAlone DEF vars
  <2>2. CASE Tick
    BY <1>2, <2>2, SavesAlone DEF Tick, local, plan
  <2>3. ASSUME NEW r \in Runs, Leasing(r) \/ Crash(r) PROVE SavesInv'
    BY <1>2, <2>3, LeasingSaves
  <2>4. ASSUME NEW r \in Runs, Planning(r) PROVE SavesInv'
    BY <1>2, <2>4, LoadSaves, DraftSaves, WriteSaves, TestsSave DEF Planning
  <2>5. ASSUME NEW r \in Runs, Answering(r) PROVE SavesInv'
    BY <1>2, <2>5, AnswerSaves
  <2> QED  BY <1>2, <2>1, <2>2, <2>3, <2>4, <2>5 DEF Next
<1> QED  BY <1>1, <1>2, Invariance, PTL DEF Spec

------------------------------------------------------------------------------
(* The design of a state.json *)

SaysOf(s) == [p \in Phases |-> IF s.art[p].status # "none" THEN s.art[p].text ELSE NoText]
ApprovedOf(s) == {p \in Phases : Approved(s, p)}
DueIn(s, p) == p \in Phases \ ApprovedOf(s) /\ \A q \in Phases : q < p => q \in ApprovedOf(s)

(* The phase a draft is of is due. *)
LEMMA DraftIsDue ==
  ASSUME NEW s \in State, Coherent(s), Said(s), NEW p, OnDraft(s, p)
  PROVE  DueIn(s, p) /\ SaysOf(s)[p] # NoText
<1>1. p \in Phases /\ s.art[p] # NoArtifact /\ ~ Approved(s, p)
  BY DEF OnDraft, Approved, NoArtifact
<1>2. \A q \in Phases : q < p => Approved(s, q)
  BY <1>1, ApprovedBefore DEF Coherent
<1>3. SaysOf(s)[p] \in Text
  BY <1>1 DEF Said, SaysOf, OnDraft
<1> QED  BY <1>1, <1>2, <1>3, WorkflowConstants DEF DueIn, ApprovedOf

(* A draft that is saved says what it says, if there was none. *)
LEMMA DraftInDesign ==
  ASSUME NEW d \in State, NEW t \in State, Said(t), NEW p, Drafting(d, t, p)
  PROVE  /\ ApprovedOf(t) = ApprovedOf(d)
         /\ \/ SaysOf(t) = SaysOf(d)
            \/ /\ DueIn(d, p) /\ SaysOf(d)[p] = NoText
               /\ \E x \in Text : SaysOf(t) = [SaysOf(d) EXCEPT ![p] = x]
<1>1. /\ p \in Phases /\ t.art[p].status = "draft" /\ ~ Approved(d, p)
      /\ \A q \in Phases : q < p => Approved(d, q)
      /\ \A q \in Phases \ {p} : t.art[q] = d.art[q]
  BY DEF Drafting, OnDraft
<1>2. ~ Approved(t, p) /\ t.art[p].text \in Text
  BY <1>1 DEF Approved, Said
<1>3. ApprovedOf(t) = ApprovedOf(d)
  BY <1>1, <1>2 DEF ApprovedOf, Approved
<1>4. CASE d.art[p].status = "draft"
  <2>1. t.art[p] = d.art[p]
    BY <1>1, <1>4 DEF Drafting, OnDraft
  <2>2. SaysOf(t) = SaysOf(d)
    BY <1>1, <2>1 DEF SaysOf
  <2> QED  BY <1>3, <2>2
<1>5. CASE d.art[p].status = "none"
  <2>1. DueIn(d, p) /\ SaysOf(d)[p] = NoText
    BY <1>1, <1>5 DEF DueIn, ApprovedOf, SaysOf
  <2>2. SaysOf(t) = [SaysOf(d) EXCEPT ![p] = t.art[p].text]
    BY <1>1 DEF SaysOf
  <2> QED  BY <1>2, <1>3, <2>1, <2>2
<1> QED  BY <1>4, <1>5 DEF Drafting

(* An acceptance approves what is under review, as it is or edited. *)
LEMMA AcceptInDesign ==
  ASSUME NEW d \in State, NEW t \in State, Said(t), NEW p, Accepts(d, t, p)
  PROVE  /\ ApprovedOf(t) = ApprovedOf(d) \cup {p}
         /\ \E x \in Text : SaysOf(t) = [SaysOf(d) EXCEPT ![p] = x]
<1>1. p \in Phases /\ Approved(t, p) /\ \A q \in Phases \ {p} : t.art[q] = d.art[q]
  BY DEF Accepts, OnDraft
<1>2. t.art[p].text \in Text /\ t.art[p].status # "none"
  BY <1>1 DEF Approved, Said
<1>3. ApprovedOf(t) = ApprovedOf(d) \cup {p}
  BY <1>1 DEF ApprovedOf, Approved
<1>4. SaysOf(t) = [SaysOf(d) EXCEPT ![p] = t.art[p].text]
  BY <1>1, <1>2 DEF SaysOf
<1> QED  BY <1>2, <1>3, <1>4

(* What is sent back is gone. *)
LEMMA BackInDesign ==
  ASSUME NEW d \in State, NEW t \in State, NEW target \in Phases,
         \A q \in Phases : t.art[q] = IF q < target THEN d.art[q] ELSE NoArtifact
  PROVE  /\ ApprovedOf(t) = {q \in ApprovedOf(d) : q < target}
         /\ SaysOf(t) = [q \in Phases |-> IF q < target THEN SaysOf(d)[q] ELSE NoText]
<1>1. ApprovedOf(t) = {q \in ApprovedOf(d) : q < target}
  BY NothingIsArtifact DEF ApprovedOf, Approved
<1>2. \A q \in Phases : SaysOf(t)[q] = IF q < target THEN SaysOf(d)[q] ELSE NoText
  BY NothingIsArtifact DEF SaysOf
<1>3. SaysOf(t) = [q \in Phases |-> SaysOf(t)[q]]
  BY DEF SaysOf
<1> QED  BY <1>1, <1>2, <1>3

(* A plan file is the specification, and what was under review goes. *)
LEMMA TakeInDesign ==
  ASSUME NEW d \in State, NEW t \in State, Takes(d, t)
  PROVE  /\ ApprovedOf(t) = ApprovedOf(d) \cup {1}
         /\ \E x \in Plans :
              SaysOf(t) = [q \in Phases |-> IF q = 1 THEN x
                                           ELSE IF q \in ApprovedOf(d) THEN SaysOf(d)[q] ELSE NoText]
<1>1. /\ 1 \in Phases /\ Approved(t, 1) /\ t.art[1].text \in Plans
      /\ \A q \in Phases \ {1} : t.art[q] = IF Approved(d, q) THEN d.art[q] ELSE NoArtifact
  BY PhasesFacts DEF Takes, Specs
<1>2. ApprovedOf(t) = ApprovedOf(d) \cup {1}
  BY <1>1, NothingIsArtifact DEF ApprovedOf, Approved
<1>3. \A q \in Phases : SaysOf(t)[q] = IF q = 1 THEN t.art[1].text
                                       ELSE IF q \in ApprovedOf(d) THEN SaysOf(d)[q] ELSE NoText
  BY <1>1, NothingIsArtifact DEF SaysOf, ApprovedOf, Approved
<1>4. SaysOf(t) = [q \in Phases |-> SaysOf(t)[q]]
  BY DEF SaysOf
<1> QED  BY <1>1, <1>2, <1>3, <1>4

(* The write of a save is a step of the design. (save_to)                   *)
LEMMA SaveInDesign ==
  ASSUME IInv, SavesInv, NEW r \in Runs, WriteSave(r), ~ torn'
  PROVE  Design!Save
<1> DEFINE s == state[r]
           p == at[r]
           w == why[r]
<1>0. /\ pc[r] = "writing" /\ r \in current /\ torn = FALSE /\ torn' = FALSE
      /\ disk' = Numbered(s) /\ s \in State /\ disk \in State /\ Coherent(disk) /\ w \in Whys
  <2>1. FileTypes /\ RunTypes /\ PlanInv
    BY DEF IInv
  <2>2. pc[r] = "writing" /\ ~ torn /\ disk' = Numbered(s)
    BY DEF WriteSave
  <2>3. torn = FALSE /\ torn' = FALSE
    BY <2>1, <2>2 DEF FileTypes, WriteSave
  <2> QED  BY <2>1, <2>2, <2>3, PartTypes DEF PlanInv, Behind, RunTypes
<1>1. /\ disk'.art = s.art /\ disk'.notes = s.notes /\ disk'.tests = s.tests
      /\ disk'.task = s.task /\ disk'.gen = s.gen + 1
  BY <1>0 DEF Numbered, State
<1>2. Moves(disk, s, w, p) /\ s.task \in Tasks /\ Said(disk) /\ Said(s)
  BY <1>0, KnownFacts DEF Knows, Busy
<1>3. s.gen = disk.gen /\ disk.gen \in Nat /\ (disk.gen > 0 => <<disk.task, s.task>> \in Alike)
  BY <1>0, WorkflowConstants DEF IInv, PlanInv, Follows, State
<1>4. \A x : SaysOf(disk)' = x <=> SaysOf(s) = x
  BY <1>1 DEF SaysOf
<1>5. \A x : ApprovedOf(disk)' = x <=> ApprovedOf(s) = x
  BY <1>1 DEF ApprovedOf, Approved
<1> DEFINE task == IF disk.gen = 0 THEN NoTask ELSE disk.task
<1>6. task' \in Tasks /\ (task = NoTask \/ <<task, task'>> \in Alike)
  BY <1>1, <1>2, <1>3
<1> HIDE DEF s, p, w
<1>7. \/ UNCHANGED <<SaysOf(disk), ApprovedOf(disk), disk.notes, disk.tests>>
      \/ \E q \in Phases, text \in Text : Design!Draft(q, text) \/ Design!Accept(q, text)
      \/ \E q \in Phases : \E target \in Phases : Design!SendBack(q, target)
      \/ \E text \in Plans : Design!Take(text)
      \/ Design!Freeze
  <2>1. CASE w = "draft"
    <3>1. /\ Drafting(disk, s, p) /\ p \in Phases
          /\ disk'.notes = disk.notes /\ disk'.tests = disk.tests
      BY <1>1, <1>2, <2>1 DEF Moves, Drafting, OnDraft, s
    <3>2. ApprovedOf(disk)' = ApprovedOf(disk)
      BY <1>0, <1>2, <1>5, <3>1, DraftInDesign
    <3>3. CASE SaysOf(s) = SaysOf(disk)
      BY <1>4, <3>1, <3>2, <3>3
    <3>4. CASE ~ (SaysOf(s) = SaysOf(disk))
      <4>1. DueIn(disk, p) /\ SaysOf(disk)[p] = NoText
        BY <1>0, <1>2, <3>1, <3>4, DraftInDesign
      <4>2. PICK x \in Text : SaysOf(s) = [SaysOf(disk) EXCEPT ![p] = x]
        BY <1>0, <1>2, <3>1, <3>4, DraftInDesign
      <4>3. SaysOf(disk)' = [SaysOf(disk) EXCEPT ![p] = x]
        BY <1>4, <4>2
      <4>4. Design!Draft(p, x)
        BY <3>1, <3>2, <4>1, <4>3
           DEF Design!Draft, Design!Due, Design!Phase, Phases, SaysOf, ApprovedOf, DueIn, There
      <4> QED  BY <3>1, <4>4
    <3> QED  BY <3>3, <3>4
  <2>2. CASE w = "accept"
    <3>1. /\ Accepts(disk, s, p) /\ OnDraft(disk, p) /\ p \in Phases
          /\ disk'.notes = disk.notes \ {p} /\ disk'.tests = disk.tests
      BY <1>1, <1>2, <2>2 DEF Moves, Accepts, OnDraft, s
    <3>2. DueIn(disk, p) /\ SaysOf(disk)[p] # NoText
      BY <1>0, <1>2, <3>1, DraftIsDue
    <3>3. PICK x \in Text : SaysOf(s) = [SaysOf(disk) EXCEPT ![p] = x]
      BY <1>0, <1>2, <3>1, AcceptInDesign
    <3>4. /\ SaysOf(disk)' = [SaysOf(disk) EXCEPT ![p] = x]
          /\ ApprovedOf(disk)' = ApprovedOf(disk) \cup {p}
      BY <1>0, <1>2, <1>4, <1>5, <3>1, <3>3, AcceptInDesign
    <3>5. Design!Accept(p, x)
      BY <3>1, <3>2, <3>4
         DEF Design!Accept, Design!UnderReview, Design!Due, Design!Phase, Phases, SaysOf, ApprovedOf,
             DueIn, There
    <3> QED  BY <3>1, <3>5
  <2>3. CASE w = "back"
    <3>1. SendsBack(disk, s, p) /\ OnDraft(disk, p) /\ p \in Phases
      BY <1>2, <2>3 DEF Moves, SendsBack, OnDraft
    <3>2. DueIn(disk, p) /\ SaysOf(disk)[p] # NoText
      BY <1>0, <1>2, <3>1, DraftIsDue
    <3>3. PICK target \in Phases :
            /\ target <= p
            /\ \A q \in Phases : s.art[q] = IF q < target THEN disk.art[q] ELSE NoArtifact
            /\ s.notes \in {disk.notes, disk.notes \cup {target}}
            /\ s.tests = IF target <= Breakdown THEN NoText ELSE disk.tests
      BY <3>1 DEF SendsBack
    <3>4. /\ SaysOf(disk)' = [q \in Phases |-> IF q < target THEN SaysOf(disk)[q] ELSE NoText]
          /\ ApprovedOf(disk)' = {q \in ApprovedOf(disk) : q < target}
      BY <1>0, <1>4, <1>5, <3>3, BackInDesign
    <3>5. target \in 1 .. p
      BY <3>1, <3>3 DEF Phases
    <3>6. /\ disk'.notes \in {disk.notes, disk.notes \cup {target}}
          /\ disk'.tests = IF target <= Breakdown THEN NoText ELSE disk.tests
      BY <1>1, <3>3 DEF s
    <3>7. Design!SendBack(p, target)
      BY <3>2, <3>4, <3>5, <3>6
         DEF Design!SendBack, Design!UnderReview, Design!Due, Design!Phase, Phases, SaysOf, ApprovedOf,
             DueIn, There
    <3> QED  BY <3>1, <3>7
  <2>4. CASE w = "seed"
    <3>1. Takes(disk, s) /\ disk'.notes = disk.notes \ {1} /\ disk'.tests = disk.tests
      BY <1>1, <1>2, <2>4 DEF Moves, Takes, Specs, s
    <3>2. PICK x \in Plans :
            SaysOf(s) = [q \in Phases |-> IF q = 1 THEN x
                                         ELSE IF q \in ApprovedOf(disk) THEN SaysOf(disk)[q] ELSE NoText]
      BY <1>0, <3>1, TakeInDesign
    <3>3. /\ SaysOf(disk)' = [q \in Phases |-> IF q = 1 THEN x
                                              ELSE IF q \in ApprovedOf(disk) THEN SaysOf(disk)[q] ELSE NoText]
          /\ ApprovedOf(disk)' = ApprovedOf(disk) \cup {1}
      BY <1>0, <1>4, <1>5, <3>1, <3>2, TakeInDesign
    <3>4. Design!Take(x)
      BY <3>1, <3>3 DEF Design!Take, Design!Phase, Phases, SaysOf, ApprovedOf, There
    <3> QED  BY <3>4
  <2>5. CASE w = "tests"
    <3>1. /\ Approved(disk, Breakdown) /\ Clean(disk) /\ disk.tests = NoText
          /\ s.art = disk.art /\ disk'.notes = disk.notes /\ disk'.tests = disk.art[Breakdown].text
      BY <1>1, <1>2, <2>5 DEF Moves, Freezes, s
    <3>2. SaysOf(disk)' = SaysOf(disk) /\ ApprovedOf(disk)' = ApprovedOf(disk)
      <4>1. SaysOf(s) = SaysOf(disk) /\ ApprovedOf(s) = ApprovedOf(disk)
        BY <3>1 DEF SaysOf, ApprovedOf, Approved
      <4> QED  BY <1>4, <1>5, <4>1
    <3>3. Breakdown \in ApprovedOf(disk) /\ disk'.tests = SaysOf(disk)[Breakdown]
      BY <3>1, PhasesFacts DEF SaysOf, ApprovedOf, Approved
    <3>4. \A q \in Phases : q \in ApprovedOf(disk) \/ SaysOf(disk)[q] = NoText
      BY <3>1, NothingIsArtifact DEF Clean, SaysOf, ApprovedOf
    <3>5. Design!Freeze
      BY <3>1, <3>2, <3>3, <3>4
         DEF Design!Freeze, Design!UnderReview, Design!Due, Design!Phase, Phases, SaysOf, ApprovedOf, There
    <3> QED  BY <3>5
  <2> QED  BY <1>0, <2>1, <2>2, <2>3, <2>4, <2>5 DEF Whys
<1> QED  BY <1>0, <1>6, <1>7 DEF Design!Save, Design!Phase, Phases, SaysOf, ApprovedOf, There

(* The steps of the system that are none of the design, and the others. *)
LEMMA DesignSteps ==
  ASSUME IInv, SavesInv, [Next]_vars
  PROVE  [Design!Next]_(Design!vars)
<1>1. CASE torn'
  BY <1>1 DEF Design!Next, Design!Overlap
<1>2. CASE ~ torn'
  <2>1. ASSUME NEW r \in Runs, WriteSave(r) PROVE Design!Next
    BY <1>2, <2>1, SaveInDesign DEF Design!Next
  <2>2. ASSUME ~ \E r \in Runs : WriteSave(r) PROVE UNCHANGED <<disk, torn>>
    BY <2>2 DEF Next, Leasing, Acquire, TakeLease, BeatReads, BeatWrites, DropReads, DropRemoves,
                Over, Crash, Planning, Answering, Load, Draft, WriteTests, Accept, SendBack, Abort,
                Tick, plan, vars
  <2>3. ASSUME UNCHANGED <<disk, torn>> PROVE UNCHANGED Design!vars
    BY <2>3 DEF Design!vars, There, Approved
  <2> QED  BY <2>1, <2>2, <2>3
<1> QED  BY <1>1, <1>2

(* The workflow implements the design: whichever runs save state.json, and  *)
(* wherever they are paused, killed or taken over from, it is a plan that   *)
(* is drafted, accepted and sent back phase by phase and passes among alike *)
(* tasks only, until two saves overlap. (drive.rs, state.rs)                *)
THEOREM WorkflowKeepsThePlan == Spec => ImplementsPlan
<1>1. ASSUME Init PROVE Design!Init
  <2>1. disk = New(NoTask) /\ torn = FALSE
    BY <1>1 DEF Init
  <2> QED
    BY <2>1, NothingIsArtifact DEF Design!Init, Design!Phase, Phases, New, There, Approved
<1> QED
  BY <1>1, Invariance, SavesContinue, DesignSteps, PTL DEF Spec, ImplementsPlan, Design!Spec

=============================================================================
