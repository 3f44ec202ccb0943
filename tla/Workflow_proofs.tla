--------------------------- MODULE Workflow_proofs ---------------------------
(***************************************************************************)
(* What the run of Workflow shows with two runs, three phases and five     *)
(* saves, proved for any numbers of them; and that it does not stop at the *)
(* first race, but holds of each file until that file's own first race.    *)
(***************************************************************************)
EXTENDS Workflow, WellFoundedInduction, TLAPS

------------------------------------------------------------------------------
(* Operators on a plan *)

(* What the constants say of the phases. *)
LEMMA PhasesFacts ==
  /\ Phases \subseteq Nat \ {0} /\ Specs \in Phases /\ Breakdown \in Phases
  /\ Breakdown # Specs /\ NoPhase \notin Phases
  /\ \A p \in Phases : p # Specs => p - 1 \in Phases
  /\ \A p \in Phases : \A q \in 1 .. p : q \in Phases
BY WorkflowConstants DEF Phases, Specs, NoPhase

(* A phase needs earlier ones only, so the specification needs none. *)
LEMMA NeedsFacts ==
  ASSUME NEW p \in Phases, NEW q \in Needs[p]
  PROVE  q \in Phases /\ q < p /\ Specs \in Phases /\ Specs < p
<1>1. q \in 1 .. p - 1 /\ p \in 1 .. Last /\ Last \in Nat
  BY WorkflowConstants DEF Phases
<1> QED  BY <1>1 DEF Phases, Specs

(* Some phases have a first. *)
LEMMA FirstIsFirst ==
  ASSUME NEW S \in SUBSET Phases, S # {}
  PROVE  First(S) \in S /\ \A q \in S : First(S) <= q
<1> DEFINE R == OpToRel(<, Nat)
<1>1. S \subseteq Nat
  BY PhasesFacts
<1>2. PICK p \in S : \A q \in S : <<q, p>> \notin R
  <2> HIDE DEF R
  <2>1. IsWellFoundedOn(R, Nat)
    BY NatLessThanWellFounded DEF R
  <2> QED  BY <1>1, <2>1, WFMin
<1>3. ASSUME NEW q \in S PROVE p <= q
  <2>1. ~ (q < p)
    BY <1>1, <1>2 DEF OpToRel
  <2> QED  BY <1>1, <2>1
<1> QED  BY <1>3 DEF First

(* No artifact is one, and nothing is drafted of a task not begun. *)
LEMMA NothingIsArtifact == NoArtifact \in Artifact /\ NoArtifact.status = "none"
BY DEF NoArtifact, Artifact

(* State::with_artifact changes one artifact. *)
LEMMA WithArtifactFields ==
  ASSUME NEW s \in State, NEW p \in Phases, NEW a \in Artifact
  PROVE  /\ WithArtifact(s, p, a) \in State
         /\ WithArtifact(s, p, a).task = s.task /\ WithArtifact(s, p, a).gen = s.gen
         /\ WithArtifact(s, p, a).tests = s.tests /\ WithArtifact(s, p, a).notes = s.notes
         /\ WithArtifact(s, p, a).art[p] = a
         /\ \A q \in Phases \ {p} : WithArtifact(s, p, a).art[q] = s.art[q]
BY DEF WithArtifact, State

(* State::approve changes what one artifact is, and drops its note. *)
LEMMA ApproveFields ==
  ASSUME NEW s \in State, NEW p \in Phases
  PROVE  /\ Approve(s, p) \in State
         /\ Approve(s, p).task = s.task /\ Approve(s, p).gen = s.gen
         /\ Approve(s, p).tests = s.tests /\ Approve(s, p).notes = s.notes \ {p}
         /\ Approve(s, p).art[p].text = s.art[p].text /\ Approve(s, p).art[p].on = s.art[p].on
         /\ s.art[p].status # "none" => Approved(Approve(s, p), p)
         /\ \A q \in Phases \ {p} : Approve(s, p).art[q] = s.art[q]
<1>1. /\ s.art \in [Phases -> Artifact] /\ s.art[p] \in Artifact /\ s.notes \subseteq Phases
      /\ s.art[p].status \in {"none", "draft", "approved"}
  BY DEF State, Artifact
<1> DEFINE a == [s.art[p] EXCEPT !.status = IF @ = "none" THEN @ ELSE "approved"]
<1>2. a \in Artifact /\ a.text = s.art[p].text /\ a.on = s.art[p].on
      /\ (s.art[p].status # "none" => a.status = "approved")
  BY <1>1 DEF Artifact
<1>3. Approve(s, p) = [s EXCEPT !.art = [s.art EXCEPT ![p] = a], !.notes = s.notes \ {p}]
  BY <1>1 DEF Approve, State
<1> HIDE DEF a
<1>4. [s.art EXCEPT ![p] = a] \in [Phases -> Artifact] /\ s.notes \ {p} \subseteq Phases
  BY <1>1, <1>2
<1>5. Approve(s, p) \in State
  BY <1>3, <1>4 DEF State
<1>6. /\ Approve(s, p).art = [s.art EXCEPT ![p] = a] /\ Approve(s, p).notes = s.notes \ {p}
      /\ Approve(s, p).task = s.task /\ Approve(s, p).gen = s.gen
      /\ Approve(s, p).tests = s.tests
  BY <1>3 DEF State
<1>7. Approve(s, p).art[p] = a /\ \A q \in Phases \ {p} : Approve(s, p).art[q] = s.art[q]
  BY <1>1, <1>6
<1> QED  BY <1>2, <1>5, <1>6, <1>7 DEF Approved

(* State::invalidate_from drops a phase and what was built on it. *)
LEMMA InvalidateFromFields ==
  ASSUME NEW s \in State, NEW p \in Phases
  PROVE  /\ InvalidateFrom(s, p) \in State
         /\ InvalidateFrom(s, p).task = s.task /\ InvalidateFrom(s, p).gen = s.gen
         /\ InvalidateFrom(s, p).tests = s.tests /\ InvalidateFrom(s, p).notes = s.notes
         /\ \A q \in Phases : InvalidateFrom(s, p).art[q] = IF q < p THEN s.art[q] ELSE NoArtifact
BY NothingIsArtifact DEF InvalidateFrom, State

(* What a run resumes with. *)
LEMMA ResumedFields ==
  ASSUME NEW s \in State, NEW task \in Tasks
  PROVE  /\ Resumed(s, task) \in State
         /\ Resumed(s, task).task = task /\ Resumed(s, task).gen = s.gen
         /\ Resumed(s, task).tests = s.tests /\ Resumed(s, task).notes = s.notes
         /\ \A q \in Phases :
              Resumed(s, task).art[q] = IF Approved(s, q) THEN s.art[q] ELSE NoArtifact
BY NothingIsArtifact DEF Resumed, State

------------------------------------------------------------------------------
(* Plans that cohere *)

(* PlanCoherent, of any state; and a plan with nothing under review.        *)
Chain(s) == \A p \in Phases : \A q \in 1 .. p - 1 : s.art[p] # NoArtifact => Approved(s, q)
OnSpec(s, p, a) ==
  \A q \in Needs[p] : a.on[q] = s.art[q].text \/ (q = Specs /\ Seeded(s))
Grounded(s) == \A p \in Phases : s.art[p] # NoArtifact => OnSpec(s, p, s.art[p])
Tested(s) ==
  s.tests # NoText => Approved(s, Breakdown) /\ s.tests = s.art[Breakdown].text
Coherent(s) == Chain(s) /\ Grounded(s) /\ Tested(s)
Clean(s) == \A p \in Phases : Approved(s, p) \/ s.art[p] = NoArtifact

(* What was generated from what the earlier phases say goes on being so     *)
(* while they stay.                                                         *)
LEMMA OnSpecKeeps ==
  ASSUME NEW s, NEW t, NEW p \in Phases, NEW a, OnSpec(s, p, a),
         \A q \in Phases : q < p => t.art[q] = s.art[q]
  PROVE  OnSpec(t, p, a)
<1> SUFFICES ASSUME NEW q \in Needs[p]
             PROVE  a.on[q] = t.art[q].text \/ (q = Specs /\ Seeded(t))
  BY DEF OnSpec
<1>1. t.art[q] = s.art[q] /\ t.art[Specs] = s.art[Specs]
  BY NeedsFacts
<1> QED  BY <1>1 DEF OnSpec, Seeded

(* It does when the specification becomes a plan file's. *)
LEMMA OnSpecSeeded ==
  ASSUME NEW s, NEW t, NEW p \in Phases, NEW a, OnSpec(s, p, a), Seeded(t),
         \A q \in Phases \ {Specs} : t.art[q] = s.art[q]
  PROVE  OnSpec(t, p, a)
BY NeedsFacts DEF OnSpec

(* What follows a phase that is not approved is not there. *)
LEMMA NothingAfter ==
  ASSUME NEW s \in State, Chain(s), NEW p \in Phases, ~ Approved(s, p),
         NEW q \in Phases, p < q
  PROVE  s.art[q] = NoArtifact
<1>1. p \in 1 .. q - 1
  BY PhasesFacts
<1> QED  BY <1>1 DEF Chain

(* What comes before one that is there is approved. *)
LEMMA ApprovedBefore ==
  ASSUME NEW s \in State, Chain(s), NEW p \in Phases, s.art[p] # NoArtifact,
         NEW q \in Phases, q < p
  PROVE  Approved(s, q)
<1>1. q \in 1 .. p - 1
  BY PhasesFacts
<1> QED  BY <1>1 DEF Chain

(* No artifact is not approved. *)
LEMMA ApprovedIsThere ==
  ASSUME NEW s \in State, NEW p \in Phases, Approved(s, p) PROVE s.art[p] # NoArtifact
BY NothingIsArtifact DEF Approved, NoArtifact

(* What a run resumes with coheres, and holds nothing under review. *)
LEMMA ResumedCoheres ==
  ASSUME NEW s \in State, Coherent(s), NEW task \in Tasks
  PROVE  Coherent(Resumed(s, task)) /\ Clean(Resumed(s, task))
<1> DEFINE t == Resumed(s, task)
<1>1. \A q \in Phases : t.art[q] = IF Approved(s, q) THEN s.art[q] ELSE NoArtifact
  BY ResumedFields
<1>2. t.tests = s.tests
  BY ResumedFields
<1> HIDE DEF t
<1>3. \A q \in Phases : Approved(t, q) <=> Approved(s, q)
  BY <1>1 DEF Approved, NoArtifact
<1>4. Chain(t)
  BY <1>1, <1>3, PhasesFacts, ApprovedIsThere, ApprovedBefore DEF Chain, Coherent
<1>5. Grounded(t)
  <2>1. SUFFICES ASSUME NEW p \in Phases, t.art[p] # NoArtifact
                 PROVE  OnSpec(t, p, t.art[p])
    BY DEF Grounded
  <2>2. Approved(s, p) /\ t.art[p] = s.art[p] /\ s.art[p] # NoArtifact
    BY <1>1, <2>1, ApprovedIsThere
  <2>3. \A q \in Phases : q < p => t.art[q] = s.art[q]
    BY <1>1, <2>2, ApprovedBefore DEF Coherent
  <2>4. OnSpec(s, p, s.art[p])
    BY <2>2 DEF Coherent, Grounded
  <2> QED  BY <2>2, <2>3, <2>4, OnSpecKeeps
<1>6. Tested(t)
  BY <1>1, <1>2, <1>3, PhasesFacts DEF Coherent, Tested
<1>7. Clean(t)
  BY <1>1, <1>3 DEF Clean
<1> QED  BY <1>4, <1>5, <1>6, <1>7 DEF Coherent, t

(* A specification taken from a plan file leaves what was built on it. *)
LEMMA SeedCoheres ==
  ASSUME NEW s \in State, Coherent(s), Clean(s), NEW text \in Text
  PROVE  LET seed == [status |-> "draft", text |-> text, on |-> [q \in Phases |-> text]]
             t == Approve(WithArtifact(s, Specs, seed), Specs)
         IN /\ t \in State /\ t.task = s.task /\ t.gen = s.gen /\ t.notes = s.notes \ {Specs}
            /\ \A q \in Phases \ {Specs} : t.art[q] = s.art[q]
            /\ Approved(t, Specs) /\ Seeded(t) /\ Coherent(t) /\ Clean(t)
            /\ t.art[Specs].text = text /\ t.tests = s.tests
<1> DEFINE seed == [status |-> "draft", text |-> text, on |-> [q \in Phases |-> text]]
           u == WithArtifact(s, Specs, seed)
           t == Approve(u, Specs)
<1>0. Specs \in Phases
  BY PhasesFacts
<1>1. seed \in Artifact
  BY DEF Artifact
<1>2. /\ u \in State /\ u.task = s.task /\ u.gen = s.gen /\ u.tests = s.tests /\ u.notes = s.notes
      /\ u.art[Specs] = seed /\ \A q \in Phases \ {Specs} : u.art[q] = s.art[q]
  BY <1>0, <1>1, WithArtifactFields
<1>3. u.art[Specs].status # "none" /\ u.art[Specs].text = text /\ u.art[Specs].on[Specs] = text
  BY <1>0, <1>2
<1> HIDE DEF u
<1>4. /\ t \in State /\ t.task = s.task /\ t.gen = s.gen /\ t.tests = s.tests
      /\ t.notes = s.notes \ {Specs}
      /\ \A q \in Phases \ {Specs} : t.art[q] = s.art[q]
      /\ Approved(t, Specs) /\ t.art[Specs].text = text /\ t.art[Specs].on[Specs] = text
  BY <1>0, <1>2, <1>3, ApproveFields
<1> HIDE DEF t
<1>5. Seeded(t)
  BY <1>4, WorkflowConstants DEF Seeded
<1>6. \A q \in Phases : Approved(s, q) => Approved(t, q)
  BY <1>4 DEF Approved
<1>7. Chain(t)
  <2>1. SUFFICES ASSUME NEW p \in Phases, NEW q \in 1 .. p - 1, t.art[p] # NoArtifact
                 PROVE  Approved(t, q)
    BY DEF Chain
  <2>2. p # Specs /\ q \in Phases /\ q < p
    BY PhasesFacts DEF Specs
  <2> QED  BY <1>4, <1>6, <2>1, <2>2, ApprovedBefore DEF Coherent
<1>8. Grounded(t)
  <2>1. SUFFICES ASSUME NEW p \in Phases, t.art[p] # NoArtifact
                 PROVE  OnSpec(t, p, t.art[p])
    BY DEF Grounded
  <2>2. CASE p = Specs
    BY <2>2, NeedsFacts DEF OnSpec, Specs
  <2>3. CASE p # Specs
    <3>1. OnSpec(s, p, t.art[p])
      BY <1>4, <2>1, <2>3 DEF Coherent, Grounded
    <3> QED  BY <1>4, <1>5, <3>1, OnSpecSeeded
  <2> QED  BY <2>2, <2>3
<1>9. Tested(t)
  BY <1>4, <1>6, PhasesFacts DEF Coherent, Tested
<1>10. Clean(t)
  BY <1>4, <1>6 DEF Clean
<1> QED  BY <1>4, <1>5, <1>7, <1>8, <1>9, <1>10 DEF Coherent, t, u

(* A draft of the first phase that is not approved. *)
LEMMA DraftCoheres ==
  ASSUME NEW s \in State, Coherent(s), NEW p \in Phases, ~ Approved(s, p),
         \A q \in Phases : q < p => Approved(s, q),
         NEW a \in Artifact, OnSpec(s, p, a)
  PROVE  Coherent(WithArtifact(s, p, a))
<1> DEFINE t == WithArtifact(s, p, a)
<1>1. t.tests = s.tests /\ t.art[p] = a /\ \A q \in Phases \ {p} : t.art[q] = s.art[q]
  BY WithArtifactFields
<1> HIDE DEF t
<1>2. \A q \in Phases : p < q => t.art[q] = NoArtifact
  <2>1. SUFFICES ASSUME NEW q \in Phases, p < q PROVE t.art[q] = NoArtifact
    OBVIOUS
  <2>2. s.art[q] = NoArtifact /\ q # p
    BY <2>1, NothingAfter, PhasesFacts DEF Coherent
  <2> QED  BY <1>1, <2>2
<1>3. \A q \in Phases : q < p => Approved(t, q) /\ t.art[q] = s.art[q]
  <2>1. SUFFICES ASSUME NEW q \in Phases, q < p PROVE Approved(t, q) /\ t.art[q] = s.art[q]
    OBVIOUS
  <2>2. q # p
    BY <2>1, PhasesFacts
  <2> QED  BY <1>1, <2>1, <2>2 DEF Approved
<1>4. Chain(t)
  <2>1. SUFFICES ASSUME NEW k \in Phases, NEW q \in 1 .. k - 1, t.art[k] # NoArtifact
                 PROVE  Approved(t, q)
    BY DEF Chain
  <2>2. q \in Phases /\ q < k /\ ~ (p < k)
    BY <1>2, <2>1, PhasesFacts
  <2>3. q < p
    BY <2>2, PhasesFacts
  <2> QED  BY <1>3, <2>2, <2>3
<1>5. Grounded(t)
  <2>1. SUFFICES ASSUME NEW k \in Phases, t.art[k] # NoArtifact
                 PROVE  OnSpec(t, k, t.art[k])
    BY DEF Grounded
  <2>2. ~ (p < k)
    BY <1>2, <2>1
  <2>3. \A q \in Phases : q < k => t.art[q] = s.art[q]
    BY <1>3, <2>2, PhasesFacts
  <2>4. OnSpec(s, k, t.art[k])
    BY <1>1, <2>1 DEF Coherent, Grounded
  <2> QED  BY <2>3, <2>4, OnSpecKeeps
<1>6. Tested(t)
  <2>1. SUFFICES ASSUME s.tests # NoText
                 PROVE  Approved(t, Breakdown) /\ s.tests = t.art[Breakdown].text
    BY <1>1 DEF Tested
  <2>2. Approved(s, Breakdown) /\ s.tests = s.art[Breakdown].text /\ Breakdown \in Phases
    BY <2>1, PhasesFacts DEF Coherent, Tested
  <2>3. Breakdown # p
    BY <2>2
  <2> QED  BY <1>1, <2>2, <2>3 DEF Approved
<1> QED  BY <1>4, <1>5, <1>6 DEF Coherent, t

(* An edited draft. *)
LEMMA EditCoheres ==
  ASSUME NEW s \in State, Coherent(s), NEW p \in Phases, s.art[p].status = "draft",
         NEW text \in Text
  PROVE  LET a == [s.art[p] EXCEPT !.status = "draft", !.text = text]
         IN /\ a \in Artifact /\ a.status = "draft"
            /\ Coherent(WithArtifact(s, p, a))
<1> DEFINE a == [s.art[p] EXCEPT !.status = "draft", !.text = text]
<1>1. s.art[p] \in Artifact
  BY DEF State
<1>2. a \in Artifact /\ a.status = "draft" /\ a.on = s.art[p].on
  BY <1>1 DEF Artifact
<1>3. s.art[p] # NoArtifact /\ ~ Approved(s, p)
  BY DEF Approved, NoArtifact
<1> HIDE DEF a
<1>4. \A q \in Phases : q < p => Approved(s, q)
  BY <1>3, ApprovedBefore DEF Coherent
<1>5. OnSpec(s, p, a)
  BY <1>2, <1>3 DEF Coherent, Grounded, OnSpec
<1>6. Coherent(WithArtifact(s, p, a))
  BY <1>2, <1>3, <1>4, <1>5, DraftCoheres
<1> QED  BY <1>2, <1>6 DEF a

(* An approved draft, after which nothing is under review. *)
LEMMA ApproveCoheres ==
  ASSUME NEW s \in State, Coherent(s), NEW p \in Phases, s.art[p].status = "draft"
  PROVE  Coherent(Approve(s, p)) /\ Clean(Approve(s, p)) /\ Approved(Approve(s, p), p)
<1> DEFINE t == Approve(s, p)
<1>1. /\ t.tests = s.tests /\ t.art[p].text = s.art[p].text /\ t.art[p].on = s.art[p].on
      /\ Approved(t, p) /\ \A q \in Phases \ {p} : t.art[q] = s.art[q]
  BY ApproveFields
<1> HIDE DEF t
<1>2. s.art[p] # NoArtifact /\ ~ Approved(s, p)
  BY DEF Approved, NoArtifact
<1>3. \A q \in Phases : Approved(s, q) => Approved(t, q)
  BY <1>1 DEF Approved
<1>4. \A q \in Phases : t.art[q] # NoArtifact => s.art[q] # NoArtifact
  BY <1>1, <1>2
<1>5. \A q \in Phases : p < q => t.art[q] = NoArtifact
  <2>1. SUFFICES ASSUME NEW q \in Phases, p < q PROVE t.art[q] = NoArtifact
    OBVIOUS
  <2>2. s.art[q] = NoArtifact /\ q # p
    BY <1>2, <2>1, NothingAfter, PhasesFacts DEF Coherent
  <2> QED  BY <1>1, <2>2
<1>6. Chain(t)
  <2>1. SUFFICES ASSUME NEW k \in Phases, NEW q \in 1 .. k - 1, t.art[k] # NoArtifact
                 PROVE  Approved(t, q)
    BY DEF Chain
  <2>2. q \in Phases /\ q < k /\ s.art[k] # NoArtifact
    BY <1>4, <2>1, PhasesFacts
  <2>3. Approved(s, q)
    BY <2>2, ApprovedBefore DEF Coherent
  <2> QED  BY <1>3, <2>2, <2>3
<1>7. Grounded(t)
  <2>1. SUFFICES ASSUME NEW k \in Phases, t.art[k] # NoArtifact
                 PROVE  OnSpec(t, k, t.art[k])
    BY DEF Grounded
  <2>2. ~ (p < k)
    BY <1>5, <2>1
  <2>3. \A q \in Phases : q < k => t.art[q] = s.art[q]
    BY <1>1, <2>2, PhasesFacts
  <2>4. OnSpec(s, k, s.art[k]) /\ t.art[k].on = s.art[k].on
    BY <1>1, <1>4, <2>1 DEF Coherent, Grounded
  <2>5. OnSpec(s, k, t.art[k])
    BY <2>4 DEF OnSpec
  <2> QED  BY <2>3, <2>5, OnSpecKeeps
<1>8. Tested(t)
  <2>1. t.art[Breakdown].text = s.art[Breakdown].text
    BY <1>1, PhasesFacts
  <2> QED  BY <1>1, <1>3, <2>1, PhasesFacts DEF Coherent, Tested
<1>9. Clean(t)
  <2>1. SUFFICES ASSUME NEW q \in Phases PROVE Approved(t, q) \/ t.art[q] = NoArtifact
    BY DEF Clean
  <2>2. CASE q = p
    BY <1>1, <2>2
  <2>3. CASE q < p
    BY <1>2, <1>3, <2>3, ApprovedBefore DEF Coherent
  <2>4. CASE p < q
    BY <1>5, <2>4
  <2> QED  BY <2>2, <2>3, <2>4, PhasesFacts
<1> QED  BY <1>1, <1>6, <1>7, <1>8, <1>9 DEF Coherent, t

(* What a send-back leaves: the state it makes of another. *)
Back(s, target, noted) ==
  [InvalidateFrom(s, target) EXCEPT
     !.notes = IF noted THEN @ \cup {target} ELSE @,
     !.tests = IF target <= Breakdown THEN NoText ELSE @]

(* What is sent back is gone, with all that was built on it. *)
LEMMA BackFields ==
  ASSUME NEW s \in State, NEW target \in Phases, NEW noted \in BOOLEAN
  PROVE  /\ Back(s, target, noted) \in State
         /\ Back(s, target, noted).task = s.task /\ Back(s, target, noted).gen = s.gen
         /\ s.notes \subseteq Back(s, target, noted).notes
         /\ Back(s, target, noted).notes \in {s.notes, s.notes \cup {target}}
         /\ Back(s, target, noted).tests = IF target <= Breakdown THEN NoText ELSE s.tests
         /\ \A q \in Phases :
              Back(s, target, noted).art[q] = IF q < target THEN s.art[q] ELSE NoArtifact
<1> DEFINE u == InvalidateFrom(s, target)
           t == Back(s, target, noted)
<1>1. /\ u \in State /\ u.task = s.task /\ u.gen = s.gen /\ u.tests = s.tests /\ u.notes = s.notes
      /\ \A q \in Phases : u.art[q] = IF q < target THEN s.art[q] ELSE NoArtifact
  BY InvalidateFromFields
<1>2. t = [u EXCEPT !.notes = IF noted THEN @ \cup {target} ELSE @,
                    !.tests = IF target <= Breakdown THEN NoText ELSE @]
  BY DEF Back
<1> HIDE DEF u, t
<1>3. t \in State
  BY <1>1, <1>2 DEF State
<1>4. /\ t.art = u.art /\ t.task = u.task /\ t.gen = u.gen
      /\ t.tests = IF target <= Breakdown THEN NoText ELSE u.tests
      /\ u.notes \subseteq t.notes /\ t.notes \in {u.notes, u.notes \cup {target}}
  BY <1>1, <1>2 DEF State
<1> QED  BY <1>1, <1>3, <1>4 DEF t

(* A plan sent back from a phase under review to that one or an earlier.    *)
LEMMA BackCoheres ==
  ASSUME NEW s \in State, Coherent(s), NEW p \in Phases, s.art[p].status = "draft",
         NEW target \in Phases, target <= p, NEW noted \in BOOLEAN
  PROVE  Coherent(Back(s, target, noted)) /\ Clean(Back(s, target, noted))
<1> DEFINE t == Back(s, target, noted)
<1>1. /\ t.tests = IF target <= Breakdown THEN NoText ELSE s.tests
      /\ \A q \in Phases : t.art[q] = IF q < target THEN s.art[q] ELSE NoArtifact
  BY BackFields
<1> HIDE DEF t
<1>2. s.art[p] # NoArtifact
  BY DEF NoArtifact
<1>3. \A q \in Phases : q < target => Approved(s, q)
  <2>1. SUFFICES ASSUME NEW q \in Phases, q < target PROVE Approved(s, q)
    OBVIOUS
  <2>2. q < p
    BY <2>1, PhasesFacts
  <2> QED  BY <1>2, <2>2, ApprovedBefore DEF Coherent
<1>4. \A q \in Phases : q < target => Approved(t, q)
  BY <1>1, <1>3 DEF Approved
<1>5. Clean(t)
  BY <1>1, <1>4 DEF Clean
<1>6. Chain(t)
  <2>1. SUFFICES ASSUME NEW k \in Phases, NEW q \in 1 .. k - 1, t.art[k] # NoArtifact
                 PROVE  Approved(t, q)
    BY DEF Chain
  <2>2. q \in Phases /\ q < k /\ k < target
    BY <1>1, <2>1, PhasesFacts
  <2>3. q < target
    BY <2>2, PhasesFacts
  <2> QED  BY <1>4, <2>2, <2>3
<1>7. Grounded(t)
  <2>1. SUFFICES ASSUME NEW k \in Phases, t.art[k] # NoArtifact
                 PROVE  OnSpec(t, k, t.art[k])
    BY DEF Grounded
  <2>2. k < target
    BY <1>1, <2>1
  <2>3. \A q \in Phases : q < k => t.art[q] = s.art[q]
    BY <1>1, <2>2, PhasesFacts
  <2>4. OnSpec(s, k, t.art[k])
    BY <1>1, <2>1, <2>2 DEF Coherent, Grounded
  <2> QED  BY <2>3, <2>4, OnSpecKeeps
<1>8. Tested(t)
  <2>1. CASE target <= Breakdown
    BY <1>1, <2>1 DEF Tested
  <2>2. CASE ~ (target <= Breakdown)
    <3>1. Breakdown < target /\ Breakdown \in Phases
      BY <2>2, PhasesFacts
    <3> QED  BY <1>1, <1>4, <2>2, <3>1 DEF Tested, Coherent
  <2> QED  BY <2>1, <2>2
<1> QED  BY <1>5, <1>6, <1>7, <1>8 DEF Coherent, t

(* Tests written from an approved breakdown. *)
LEMMA TestsCohere ==
  ASSUME NEW s \in State, Coherent(s), Approved(s, Breakdown)
  PROVE  LET t == [s EXCEPT !.tests = s.art[Breakdown].text]
         IN /\ t \in State /\ Coherent(t) /\ t.art = s.art
            /\ t.task = s.task /\ t.gen = s.gen /\ t.notes = s.notes
<1> DEFINE t == [s EXCEPT !.tests = s.art[Breakdown].text]
<1>1. s.art[Breakdown] \in Artifact
  BY PhasesFacts DEF State
<1>2. /\ t \in State /\ t.art = s.art /\ t.task = s.task /\ t.gen = s.gen
      /\ t.notes = s.notes /\ t.tests = s.art[Breakdown].text
  BY <1>1 DEF State, Artifact
<1> HIDE DEF t
<1>3. Coherent(t)
  BY <1>2 DEF Coherent, Chain, Grounded, Tested, OnSpec, Seeded, Approved
<1> QED  BY <1>2, <1>3 DEF t

(* A plan that coheres has one draft at most. *)
LEMMA OneDraft ==
  ASSUME NEW s \in State, Coherent(s), NEW p \in Drafts(s), NEW q \in Drafts(s) PROVE p = q
<1>1. /\ p \in Phases /\ q \in Phases /\ s.art[p] # NoArtifact /\ s.art[q] # NoArtifact
      /\ ~ Approved(s, p) /\ ~ Approved(s, q)
  BY DEF Drafts, Approved, NoArtifact
<1>2. ~ (p < q) /\ ~ (q < p)
  BY <1>1, NothingAfter DEF Coherent
<1> QED  BY <1>1, <1>2, PhasesFacts

(* What a run has pending is the one draft there is, grounded on what it    *)
(* resumes with. (pending_draft)                                            *)
LEMMA PendingFacts ==
  ASSUME NEW s \in State, Coherent(s), NEW task \in Tasks
  PROVE  LET d == PendingDraft(s)
             t == Resumed(s, task)
         IN /\ d \in [phase : Phases \cup {NoPhase}, art : Artifact]
            /\ Drafts(s) # {} => /\ d.phase \in Phases /\ d.phase \in Drafts(s)
                                 /\ d.art = s.art[d.phase]
                                 /\ \A q \in Drafts(s) : q = d.phase
            /\ d.phase # NoPhase => /\ d.phase \in Phases /\ d.art.status = "draft"
                                    /\ OnSpec(t, d.phase, d.art)
<1> DEFINE d == PendingDraft(s)
           t == Resumed(s, task)
<1>0. NoDraft \in [phase : Phases \cup {NoPhase}, art : Artifact] /\ NoDraft.phase = NoPhase
  BY NothingIsArtifact DEF NoDraft
<1>1. CASE Drafts(s) = {}
  BY <1>0, <1>1 DEF PendingDraft
<1>2. CASE Drafts(s) # {}
  <2> DEFINE f == First(Drafts(s))
  <2>1. f \in Drafts(s) /\ \A q \in Drafts(s) : f <= q
    BY <1>2, FirstIsFirst DEF Drafts
  <2> HIDE DEF f
  <2>2. f \in Phases /\ s.art[f].status = "draft" /\ s.art[f] \in Artifact
    BY <2>1 DEF Drafts, State
  <2>3. d = [phase |-> f, art |-> s.art[f]]
    BY <1>2 DEF PendingDraft, f
  <2> HIDE DEF d
  <2>4. d.phase = f /\ d.art = s.art[f] /\ d \in [phase : Phases \cup {NoPhase}, art : Artifact]
    BY <2>2, <2>3
  <2>5. ~ Approved(s, f) /\ s.art[f] # NoArtifact
    BY <2>2 DEF Approved, NoArtifact
  <2>6. \A q \in Drafts(s) : q = f
    BY <2>1, OneDraft
  <2>7. OnSpec(t, f, s.art[f])
    <3>1. \A q \in Phases : q < f => t.art[q] = s.art[q]
      BY <2>2, <2>5, ApprovedBefore, ResumedFields DEF Coherent
    <3>2. OnSpec(s, f, s.art[f])
      BY <2>2, <2>5 DEF Coherent, Grounded
    <3> HIDE DEF t
    <3> QED  BY <2>2, <3>1, <3>2, OnSpecKeeps
  <2>8. \A q \in Drafts(s) : q = d.phase
    BY <2>4, <2>6
  <2> QED  BY <2>1, <2>2, <2>4, <2>7, <2>8 DEF d
<1> QED  BY <1>1, <1>2

(* The phase drafted next is not approved, and those before it are.         *)
(* (next_phase) *)
LEMMA NextFacts ==
  ASSUME NEW s \in State, NextPhase(s) # NoPhase
  PROVE  /\ NextPhase(s) \in Phases /\ ~ Approved(s, NextPhase(s))
         /\ \A q \in Phases : q < NextPhase(s) => Approved(s, q)
<1>1. Open(s) # {} /\ Open(s) \in SUBSET Phases /\ NextPhase(s) = First(Open(s))
  BY DEF NextPhase, Open
<1>2. First(Open(s)) \in Open(s) /\ \A q \in Open(s) : First(Open(s)) <= q
  BY <1>1, FirstIsFirst
<1>3. ASSUME NEW q \in Phases, q < NextPhase(s), ~ Approved(s, q) PROVE FALSE
  <2>1. q \in Open(s)
    BY <1>3 DEF Open
  <2>2. NextPhase(s) <= q /\ NextPhase(s) \in Phases
    BY <1>1, <1>2, <2>1
  <2>3. q \in Nat /\ NextPhase(s) \in Nat
    BY <2>2, PhasesFacts
  <2> QED  BY <1>3, <2>2, <2>3
<1> QED  BY <1>1, <1>2, <1>3 DEF Open

------------------------------------------------------------------------------
(* Types *)

Whys == {"seed", "draft", "accept", "back", "tests"}
Held == [phase : Phases \cup {NoPhase}, art : Artifact]

FileTypes ==
  /\ lease \in Lease /\ since \in [Runs -> Ages] /\ beating \subseteq Runs
  /\ raced \in BOOLEAN /\ torn \in BOOLEAN /\ current \subseteq Runs
RunTypes ==
  /\ disk \in State
  /\ pc \in [Runs -> Places] /\ mode \in [Runs -> Mode] /\ state \in [Runs -> State]
  /\ draft \in [Runs -> Held] /\ at \in [Runs -> Phases \cup {NoPhase}]
  /\ why \in [Runs -> Whys]

(* A run is let past save_to's comparison only while saves are to be had,   *)
(* and is at its gate with a draft of the phase it is at.                   *)
OnDraft(s, p) == p \in Phases /\ s.art[p].status = "draft"
Good(place, s, w, p, d) ==
  /\ Coherent(s)
  /\ place \in {"next", "writing", "gate", "tests"} => s.task \in Tasks
  /\ place = "writing" => s.gen < MaxSaves
  /\ place = "gate" \/ (place = "writing" /\ w = "draft") => OnDraft(s, p)
  /\ place = "writing" /\ w = "accept" => p \in Phases /\ Approved(s, p)
  /\ place = "tests" => Approved(s, Breakdown)
  /\ place \in {"next", "tests"} \/ (place = "writing" /\ w # "draft") => Clean(s)
  /\ place \in {"gate", "tests"} \/ (place = "writing" /\ w # "seed") => d.phase = NoPhase
  /\ place \in {"next", "writing"} /\ d.phase # NoPhase =>
       /\ d.art.status = "draft"
       /\ OnSpec(s, d.phase, d.art)

(* What the state of a run that goes on from the disk is, against the disk's. *)
Follows(place, s, w, p, d) ==
  /\ s.gen = disk.gen /\ (disk.gen > 0 => <<disk.task, s.task>> \in Alike)
  /\ place \in {"gate", "tests"} => s.art = disk.art /\ s.notes = disk.notes
  /\ place = "next" =>
       /\ s.notes = disk.notes
       /\ \A q \in Phases : s.art[q] = IF Approved(disk, q) THEN disk.art[q] ELSE NoArtifact
       /\ Drafts(disk) = {} \/ d = PendingDraft(disk)
  /\ place = "writing" =>
       /\ \A q \in Phases : Approved(s, q) /\ s.art[q] # disk.art[q] =>
            (q = Specs /\ w = "seed") \/ (q = p /\ w = "accept")
       /\ \A q \in Drafts(disk) : \/ s.art[q] = disk.art[q] \/ Approved(s, q)
                                  \/ s.art[q] = NoArtifact /\ w \in {"back", "seed"}
       /\ \A q \in disk.notes : q \in s.notes \/ Approved(s, q)

(* A run whose state is not the disk's is behind it, and let past nothing.  *)
Behind(r) ==
  /\ pc[r] = "writing" => r \in current
  /\ pc[r] \in {"next", "gate", "tests"} /\ r \notin current => state[r].gen < disk.gen

PlanInv ==
  /\ Coherent(disk) /\ (disk.gen > 0 => disk.task \in Tasks)
  /\ \A r \in Runs : Good(pc[r], state[r], why[r], at[r], draft[r])
  /\ \A r \in current : Follows(pc[r], state[r], why[r], at[r], draft[r])
  /\ torn \/ \A r \in Runs : Behind(r)

(* What a step does to a run, as its own state goes. *)
Becomes(r, place, s, w, p, d) ==
  /\ pc' = Set(pc, r, place) /\ state' = Set(state, r, s) /\ why' = Set(why, r, w)
  /\ at' = Set(at, r, p) /\ draft' = Set(draft, r, d)

(* A step of one run that leaves the disk alone keeps the parts, if they    *)
(* hold of that run.                                                        *)
LEMMA OneRunStep ==
  ASSUME FileTypes, RunTypes, PlanInv, NEW r \in Runs,
         NEW place \in Places, NEW s \in State, NEW w \in Whys, NEW p \in Phases \cup {NoPhase},
         NEW d \in Held,
         Becomes(r, place, s, w, p, d), UNCHANGED <<disk, torn>>, mode' \in [Runs -> Mode],
         current' \in {current, current \cup {r}, current \ {r}},
         Good(place, s, w, p, d),
         r \in current' => Follows(place, s, w, p, d),
         place = "writing" => r \in current' \/ torn,
         place \in {"next", "gate", "tests"} => r \in current' \/ s.gen < disk.gen \/ torn
  PROVE  RunTypes' /\ PlanInv'
<1>1. RunTypes'
  BY DEF RunTypes, Becomes, Set
<1>2. /\ pc'[r] = place /\ state'[r] = s /\ why'[r] = w /\ at'[r] = p /\ draft'[r] = d
      /\ \A q \in Runs \ {r} : /\ pc'[q] = pc[q] /\ state'[q] = state[q] /\ why'[q] = why[q]
                               /\ at'[q] = at[q] /\ draft'[q] = draft[q]
                               /\ q \in current' <=> q \in current
  BY DEF RunTypes, Becomes, Set
<1>3. Coherent(disk)' /\ (disk.gen > 0 => disk.task \in Tasks)'
  BY DEF PlanInv, Coherent, Chain, Grounded, Tested, OnSpec, Seeded, Approved
<1>4. \A q \in Runs : Good(pc'[q], state'[q], why'[q], at'[q], draft'[q])
  BY <1>2 DEF PlanInv
<1>5. ASSUME NEW q \in current' PROVE Follows(pc'[q], state'[q], why'[q], at'[q], draft'[q])
  <2>1. q \in Runs
    BY DEF FileTypes
  <2> QED  BY <1>2, <1>5, <2>1 DEF PlanInv
<1>6. torn' \/ \A q \in Runs : Behind(q)'
  BY <1>2 DEF PlanInv, Behind
<1>7. ASSUME NEW q \in current' PROVE Follows(pc[q], state[q], why[q], at[q], draft[q])'
  <2>1. disk' = disk /\ Drafts(disk)' = Drafts(disk) /\ PendingDraft(disk)' = PendingDraft(disk)
        /\ \A k \in Phases : Approved(disk, k)' <=> Approved(disk, k)
    BY DEF Drafts, Approved, PendingDraft, First
  <2> QED  BY <1>5, <1>7, <2>1 DEF Follows, Approved
<1> QED  BY <1>1, <1>3, <1>4, <1>6, <1>7 DEF PlanInv

(* Setting what is there changes nothing. *)
LEMMA SetSame ==
  ASSUME NEW D, NEW T, NEW f \in [D -> T], NEW x \in D PROVE Set(f, x, f[x]) = f
BY DEF Set

(* The parts of a run have their types. *)
LEMMA PartTypes ==
  ASSUME RunTypes, NEW r \in Runs
  PROVE  /\ pc[r] \in Places /\ state[r] \in State /\ why[r] \in Whys
         /\ at[r] \in Phases \cup {NoPhase} /\ draft[r] \in Held
         /\ Set(pc, r, pc[r]) = pc /\ Set(state, r, state[r]) = state
         /\ Set(why, r, why[r]) = why /\ Set(at, r, at[r]) = at /\ Set(draft, r, draft[r]) = draft
BY SetSame DEF RunTypes

(* A run that goes where nothing is saved or drafted. *)
LEMMA NeutralStep ==
  ASSUME FileTypes, RunTypes, PlanInv, NEW r \in Runs,
         NEW place \in {"taking", "loading", "dropping", "removing"},
         NEW p \in Phases \cup {NoPhase}, NEW d \in Held,
         pc' = Set(pc, r, place), at' = Set(at, r, p), draft' = Set(draft, r, d),
         UNCHANGED <<disk, torn, state, why, mode, current>>
  PROVE  RunTypes' /\ PlanInv'
<1>1. place \in Places
  BY DEF Places
<1>2. Becomes(r, place, state[r], why[r], p, d)
  BY PartTypes DEF Becomes
<1>3. Good(place, state[r], why[r], p, d)
  BY DEF PlanInv, Good
<1>4. r \in current => Follows(place, state[r], why[r], p, d)
  BY DEF PlanInv, Follows
<1>5. mode' \in [Runs -> Mode]
  BY DEF RunTypes
<1> QED  BY <1>1, <1>2, <1>3, <1>4, <1>5, PartTypes, OneRunStep

(* A run that is over. *)
LEMMA OverStep ==
  ASSUME FileTypes, RunTypes, PlanInv, NEW r \in Runs, Over(r)
  PROVE  RunTypes' /\ PlanInv'
<1>1. New(NoTask) \in State /\ NoDraft \in Held
  BY NothingIsArtifact, WorkflowConstants DEF New, State, NoDraft, Held
<1>2. Becomes(r, "idle", New(NoTask), "draft", NoPhase, NoDraft)
  BY DEF Over, Becomes
<1>3. Coherent(New(NoTask))
  BY DEF Coherent, Chain, Grounded, Tested, New
<1>4. Good("idle", New(NoTask), "draft", NoPhase, NoDraft)
  BY <1>3 DEF Good
<1>5. mode' \in [Runs -> Mode]
  BY WorkflowConstants DEF Over, Set, RunTypes, NoMode, Mode
<1>6. current' = current \ {r} /\ UNCHANGED <<disk, torn>>
  BY DEF Over
<1>7. "idle" \in Places /\ "draft" \in Whys
  BY DEF Places, Whys
<1> QED  BY <1>1, <1>2, <1>4, <1>5, <1>6, <1>7, OneRunStep

(* A save that was let past the comparison. (save_to) *)
LEMMA SaveStep ==
  ASSUME FileTypes, RunTypes, PlanInv, NEW r \in Runs,
         NEW s \in State, NEW w \in Whys, NEW p \in Phases \cup {NoPhase}, NEW d \in Held,
         Becomes(r, "writing", s, w, p, d), UNCHANGED <<disk, torn>>,
         mode' \in [Runs -> Mode], current' \in {current, current \cup {r}},
         s.gen < MaxSaves, disk.gen <= s.gen,
         Coherent(s), s.task \in Tasks, w # "draft" => Clean(s), w = "draft" => OnDraft(s, p),
         w = "accept" => p \in Phases /\ Approved(s, p),
         IF w = "seed" THEN d.phase # NoPhase => /\ d.art.status = "draft"
                                                 /\ OnSpec(s, d.phase, d.art)
                       ELSE d.phase = NoPhase,
         r \in current' => Follows("writing", s, w, p, d),
         r \in current' \/ torn \/ s.gen < disk.gen
  PROVE  RunTypes' /\ PlanInv'
<1>1. s.gen \in Int /\ disk.gen \in Int
  BY DEF RunTypes, State
<1>2. Good("writing", s, w, p, d)
  BY DEF Good
<1>3. r \in current' \/ torn'
  BY <1>1
<1> QED  BY <1>2, <1>3, OneRunStep DEF Places

(* The draft a run restored is that of the phase it drafts next, if the     *)
(* disk still has it. *)
LEMMA RestoredFacts ==
  ASSUME RunTypes, PlanInv, NEW r \in Runs, r \in current, pc[r] = "next",
         NextPhase(state[r]) # NoPhase, NEW q \in Drafts(disk)
  PROVE  q = NextPhase(state[r]) /\ draft[r].phase = q /\ draft[r].art = disk.art[q]
<1> DEFINE s == state[r]
           p == NextPhase(s)
<1>0. s \in State
  BY PartTypes
<1>1. p \in Phases /\ ~ Approved(s, p) /\ \A k \in Phases : k < p => Approved(s, k)
  BY <1>0, NextFacts
<1> HIDE DEF p
<1>2. Follows("next", s, why[r], at[r], draft[r])
  BY DEF PlanInv
<1>3. /\ \A k \in Phases : s.art[k] = IF Approved(disk, k) THEN disk.art[k] ELSE NoArtifact
      /\ draft[r] = PendingDraft(disk)
  BY <1>2 DEF Follows
<1>4. q \in Phases /\ disk.art[q].status = "draft"
  BY DEF Drafts
<1>5. draft[r].phase = q /\ draft[r].art = disk.art[q]
  <2>1. draft[r] = [phase |-> First(Drafts(disk)), art |-> disk.art[First(Drafts(disk))]]
    BY <1>3 DEF PendingDraft
  <2>2. First(Drafts(disk)) \in Drafts(disk)
    BY FirstIsFirst DEF Drafts
  <2>3. First(Drafts(disk)) = q
    BY <2>2, OneDraft DEF PlanInv, RunTypes
  <2> QED  BY <2>1, <2>3
<1>6. disk \in State /\ Coherent(disk) /\ ~ Approved(disk, q) /\ disk.art[q] # NoArtifact
  BY <1>4 DEF PlanInv, RunTypes, Approved, NoArtifact
<1>7. ASSUME NEW k \in Phases, k < q PROVE Approved(s, k)
  <2>1. Approved(disk, k)
    BY <1>4, <1>6, <1>7, ApprovedBefore DEF Coherent
  <2> QED  BY <1>3, <2>1 DEF Approved
<1>8. ~ Approved(s, q)
  BY <1>3, <1>4, <1>6 DEF Approved, NoArtifact
<1>9. ~ (p < q) /\ ~ (q < p) /\ p \in Nat /\ q \in Nat
  BY <1>1, <1>4, <1>7, <1>8, PhasesFacts
<1> QED  BY <1>5, <1>9 DEF p

(* A draft, restored or generated. *)
LEMMA DraftStep ==
  ASSUME FileTypes, RunTypes, PlanInv, NEW r \in Runs, Draft(r)
  PROVE  RunTypes' /\ PlanInv'
<1> DEFINE s == state[r]
           p == NextPhase(s)
<1>0. /\ pc[r] = "next" /\ UNCHANGED <<disk, torn, mode, current>> /\ s \in State
      /\ NoDraft \in Held /\ NoDraft.phase = NoPhase /\ mode' \in [Runs -> Mode]
  BY PartTypes, NothingIsArtifact DEF Draft, NoDraft, Held, plan, RunTypes
<1>1. Coherent(s) /\ Clean(s) /\ s.task \in Tasks
  BY <1>0 DEF PlanInv, Good
<1>2. CASE p = NoPhase
  <2>1. Goes(r, "dropping") /\ UNCHANGED <<draft, at>>
    BY <1>2 DEF Draft
  <2>2. /\ pc' = Set(pc, r, "dropping") /\ UNCHANGED <<state, why>>
        /\ at' = Set(at, r, at[r]) /\ draft' = Set(draft, r, draft[r])
    BY <2>1, PartTypes DEF Goes
  <2> QED  BY <1>0, <2>2, PartTypes, NeutralStep
<1>3. ASSUME p # NoPhase, Goes(r, "dropping") PROVE RunTypes' /\ PlanInv'
  <2>1. at' = Set(at, r, p) /\ draft' = Set(draft, r, NoDraft)
    BY <1>3 DEF Draft
  <2>2. pc' = Set(pc, r, "dropping") /\ UNCHANGED <<state, why>> /\ p \in Phases
    BY <1>0, <1>3, NextFacts DEF Goes
  <2> HIDE DEF p
  <2> QED  BY <1>0, <2>1, <2>2, NeutralStep
<1>4. ASSUME p # NoPhase, NEW a \in Artifact, a.status = "draft", OnSpec(s, p, a),
             disk.gen <= s.gen, s.gen < MaxSaves,
             Becomes(r, "writing", WithArtifact(s, p, a), "draft", p, NoDraft),
             r \in current => \A q \in Drafts(disk) : q = p /\ a = disk.art[q]
      PROVE  RunTypes' /\ PlanInv'
  <2> DEFINE t == WithArtifact(s, p, a)
  <2>1. p \in Phases /\ ~ Approved(s, p) /\ \A q \in Phases : q < p => Approved(s, q)
    BY <1>0, <1>4, NextFacts
  <2> HIDE DEF p
  <2>2. /\ t \in State /\ t.task = s.task /\ t.gen = s.gen /\ t.notes = s.notes
        /\ t.art[p] = a /\ \A q \in Phases \ {p} : t.art[q] = s.art[q]
    BY <1>0, <1>4, <2>1, WithArtifactFields
  <2>3. Coherent(t)
    BY <1>0, <1>1, <1>4, <2>1, DraftCoheres
  <2> HIDE DEF t
  <2>4. ASSUME r \in current PROVE Follows("writing", t, "draft", p, NoDraft)
    <3>1. Follows("next", s, why[r], at[r], draft[r])
      BY <1>0, <2>4 DEF PlanInv
    <3>2. /\ s.notes = disk.notes /\ s.gen = disk.gen /\ (disk.gen > 0 => <<disk.task, s.task>> \in Alike)
          /\ \A q \in Phases : s.art[q] = IF Approved(disk, q) THEN disk.art[q] ELSE NoArtifact
      BY <3>1 DEF Follows
    <3>3. \A q \in Phases : Approved(t, q) => t.art[q] = disk.art[q]
      BY <1>4, <2>2, <3>2 DEF Approved, NoArtifact
    <3>4. \A q \in Drafts(disk) : t.art[q] = disk.art[q]
      BY <1>4, <2>2, <2>4
    <3> QED  BY <2>2, <3>2, <3>3, <3>4 DEF Follows
  <2>5. r \in current \/ torn \/ s.gen < disk.gen
    BY <1>0 DEF PlanInv, Behind
  <2>6. OnDraft(t, p)
    BY <1>4, <2>1, <2>2 DEF OnDraft
  <2> QED  BY <1>0, <1>1, <1>4, <2>1, <2>2, <2>3, <2>4, <2>5, <2>6, SaveStep DEF Whys, t
<1>5. ASSUME p # NoPhase, ~ Goes(r, "dropping")
      PROVE  \E a \in Artifact :
               /\ a.status = "draft" /\ OnSpec(s, p, a)
               /\ disk.gen <= s.gen /\ s.gen < MaxSaves
               /\ Becomes(r, "writing", WithArtifact(s, p, a), "draft", p, NoDraft)
               /\ r \in current => \A q \in Drafts(disk) : q = p /\ a = disk.art[q]
  <2>1. p \in Phases /\ ~ Approved(s, p) /\ \A q \in Phases : q < p => Approved(s, q)
    BY <1>0, <1>5, NextFacts
  <2>2. at' = Set(at, r, p) /\ draft' = Set(draft, r, NoDraft)
    BY <1>5 DEF Draft
  <2>3. ASSUME NEW a \in Artifact, Save(r, WithArtifact(s, p, a), "draft")
        PROVE  /\ disk.gen <= s.gen /\ s.gen < MaxSaves
               /\ Becomes(r, "writing", WithArtifact(s, p, a), "draft", p, NoDraft)
    <3>1. WithArtifact(s, p, a).gen = s.gen
      BY <1>0, <2>1, <2>3, WithArtifactFields
    <3>2. s.gen \in Int /\ disk.gen \in Int
      BY <1>0 DEF RunTypes, State
    <3> QED  BY <1>5, <2>2, <2>3, <3>1, <3>2 DEF Save, Becomes
  <2>4. ASSUME r \in current, NEW q \in Drafts(disk)
        PROVE  q = p /\ draft[r].phase = p /\ draft[r].art = disk.art[q]
    BY <1>0, <1>5, <2>4, RestoredFacts
  <2>5. CASE draft[r].phase = p
    <3>1. Save(r, WithArtifact(s, p, draft[r].art), "draft")
      BY <1>5, <2>5 DEF Draft
    <3>2. draft[r].art \in Artifact
      BY PartTypes DEF Held
    <3>3. draft[r].art.status = "draft" /\ OnSpec(s, p, draft[r].art)
      BY <1>0, <1>5, <2>5 DEF PlanInv, Good
    <3> QED  BY <2>3, <2>4, <3>1, <3>2, <3>3
  <2>6. CASE draft[r].phase # p
    <3>1. PICK text \in Says[p] :
            Save(r, WithArtifact(s, p, [status |-> "draft", text |-> text, on |-> Grounds(s, p)]), "draft")
      BY <1>5, <2>6 DEF Draft
    <3> DEFINE a == [status |-> "draft", text |-> text, on |-> Grounds(s, p)]
    <3>2. text \in Text
      BY <2>1, <3>1, WorkflowConstants
    <3>3. Grounds(s, p) \in [Phases -> Text \cup {NoText}]
      BY <1>0, <2>1 DEF Grounds, State, Artifact
    <3>4. a \in Artifact /\ a.status = "draft" /\ a.on = Grounds(s, p)
      BY <3>2, <3>3 DEF Artifact
    <3>5. OnSpec(s, p, a)
      <4> SUFFICES ASSUME NEW q \in Needs[p]
                   PROVE  a.on[q] = s.art[q].text
        BY DEF OnSpec
      <4>1. q \in Phases
        BY <2>1, NeedsFacts
      <4> QED  BY <3>4, <4>1 DEF Grounds
    <3> HIDE DEF a
    <3>6. Save(r, WithArtifact(s, p, a), "draft")
      BY <3>1 DEF a
    <3> QED  BY <2>3, <2>4, <2>6, <3>4, <3>5, <3>6
  <2> QED  BY <2>5, <2>6
<1> QED  BY <1>2, <1>3, <1>4, <1>5

(* What is adopted, or the specification taken from a plan file on top. *)
LEMMA LoadStep ==
  ASSUME FileTypes, RunTypes, PlanInv, NEW r \in Runs, NEW task \in Tasks, NEW m \in Modes,
         Load(r, task, m)
  PROVE  RunTypes' /\ PlanInv'
<1> DEFINE t == Resumed(disk, task)
           d == PendingDraft(disk)
<1>0. pc[r] = "loading" /\ UNCHANGED <<disk, torn, at>> /\ disk \in State /\ Coherent(disk)
  BY DEF Load, RunTypes, PlanInv
<1>1. CASE Conflict(task)
  <2>1. Goes(r, "dropping") /\ UNCHANGED <<mode, draft, current>>
    BY <1>1 DEF Load
  <2>2. /\ pc' = Set(pc, r, "dropping") /\ UNCHANGED <<state, why>>
        /\ at' = Set(at, r, at[r]) /\ draft' = Set(draft, r, draft[r])
    BY <1>0, <2>1, PartTypes DEF Goes
  <2> QED  BY <1>0, <2>1, <2>2, PartTypes, NeutralStep
<1>2. CASE ~ Conflict(task)
  <2>1. /\ mode' \in [Runs -> Mode] /\ draft' = Set(draft, r, d)
        /\ current' = current \cup {r} /\ at' = Set(at, r, at[r])
    BY <1>0, <1>2, PartTypes, WorkflowConstants DEF Load, Set, RunTypes
  <2>2. /\ t \in State /\ t.task = task /\ t.gen = disk.gen /\ t.notes = disk.notes
        /\ \A q \in Phases : t.art[q] = IF Approved(disk, q) THEN disk.art[q] ELSE NoArtifact
    BY <1>0, ResumedFields
  <2>3. Coherent(t) /\ Clean(t)
    BY <1>0, ResumedCoheres
  <2>4. /\ d \in Held
        /\ d.phase # NoPhase => /\ d.phase \in Phases /\ d.art.status = "draft"
                                /\ OnSpec(t, d.phase, d.art)
    BY <1>0, PendingFacts DEF Held
  <2>5. t.gen = disk.gen /\ (disk.gen > 0 => <<disk.task, t.task>> \in Alike)
    BY <1>2, <2>2 DEF Conflict
  <2>6. CASE pc' = Set(pc, r, "next") /\ state' = Set(state, r, t) /\ UNCHANGED why
    <3>1. Becomes(r, "next", t, why[r], at[r], d)
      BY <2>1, <2>6, PartTypes DEF Becomes
    <3>2. Good("next", t, why[r], at[r], d)
      BY <2>2, <2>3, <2>4 DEF Good
    <3>3. Follows("next", t, why[r], at[r], d)
      BY <2>2, <2>5 DEF Follows
    <3> HIDE DEF t, d
    <3> QED  BY <1>0, <2>1, <2>2, <2>4, <3>1, <3>2, <3>3, PartTypes, OneRunStep DEF Places
  <2>7. CASE ~ (pc' = Set(pc, r, "next") /\ state' = Set(state, r, t) /\ UNCHANGED why)
    <3>1. PICK text \in Plans :
            LET seed == [status |-> "draft", text |-> text, on |-> [q \in Phases |-> text]]
            IN Save(r, Approve(WithArtifact(t, Specs, seed), Specs), "seed")
      BY <1>2, <2>7 DEF Load
    <3> DEFINE seed == [status |-> "draft", text |-> text, on |-> [q \in Phases |-> text]]
               u == Approve(WithArtifact(t, Specs, seed), Specs)
    <3>2. text \in Text
      BY <3>1, WorkflowConstants
    <3>3. /\ u \in State /\ u.task = t.task /\ u.gen = t.gen /\ u.notes = t.notes \ {Specs}
          /\ \A q \in Phases \ {Specs} : u.art[q] = t.art[q]
          /\ Approved(u, Specs) /\ Seeded(u) /\ Coherent(u) /\ Clean(u)
      BY <2>2, <2>3, <3>2, SeedCoheres
    <3>4. Save(r, u, "seed")
      BY <3>1
    <3> HIDE DEF u, t, d
    <3>5. ~ (disk.gen > u.gen) /\ disk.gen <= u.gen
      BY <1>0, <2>5, <3>3 DEF State
    <3>6. u.gen < MaxSaves /\ Becomes(r, "writing", u, "seed", at[r], d)
      BY <2>1, <3>4, <3>5 DEF Save, Becomes
    <3>7. d.phase # NoPhase => OnSpec(u, d.phase, d.art)
      BY <2>4, <3>3, OnSpecSeeded
    <3>8. Follows("writing", u, "seed", at[r], d)
      <4>1. ASSUME NEW q \in Phases, Approved(u, q), q # Specs PROVE u.art[q] = disk.art[q]
        BY <2>2, <3>3, <4>1 DEF Approved, NoArtifact
      <4>2. ASSUME NEW q \in Drafts(disk) PROVE Approved(u, q) \/ u.art[q] = NoArtifact
        <5>1. q \in Phases /\ ~ Approved(disk, q)
          BY <4>2 DEF Drafts, Approved
        <5> QED  BY <2>2, <3>3, <5>1
      <4>3. \A q \in disk.notes : q \in u.notes \/ Approved(u, q)
        BY <2>2, <3>3
      <4> QED  BY <2>2, <2>5, <3>3, <4>1, <4>2, <4>3 DEF Follows
    <3>9. "seed" \in Whys
      BY DEF Whys
    <3> QED  BY <1>0, <2>1, <2>2, <2>4, <3>3, <3>5, <3>6, <3>7, <3>8, <3>9, PartTypes, SaveStep
  <2> QED  BY <2>6, <2>7
<1> QED  BY <1>1, <1>2

(* A run at its gate holds what is on disk, if that is what it saved. *)
LEMMA GateFacts ==
  ASSUME RunTypes, PlanInv, NEW r \in Runs, pc[r] = "gate"
  PROVE  /\ state[r] \in State /\ Coherent(state[r]) /\ state[r].task \in Tasks /\ OnDraft(state[r], at[r])
         /\ draft[r].phase = NoPhase
         /\ r \in current => /\ state[r].art = disk.art /\ state[r].notes = disk.notes
                             /\ state[r].gen = disk.gen
                             /\ disk.gen > 0 => <<disk.task, state[r].task>> \in Alike
         /\ r \in current \/ torn \/ state[r].gen < disk.gen
BY PartTypes DEF PlanInv, Good, Follows, Behind

(* Save, in a run whose phase and held draft stay. *)
LEMMA SaveHere ==
  ASSUME FileTypes, RunTypes, PlanInv, NEW r \in Runs, NEW s \in State, NEW w \in Whys,
         Save(r, s, w), UNCHANGED <<at, draft>>, s.gen = state[r].gen
  PROVE  \/ /\ pc' = Set(pc, r, "dropping") /\ UNCHANGED <<state, why>>
            /\ at' = Set(at, r, at[r]) /\ draft' = Set(draft, r, draft[r])
         \/ /\ s.gen < MaxSaves /\ disk.gen <= s.gen
            /\ Becomes(r, "writing", s, w, at[r], draft[r])
<1>1. s.gen \in Int /\ disk.gen \in Int
  BY DEF RunTypes, State
<1>2. at' = Set(at, r, at[r]) /\ draft' = Set(draft, r, draft[r])
  BY PartTypes
<1> QED  BY <1>1, <1>2 DEF Save, Goes, Becomes

(* A save that was let past. (save_to)                                      *)
LEMMA SaveGoes ==
  ASSUME FileTypes, RunTypes, PlanInv, NEW r \in Runs, NEW s \in State, NEW w \in Whys,
         Save(r, s, w), UNCHANGED <<at, draft, disk, torn, mode, current>>,
         s.gen = state[r].gen, s.task = state[r].task, s.task \in Tasks, draft[r].phase = NoPhase,
         w \notin {"draft", "seed"}, Coherent(s), Clean(s),
         w = "accept" => at[r] \in Phases /\ Approved(s, at[r]),
         r \in current => Follows("writing", s, w, at[r], draft[r]),
         r \in current \/ torn \/ s.gen < disk.gen
  PROVE  RunTypes' /\ PlanInv'
<1>1. mode' \in [Runs -> Mode]
  BY DEF RunTypes
<1>2. CASE /\ pc' = Set(pc, r, "dropping") /\ UNCHANGED <<state, why>>
           /\ at' = Set(at, r, at[r]) /\ draft' = Set(draft, r, draft[r])
  BY <1>2, PartTypes, NeutralStep
<1>3. CASE /\ s.gen < MaxSaves /\ disk.gen <= s.gen
           /\ Becomes(r, "writing", s, w, at[r], draft[r])
  BY <1>1, <1>3, PartTypes, SaveStep
<1> QED  BY <1>2, <1>3, SaveHere

(* The gate's answers. (drive.rs: on GateDecision) *)
LEMMA AcceptStep ==
  ASSUME FileTypes, RunTypes, PlanInv, NEW r \in Runs, Accept(r)
  PROVE  RunTypes' /\ PlanInv'
<1> DEFINE s == state[r]
           p == at[r]
<1>0. /\ pc[r] = "gate" /\ UNCHANGED <<disk, torn, mode, current, at, draft>>
      /\ mode' \in [Runs -> Mode] /\ p \in Phases \cup {NoPhase}
  BY PartTypes DEF Accept, plan, RunTypes
<1>1. /\ s \in State /\ Coherent(s) /\ s.task \in Tasks /\ p \in Phases /\ s.art[p].status = "draft"
      /\ draft[r].phase = NoPhase
      /\ r \in current => /\ s.art = disk.art /\ s.notes = disk.notes
                          /\ s.gen = disk.gen /\ (disk.gen > 0 => <<disk.task, s.task>> \in Alike)
      /\ r \in current \/ torn \/ s.gen < disk.gen
  BY <1>0, GateFacts DEF OnDraft
<1>2. ASSUME NEW u \in State, Coherent(u), u.art[p].status = "draft",
             u.gen = s.gen, u.task = s.task, u.notes = s.notes,
             \A q \in Phases \ {p} : u.art[q] = s.art[q],
             Save(r, Approve(u, p), "accept")
      PROVE  RunTypes' /\ PlanInv'
  <2> DEFINE t == Approve(u, p)
  <2>1. /\ t \in State /\ t.task = s.task /\ t.gen = s.gen /\ t.notes = s.notes \ {p}
        /\ \A q \in Phases \ {p} : t.art[q] = s.art[q]
    BY <1>1, <1>2, ApproveFields
  <2>2. Coherent(t) /\ Clean(t) /\ Approved(t, p)
    BY <1>1, <1>2, ApproveCoheres
  <2> HIDE DEF t
  <2>3. r \in current => Follows("writing", t, "accept", p, draft[r])
    BY <1>1, <2>1, <2>2 DEF Follows, Drafts
  <2> QED  BY <1>0, <1>1, <1>2, <2>1, <2>2, <2>3, SaveGoes DEF Whys, t
<1>3. CASE Save(r, Approve(s, p), "accept")
  BY <1>1, <1>2, <1>3
<1>4. CASE ~ Save(r, Approve(s, p), "accept")
  <2>1. PICK text \in Says[p] :
          LET a == [s.art[p] EXCEPT !.status = "draft", !.text = text]
          IN Save(r, Approve(WithArtifact(s, p, a), p), "accept")
    BY <1>4 DEF Accept
  <2> DEFINE a == [s.art[p] EXCEPT !.status = "draft", !.text = text]
             u == WithArtifact(s, p, a)
  <2>2. text \in Text
    BY <1>1, <2>1, WorkflowConstants
  <2>3. a \in Artifact /\ a.status = "draft" /\ Coherent(u)
    BY <1>1, <2>2, EditCoheres
  <2>4. Save(r, Approve(u, p), "accept")
    BY <2>1
  <2> HIDE DEF a
  <2>5. /\ u \in State /\ u.task = s.task /\ u.gen = s.gen /\ u.notes = s.notes
        /\ u.art[p] = a /\ \A q \in Phases \ {p} : u.art[q] = s.art[q]
    BY <1>1, <2>3, WithArtifactFields
  <2> HIDE DEF u
  <2> QED  BY <1>2, <2>3, <2>4, <2>5
<1> QED  BY <1>3, <1>4

(* A phase, or one it is built on, sent back. *)
LEMMA SendBackStep ==
  ASSUME FileTypes, RunTypes, PlanInv, NEW r \in Runs, SendBack(r)
  PROVE  RunTypes' /\ PlanInv'
<1> DEFINE s == state[r]
           p == at[r]
<1>0. pc[r] = "gate" /\ UNCHANGED <<disk, torn, mode, current, at, draft>>
  BY DEF SendBack, plan
<1>1. /\ s \in State /\ Coherent(s) /\ s.task \in Tasks /\ p \in Phases /\ s.art[p].status = "draft"
      /\ draft[r].phase = NoPhase
      /\ r \in current => /\ s.art = disk.art /\ s.notes = disk.notes
                          /\ s.gen = disk.gen /\ (disk.gen > 0 => <<disk.task, s.task>> \in Alike)
      /\ r \in current \/ torn \/ s.gen < disk.gen
  BY <1>0, GateFacts DEF OnDraft
<1>2. PICK target \in 1 .. p, noted \in BOOLEAN : Save(r, Back(s, target, noted), "back")
  BY DEF SendBack, Back
<1>3. target \in Phases /\ target <= p
  <2>1. p \in Phases /\ p \in Nat
    BY <1>1, PhasesFacts
  <2> HIDE DEF p
  <2> QED  BY <2>1, PhasesFacts
<1> DEFINE t == Back(s, target, noted)
<1>4. /\ t \in State /\ t.task = s.task /\ t.gen = s.gen /\ s.notes \subseteq t.notes
      /\ \A q \in Phases : t.art[q] = IF q < target THEN s.art[q] ELSE NoArtifact
  BY <1>1, <1>3, BackFields
<1>5. Coherent(t) /\ Clean(t)
  BY <1>1, <1>3, BackCoheres
<1>6. Save(r, t, "back")
  BY <1>2
<1> HIDE DEF t
<1>7. \A q \in Phases : t.art[q] = s.art[q] \/ (t.art[q] = NoArtifact /\ ~ Approved(t, q))
  BY <1>4 DEF Approved, NoArtifact
<1>8. r \in current => Follows("writing", t, "back", p, draft[r])
  BY <1>1, <1>4, <1>7 DEF Follows, Drafts
<1> QED  BY <1>0, <1>1, <1>4, <1>5, <1>6, <1>8, SaveGoes DEF Whys

(* A run that is told to stop. *)
LEMMA AbortStep ==
  ASSUME FileTypes, RunTypes, PlanInv, NEW r \in Runs, Abort(r)
  PROVE  RunTypes' /\ PlanInv'
<1>1. /\ pc' = Set(pc, r, "dropping") /\ UNCHANGED <<disk, torn, state, why, mode, current>>
      /\ at' = Set(at, r, at[r]) /\ draft' = Set(draft, r, draft[r])
  BY PartTypes DEF Abort, Goes, plan
<1> QED  BY <1>1, PartTypes, NeutralStep

(* The tests of an approved breakdown. *)
LEMMA WriteTestsStep ==
  ASSUME FileTypes, RunTypes, PlanInv, NEW r \in Runs, WriteTests(r)
  PROVE  RunTypes' /\ PlanInv'
<1> DEFINE s == state[r]
           t == [s EXCEPT !.tests = s.art[Breakdown].text]
<1>0. pc[r] = "tests" /\ UNCHANGED <<disk, torn, mode, current, at, draft>> /\ s \in State
  BY PartTypes DEF WriteTests, plan
<1>1. CASE Goes(r, "dropping")
  <2>1. /\ pc' = Set(pc, r, "dropping") /\ UNCHANGED <<state, why>>
        /\ at' = Set(at, r, at[r]) /\ draft' = Set(draft, r, draft[r])
    BY <1>0, <1>1, PartTypes DEF Goes
  <2> QED  BY <1>0, <2>1, PartTypes, NeutralStep
<1>2. CASE Save(r, t, "tests")
  <2>1. Coherent(s) /\ s.task \in Tasks /\ Clean(s) /\ Approved(s, Breakdown) /\ draft[r].phase = NoPhase
    BY <1>0 DEF PlanInv, Good
  <2>2. /\ t \in State /\ Coherent(t) /\ t.art = s.art
        /\ t.task = s.task /\ t.gen = s.gen /\ t.notes = s.notes
    BY <1>0, <2>1, TestsCohere
  <2> HIDE DEF t
  <2>3. Clean(t)
    BY <2>1, <2>2 DEF Clean, Approved
  <2>4. r \in current => Follows("writing", t, "tests", at[r], draft[r])
    <3>1. r \in current => Follows("tests", s, why[r], at[r], draft[r])
      BY <1>0 DEF PlanInv
    <3> QED  BY <2>2, <3>1 DEF Follows
  <2>5. r \in current \/ torn \/ t.gen < disk.gen
    BY <1>0, <2>2 DEF PlanInv, Behind
  <2> QED  BY <1>0, <1>2, <2>1, <2>2, <2>3, <2>4, <2>5, SaveGoes DEF Whys
<1> QED  BY <1>1, <1>2 DEF WriteTests

(* The write of a save: the run is the only one that goes on from the disk. *)
LEMMA WriteSaveStep ==
  ASSUME FileTypes, RunTypes, PlanInv, NEW r \in Runs, WriteSave(r)
  PROVE  RunTypes' /\ PlanInv' /\ current' \subseteq Runs
<1> DEFINE s == state[r]
           t == Numbered(s)
           place == AfterSave(r)
<1>0. /\ pc[r] = "writing" /\ disk' = t /\ state' = Set(state, r, t)
      /\ pc' = Set(pc, r, place) /\ current' = {r}
      /\ torn' = (torn \/ \E q \in Runs \ {r} : pc[q] = "writing")
      /\ UNCHANGED <<mode, draft, at, why>> /\ s \in State
  BY PartTypes DEF WriteSave
<1>1. Good("writing", s, why[r], at[r], draft[r])
  BY <1>0 DEF PlanInv
<1>2. /\ t \in State /\ t.art = s.art /\ t.notes = s.notes /\ t.tests = s.tests
      /\ t.task = s.task /\ t.gen = s.gen + 1 /\ s.gen \in Nat
  BY <1>0, <1>1, WorkflowConstants DEF Numbered, State, Good
<1>3. /\ place \in {"gate", "tests", "dropping", "next"}
      /\ place = "gate" => why[r] = "draft"
      /\ place = "tests" => why[r] = "accept" /\ at[r] = Breakdown
      /\ place = "next" => why[r] # "draft"
  BY DEF AfterSave
<1> HIDE DEF t, place
<1>4. Coherent(t)
  BY <1>1, <1>2 DEF Good, Coherent, Chain, Grounded, Tested, OnSpec, Seeded, Approved
<1>5. Good(place, t, why[r], at[r], draft[r])
  BY <1>1, <1>2, <1>3, <1>4 DEF Good, Clean, Approved, OnDraft, OnSpec, Seeded
<1>6. /\ pc'[r] = place /\ state'[r] = t
      /\ \A q \in Runs \ {r} : pc'[q] = pc[q] /\ state'[q] = state[q]
  BY <1>0 DEF Set, RunTypes
<1>7. RunTypes'
  BY <1>0, <1>2, <1>3 DEF RunTypes, Set, Places
<1>8. Coherent(disk)' /\ disk'.task \in Tasks
  BY <1>0, <1>1, <1>2, <1>4 DEF Good, Coherent, Chain, Grounded, Tested, OnSpec, Seeded, Approved
<1>9. \A q \in Runs : Good(pc'[q], state'[q], why'[q], at'[q], draft'[q])
  BY <1>0, <1>5, <1>6 DEF PlanInv
<1>10. ASSUME NEW q \in current' PROVE Follows(pc[q], state[q], why[q], at[q], draft[q])'
  <2>1. q = r
    BY <1>0, <1>10
  <2>2. disk'.gen = t.gen /\ disk'.task = t.task /\ disk'.art = t.art /\ disk'.notes = t.notes
    BY <1>0
  <2>3. place = "next" => Clean(t)
    BY <1>3, <1>5 DEF Good
  <2>4. ASSUME place = "next"
        PROVE  /\ \A k \in Phases : t.art[k] = IF Approved(t, k) THEN t.art[k] ELSE NoArtifact
               /\ {k \in Phases : t.art[k].status = "draft"} = {}
    BY <2>3, <2>4 DEF Clean, Approved, NoArtifact
  <2>5. place # "writing"
    BY <1>3
  <2>6. <<disk'.task, t.task>> \in Alike
    BY <1>1, <1>2, <2>2, WorkflowConstants DEF Good
  <2> QED  BY <1>6, <2>1, <2>2, <2>4, <2>5, <2>6 DEF Follows, Drafts, Approved
<1>11. torn' \/ \A q \in Runs : Behind(q)'
  <2>1. SUFFICES ASSUME ~ torn', NEW q \in Runs PROVE Behind(q)'
    OBVIOUS
  <2>2. ~ torn /\ \A k \in Runs \ {r} : pc[k] # "writing"
    BY <1>0, <2>1
  <2>3. r \in current
    BY <1>0, <2>2 DEF PlanInv, Behind
  <2>4. s.gen = disk.gen
    BY <2>3 DEF PlanInv, Follows
  <2>5. CASE q = r
    BY <1>0, <1>3, <1>6, <2>5 DEF Behind
  <2>6. CASE q # r
    <3>1. pc'[q] # "writing"
      BY <1>6, <2>2, <2>6
    <3>2. ASSUME pc[q] \in {"next", "gate", "tests"} PROVE state[q].gen <= disk.gen
      <4>1. state[q].gen \in Int /\ disk.gen \in Int
        BY DEF RunTypes, State
      <4>2. q \in current => state[q].gen = disk.gen
        BY DEF PlanInv, Follows
      <4>3. q \notin current => state[q].gen < disk.gen
        BY <2>2, <3>2 DEF PlanInv, Behind
      <4> QED  BY <4>1, <4>2, <4>3
    <3>3. pc'[q] \in {"next", "gate", "tests"} => state'[q].gen < disk'.gen
      <4>1. state[q].gen \in Int /\ disk.gen \in Int
        BY DEF RunTypes, State
      <4> QED  BY <1>0, <1>2, <1>6, <2>4, <2>6, <3>2, <4>1
    <3> QED  BY <3>1, <3>3 DEF Behind
  <2> QED  BY <2>5, <2>6
<1> QED  BY <1>0, <1>7, <1>8, <1>9, <1>10, <1>11 DEF PlanInv

(* A step of the lease's files alone. *)
LEMMA LeaseAlone ==
  ASSUME RunTypes, PlanInv, UNCHANGED <<pc, local, plan>>
  PROVE  RunTypes' /\ PlanInv'
<1>1. RunTypes'
  BY DEF local, plan, RunTypes
<1>2. \A r \in Runs : Good(pc[r], state[r], why[r], at[r], draft[r])'
  BY DEF local, plan, PlanInv
<1>3. Coherent(disk)' /\ (disk.gen > 0 => disk.task \in Tasks)'
  BY DEF plan, PlanInv, Coherent, Chain, Grounded, Tested, OnSpec, Seeded, Approved
<1>4. disk' = disk /\ Drafts(disk)' = Drafts(disk) /\ PendingDraft(disk)' = PendingDraft(disk)
      /\ \A k \in Phases : Approved(disk, k)' <=> Approved(disk, k)
  BY DEF plan, Drafts, Approved, PendingDraft, First
<1>5. ASSUME NEW r \in current' PROVE Follows(pc[r], state[r], why[r], at[r], draft[r])'
  <2>1. Follows(pc[r], state[r], why[r], at[r], draft[r])
    BY <1>5 DEF plan, PlanInv
  <2> QED  BY <1>4, <2>1 DEF Follows, Approved, local
<1>6. torn' \/ \A r \in Runs : Behind(r)'
  BY DEF local, plan, PlanInv, Behind
<1> QED  BY <1>1, <1>2, <1>3, <1>5, <1>6 DEF PlanInv

(* The steps of the pipeline: they leave the lease alone. *)
LEMMA PipelineStep ==
  ASSUME FileTypes, RunTypes, PlanInv, NEW r \in Runs, Planning(r) \/ Answering(r)
  PROVE  /\ RunTypes' /\ PlanInv' /\ FileTypes'
         /\ UNCHANGED <<lease, since, beating, raced>>
         /\ \A q \in Runs : (q \in Working)' => q \in Working
<1>1. UNCHANGED <<lease, since, beating, raced>>
  BY DEF Planning, Answering, Load, Draft, WriteSave, WriteTests, Accept, SendBack, Abort
<1>2. current' \subseteq Runs /\ torn' \in BOOLEAN
  BY DEF FileTypes, Planning, Answering, Load, Draft, WriteSave, WriteTests, Accept, SendBack, Abort, plan
<1>3. RunTypes' /\ PlanInv'
  BY LoadStep, DraftStep, WriteSaveStep, WriteTestsStep, AcceptStep, SendBackStep, AbortStep
     DEF Planning, Answering
<1>4. r \in Working /\ \A q \in Runs \ {r} : pc'[q] = pc[q]
  <2>1. pc[r] \in {"loading", "next", "writing", "gate", "tests"}
    BY DEF Planning, Answering, Load, Draft, WriteSave, WriteTests, Accept, SendBack, Abort
  <2>2. \E place : pc' = Set(pc, r, place)
    <3>1. ASSUME NEW task \in Tasks, NEW m \in Modes, Load(r, task, m)
          PROVE  \E place : pc' = Set(pc, r, place)
      BY <3>1 DEF Load, Goes, Save
    <3>2. ASSUME Draft(r) PROVE \E place : pc' = Set(pc, r, place)
      BY <3>2 DEF Draft, Goes, Save
    <3>3. ASSUME WriteSave(r) \/ WriteTests(r) PROVE \E place : pc' = Set(pc, r, place)
      BY <3>3 DEF WriteSave, WriteTests, Goes, Save
    <3>4. ASSUME Answering(r) PROVE \E place : pc' = Set(pc, r, place)
      BY <3>4 DEF Answering, Accept, SendBack, Abort, Goes, Save
    <3> QED  BY <3>1, <3>2, <3>3, <3>4 DEF Planning
  <2> QED  BY <2>1, <2>2 DEF Working, Set, RunTypes
<1> QED  BY <1>1, <1>2, <1>3, <1>4 DEF FileTypes, Working

(* What is with the lease: the file, and the runs' readings of the clock. *)
Fresh ==
  raced \/ \A r \in Working : since[r] <= Expiry => lease.run = r /\ lease.age = since[r]

(* Ages are numbers, and one that has passed EXPIRY stays past it. *)
LEMMA AgeFacts ==
  /\ 0 \in Ages /\ \A age \in Ages : age \in Int /\ Older(age) \in Ages
  /\ \A age \in Ages : Older(age) <= Expiry => age <= Expiry
  /\ Expiry \in Int
BY WorkflowConstants DEF Ages, Older

(* The steps of the lease. *)
LEMMA LeasingStep ==
  ASSUME FileTypes, RunTypes, PlanInv, Fresh, NEW r \in Runs, Leasing(r) \/ Crash(r)
  PROVE  RunTypes' /\ PlanInv' /\ FileTypes' /\ Fresh'
<1>0. /\ lease \in Lease /\ since[r] \in Ages /\ since \in [Runs -> Ages]
      /\ pc \in [Runs -> Places] /\ lease.run \in Runs \cup {NoRun} /\ lease.age \in Ages
      /\ NoLease \in Lease /\ r # NoRun
  BY AgeFacts, WorkflowConstants DEF FileTypes, RunTypes, Lease, NoLease
<1>1. CASE Acquire(r)
  <2>1. /\ pc' = Set(pc, r, "taking") /\ UNCHANGED <<disk, torn, state, why, mode, current>>
        /\ at' = Set(at, r, at[r]) /\ draft' = Set(draft, r, draft[r])
    BY <1>1, PartTypes DEF Acquire, local, plan
  <2>2. RunTypes' /\ PlanInv'
    BY <2>1, PartTypes, NeutralStep
  <2>3. since' = Set(since, r, 0) /\ UNCHANGED <<lease, beating, raced>>
    BY <1>1 DEF Acquire
  <2>4. FileTypes'
    BY <1>0, <2>1, <2>3, AgeFacts DEF FileTypes, Set
  <2>5. Fresh'
    BY <1>0, <2>1, <2>3 DEF Fresh, Working, Set
  <2> QED  BY <2>2, <2>4, <2>5
<1>2. CASE TakeLease(r)
  <2>1. /\ pc' = Set(pc, r, "loading") /\ UNCHANGED <<disk, torn, state, why, mode, current>>
        /\ at' = Set(at, r, at[r]) /\ draft' = Set(draft, r, draft[r])
    BY <1>2, PartTypes DEF TakeLease, local, plan
  <2>2. RunTypes' /\ PlanInv'
    BY <2>1, PartTypes, NeutralStep
  <2>3. /\ lease' = [run |-> r, age |-> since[r]] /\ raced' = (raced \/ IsLive(lease))
        /\ UNCHANGED <<since, beating>>
    BY <1>2 DEF TakeLease
  <2>4. FileTypes'
    BY <1>0, <2>1, <2>3 DEF FileTypes, Lease
  <2>5. Fresh'
    <3>1. SUFFICES ASSUME ~ raced', NEW q \in Working', since'[q] <= Expiry
                   PROVE  lease'.run = q /\ lease'.age = since'[q]
      BY DEF Fresh
    <3>2. CASE q = r
      BY <2>3, <3>2
    <3>3. CASE q # r
      <4>1. q \in Working
        BY <1>0, <2>1, <3>1, <3>3 DEF Working, Set
      <4>2. lease.run = q /\ lease.age <= Expiry /\ q # NoRun
        BY <2>3, <3>1, <4>1, WorkflowConstants DEF Fresh, Working
      <4> QED  BY <2>3, <3>1, <4>2 DEF IsLive
    <3> QED  BY <3>2, <3>3
  <2> QED  BY <2>2, <2>4, <2>5
<1>3. CASE BeatReads(r)
  <2>1. UNCHANGED <<pc, local, plan, lease, since, raced>> /\ beating' = beating \cup {r}
    BY <1>3 DEF BeatReads
  <2> QED  BY <1>0, <2>1, LeaseAlone DEF FileTypes, plan, Fresh, Working
<1>4. CASE BeatWrites(r)
  <2>1. /\ UNCHANGED <<pc, local, plan>> /\ beating' = beating \ {r}
        /\ lease' = [run |-> r, age |-> 0] /\ since' = Set(since, r, 0)
        /\ raced' = (raced \/ lease.run # r)
    BY <1>4 DEF BeatWrites, IsHeldBy
  <2>2. FileTypes'
    BY <1>0, <2>1, AgeFacts DEF FileTypes, Lease, Set, plan
  <2>3. Fresh'
    BY <1>0, <2>1 DEF Fresh, Working, Set
  <2> QED  BY <2>1, <2>2, <2>3, LeaseAlone
<1>5. ASSUME Over(r), UNCHANGED <<lease, raced>>, beating' \subseteq beating
      PROVE  RunTypes' /\ PlanInv' /\ FileTypes' /\ Fresh'
  <2>1. /\ pc' = Set(pc, r, "idle") /\ since' = Set(since, r, 0)
        /\ current' = current \ {r} /\ UNCHANGED torn
    BY <1>5 DEF Over
  <2>2. FileTypes'
    BY <1>0, <1>5, <2>1, AgeFacts DEF FileTypes, Set
  <2>3. Fresh'
    BY <1>0, <1>5, <2>1 DEF Fresh, Working, Set
  <2> QED  BY <1>5, <2>2, <2>3, OverStep
<1>6. CASE DropReads(r)
  <2>1. CASE Over(r)
    BY <1>5, <1>6, <2>1 DEF DropReads
  <2>2. CASE ~ Over(r)
    <3>1. /\ pc' = Set(pc, r, "removing") /\ UNCHANGED <<local, since, plan, lease, beating, raced>>
          /\ pc[r] = "dropping"
      BY <1>6, <2>2 DEF DropReads
    <3>2. /\ UNCHANGED <<disk, torn, state, why, mode, current>>
          /\ at' = Set(at, r, at[r]) /\ draft' = Set(draft, r, draft[r])
      BY <3>1, PartTypes DEF local, plan
    <3>3. RunTypes' /\ PlanInv'
      BY <3>1, <3>2, PartTypes, NeutralStep
    <3>4. FileTypes' /\ Fresh'
      BY <1>0, <3>1, <3>2 DEF FileTypes, Fresh, Working, Set
    <3> QED  BY <3>3, <3>4
  <2> QED  BY <2>1, <2>2
<1>7. CASE DropRemoves(r)
  <2>1. /\ pc' = Set(pc, r, "idle") /\ since' = Set(since, r, 0) /\ lease' = NoLease
        /\ raced' = (raced \/ lease.run # r) /\ pc[r] = "removing"
        /\ current' = current \ {r} /\ UNCHANGED <<torn, beating>> /\ Over(r)
    BY <1>7 DEF DropRemoves, Over, IsHeldBy
  <2>2. FileTypes'
    BY <1>0, <2>1, AgeFacts DEF FileTypes, Set
  <2>3. Fresh'
    BY <1>0, <2>1 DEF Fresh, Working, Set
  <2> QED  BY <2>1, <2>2, <2>3, OverStep
<1>8. CASE Crash(r)
  BY <1>5, <1>8 DEF Crash
<1> QED  BY <1>1, <1>2, <1>3, <1>4, <1>6, <1>7, <1>8 DEF Leasing

(* Time passes for the file and for its holder alike. *)
LEMMA TickStep ==
  ASSUME FileTypes, RunTypes, PlanInv, Fresh, Tick
  PROVE  RunTypes' /\ PlanInv' /\ FileTypes' /\ Fresh'
<1>1. /\ UNCHANGED <<pc, local, beating, plan, raced>>
      /\ lease' = IF lease.run = NoRun THEN lease ELSE [lease EXCEPT !.age = Older(@)]
      /\ since' = [r \in Runs |-> IF pc[r] = "idle" THEN 0 ELSE Older(since[r])]
  BY DEF Tick
<1>2. lease \in Lease /\ lease.age \in Ages /\ \A r \in Runs : since[r] \in Ages
  BY DEF FileTypes, Lease
<1>3. lease' \in Lease /\ since' \in [Runs -> Ages]
  BY <1>1, <1>2, AgeFacts DEF Lease
<1>4. Fresh'
  <2>1. SUFFICES ASSUME ~ raced', NEW q \in Working', since'[q] <= Expiry
                 PROVE  lease'.run = q /\ lease'.age = since'[q]
    BY DEF Fresh
  <2>2. q \in Working /\ q \in Runs /\ since'[q] = Older(since[q])
    BY <1>1, <2>1 DEF Working
  <2>3. since[q] <= Expiry
    BY <1>2, <2>1, <2>2, AgeFacts
  <2>4. lease.run = q /\ lease.age = since[q] /\ q # NoRun
    BY <1>1, <2>1, <2>2, <2>3, WorkflowConstants DEF Fresh
  <2> QED  BY <1>1, <1>2, <2>2, <2>4 DEF Lease
<1> QED  BY <1>1, <1>3, <1>4, LeaseAlone DEF FileTypes, plan

------------------------------------------------------------------------------
(* Theorems *)

IInv == FileTypes /\ RunTypes /\ PlanInv /\ Fresh

(* The parts hold at the start. *)
LEMMA InvInit == Init => IInv
<1> SUFFICES ASSUME Init PROVE IInv
  OBVIOUS
<1>1. New(NoTask) \in State /\ NoDraft \in Held /\ NoLease \in Lease /\ NoMode \in Mode
  BY NothingIsArtifact, AgeFacts, WorkflowConstants
     DEF New, State, NoDraft, Held, NoLease, Lease, NoMode, Mode
<1>2. FileTypes
  BY <1>1, AgeFacts DEF Init, FileTypes
<1>3. RunTypes
  BY <1>1 DEF Init, RunTypes, Places, Whys
<1>4. Coherent(New(NoTask))
  BY DEF Coherent, Chain, Grounded, Tested, New
<1>5. \A r \in Runs : Good(pc[r], state[r], why[r], at[r], draft[r]) /\ Behind(r)
  BY <1>4 DEF Init, Good, Behind
<1>6. PlanInv
  <2>1. disk = New(NoTask) /\ current = {} /\ disk.gen = 0
    BY DEF Init, New
  <2> QED  BY <1>4, <1>5, <2>1 DEF PlanInv
<1>7. Fresh
  BY DEF Init, Fresh, Working
<1> QED  BY <1>2, <1>3, <1>6, <1>7 DEF IInv

(* Through every pause, crash, takeover and race the parts are inductive:   *)
(* what is said of the lease until a lease file is raced for, what is said  *)
(* of the saves until a save is torn.                                       *)
THEOREM Invariance == Spec => []IInv
<1>1. ASSUME IInv, [Next]_vars PROVE IInv'
  <2>1. CASE UNCHANGED vars
    <3>1. UNCHANGED <<pc, local, plan>>
      BY <2>1 DEF vars, local, plan
    <3>2. RunTypes' /\ PlanInv'
      BY <1>1, <3>1, LeaseAlone DEF IInv
    <3> QED  BY <1>1, <2>1, <3>2 DEF vars, IInv, FileTypes, Fresh, Working
  <2>2. ASSUME NEW r \in Runs, Planning(r) \/ Answering(r) PROVE IInv'
    <3>1. FileTypes /\ RunTypes /\ PlanInv /\ Fresh
      BY <1>1 DEF IInv
    <3>2. /\ RunTypes' /\ PlanInv' /\ FileTypes'
          /\ UNCHANGED <<lease, since, beating, raced>>
          /\ \A q \in Runs : (q \in Working)' => q \in Working
      BY <2>2, <3>1, PipelineStep
    <3>3. \A q \in Runs : q \in Working' => q \in Working
      BY <3>2 DEF Working
    <3>4. lease' = lease /\ since' = since /\ raced' = raced
      BY <3>2
    <3>5. Fresh'
      BY <3>1, <3>3, <3>4 DEF Fresh, Working
    <3> QED  BY <3>2, <3>5 DEF IInv
  <2>3. ASSUME NEW r \in Runs, Leasing(r) \/ Crash(r) PROVE IInv'
    BY <1>1, <2>3, LeasingStep DEF IInv
  <2>4. CASE Tick
    BY <1>1, <2>4, TickStep DEF IInv
  <2> QED  BY <1>1, <2>1, <2>2, <2>3, <2>4 DEF Next
<1> QED  BY <1>1, InvInit, PTL DEF Spec

(* Every variable keeps its type: no run is let past save_to with a         *)
(* generation that cannot be advanced.                                      *)
THEOREM TypeCorrect == Spec => []TypeOK
<1>1. IInv => TypeOK
  BY DEF IInv, FileTypes, RunTypes, TypeOK, Whys, Held
<1> QED  BY <1>1, Invariance, PTL

(* Two runs are never both at work on fresh heartbeats, until a lease file  *)
(* is written over one not seen. (acquire, heartbeat, Drop) *)
THEOREM OneHolder == Spec => []OneFreshHolder
<1>1. IInv => OneFreshHolder
  BY DEF IInv, Fresh, OneFreshHolder
<1> QED  BY <1>1, Invariance, PTL

(* A run that was taken over from is refused its save, until two saves land *)
(* in one another's window. (save_to) *)
THEOREM StaleRefused == Spec => []StaleSavesRefused
<1>1. IInv => StaleSavesRefused
  BY DEF IInv, PlanInv, Behind, StaleSavesRefused
<1> QED  BY <1>1, Invariance, PTL

(* What is on disk is a plan that can be continued, whatever was raced for. *)
(* (drive, approve, invalidate_from) *)
THEOREM DiskCoherent == Spec => []PlanCoherent
<1>1. ASSUME IInv PROVE PlanCoherent
  <2>1. Coherent(disk)
    BY <1>1 DEF IInv, PlanInv
  <2> QED  BY <2>1 DEF Coherent, Chain, Grounded, Tested, OnSpec, Seeded, PlanCoherent
<1> QED  BY <1>1, Invariance, PTL

(* What is on disk changes only in a save, of a run whose state continues   *)
(* it. *)
LEMMA DiskSteps ==
  ASSUME IInv, [Next]_vars, ~ torn'
  PROVE  \/ disk' = disk
         \/ \E r \in Runs : /\ pc[r] = "writing" /\ pc'[r] # pc[r] /\ r \in current
                            /\ disk'.art = state[r].art /\ disk'.notes = state[r].notes
                            /\ disk'.task = state[r].task
<1>1. ASSUME NEW r \in Runs, WriteSave(r)
      PROVE  /\ pc[r] = "writing" /\ pc'[r] # pc[r] /\ r \in current
             /\ disk'.art = state[r].art /\ disk'.notes = state[r].notes
             /\ disk'.task = state[r].task
  <2>1. pc[r] = "writing" /\ ~ torn /\ disk' = Numbered(state[r]) /\ state[r] \in State
    BY <1>1, PartTypes DEF WriteSave, IInv
  <2>2. pc'[r] = AfterSave(r) /\ AfterSave(r) # "writing"
    BY <1>1 DEF WriteSave, AfterSave, Set, IInv, RunTypes
  <2>3. r \in current
    BY <2>1 DEF IInv, PlanInv, Behind
  <2> QED  BY <2>1, <2>2, <2>3 DEF Numbered, State
<1>2. ASSUME ~ \E r \in Runs : WriteSave(r) PROVE disk' = disk
  BY <1>2 DEF Next, Leasing, Acquire, TakeLease, BeatReads, BeatWrites, DropReads, DropRemoves,
              Over, Crash, Planning, Answering, Load, Draft, WriteTests, Accept, SendBack, Abort,
              Tick, plan, vars
<1> QED  BY <1>1, <1>2

(* Nothing becomes approved but what a human accepted at the gate, or what  *)
(* came from a plan file. (drive) *)
THEOREM GateApproves == Spec => OnlyGateApproves
<1>1. ASSUME IInv, [Next]_vars
      PROVE  \A p \in Phases :
               ~ torn' /\ Approved(disk', p) /\ disk'.art[p] # disk.art[p] =>
                 \/ p = Specs /\ Saving({"seed"})
                 \/ \E r \in Runs : pc[r] = "writing" /\ why[r] = "accept" /\ at[r] = p
  <2> SUFFICES ASSUME NEW p \in Phases,
                      ~ torn', Approved(disk', p), disk'.art[p] # disk.art[p]
               PROVE  \/ p = Specs /\ Saving({"seed"})
                      \/ \E r \in Runs : pc[r] = "writing" /\ why[r] = "accept" /\ at[r] = p
    OBVIOUS
  <2>1. PICK r \in Runs : /\ pc[r] = "writing" /\ pc'[r] # pc[r] /\ r \in current
                          /\ disk'.art = state[r].art
    BY <1>1, DiskSteps
  <2>2. Approved(state[r], p) /\ state[r].art[p] # disk.art[p]
    BY <2>1 DEF Approved
  <2>3. Follows("writing", state[r], why[r], at[r], draft[r])
    BY <1>1, <2>1 DEF IInv, PlanInv
  <2>4. (p = Specs /\ why[r] = "seed") \/ (p = at[r] /\ why[r] = "accept")
    BY <2>2, <2>3 DEF Follows
  <2> QED  BY <2>1, <2>4 DEF Saving
<1> QED  BY <1>1, Invariance, PTL DEF Spec, OnlyGateApproves

(* The draft under review is the draft that is decided on, and a note stays *)
(* until its phase is approved. (pending_draft, notes) *)
THEOREM PendingIsKept == Spec => PendingKept
<1>1. ASSUME IInv, [Next]_vars, ~ torn'
      PROVE  /\ \A p \in Drafts(disk) :
                  \/ disk'.art[p] = disk.art[p]
                  \/ Approved(disk', p)
                  \/ disk'.art[p] = NoArtifact /\ Saving({"back", "seed"})
             /\ \A p \in disk.notes : p \in disk'.notes \/ Approved(disk', p)
  <2>1. CASE disk' = disk
    BY <2>1
  <2>2. CASE disk' # disk
    <3>1. PICK r \in Runs : /\ pc[r] = "writing" /\ pc'[r] # pc[r] /\ r \in current
                            /\ disk'.art = state[r].art /\ disk'.notes = state[r].notes
      BY <1>1, <2>2, DiskSteps
    <3>2. Follows("writing", state[r], why[r], at[r], draft[r])
      BY <1>1, <3>1 DEF IInv, PlanInv
    <3>3. why[r] \in {"back", "seed"} => Saving({"back", "seed"})
      BY <3>1 DEF Saving
    <3> QED  BY <3>1, <3>2, <3>3 DEF Follows, Approved
  <2> QED  BY <2>1, <2>2
<1> QED  BY <1>1, Invariance, PTL DEF Spec, PendingKept

(* A design goes only to a task whose first line continues, or is continued *)
(* by, the one it was saved for last. (task_conflict, save_to)              *)
THEOREM OneTask == Spec => OneTaskPerDirectory
<1>1. ASSUME IInv, [Next]_vars, disk.gen > 0, ~ torn' PROVE <<disk.task, disk'.task>> \in Alike
  <2>1. CASE disk' = disk
    BY <1>1, <2>1, WorkflowConstants DEF IInv, PlanInv
  <2>2. CASE disk' # disk
    <3>1. PICK r \in Runs : r \in current /\ disk'.task = state[r].task
      BY <1>1, <2>2, DiskSteps
    <3> QED  BY <1>1, <3>1 DEF IInv, PlanInv, Follows
  <2> QED  BY <2>1, <2>2
<1> QED  BY <1>1, Invariance, PTL DEF Spec, OneTaskPerDirectory

=============================================================================
