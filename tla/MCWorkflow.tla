----------------------------- MODULE MCWorkflow -----------------------------
(* The staged workflow with two runs of two modes on one directory. *)
EXTENDS Workflow, TLC

(* full_tdd and plan_only, on a pipeline whose breakdown is its second phase. *)
FullTdd == [tests |-> TRUE, stop |-> NoPhase]
PlanOnly == [tests |-> FALSE, stop |-> Breakdown]
BothModes == {FullTdd, PlanOnly}

(* Two texts of the first phase tell what the later ones are grounded on. *)
CONSTANTS this, that
TwoSpecs == [p \in Phases |-> IF p = Specs THEN {this, that} ELSE {this}]

(* Each phase needs all those before it. *)
AllBefore == [p \in Phases |-> 1 .. p - 1]

(* Two tasks of which one's first line continues the other's, and a third   *)
(* whose does neither.                                                      *)
CONSTANTS x, y, other
TwoAlike == {x, y} \X {x, y} \cup {<<other, other>>}

Symmetric == Permutations(Runs) \cup Permutations({x, y})

(* Bound: a behaviour is followed up to the first race on either file.  What *)
(* two runs on one directory do to one another after a race on the lease is *)
(* what they do after a pause and a takeover, which is followed.            *)
UpToARace == ~ raced /\ ~ torn

(* Bound: the first to save its design is one of the alike two, which on    *)
(* their own do all that the third would do on its own; and the design is   *)
(* handed on, if it is, by its second save, after which runs that loaded it *)
(* for the other task are followed no further.                              *)
HandedOnEarly ==
  /\ disk.task # other
  /\ disk.gen > 1 => \A r \in Runs : state[r].task \in {NoTask, disk.task}

Bounds == UpToARace /\ HandedOnEarly
=============================================================================
