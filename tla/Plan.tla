-------------------------------- MODULE Plan --------------------------------
(***************************************************************************)
(* What state.json promises of a design, without any run: it passes from a *)
(* task only to one alike, whose first line continues its own or the other *)
(* way round; its phases are drafted and approved one after another; what  *)
(* is under review stays that draft until a person accepts it, as it is or *)
(* edited, or sends a phase back with all that is built on it; approved    *)
(* phases change only that way or by a plan file; the contract tests are   *)
(* those of the approved breakdown, once each time it is approved.         *)
(*                                                                         *)
(* All this until two saves overlap, of which the files promise nothing.   *)
(***************************************************************************)
EXTENDS Naturals

CONSTANTS Task, Alike, Last, Breakdown, Text, File, NoTask, NoText

Phase == 1 .. Last

VARIABLES
  task,
  says,        \* what each phase says, NoText if there is nothing of it
  approved,
  notes,       \* phases sent back with a note
  tests,       \* the breakdown the tests were written from, or NoText
  overlapped

vars == <<task, says, approved, notes, tests, overlapped>>

Init ==
  /\ task = NoTask
  /\ says = [p \in Phase |-> NoText]
  /\ approved = {} /\ notes = {}
  /\ tests = NoText
  /\ overlapped = FALSE

(* The phase that comes next, and one of which a draft is there. *)
Due(p) == p \in Phase \ approved /\ \A q \in Phase : q < p => q \in approved
UnderReview(p) == Due(p) /\ says[p] # NoText

Draft(p, text) ==
  /\ Due(p) /\ says[p] = NoText
  /\ says' = [says EXCEPT ![p] = text]
  /\ UNCHANGED <<approved, notes, tests>>

Accept(p, text) ==
  /\ UnderReview(p)
  /\ says' = [says EXCEPT ![p] = text]
  /\ approved' = approved \cup {p}
  /\ notes' = notes \ {p}
  /\ UNCHANGED tests

SendBack(p, target) ==
  /\ UnderReview(p) /\ target \in 1 .. p
  /\ says' = [q \in Phase |-> IF q < target THEN says[q] ELSE NoText]
  /\ approved' = {q \in approved : q < target}
  /\ notes' \in {notes, notes \cup {target}}
  /\ tests' = IF target <= Breakdown THEN NoText ELSE tests

(* A plan file is taken for the specification; what waits for review goes.  *)
Take(text) ==
  /\ says' = [q \in Phase |-> IF q = 1 THEN text ELSE IF q \in approved THEN says[q] ELSE NoText]
  /\ approved' = approved \cup {1}
  /\ notes' = notes \ {1}
  /\ UNCHANGED tests

Freeze ==
  /\ Breakdown \in approved /\ tests = NoText
  /\ ~ \E p \in Phase : UnderReview(p)
  /\ tests' = says[Breakdown]
  /\ UNCHANGED <<says, approved, notes>>

(* A save, which says whose the design now is.                              *)
Save ==
  /\ task' \in Task /\ (task = NoTask \/ <<task, task'>> \in Alike)
  /\ UNCHANGED overlapped
  /\ \/ UNCHANGED <<says, approved, notes, tests>>
     \/ \E p \in Phase, text \in Text : Draft(p, text) \/ Accept(p, text)
     \/ \E p \in Phase : \E target \in Phase : SendBack(p, target)
     \/ \E text \in File : Take(text)
     \/ Freeze

Overlap == overlapped'

Next == Save \/ Overlap

Spec == Init /\ [][Next]_vars
=============================================================================
