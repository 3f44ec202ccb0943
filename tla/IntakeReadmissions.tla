-------------------------- MODULE IntakeReadmissions --------------------------
(***************************************************************************)
(* The intake store with a history variable: how often work of each        *)
(* repository was put back into the queue by a reviewer's send-back or     *)
(* release.  The store itself keeps no such count; it counts the drafting  *)
(* runs begun.  Meant for instances whose window spans the whole model.    *)
(***************************************************************************)
EXTENDS IntakeStore

VARIABLE readmitted

readmissionVars == <<vars, readmitted>>

(* The verbs charged by drafting_budget are the only ones that queue        *)
(* reviewed or quarantined work.                                            *)
Readmits(repo) ==
  \E id \in RequestId :
    /\ requests[id].repo = repo
    /\ requests[id].state \in {"awaiting-review", "quarantined"}
    /\ requests'[id].state = "queued"

CountingInit == Init /\ readmitted = [p \in Repo |-> 0]

CountingNext ==
  /\ Next
  /\ readmitted' =
       [ p \in Repo |-> readmitted[p] + IF Readmits(p) THEN 1 ELSE 0 ]

CountingSpec == CountingInit /\ [][CountingNext]_readmissionVars

(* The cap on what one repository may cost in a window holds for its        *)
(* re-admissions (drafting_budget, and the text that describes it).         *)
ReadmissionsWithinCap == \A p \in Repo : readmitted[p] <= MaxDailyDrafts

===============================================================================
