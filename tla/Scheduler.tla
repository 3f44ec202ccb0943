------------------------------ MODULE Scheduler ------------------------------
(***************************************************************************)
(* What a swarm's board promises, whatever the models, the tests and the   *)
(* people do: tasks are claimed in rounds, each once, none before all it   *)
(* needs is done, no more at a time than the limit; every claimed task is  *)
(* done or failed before the next round; and only a person can end a run   *)
(* in which a task is still in flight or can still be claimed.             *)
(***************************************************************************)
EXTENDS Naturals, FiniteSets

CONSTANTS Task, Nothing

VARIABLES
  needs,   \* of each task, the tasks it needs, or Nothing, which is never done
  limit,   \* on the tasks of a round
  status, over

vars == <<needs, limit, status, over>>

Init ==
  /\ needs \in [Task -> SUBSET (Task \cup {Nothing})]
  /\ limit \in Nat \ {0}
  /\ status = [t \in Task |-> "pending"]
  /\ over = FALSE

InFlight == { t \in Task : status[t] = "claimed" }

Claimable ==
  { t \in Task :
      /\ status[t] = "pending"
      /\ \A n \in needs[t] : n \in Task /\ status[n] = "done" }

(* A round: as many tasks as are claimed at once. *)
ClaimRound ==
  /\ ~ over /\ InFlight = {}
  /\ \E S \in SUBSET Claimable :
       /\ S # {} /\ Cardinality(S) <= limit
       /\ status' = [t \in Task |-> IF t \in S THEN "claimed" ELSE status[t]]
  /\ UNCHANGED <<needs, limit, over>>

Ends(t, outcome) ==
  /\ ~ over /\ t \in InFlight
  /\ status' = [status EXCEPT ![t] = outcome]
  /\ UNCHANGED <<needs, limit>>

(* A task is done, and then a person may stop the run. *)
Complete(t) == Ends(t, "done") /\ over' \in BOOLEAN

Fail(t) == Ends(t, "failed") /\ UNCHANGED over

(* Nothing is in flight and nothing can be claimed. *)
Conclude ==
  /\ ~ over /\ InFlight = {} /\ Claimable = {}
  /\ over' = TRUE
  /\ UNCHANGED <<needs, limit, status>>

Next == ClaimRound \/ (\E t \in Task : Complete(t) \/ Fail(t)) \/ Conclude

Spec == Init /\ [][Next]_vars
=============================================================================
