----------------------------- MODULE Swarm_proofs -----------------------------
(***************************************************************************)
(* What the checks of Swarm show on boards of three, proved for boards of  *)
(* any size, any set of tests and any number of workers and retries.       *)
(***************************************************************************)
EXTENDS Swarm, TLAPS, FiniteSetTheorems, WellFoundedInduction

(* What is with a worker or waiting to be merged is claimed, and nothing    *)
(* else is.                                                                 *)
InFlight ==
  UniqueIds =>
    \A p \in Pos : status[p] = "claimed" <=> (p \in wave \/ p = current)

(* Only reviews that may send work back leave a green subtask unrecorded.   *)
GreenIsReviewed == green => cfg.review = "retry"

(* A report is made between subtasks; one that no human asked for, when     *)
(* nothing can be dispatched.                                               *)
Quiescent ==
  report.over =>
    /\ current = Nobody
    /\ ~ report.stopped => wave = {} /\ Ready = {}

(* A person is asked about the subtask being merged; its own tests pass, or *)
(* the suite does not build, unless it was kept from an earlier attempt.    *)
Asked ==
  asking =>
    /\ current # Nobody
    /\ Scoped /\ cfg.review # "retry" =>
         suite = Broken \/ suite \cap Contract(tasks[current].id) = {}

IInv ==
  /\ TypeOK /\ DepsHonoured /\ RetryBudgetShared
  /\ InFlight /\ GreenIsReviewed /\ Quiescent /\ Asked

------------------------------------------------------------------------------
(* Some numbers have a least one.                                           *)
LEMMA LeastOf ==
  ASSUME NEW T, T \subseteq Nat, T # {}
  PROVE  \E n \in T : \A m \in T : n <= m
<1> DEFINE R == OpToRel(<, Nat)
<1>1. PICK n \in T : \A m \in T : ~ (<<m, n>> \in R)
  <2> HIDE DEF R
  <2>1. IsWellFoundedOn(R, Nat)
    BY NatLessThanWellFounded DEF R
  <2> QED  BY <2>1, WFMin
<1>2. \A m \in T : n <= m
  <2> SUFFICES ASSUME NEW m \in T PROVE n <= m
    OBVIOUS
  <2>1. ~ (m < n)
    BY <1>1 DEF OpToRel
  <2> QED  BY <2>1
<1> QED  BY <1>2

(* Looking up an id finds a subtask of that id. (TaskBoard::set) *)
LEMMA FirstFound ==
  ASSUME TypeOK, NEW id, Known(id)
  PROVE  First(id) \in Pos /\ tasks[First(id)].id = id
<1> DEFINE T == { p \in Pos : tasks[p].id = id }
<1>1. T \subseteq Nat /\ T # {}
  BY SwarmConstants DEF Known, Pos
<1>2. \E p \in T : \A q \in T : p <= q
  <2> HIDE DEF T
  <2> QED  BY <1>1, LeastOf
<1> QED  BY <1>2 DEF First

(* With ids told apart a subtask is the first of its id. *)
LEMMA FirstIsIt ==
  ASSUME TypeOK, UniqueIds, NEW p \in Pos
  PROVE  First(tasks[p].id) = p
<1>1. Known(tasks[p].id)
  BY DEF Known
<1> QED  BY <1>1, FirstFound DEF UniqueIds

(* Badness is a number. (badness) *)
LEMMA BadnessIsNat ==
  ASSUME NEW s \in Suites
  PROVE  Badness(s) \in Nat
<1>1. IsFiniteSet(s)
  BY SwarmConstants, FS_Subset, FS_Singleton DEF Suites, Broken
<1> QED  BY <1>1, FS_CardinalityType DEF Badness

(* Whatever a merge leaves, it is a suite. (integrate) *)
LEMMA MergeTyped ==
  ASSUME NEW id, NEW complete \in BOOLEAN, Integrates(id, complete)
  PROVE  suite' \in Suites
  BY DEF Integrates

(* The settings have their types, and the subtask being merged is on the    *)
(* board.                                                                   *)
LEMMA SettingsTyped ==
  ASSUME TypeOK
  PROVE  /\ cfg.retries \in Nat /\ cfg.workers \in Nat
         /\ tasks \in [Pos -> [id : Id, deps : SUBSET Id]]
         /\ current # Nobody => current \in Pos
         /\ Nobody \notin Pos
  BY SwarmConstants DEF TypeOK, Config, Pos, Nobody

------------------------------------------------------------------------------
(* Types. *)

(* Marking a subtask keeps the statuses statuses. (TaskBoard::set) *)
LEMMA MarkTyped ==
  ASSUME TypeOK, NEW p, NEW s \in Status, Mark(p, s)
  PROVE  status' \in [Pos -> Status]
  BY DEF TypeOK, Mark

(* What has landed is recorded, or a person is asked. (complete_subtask)    *)
LEMMA LandsTyped ==
  ASSUME TypeOK, NEW finding, Lands(finding), suite' \in Suites, standing' \in Verdict
  PROVE  TypeOK'
<1> USE DEF TypeOK, Lands, fixed
<1>1. CASE finding = "blocking" /\ Gates
  BY <1>1
<1>2. CASE ~ (finding = "blocking" /\ Gates)
  <2>1. status' \in [Pos -> Status]
    BY <1>2, MarkTyped DEF Status
  <2> QED  BY <1>2, <2>1
<1> QED  BY <1>1, <1>2

(* A person goes on or stops. (ReviewGate::checkpoint)                      *)
LEMMA CheckpointTyped ==
  ASSUME TypeOK, Checkpoint
  PROVE  TypeOK'
<1> USE DEF TypeOK, Checkpoint, fixed
<1>1. status' \in [Pos -> Status]
  BY MarkTyped DEF Status
<1>2. report' \in [over : BOOLEAN, stopped : BOOLEAN, allDone : BOOLEAN]
  <2>1. [over |-> TRUE, stopped |-> TRUE, allDone |-> FALSE]
          \in [over : BOOLEAN, stopped : BOOLEAN, allDone : BOOLEAN]
    OBVIOUS
  <2> QED  BY <2>1 DEF Stop
<1> QED  BY <1>1, <1>2

(* Every step keeps the types. *)
LEMMA NextTypeOK ==
  ASSUME TypeOK, [Next]_vars
  PROVE  TypeOK'
<1> USE DEF TypeOK, fixed, merging
<1>1. CASE Dispatch
  <2>1. Wave \subseteq Pos
    BY DEF Wave, Ready
  <2>2. status' \in [Pos -> Status]
    BY <1>1 DEF Dispatch, Status
  <2>3. current' = Nobody
    BY <1>1 DEF Dispatch, Idle
  <2> QED  BY <1>1, <2>1, <2>2, <2>3 DEF Dispatch
<1>2. ASSUME NEW p \in Pos, TakeResult(p) PROVE TypeOK'
  <2>1. baseline' \in Nat
    BY <1>2, BadnessIsNat DEF TakeResult
  <2> QED  BY <1>2, <2>1 DEF TakeResult, Verdict
<1>3. CASE ReviewSendsBack
  <2>1. suite' \in Suites
    BY <1>3, MergeTyped DEF ReviewSendsBack
  <2>2. standing' \in Verdict
    BY <1>3 DEF ReviewSendsBack, Reviews, Verdict
  <2> QED  BY <1>3, <2>1, <2>2 DEF ReviewSendsBack
<1>4. CASE Succeeds
  <2>1. suite' \in Suites
    BY <1>4, MergeTyped DEF Succeeds
  <2>2. standing' \in Verdict
    BY <1>4 DEF Succeeds, Reviews, Verdict
  <2> QED  BY <1>4, <2>1, <2>2, LandsTyped DEF Succeeds
<1>5. CASE Retries
  <2>1. suite' \in Suites
    BY <1>5, MergeTyped DEF Retries
  <2> QED  BY <1>5, <2>1 DEF Retries
<1>6. CASE KeepsGreen
  <2>1. suite' \in Suites
    BY <1>6, MergeTyped DEF KeepsGreen
  <2> QED  BY <1>6, <2>1, LandsTyped DEF KeepsGreen
<1>7. CASE GivesUp
  <2>1. suite' \in Suites
    BY <1>7, MergeTyped DEF GivesUp
  <2>2. status' \in [Pos -> Status]
    BY <1>7, MarkTyped DEF GivesUp, Status
  <2> QED  BY <1>7, <2>1, <2>2 DEF GivesUp
<1>8. CASE Finish
  <2>1. PICK b \in BOOLEAN : report' = [over |-> TRUE, stopped |-> FALSE, allDone |-> b]
    BY <1>8, (AllDone /\ (cfg.verify => Badness(suite) = 0)) \in BOOLEAN DEF Finish
  <2> QED  BY <1>8, <2>1 DEF Finish
<1>9. CASE Checkpoint
  BY <1>9, CheckpointTyped
<1>10. CASE UNCHANGED vars
  BY <1>10 DEF vars
<1> QED
  BY <1>1, <1>2, <1>3, <1>4, <1>5, <1>6, <1>7, <1>8, <1>9, <1>10 DEF Next, Merge

------------------------------------------------------------------------------
(* The invariant. *)

(* Recording the subtask being merged takes it out of flight, and what was  *)
(* done stays so. (complete_subtask, TaskBoard::fail)                       *)
LEMMA RecordKeeps ==
  ASSUME IInv, TypeOK', current # Nobody, NEW s \in {"done", "failed"},
         Mark(current, s), current' = Nobody, UNCHANGED <<tasks, wave>>
  PROVE  DepsHonoured' /\ InFlight'
<1> SUFFICES ASSUME UniqueIds
             PROVE  DepsHonoured' /\ InFlight'
  BY DEF DepsHonoured, InFlight, UniqueIds
<1>1. current \in Pos /\ current \notin wave /\ Nobody \notin Pos
  BY SettingsTyped DEF IInv, TypeOK
<1>2. status' = [status EXCEPT ![current] = s] /\ status \in [Pos -> Status]
  BY <1>1, FirstIsIt DEF IInv, Mark, TypeOK
<1>3. status[current] = "claimed"
  BY <1>1 DEF IInv, InFlight
<1>4. DepsHonoured'
  <2> SUFFICES ASSUME NEW p \in Pos, status'[p] # "pending", NEW d \in tasks[p].deps
               PROVE  \E q \in Pos : tasks'[q].id = d /\ status'[q] = "done"
    BY DEF DepsHonoured
  <2>1. status[p] # "pending"
    BY <1>1, <1>2, <1>3
  <2>2. PICK q \in Pos : tasks[q].id = d /\ status[q] = "done"
    BY <2>1 DEF IInv, DepsHonoured
  <2> QED  BY <1>1, <1>2, <1>3, <2>2
<1>5. InFlight'
  BY <1>1, <1>2 DEF IInv, InFlight
<1> QED  BY <1>4, <1>5

(* Another attempt leaves the board alone. (integrate_with_retry: continue) *)
LEMMA RetryKeeps ==
  ASSUME IInv, UNCHANGED <<tasks, status, wave, current>>
  PROVE  DepsHonoured' /\ InFlight'
  BY DEF IInv, DepsHonoured, InFlight, UniqueIds

(* So does what has landed, whether it is recorded or a person is asked.    *)
LEMMA LandsKeeps ==
  ASSUME IInv, TypeOK', current # Nobody, NEW finding, Lands(finding)
  PROVE  DepsHonoured' /\ InFlight'
<1>1. CASE finding = "blocking" /\ Gates
  BY <1>1, RetryKeeps DEF Lands, fixed
<1>2. CASE ~ (finding = "blocking" /\ Gates)
  BY <1>2, RecordKeeps DEF Lands, fixed
<1> QED  BY <1>1, <1>2

(* A wave is claimed from what is ready, and only that. (ready, claim) *)
LEMMA DispatchKeeps ==
  ASSUME IInv, TypeOK', Dispatch
  PROVE  DepsHonoured' /\ InFlight'
<1> SUFFICES ASSUME UniqueIds
             PROVE  DepsHonoured' /\ InFlight'
  BY DEF DepsHonoured, InFlight, UniqueIds, Dispatch, fixed
<1>1. Wave \subseteq Ready /\ Ready \subseteq Pos
  BY DEF Wave, Ready
<1>2. \A p \in Pos : status'[p] = IF p \in Wave THEN "claimed" ELSE status[p]
  <2>1. \A p \in Wave : First(tasks[p].id) = p
    BY <1>1, FirstIsIt DEF IInv
  <2> QED  BY <1>1, <2>1 DEF Dispatch
<1>3. \A p \in Wave : status[p] = "pending" /\ \A d \in tasks[p].deps : Met(d)
  BY <1>1 DEF Ready
<1>4. tasks' = tasks /\ wave' = Wave /\ current' = Nobody /\ wave = {} /\ current = Nobody
  BY DEF Dispatch, Idle, fixed, merging
<1>5. DepsHonoured'
  <2> SUFFICES ASSUME NEW p \in Pos, status'[p] # "pending", NEW d \in tasks[p].deps
               PROVE  \E q \in Pos : tasks'[q].id = d /\ status'[q] = "done"
    BY <1>4 DEF DepsHonoured
  <2>1. PICK q \in Pos : tasks[q].id = d /\ status[q] = "done"
    <3>1. CASE p \in Wave
      <4>1. Known(d) /\ status[First(d)] = "done"
        BY <1>3, <3>1 DEF Met
      <4> QED  BY <4>1, FirstFound DEF IInv
    <3>2. CASE p \notin Wave
      BY <1>2, <3>2 DEF IInv, DepsHonoured
    <3> QED  BY <3>1, <3>2
  <2>2. q \notin Wave
    BY <1>3, <2>1
  <2> QED  BY <1>2, <1>4, <2>1, <2>2
<1>6. InFlight'
  <2>1. \A p \in Pos : status[p] # "claimed"
    BY <1>4, SettingsTyped DEF IInv, InFlight
  <2>2. Nobody \notin Pos
    BY SettingsTyped DEF IInv
  <2> QED  BY <1>2, <1>4, <2>1, <2>2 DEF InFlight
<1> QED  BY <1>5, <1>6

(* The start satisfies the invariant. *)
LEMMA InitIInv == ASSUME Init PROVE IInv
<1>1. TypeOK
  BY DEF Init, TypeOK, Status, Verdict, NoReport, Nobody
<1>2. cfg.retries \in Nat
  BY <1>1, SettingsTyped
<1>3. Nobody \notin Pos
  BY <1>1, SettingsTyped
<1> QED  BY <1>1, <1>2, <1>3
         DEF Init, IInv, DepsHonoured, RetryBudgetShared, InFlight, GreenIsReviewed,
             Quiescent, Asked, NoReport

(* With frozen tests and retries, what a merge completes passes its own     *)
(* tests, in a suite that builds. (scoped_failures)                         *)
LEMMA CompleteIsGreen ==
  ASSUME TypeOK, Scoped, NEW id, Integrates(id, TRUE)
  PROVE  suite' = Broken \/ suite' \cap Contract(id) = {}
<1>1. PICK accepted \in BOOLEAN, s \in Suites :
        TRUE \in Complete(id, accepted, s) /\ suite' = s
  BY DEF Integrates
<1>2. cfg.retries # 0 /\ cfg.verify /\ cfg.frozen # {}
  BY SettingsTyped DEF Scoped
<1>3. TRUE \in Satisfied(id, s)
  BY <1>1, <1>2, Zenon DEF Complete
<1> QED  BY <1>1, <1>2, <1>3 DEF Satisfied

(* A merge leaves the settings and the board's rows alone. *)
LEMMA Unmoved ==
  ASSUME UNCHANGED <<tasks, cfg>>
  PROVE  /\ Scoped' = Scoped
         /\ \A id : Contract(id)' = Contract(id)
  BY DEF Scoped, Contract

(* Every step keeps it. *)
LEMMA NextIInv == ASSUME IInv, [Next]_vars PROVE IInv'
<1>1. TypeOK'
  BY NextTypeOK DEF IInv
<1>2. /\ cfg.retries \in Nat /\ attempt \in Nat
      /\ attempt <= cfg.retries /\ (current # Nobody => ~ report.over)
      /\ (asking => current # Nobody)
  BY SettingsTyped DEF IInv, TypeOK, RetryBudgetShared, Quiescent, Asked
<1> DEFINE Rest == RetryBudgetShared' /\ GreenIsReviewed' /\ Quiescent'
<1> USE DEF fixed, merging
<1>3. CASE Dispatch
  <2>1. DepsHonoured' /\ InFlight'
    BY <1>1, <1>3, DispatchKeeps
  <2>2. Rest
    BY <1>2, <1>3 DEF Dispatch, Idle, IInv, RetryBudgetShared, GreenIsReviewed, Quiescent
  <2>3. Asked'
    BY <1>2, <1>3 DEF Dispatch, Idle, Asked
  <2> QED  BY <1>1, <2>1, <2>2, <2>3 DEF IInv
<1>4. ASSUME NEW p \in Pos, TakeResult(p) PROVE IInv'
  <2>1. Rest
    BY <1>2, <1>4 DEF TakeResult, RetryBudgetShared, GreenIsReviewed, Quiescent
  <2>2. DepsHonoured'
    BY <1>4 DEF TakeResult, IInv, DepsHonoured, UniqueIds
  <2>3. InFlight'
    <3>1. Nobody \notin Pos
      BY SettingsTyped DEF IInv
    <3> QED  BY <1>4, <3>1 DEF TakeResult, IInv, InFlight, UniqueIds
  <2>4. Asked'
    BY <1>2, <1>4 DEF TakeResult, Asked
  <2> QED  BY <1>1, <2>1, <2>2, <2>3, <2>4 DEF IInv
<1>5. CASE ReviewSendsBack
  <2>1. DepsHonoured' /\ InFlight'
    BY <1>5, RetryKeeps DEF ReviewSendsBack
  <2>2. Rest
    BY <1>2, <1>5
       DEF ReviewSendsBack, Merging, RetryBudgetShared, GreenIsReviewed, Quiescent
  <2>3. Asked'
    BY <1>5 DEF ReviewSendsBack, Merging, Asked
  <2> QED  BY <1>1, <2>1, <2>2, <2>3 DEF IInv
<1>6. CASE Succeeds
  <2>1. DepsHonoured' /\ InFlight'
    BY <1>1, <1>6, LandsKeeps DEF Succeeds, Merging
  <2>2. Rest
    BY <1>2, <1>6
       DEF Succeeds, Merging, Lands, RetryBudgetShared, GreenIsReviewed, Quiescent
  <2>3. Asked'
    <3>1. Scoped => suite' = Broken \/ suite' \cap Contract(tasks[current].id) = {}
      BY <1>6, CompleteIsGreen DEF Succeeds, IInv
    <3>2. UNCHANGED <<tasks, cfg>> /\ (asking' => current' = current /\ current # Nobody)
      BY <1>6 DEF Succeeds, Merging, Lands
    <3>3. Scoped' = Scoped /\ \A id : Contract(id)' = Contract(id)
      BY <3>2, Unmoved
    <3> QED  BY <3>1, <3>2, <3>3 DEF Asked
  <2> QED  BY <1>1, <2>1, <2>2, <2>3 DEF IInv
<1>7. CASE Retries
  <2>1. DepsHonoured' /\ InFlight'
    BY <1>7, RetryKeeps DEF Retries
  <2>2. Rest
    BY <1>2, <1>7
       DEF Retries, Merging, IInv, RetryBudgetShared, GreenIsReviewed, Quiescent
  <2>3. Asked'
    BY <1>7 DEF Retries, Merging, Asked
  <2> QED  BY <1>1, <2>1, <2>2, <2>3 DEF IInv
<1>8. CASE KeepsGreen
  <2>1. DepsHonoured' /\ InFlight'
    BY <1>1, <1>8, LandsKeeps DEF KeepsGreen, Merging
  <2>2. Rest
    BY <1>2, <1>8
       DEF KeepsGreen, Merging, Lands, RetryBudgetShared, GreenIsReviewed, Quiescent
  <2>3. Asked'
    BY <1>8 DEF KeepsGreen, Merging, Lands, IInv, GreenIsReviewed, Asked
  <2> QED  BY <1>1, <2>1, <2>2, <2>3 DEF IInv
<1>9. CASE GivesUp
  <2>1. DepsHonoured' /\ InFlight'
    BY <1>1, <1>9, RecordKeeps DEF GivesUp, Merging
  <2>2. Rest
    BY <1>2, <1>9
       DEF GivesUp, Merging, IInv, RetryBudgetShared, GreenIsReviewed, Quiescent
  <2>3. Asked'
    BY <1>9 DEF GivesUp, Merging, Asked
  <2> QED  BY <1>1, <2>1, <2>2, <2>3 DEF IInv
<1>10. CASE Finish
  <2>1. DepsHonoured' /\ InFlight'
    BY <1>10, RetryKeeps DEF Finish
  <2>2. Ready' = Ready
    BY <1>10 DEF Finish, Ready, Met, Known, First
  <2>3. Rest
    BY <1>2, <1>10, <2>2
       DEF Finish, Idle, IInv, RetryBudgetShared, GreenIsReviewed, Quiescent
  <2>4. Asked'
    BY <1>2, <1>10 DEF Finish, Idle, Asked
  <2> QED  BY <1>1, <2>1, <2>3, <2>4 DEF IInv
<1>11. CASE UNCHANGED vars
  <2>1. DepsHonoured' /\ InFlight'
    BY <1>11, RetryKeeps DEF vars
  <2>2. Ready' = Ready
    BY <1>11 DEF vars, Ready, Met, Known, First
  <2>3. Rest
    BY <1>11, <2>2 DEF vars, IInv, RetryBudgetShared, GreenIsReviewed, Quiescent
  <2>4. Scoped' = Scoped /\ \A id : Contract(id)' = Contract(id)
    BY <1>11, Unmoved DEF vars
  <2>5. Asked'
    BY <1>11, <2>4 DEF vars, IInv, Asked
  <2> QED  BY <1>1, <2>1, <2>3, <2>5 DEF IInv
<1>12. CASE Checkpoint
  <2>1. DepsHonoured' /\ InFlight'
    BY <1>1, <1>2, <1>12, RecordKeeps DEF Checkpoint
  <2>2. Rest
    BY <1>2, <1>12
       DEF Checkpoint, Stop, IInv, RetryBudgetShared, GreenIsReviewed, Quiescent
  <2>3. Asked'
    BY <1>12 DEF Checkpoint, Asked
  <2> QED  BY <1>1, <2>1, <2>2, <2>3 DEF IInv
<1> QED
  BY <1>3, <1>4, <1>5, <1>6, <1>7, <1>8, <1>9, <1>10, <1>11, <1>12 DEF Next, Merge

------------------------------------------------------------------------------
(* What the invariant gives. *)

(* The invariant holds in every state of every run.                         *)
THEOREM Invariance == Spec => []IInv
  BY InitIInv, NextIInv, PTL DEF Spec

(* Every variable keeps its type.                                           *)
THEOREM TypeCorrect == Spec => []TypeOK
<1>1. IInv => TypeOK
  BY DEF IInv
<1> QED  BY <1>1, Invariance, PTL

(* No subtask is taken up before all it depends on is done, on boards of    *)
(* any size and shape, cyclic ones included.                                *)
THEOREM DependenciesHonoured == Spec => []DepsHonoured
<1>1. IInv => DepsHonoured
  BY DEF IInv
<1> QED  BY <1>1, Invariance, PTL

(* Tests and reviews draw their retries from one budget.                    *)
THEOREM BudgetShared == Spec => []RetryBudgetShared
<1>1. IInv => RetryBudgetShared
  BY DEF IInv
<1> QED  BY <1>1, Invariance, PTL

(* Recording the subtask being merged records it at the place its id is     *)
(* looked up. (TaskBoard::set)                                              *)
LEMMA Recorded ==
  ASSUME TypeOK, current # Nobody, NEW s, Mark(current, s)
  PROVE  status'[First(tasks[current].id)] = s
<1>1. current \in Pos
  BY SettingsTyped
<1>2. First(tasks[current].id) \in Pos
  BY <1>1, FirstFound DEF Known
<1> QED  BY <1>2 DEF Mark, TypeOK

(* With frozen tests and retries, a subtask that no review can send back is *)
(* done only with its own tests passing, or in a suite that does not build. *)
THEOREM DoneIsGreenHolds == Spec => DoneIsGreen
<1>1. ASSUME IInv, [Next]_vars, Scoped, cfg.review # "retry",
             current # Nobody, current' = Nobody,
             status'[First(tasks[current].id)] = "done"
      PROVE  suite' = Broken \/ suite' \cap Contract(tasks[current].id) = {}
  <2>1. TypeOK /\ ~ green
    BY <1>1 DEF IInv, GreenIsReviewed
  <2>2. CASE Succeeds
    BY <1>1, <2>1, <2>2, CompleteIsGreen DEF Succeeds
  <2>3. CASE Checkpoint
    BY <1>1, <2>3 DEF Checkpoint, IInv, Asked
  <2>4. CASE GivesUp
    <3>1. Mark(current, "failed")
      BY <2>4 DEF GivesUp
    <3> QED  BY <1>1, <2>1, <3>1, Recorded
  <2>5. ~ Dispatch /\ (\A p \in Pos : ~ TakeResult(p)) /\ ~ Finish
    BY <1>1 DEF Dispatch, TakeResult, Finish, Idle
  <2>6. ~ ReviewSendsBack /\ ~ Retries /\ ~ KeepsGreen /\ ~ UNCHANGED vars
    BY <1>1, <2>1 DEF ReviewSendsBack, Retries, KeepsGreen, vars
  <2> QED  BY <1>1, <2>2, <2>3, <2>4, <2>5, <2>6 DEF Next, Merge
<1>2. ASSUME IInv, [Next]_vars
      PROVE  Scoped /\ cfg.review # "retry" => MeetsContract
  BY <1>1, <1>2 DEF MeetsContract
<1> QED  BY <1>2, Invariance, PTL DEF Spec, DoneIsGreen

(* A run that no human stopped ends with every subtask done, failed, or     *)
(* downstream of a failure and never started: boards of any size, without   *)
(* cycles and with every dependency on the board.                           *)
THEOREM EndIsHonest == Spec => []HonestEnd
<1>1. ASSUME IInv, WellFormed, report.over, ~ report.stopped, NEW p \in Pos
      PROVE  status[p] = (IF p \in Downstream THEN "pending"
                          ELSE IF status[p] = "failed" THEN "failed" ELSE "done")
  <2> DEFINE Pending == { q \in Pos : status[q] = "pending" }
             Forced(q, S) ==
               \E d \in tasks[q].deps : status[First(d)] = "failed" \/ First(d) \in S
  <2>1. TypeOK /\ UniqueIds /\ Ready = {} /\ wave = {} /\ current = Nobody
    BY <1>1 DEF IInv, WellFormed, Quiescent
  <2>2. \A q \in Pos : status[q] \in {"pending", "done", "failed"}
    BY <1>1, <2>1, SettingsTyped DEF IInv, InFlight, TypeOK, Status
  <2>3. \A q \in Pos : \A d \in tasks[q].deps :
          First(d) \in Pos /\ tasks[First(d)].id = d /\ Known(d)
    BY <1>1, <2>1, FirstFound DEF WellFormed
  <2>4. ASSUME NEW q \in Pos, Forced(q, Pending) PROVE q \in Pending
    <3>1. PICK d \in tasks[q].deps : status[First(d)] = "failed" \/ First(d) \in Pending
      BY <2>4
    <3>2. ASSUME NEW r \in Pos, tasks[r].id = d PROVE status[r] # "done"
      BY <2>1, <2>3, <3>1, <3>2 DEF UniqueIds
    <3> QED  BY <1>1, <2>1, <3>2 DEF IInv, DepsHonoured
  <2>5. p \in Downstream => p \in Pending
    BY <2>4 DEF Downstream
  <2>6. ASSUME p \in Pending, NEW S \in SUBSET Pos,
               \A q \in Pos : Forced(q, S) => q \in S
        PROVE  p \in S
    <3>1. PICK rank \in [Pos -> Pos] :
            \A q \in Pos : \A d \in tasks[q].deps : rank[First(d)] < rank[q]
      BY <1>1 DEF WellFormed
    <3>2. SUFFICES ASSUME Pending \ S # {} PROVE FALSE
      BY <2>6
    <3>3. PICK q \in Pending \ S : \A r \in Pending \ S : rank[q] <= rank[r]
      <4> DEFINE T == { rank[r] : r \in Pending \ S }
      <4>1. T \subseteq Nat /\ T # {}
        BY <3>1, <3>2 DEF Pos
      <4>2. \E n \in T : \A m \in T : n <= m
        <5> HIDE DEF T
        <5> QED  BY <4>1, LeastOf
      <4> QED  BY <4>2
    <3>4. PICK d \in tasks[q].deps : ~ Met(d)
      BY <2>1, <3>3 DEF Ready
    <3>5. First(d) \in Pos /\ status[First(d)] \in {"pending", "failed"}
      BY <2>2, <2>3, <3>3, <3>4 DEF Met
    <3>6. First(d) \in Pending => First(d) \in S
      <4>1. rank[First(d)] < rank[q] /\ rank[First(d)] \in Nat /\ rank[q] \in Nat
        BY <3>1, <3>3, <3>5 DEF Pos
      <4> QED  BY <3>3, <4>1
    <3> QED  BY <2>6, <3>3, <3>5, <3>6
  <2>7. p \in Pending => p \in Downstream
    BY <2>6 DEF Downstream
  <2> QED  BY <2>2, <2>5, <2>7
<1>2. IInv => HonestEnd
  BY <1>1 DEF HonestEnd
<1> QED  BY <1>2, Invariance, PTL

------------------------------------------------------------------------------
(* Bounded by the workers. *)

Flying == wave \cup ({current} \ {Nobody})
FlyingBounded == Cardinality(Flying) <= Limit

(* A part of the board is finite, and no larger than what contains it.      *)
LEMMA PartOfBoard ==
  ASSUME NEW S \in SUBSET Pos, NEW T \in SUBSET S
  PROVE  IsFiniteSet(S) /\ Cardinality(S) \in Nat /\ Cardinality(T) \in Nat
         /\ Cardinality(T) <= Cardinality(S)
<1>1. IsFiniteSet(Pos)
  BY SwarmConstants, FS_Interval DEF Pos
<1>2. IsFiniteSet(S)
  BY <1>1, FS_Subset
<1> QED  BY <1>2, FS_Subset, FS_CardinalityType

(* A wave is no larger than its limit: all of it but the last comes before  *)
(* the last. (dispatch: ready().into_iter().take(workers.max(1)))           *)
LEMMA WaveBounded ==
  ASSUME TypeOK
  PROVE  Wave \in SUBSET Pos /\ Cardinality(Wave) <= Limit
<1>1. Limit \in Nat \ {0}
  BY SettingsTyped DEF Limit
<1>2. Wave \subseteq Ready /\ Ready \subseteq Pos
  BY DEF Wave, Ready
<1>3. CASE Wave = {}
  BY <1>1, <1>3, FS_EmptySet
<1>4. CASE Wave # {}
  <2> DEFINE T == { Size - p : p \in Wave }
  <2>1. \A p \in Wave : p \in Int /\ Size - p \in Nat
    BY <1>2, SwarmConstants DEF Pos
  <2>2. \E n \in T : \A k \in T : n <= k
    <3>1. T \subseteq Nat /\ T # {}
      BY <1>4, <2>1
    <3> HIDE DEF T
    <3> QED  BY <3>1, LeastOf
  <2>3. PICK m \in Wave : \A p \in Wave : p <= m
    <3>1. PICK m \in Wave : \A k \in T : Size - m <= k
      BY <2>2
    <3>2. \A p \in Wave : Size - m <= Size - p
      BY <3>1
    <3> QED  BY <2>1, <3>2, SwarmConstants
  <2> DEFINE Before == { q \in Ready : q < m }
  <2>4. Wave \subseteq Before \cup {m} /\ m \notin Before
    BY <1>2, <2>3 DEF Pos
  <2>5. Before \in SUBSET Pos /\ Before \cup {m} \in SUBSET Pos
    BY <1>2, <2>3
  <2>6. Cardinality(Before) < Limit
    BY <2>3 DEF Wave, Limit
  <2> HIDE DEF Before
  <2>7. Cardinality(Before \cup {m}) = Cardinality(Before) + 1
    BY <2>4, <2>5, PartOfBoard, FS_AddElement
  <2>8. Cardinality(Wave) <= Cardinality(Before \cup {m}) /\ Cardinality(Wave) \in Nat
    BY <2>4, <2>5, PartOfBoard
  <2> QED
    BY <1>1, <1>2, <2>5, <2>6, <2>7, <2>8, PartOfBoard
<1> QED  BY <1>2, <1>3, <1>4

(* Every step keeps the limit.                                              *)
LEMMA NextFlying ==
  ASSUME IInv, IInv', FlyingBounded, [Next]_vars
  PROVE  FlyingBounded'
<1> USE DEF fixed, merging
<1>1. TypeOK /\ TypeOK' /\ Flying \in SUBSET Pos
  BY SettingsTyped DEF IInv, Flying, TypeOK
<1>2. ASSUME Flying' \subseteq Flying, UNCHANGED cfg PROVE FlyingBounded'
  <2>1. Cardinality(Flying') <= Cardinality(Flying)
    BY <1>1, <1>2, PartOfBoard
  <2>2. Limit' = Limit /\ Limit \in Nat
    BY <1>1, <1>2, SettingsTyped DEF Limit
  <2>3. Cardinality(Flying') \in Nat /\ Cardinality(Flying) \in Nat
    BY <1>1, <1>2, PartOfBoard
  <2> QED  BY <2>1, <2>2, <2>3 DEF FlyingBounded
<1>3. CASE Dispatch
  <2>1. Flying' = Wave /\ Limit' = Limit
    BY <1>3 DEF Dispatch, Idle, Flying, Limit
  <2> QED  BY <1>1, <2>1, WaveBounded DEF FlyingBounded
<1>4. ASSUME NEW p \in Pos, TakeResult(p) PROVE FlyingBounded'
  BY <1>2, <1>4 DEF TakeResult, Flying
<1>5. CASE Merge
  BY <1>2, <1>5
  DEF Merge, ReviewSendsBack, Succeeds, Retries, KeepsGreen, GivesUp, Checkpoint, Lands,
      Flying
<1>6. CASE Finish \/ UNCHANGED vars
  BY <1>2, <1>6 DEF Finish, vars, Flying
<1> QED  BY <1>3, <1>4, <1>5, <1>6 DEF Next

(* No more subtasks are claimed than there are workers, for any number of   *)
(* workers and any board.                                                   *)
THEOREM WorkersBoundedHolds == Spec => []WorkersBounded
<1>1. Init => FlyingBounded
  <2> SUFFICES ASSUME Init PROVE FlyingBounded
    OBVIOUS
  <2>1. Flying = {} /\ Limit \in Nat
    BY InitIInv, SettingsTyped DEF Init, Flying, Limit, IInv
  <2> QED  BY <2>1, FS_EmptySet DEF FlyingBounded
<1>2. Spec => []FlyingBounded
  BY <1>1, NextFlying, Invariance, PTL DEF Spec
<1>3. IInv /\ FlyingBounded => WorkersBounded
  <2> SUFFICES ASSUME IInv, FlyingBounded, UniqueIds
               PROVE  Cardinality({ p \in Pos : status[p] = "claimed" }) <= Limit
    BY DEF WorkersBounded, Limit
  <2>1. { p \in Pos : status[p] = "claimed" } = Flying
    BY SettingsTyped DEF IInv, InFlight, Flying, TypeOK
  <2> QED  BY <2>1 DEF FlyingBounded
<1> QED  BY <1>2, <1>3, Invariance, PTL

------------------------------------------------------------------------------
(* Bounded in length. *)

(* What is unclaimed or waits to be merged is finite. *)
LEMMA LeftFinite ==
  ASSUME TypeOK
  PROVE  /\ Unclaimed \in SUBSET Pos /\ Unclaimed \cup wave \in SUBSET Pos
         /\ Cardinality(Unclaimed) \in Nat /\ Cardinality(Unclaimed \cup wave) \in Nat
         /\ IsFiniteSet(Unclaimed) /\ IsFiniteSet(Unclaimed \cup wave)
<1>1. Unclaimed \in SUBSET Pos /\ Unclaimed \cup wave \in SUBSET Pos
  BY DEF TypeOK, Unclaimed
<1> QED  BY <1>1, PartOfBoard

(* A wave takes something when something is ready. (workers.max(1)) *)
LEMMA WaveTakes ==
  ASSUME TypeOK, Ready # {}
  PROVE  Wave # {}
<1>1. Ready \subseteq Nat
  BY SwarmConstants DEF Ready, Pos
<1>2. PICK m \in Ready : \A q \in Ready : m <= q
  BY <1>1, LeastOf
<1>3. { q \in Ready : q < m } = {}
  <2> SUFFICES ASSUME NEW q \in Ready, q < m PROVE FALSE
    OBVIOUS
  <2> QED  BY <1>1, <1>2
<1>4. Cardinality({ q \in Ready : q < m }) < Limit
  BY <1>3, FS_EmptySet, SettingsTyped DEF Limit
<1> QED  BY <1>4 DEF Wave, Limit

(* One subtask less to merge is a budget of retries and three steps less.   *)
LEMMA OneLess ==
  ASSUME NEW r \in Nat, NEW n \in Nat
  PROVE  (r + 3) * (n + 1) = (r + 3) * n + r + 3
  BY SMT

(* What is left is a number, and there is an end to it. *)
LEMMA WorkIsNat ==
  ASSUME TypeOK, RetryBudgetShared
  PROVE  Work \in Nat
<1> DEFINE a == (cfg.retries + 3) * Cardinality(Unclaimed \cup wave)
           b == Cardinality(Unclaimed)
           c == IF current = Nobody THEN 0
                ELSE IF asking THEN 1 ELSE cfg.retries - attempt + 2
           d == IF report.over THEN 0 ELSE 1
<1>1. cfg.retries \in Nat /\ attempt \in Nat /\ attempt <= cfg.retries
  BY SettingsTyped DEF TypeOK, RetryBudgetShared
<1>2. a \in Nat
  <2>1. \A x, y \in Nat : x * y \in Nat
    BY SMT
  <2>2. cfg.retries + 3 \in Nat /\ Cardinality(Unclaimed \cup wave) \in Nat
    BY <1>1, LeftFinite
  <2> QED  BY <2>1, <2>2
<1>3. b \in Nat
  BY LeftFinite
<1>4. c \in Nat /\ d \in Nat
  BY <1>1
<1>5. Work = a + b + c + d
  BY DEF Work
<1> HIDE DEF a, b, c, d
<1> QED  BY <1>2, <1>3, <1>4, <1>5

(* A merge leaves what is unclaimed as it is: it marks a claimed subtask.   *)
LEMMA RecordLeaves ==
  ASSUME IInv, UniqueIds, current # Nobody, NEW s \in {"done", "failed"},
         Mark(current, s)
  PROVE  Unclaimed' = Unclaimed
<1>1. current \in Pos /\ status \in [Pos -> Status]
  BY SettingsTyped DEF IInv, TypeOK
<1>2. status' = [status EXCEPT ![current] = s]
  BY <1>1, FirstIsIt DEF IInv, Mark
<1>3. status[current] = "claimed"
  BY <1>1 DEF IInv, InFlight
<1> QED  BY <1>1, <1>2, <1>3 DEF Unclaimed

(* A merge uses up an attempt or finishes the subtask. *)
LEMMA MergeShrinks ==
  ASSUME IInv, IInv', UniqueIds, Merge
  PROVE  Work' < Work
<1> DEFINE a == (cfg.retries + 3) * Cardinality(Unclaimed \cup wave)
           b == Cardinality(Unclaimed)
           c == IF current = Nobody THEN 0
                ELSE IF asking THEN 1 ELSE cfg.retries - attempt + 2
           d == IF report.over THEN 0 ELSE 1
           cc == IF current' = Nobody THEN 0
                  ELSE IF asking' THEN 1 ELSE cfg'.retries - attempt' + 2
           dd == IF report'.over THEN 0 ELSE 1
<1>1. /\ cfg.retries \in Nat /\ attempt \in Nat /\ attempt' \in Nat
      /\ attempt <= cfg.retries /\ b \in Nat
  BY SettingsTyped, LeftFinite DEF IInv, TypeOK, RetryBudgetShared
<1>2. a \in Int
  <2>1. \A x, y \in Nat : x * y \in Int
    BY SMT
  <2>2. cfg.retries + 3 \in Nat /\ Cardinality(Unclaimed \cup wave) \in Nat
    BY <1>1, LeftFinite DEF IInv
  <2> QED  BY <2>1, <2>2
<1>3. current # Nobody /\ ~ report.over
  BY DEF Merge, ReviewSendsBack, Succeeds, Retries, KeepsGreen, GivesUp, Checkpoint,
         Merging, IInv, Quiescent, Asked
<1>4. UNCHANGED <<tasks, cfg, wave>>
  BY DEF Merge, ReviewSendsBack, Succeeds, Retries, KeepsGreen, GivesUp, Checkpoint,
         Lands, fixed
<1>5. Unclaimed' = Unclaimed
  <2>1. CASE UNCHANGED status
    BY <2>1 DEF Unclaimed
  <2>2. CASE Mark(current, "done") \/ Mark(current, "failed")
    BY <1>3, <2>2, RecordLeaves
  <2> QED
    BY <2>1, <2>2 DEF Merge, ReviewSendsBack, Succeeds, Retries, KeepsGreen, GivesUp,
                     Checkpoint, Lands
<1>6. cc < c /\ c \in Int /\ cc \in Int
  <2>1. CASE current' = Nobody
    BY <1>1, <1>3, <2>1
  <2>2. CASE ~ asking /\ ~ asking' /\ current' = current /\ attempt' = attempt + 1
    BY <1>1, <1>3, <1>4, <2>2
  <2>3. CASE ~ asking /\ asking' /\ current' = current
    BY <1>1, <1>3, <1>4, <2>3
  <2> QED
    BY <2>1, <2>2, <2>3
    DEF Merge, ReviewSendsBack, Succeeds, Retries, KeepsGreen, GivesUp, Checkpoint,
        Merging, Lands
<1>7. d = 1 /\ dd \in {0, 1}
  BY <1>3
<1>8. Work = a + b + c + d /\ Work' = a + b + cc + dd
  BY <1>4, <1>5 DEF Work
<1> HIDE DEF a, b, c, d, cc, dd
<1> QED  BY <1>1, <1>2, <1>6, <1>7, <1>8

(* A claimed wave is no longer to be claimed. *)
LEMMA DispatchShrinks ==
  ASSUME IInv, IInv', UniqueIds, Dispatch
  PROVE  Work' < Work
<1>1. TypeOK /\ TypeOK' /\ UniqueIds'
  BY DEF IInv, UniqueIds, Dispatch, fixed
<1>2. /\ wave = {} /\ wave' = Wave /\ current = Nobody /\ current' = Nobody
      /\ UNCHANGED <<cfg, report>>
  BY DEF Dispatch, Idle, fixed, merging
<1>3. Wave \subseteq Ready /\ Ready \subseteq Unclaimed
  BY DEF Wave, Ready, Unclaimed
<1>4. Unclaimed' = Unclaimed \ Wave
  <2>1. \A p \in Wave : First(tasks[p].id) = p
    BY <1>1, <1>3, FirstIsIt DEF Unclaimed
  <2>2. \A p \in Pos : status'[p] = IF p \in Wave THEN "claimed" ELSE status[p]
    BY <1>3, <2>1 DEF Dispatch, Unclaimed
  <2> QED  BY <2>2 DEF Unclaimed
<1>5. (Unclaimed \cup wave)' = Unclaimed \cup wave
  BY <1>2, <1>3, <1>4
<1>6. Cardinality(Unclaimed') < Cardinality(Unclaimed)
  <2>1. PICK w \in Wave : TRUE
    BY <1>1, WaveTakes DEF Dispatch
  <2>2. IsFiniteSet(Unclaimed) /\ Cardinality(Unclaimed) \in Nat
    BY <1>1, LeftFinite
  <2>3. /\ IsFiniteSet(Unclaimed \ {w})
        /\ Cardinality(Unclaimed \ {w}) = Cardinality(Unclaimed) - 1
    BY <1>3, <2>1, <2>2, FS_RemoveElement
  <2>4. Cardinality(Unclaimed') <= Cardinality(Unclaimed \ {w})
    BY <1>4, <2>1, <2>3, FS_Subset
  <2>5. Cardinality(Unclaimed') \in Nat
    BY <1>4, PartOfBoard DEF Unclaimed
  <2> QED  BY <2>2, <2>3, <2>4, <2>5
<1> DEFINE a == (cfg.retries + 3) * Cardinality(Unclaimed \cup wave)
           b == Cardinality(Unclaimed)
           bb == Cardinality(Unclaimed')
           d == IF report.over THEN 0 ELSE 1
<1>7. a \in Int /\ b \in Nat /\ bb \in Nat /\ d \in Nat
  <2>1. \A x, y \in Nat : x * y \in Int
    BY SMT
  <2>2. cfg.retries + 3 \in Nat /\ Cardinality(Unclaimed \cup wave) \in Nat
    BY <1>1, LeftFinite, SettingsTyped
  <2>3. b \in Nat /\ bb \in Nat
    BY <1>4, LeftFinite, PartOfBoard DEF Unclaimed
  <2> QED  BY <2>1, <2>2, <2>3
<1>8. Work = a + b + 0 + d /\ Work' = a + bb + 0 + d
  BY <1>2, <1>5 DEF Work
<1>9. bb < b
  BY <1>6
<1> HIDE DEF a, b, bb, d
<1> QED  BY <1>7, <1>8, <1>9

(* A result that is taken up leaves the wave, with its budget and more.     *)
LEMMA TakeShrinks ==
  ASSUME IInv, IInv', UniqueIds, NEW p \in Pos, TakeResult(p)
  PROVE  Work' < Work
<1>1. TypeOK /\ TypeOK' /\ Nobody \notin Pos
  BY SettingsTyped DEF IInv
<1>2. /\ p \in wave /\ wave' = wave \ {p} /\ current = Nobody /\ current' = p
      /\ attempt' = 0 /\ ~ asking'
      /\ UNCHANGED <<tasks, cfg, status, report>>
  BY DEF TakeResult, fixed, IInv, Asked
<1>3. p \notin Unclaimed
  BY <1>2 DEF IInv, InFlight, Unclaimed
<1>4. Unclaimed' = Unclaimed
  BY <1>2 DEF Unclaimed
<1> DEFINE n == Cardinality(Unclaimed \cup wave)
           b == Cardinality(Unclaimed)
           d == IF report.over THEN 0 ELSE 1
<1>5. n \in Nat /\ n' \in Nat /\ b \in Nat /\ d \in Nat /\ cfg.retries \in Nat
  <2>1. (Unclaimed \cup wave)' \in SUBSET Pos
    BY <1>1, <1>2, <1>4 DEF TypeOK, Unclaimed
  <2> QED  BY <1>1, <2>1, LeftFinite, SettingsTyped, PartOfBoard
<1>6. n = n' + 1
  <2>1. (Unclaimed \cup wave)' = (Unclaimed \cup wave) \ {p}
    BY <1>2, <1>3, <1>4
  <2>2. p \in Unclaimed \cup wave /\ IsFiniteSet(Unclaimed \cup wave)
    BY <1>1, <1>2, LeftFinite
  <2>3. n' = n - 1
    BY <2>1, <2>2, FS_RemoveElement
  <2> QED  BY <1>5, <2>3
<1>7. Work = (cfg.retries + 3) * n + b + 0 + d
  BY <1>2 DEF Work
<1>8. Work' = (cfg.retries + 3) * n' + b + (cfg.retries - 0 + 2) + d
  BY <1>1, <1>2, <1>4 DEF Work
<1>9. (cfg.retries + 3) * n = (cfg.retries + 3) * n' + cfg.retries + 3
  BY <1>5, <1>6, OneLess
<1> DEFINE a == (cfg.retries + 3) * n'
<1>10. a \in Int
  <2>1. \A x, y \in Nat : x * y \in Int
    BY SMT
  <2> HIDE DEF n
  <2> QED  BY <1>5, <2>1
<1>11. Work = a + cfg.retries + 3 + b + d /\ Work' = a + b + cfg.retries + 2 + d
  <2> HIDE DEF n, b, d
  <2>1. Work' = a + b + (cfg.retries - 0 + 2) + d
    BY <1>8
  <2>2. Work = (a + cfg.retries + 3) + b + 0 + d
    BY <1>7, <1>9
  <2> HIDE DEF a
  <2> QED  BY <1>5, <1>10, <2>1, <2>2
<1> HIDE DEF a, n, b, d
<1> QED  BY <1>5, <1>10, <1>11

(* A report is the last thing to do. *)
LEMMA FinishShrinks ==
  ASSUME IInv, Finish
  PROVE  Work' < Work
<1>1. Work \in Nat
  BY WorkIsNat DEF IInv
<1>2. report'.over /\ ~ report.over /\ UNCHANGED <<cfg, status, wave, merging>>
  BY DEF Finish, Idle, fixed, merging
<1> DEFINE a == (cfg.retries + 3) * Cardinality(Unclaimed \cup wave)
                  + Cardinality(Unclaimed)
                  + (IF current = Nobody THEN 0
                     ELSE IF asking THEN 1 ELSE cfg.retries - attempt + 2)
<1>3. Work = a + 1 /\ Work' = a + 0
  <2>1. Unclaimed' = Unclaimed
    BY <1>2 DEF Unclaimed
  <2> QED  BY <1>2, <2>1 DEF Work, merging
<1>4. a \in Int
  <2>1. cfg.retries \in Nat /\ attempt \in Nat
    BY SettingsTyped DEF IInv, TypeOK
  <2>2. \A x, y \in Nat : x * y \in Int
    BY SMT
  <2>3. cfg.retries + 3 \in Nat /\ Cardinality(Unclaimed \cup wave) \in Nat
        /\ Cardinality(Unclaimed) \in Nat
    BY <2>1, LeftFinite DEF IInv
  <2>4. (cfg.retries + 3) * Cardinality(Unclaimed \cup wave) \in Int
    BY <2>2, <2>3
  <2> QED  BY <2>1, <2>3, <2>4
<1> HIDE DEF a
<1> QED  BY <1>3, <1>4

(* Every step of a run uses up some of what it has left, so that a run of N *)
(* subtasks with R retries ends within N * (R + 4) + 1 steps, for boards of *)
(* any size and shape and whatever models, tests and people answer.         *)
THEOREM WorkShrinksHolds == Spec => WorkShrinks
<1>1. IInv => Work \in Nat
  BY WorkIsNat DEF IInv
<1>2. ASSUME IInv, IInv', (Work \in Nat)', [Next]_vars
      PROVE  [UniqueIds => 0 <= Work' /\ Work' < Work]_vars
  <2> SUFFICES ASSUME UniqueIds, Next
               PROVE  0 <= Work' /\ Work' < Work
    BY <1>2
  <2>1. Work' < Work
    BY <1>2, DispatchShrinks, TakeShrinks, MergeShrinks, FinishShrinks DEF Next
  <2> QED  BY <1>2, <2>1
<1> QED  BY <1>1, <1>2, Invariance, PTL DEF Spec, WorkShrinks
------------------------------------------------------------------------------
(* A run is a schedule. *)

(* The first pending subtasks of a run of the swarm are Schedule's. *)
LEMMA InitSchedules == ASSUME Init PROVE Schedule!Init
<1>1. TypeOK
  BY InitIInv DEF IInv
<1>2. Needs \in [Pos -> SUBSET (Pos \cup {Nobody})]
  BY <1>1, FirstFound DEF Needs
<1>3. Limit \in Nat \ {0}
  BY <1>1, SettingsTyped DEF Limit
<1> QED  BY <1>2, <1>3 DEF Init, NoReport, Schedule!Init

(* What a subtask needs is met when the board says so. (TaskBoard::ready)   *)
LEMMA ClaimableIsReady ==
  ASSUME TypeOK
  PROVE  Schedule!Claimable = Ready
<1>1. ASSUME NEW p \in Pos, NEW d \in tasks[p].deps
      PROVE  Met(d) <=> LET n == IF Known(d) THEN First(d) ELSE Nobody
                        IN  n \in Pos /\ status[n] = "done"
  BY FirstFound, SettingsTyped DEF Met
<1>2. ASSUME NEW p \in Pos
      PROVE  (\A n \in Needs[p] : n \in Pos /\ status[n] = "done")
                <=> \A d \in tasks[p].deps : Met(d)
  BY <1>1 DEF Needs
<1> QED  BY <1>2 DEF Ready, Schedule!Claimable

(* The schedule counts as the swarm does. *)
LEMMA SameCardinality == ASSUME NEW S PROVE Schedule!Cardinality(S) = Cardinality(S)
  BY Zenon DEF Schedule!Cardinality, Cardinality

(* Between dispatches nothing is in flight. *)
LEMMA IdleIsIdle ==
  ASSUME IInv, UniqueIds, Idle
  PROVE  Schedule!InFlight = {}
  BY SettingsTyped DEF IInv, InFlight, Idle, Schedule!InFlight

(* Recording the subtask being merged ends a task in flight. *)
LEMMA RecordEnds ==
  ASSUME IInv, UniqueIds, current # Nobody, NEW s \in {"done", "failed"},
         Mark(current, s), UNCHANGED fixed
  PROVE  current \in Pos /\ Schedule!Ends(current, s)
<1>1. current \in Pos /\ ~ report.over
  BY SettingsTyped DEF IInv, Quiescent
<1>2. status' = [status EXCEPT ![current] = s]
  BY <1>1, FirstIsIt DEF IInv, Mark
<1>3. current \in Schedule!InFlight
  BY <1>1 DEF IInv, InFlight, Schedule!InFlight
<1>4. UNCHANGED <<Needs, Limit>>
  BY DEF fixed, Needs, Limit, Known, First
<1> QED  BY <1>1, <1>2, <1>3, <1>4 DEF Schedule!Ends

(* Every step of the swarm is one of the schedule, or none.                 *)
LEMMA StepSchedules ==
  ASSUME IInv, IInv', UniqueIds, [Next]_vars
  PROVE  [Schedule!Next]_(Schedule!vars)
<1> USE DEF fixed, merging
<1>1. ASSUME UNCHANGED <<fixed, status, report>>
      PROVE  UNCHANGED Schedule!vars
  BY <1>1 DEF Schedule!vars, Needs, Limit, Known, First
<1>2. TypeOK /\ report \in [over : BOOLEAN, stopped : BOOLEAN, allDone : BOOLEAN]
      /\ report'.over \in BOOLEAN
  BY DEF IInv, TypeOK
<1>3. CASE Dispatch
  <2>1. Schedule!InFlight = {} /\ ~ report.over
    BY <1>3, IdleIsIdle DEF Dispatch, Idle
  <2>2. Wave \in SUBSET Schedule!Claimable /\ Wave # {} /\ Cardinality(Wave) <= Limit
    BY <1>2, <1>3, ClaimableIsReady, WaveTakes, WaveBounded DEF Dispatch, Wave
  <2>3. Wave \subseteq Pos
    BY DEF Wave, Ready
  <2>4. \A w \in Wave : First(tasks[w].id) = w
    BY <1>2, <2>3, FirstIsIt
  <2>5. status' = [p \in Pos |-> IF p \in Wave THEN "claimed" ELSE status[p]]
    BY <1>3, <2>3, <2>4 DEF Dispatch
  <2>6. UNCHANGED <<Needs, Limit, report.over>>
    BY <1>3 DEF Dispatch, Needs, Limit, Known, First
  <2>7. Schedule!ClaimRound
    <3>1. \E S \in SUBSET Schedule!Claimable :
            /\ S # {} /\ Schedule!Cardinality(S) <= Limit
            /\ status' = [p \in Pos |-> IF p \in S THEN "claimed" ELSE status[p]]
      BY <2>2, <2>5, SameCardinality
    <3> QED  BY <2>1, <2>6, <3>1 DEF Schedule!ClaimRound
  <2> QED  BY <2>7 DEF Schedule!Next
<1>4. ASSUME NEW p \in Pos, TakeResult(p) PROVE UNCHANGED Schedule!vars
  BY <1>1, <1>4 DEF TakeResult
<1>5. CASE ReviewSendsBack \/ Retries
  BY <1>1, <1>5 DEF ReviewSendsBack, Retries
<1>6. ASSUME NEW finding, Merging, Lands(finding)
      PROVE  [Schedule!Next]_(Schedule!vars)
  <2>1. CASE finding = "blocking" /\ Gates
    BY <1>1, <1>6, <2>1 DEF Lands
  <2>2. CASE ~ (finding = "blocking" /\ Gates)
    <3>1. current \in Pos /\ Schedule!Ends(current, "done")
      BY <1>6, <2>2, RecordEnds DEF Lands, Merging
    <3>2. report'.over = report.over
      BY <1>6 DEF Lands
    <3> QED  BY <1>2, <3>1, <3>2 DEF Schedule!Next, Schedule!Complete
  <2> QED  BY <2>1, <2>2
<1>7. CASE Succeeds \/ KeepsGreen
  BY <1>6, <1>7 DEF Succeeds, KeepsGreen
<1>8. CASE GivesUp
  <2>1. current \in Pos /\ Schedule!Ends(current, "failed")
    BY <1>8, RecordEnds DEF GivesUp, Merging
  <2>2. UNCHANGED report.over
    BY <1>8 DEF GivesUp
  <2> QED  BY <2>1, <2>2 DEF Schedule!Next, Schedule!Fail
<1>9. CASE Finish
  <2>1. Schedule!InFlight = {} /\ Schedule!Claimable = {} /\ ~ report.over
    BY <1>2, <1>9, IdleIsIdle, ClaimableIsReady DEF Finish, Idle
  <2>2. UNCHANGED <<Needs, Limit, status>> /\ report'.over = TRUE
    BY <1>9 DEF Finish, Needs, Limit, Known, First
  <2> QED  BY <2>1, <2>2 DEF Schedule!Next, Schedule!Conclude
<1>10. CASE Checkpoint
  <2>1. current \in Pos /\ Schedule!Ends(current, "done")
    BY <1>10, RecordEnds DEF Checkpoint, IInv, Asked
  <2> QED  BY <1>2, <2>1 DEF Schedule!Next, Schedule!Complete
<1>11. CASE UNCHANGED vars
  BY <1>1, <1>11 DEF vars
<1> QED
  BY <1>3, <1>4, <1>5, <1>7, <1>8, <1>9, <1>10, <1>11 DEF Next, Merge

(* On any board without repeated ids, the swarm claims and finishes its     *)
(* subtasks as the abstract scheduler does: in bounded rounds, each once,   *)
(* after all it depends on, and none is left when a run ends by itself.     *)
THEOREM SwarmSchedules == Spec /\ UniqueIds => ImplementsScheduler
<1>1. UniqueIds /\ [Next]_vars => UniqueIds'
  BY DEF UniqueIds, Next, Merge, Dispatch, TakeResult, ReviewSendsBack, Succeeds,
         Retries, KeepsGreen, GivesUp, Checkpoint, Lands, Finish, fixed, vars
<1> QED
  BY <1>1, InitSchedules, StepSchedules, Invariance, PTL
  DEF Spec, ImplementsScheduler, Schedule!Spec

===============================================================================
