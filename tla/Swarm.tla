-------------------------------- MODULE Swarm --------------------------------
(***************************************************************************)
(* The swarm orchestrator: a board of subtasks with dependencies is run in *)
(* waves, and the changes the workers propose are merged one at a time,    *)
(* each gated by the test suite, retried within a budget, and reviewed.    *)
(* (src/crates/sc-swarm: board.rs, orchestrator, review.rs)                *)
(*                                                                         *)
(* The models are the environment: a worker may propose nothing usable or  *)
(* a change with any effect on the suite, a reviewer may find anything,    *)
(* and the human at a checkpoint may answer either way.  Workers of one    *)
(* wave run in parallel but only read the workspace before any of their    *)
(* changes is merged, so a wave's results are determined when it starts    *)
(* being merged; the merges are the steps of this machine.                 *)
(***************************************************************************)
EXTENDS Integers, FiniteSets

CONSTANTS
  Size,       \* number of subtasks on the board
  Id,         \* subtask ids; results are merged in the order of their ids
  Boards,     \* the boards considered: position -> [id, deps]
  Test,       \* the tests of the suite
  OwnTest,    \* the tests that match a subtask's files by name
  Configs,    \* the settings considered: see Config
  NoTest      \* what is reported failing when the suite does not build or collect

Pos == 1 .. Size
Status == {"pending", "claimed", "done", "failed"}

(* verify: is a verification command set?   frozen: the contract tests the  *)
(* staged workflow wrote; none in a run on a free-text task.                *)
(* restores: can what a change touched be put back as it was?  Not if a     *)
(* file is not text, for it is backed up as if it were not there, nor if it *)
(* cannot be written.                                                       *)
Config ==
  [ verify : BOOLEAN, frozen : SUBSET Test, workers : Nat, retries : Nat,
    review : {"off", "report", "gate", "retry"}, restores : BOOLEAN ]

ASSUME SwarmConstants ==
  /\ Size \in Nat
  /\ Id \subseteq Nat
  /\ Boards \subseteq [Pos -> [id : Id, deps : SUBSET Id]]
  /\ IsFiniteSet(Test)
  /\ OwnTest \in [Id -> SUBSET Test]
  /\ Configs \subseteq Config
  /\ NoTest \notin Test

Nobody == 0
Broken == {NoTest}
Suites == (SUBSET Test) \cup {Broken}
Verdict == {"clear", "corroborated", "blocking"}
NoReport == [over |-> FALSE, stopped |-> FALSE, allDone |-> FALSE]

VARIABLES
  tasks, cfg, \* the board's subtasks and the settings: fixed once chosen
  status,     \* of each subtask
  wave,       \* subtasks whose results have yet to be merged
  current,    \* the subtask being merged
  asking,     \* is a person asked, at the checkpoint, whether to go on?
  attempt,    \* retries it has used
  baseline,   \* badness before its first merge, where the check compares with it
  green,      \* has it once satisfied its tests?
  standing,   \* what the last review of it found
  suite,      \* the failing tests of the workspace, or Broken
  report

vars == <<tasks, cfg, status, wave, current, asking, attempt, baseline, green,
          standing, suite, report>>
fixed == <<tasks, cfg>>
merging == <<current, asking, attempt, baseline, green, standing>>

------------------------------------------------------------------------------
(* The board. *)

Known(id) == \E p \in Pos : tasks[p].id = id

(* The board looks an id up by scanning from the front. *)
First(id) ==
  CHOOSE p \in Pos :
    tasks[p].id = id /\ \A q \in Pos : tasks[q].id = id => p <= q

(* Wrong: a dependency is met once it has been taken up. *)
MetWrong(id) == Known(id) /\ status[First(id)] # "pending"

(* A dependency on an id that is not on the board is never met. *)
Met(id) == Known(id) /\ status[First(id)] = "done"

Ready == { p \in Pos : status[p] = "pending" /\ \A d \in tasks[p].deps : Met(d) }

(* As many workers as are allowed; at least one. *)
Limit == IF cfg.workers = 0 THEN 1 ELSE cfg.workers

(* The first ready subtasks, one per worker. *)
Wave == { p \in Ready : Cardinality({ q \in Ready : q < p }) < Limit }

AllDone == Size > 0 /\ \A p \in Pos : status[p] = "done"

------------------------------------------------------------------------------
(* The gate. *)

(* Failing tests, or one for a run that reports no test at all. *)
Badness(s) == Cardinality(s)

(* A subtask none of the frozen tests matches is judged by all of them.     *)
Contract(id) ==
  IF OwnTest[id] \cap cfg.frozen = {} THEN cfg.frozen ELSE OwnTest[id] \cap cfg.frozen

(* No test of its own is left failing, as far as the suite s can tell: when *)
(* s is broken by some file, its own tests run or not depending on which.   *)
Satisfied(id, s) ==
  IF cfg.frozen # {}
  THEN { ok \in BOOLEAN : s # Broken => (ok <=> s \cap Contract(id) = {}) }
  ELSE { Badness(s) = 0 \/ Badness(s) < baseline }

(* Wrong: a merge the gate let through is complete.                         *)
CompleteWrong(id, accepted, s) == { accepted }

(* Is a merge that was or was not accepted, and left suite s, complete?     *)
Complete(id, accepted, s) ==
  IF ~ accepted THEN {FALSE}
  ELSE IF cfg.retries = 0 \/ ~ cfg.verify THEN {TRUE}
  ELSE Satisfied(id, s)

(* A change that landed, and left suite s.                                  *)
Accepted(s) == cfg.verify => Badness(s) <= Badness(suite)

(* Nothing was applied; or a change that made the suite worse was, and what *)
(* it touched is written back from the backup as far as that goes.          *)
Rejected(s) ==
  \/ s = suite
  \/ /\ cfg.verify /\ ~ cfg.restores
     /\ \E applied \in Suites : Badness(applied) > Badness(suite)

(* Merge the current result.                                                *)
Integrates(id, complete) ==
  \E accepted \in BOOLEAN, s \in Suites :
    /\ IF accepted THEN Accepted(s) ELSE Rejected(s)
    /\ complete \in Complete(id, accepted, s)
    /\ suite' = s

------------------------------------------------------------------------------
(* The schedule. *)

Init ==
  /\ tasks \in Boards /\ cfg \in Configs
  /\ status = [p \in Pos |-> "pending"]
  /\ wave = {} /\ current = Nobody /\ asking = FALSE
  /\ attempt = 0 /\ baseline = 0 /\ green = FALSE /\ standing = "clear"
  /\ suite \in Suites
  /\ report = NoReport

Idle == ~ report.over /\ wave = {} /\ current = Nobody

(* Wrong: claims all that is ready, then takes the first of it. *)
DispatchWrong ==
  /\ Idle /\ Ready # {}
  /\ wave' = Wave
  /\ status' = [ p \in Pos |->
                   IF \E r \in Ready : p = First(tasks[r].id) THEN "claimed"
                   ELSE status[p] ]
  /\ UNCHANGED <<fixed, merging, suite, report>>

(* Claim a wave and run its workers. *)
Dispatch ==
  /\ Idle /\ Ready # {}
  /\ wave' = Wave
  /\ status' = [ p \in Pos |->
                   IF \E w \in Wave : p = First(tasks[w].id) THEN "claimed"
                   ELSE status[p] ]
  /\ UNCHANGED <<fixed, merging, suite, report>>

(* Wrong: the result stays in the list. *)
TakeResultWrong(p) ==
  /\ ~ report.over /\ current = Nobody
  /\ p \in wave /\ \A q \in wave : tasks[p].id <= tasks[q].id
  /\ current' = p
  /\ attempt' = 0 /\ green' = FALSE /\ standing' = "clear"
  /\ baseline' = IF cfg.verify /\ cfg.frozen = {} THEN Badness(suite) ELSE 0
  /\ UNCHANGED <<fixed, status, wave, asking, suite, report>>

(* Results are merged in the order of their ids. *)
TakeResult(p) ==
  /\ ~ report.over /\ current = Nobody
  /\ p \in wave /\ \A q \in wave : tasks[p].id <= tasks[q].id
  /\ wave' = wave \ {p} /\ current' = p
  /\ attempt' = 0 /\ green' = FALSE /\ standing' = "clear"
  /\ baseline' = IF cfg.verify /\ cfg.frozen = {} THEN Badness(suite) ELSE 0
  /\ UNCHANGED <<fixed, status, asking, suite, report>>

Mark(p, s) == status' = [status EXCEPT ![First(tasks[p].id)] = s]

Reviews == IF cfg.review = "off" THEN {"clear"} ELSE Verdict

(* The subtask being merged, unless it is merged and a person is asked.     *)
Merging == current # Nobody /\ ~ asking

(* Wrong: review brings a retry budget of its own. *)
ReviewSendsBackWrong ==
  /\ Merging /\ Integrates(tasks[current].id, TRUE)
  /\ cfg.review = "retry" /\ cfg.retries > 0
  /\ standing' \in Reviews \ {"clear"}
  /\ green' = TRUE /\ attempt' = attempt + 1
  /\ UNCHANGED <<fixed, status, wave, current, asking, baseline, report>>

(* Green, but review found something it can prove, and budget is left.      *)
ReviewSendsBack ==
  /\ Merging /\ Integrates(tasks[current].id, TRUE)
  /\ cfg.review = "retry" /\ attempt < cfg.retries
  /\ standing' \in Reviews \ {"clear"}
  /\ green' = TRUE /\ attempt' = attempt + 1
  /\ UNCHANGED <<fixed, status, wave, current, asking, baseline, report>>

Gates == cfg.review \in {"gate", "retry"}

(* The subtask is done, findings and all: it is recorded at once, or, over  *)
(* a finding that blocks, after a person was asked.                         *)
Lands(finding) ==
  /\ green' = FALSE
  /\ IF finding = "blocking" /\ Gates
       THEN asking' = TRUE /\ UNCHANGED <<status, current>>
       ELSE Mark(current, "done") /\ current' = Nobody /\ UNCHANGED asking
  /\ UNCHANGED <<fixed, wave, attempt, baseline, report>>

(* Green, and nothing sends it back.                                        *)
Succeeds ==
  /\ Merging /\ Integrates(tasks[current].id, TRUE)
  /\ standing' \in Reviews
  /\ ~ (cfg.review = "retry" /\ standing' # "clear" /\ attempt < cfg.retries)
  /\ Lands(standing')

(* Wrong: the attempt is not counted. *)
RetriesWrong ==
  /\ Merging /\ Integrates(tasks[current].id, FALSE)
  /\ attempt < cfg.retries
  /\ UNCHANGED <<fixed, status, wave, merging, report>>

(* Rejected, or landed with its tests still failing, and budget is left.    *)
Retries ==
  /\ Merging /\ Integrates(tasks[current].id, FALSE)
  /\ attempt < cfg.retries
  /\ attempt' = attempt + 1
  /\ UNCHANGED <<fixed, status, wave, current, asking, baseline, green, standing, report>>

(* The last retry failed, but an earlier attempt was green: it is kept.     *)
KeepsGreen ==
  /\ Merging /\ Integrates(tasks[current].id, FALSE)
  /\ attempt >= cfg.retries /\ green
  /\ Lands(standing)
  /\ UNCHANGED standing

(* Never green within the budget. *)
GivesUp ==
  /\ Merging /\ Integrates(tasks[current].id, FALSE)
  /\ attempt >= cfg.retries /\ ~ green
  /\ Mark(current, "failed") /\ current' = Nobody
  /\ UNCHANGED <<fixed, wave, asking, attempt, baseline, green, standing, report>>

Stop == report' = [over |-> TRUE, stopped |-> TRUE, allDone |-> FALSE]

(* Wrong: a person's stop ends the run there and then.                      *)
CheckpointWrong ==
  /\ asking /\ asking' = FALSE
  /\ current' = Nobody
  /\ \/ Mark(current, "done") /\ UNCHANGED report
     \/ Stop /\ UNCHANGED status
  /\ UNCHANGED <<fixed, wave, attempt, baseline, green, standing, suite>>

(* A person answers, only then is the subtask recorded, and the run goes on *)
(* or stops.                                                                *)
Checkpoint ==
  /\ asking /\ asking' = FALSE
  /\ Mark(current, "done") /\ current' = Nobody
  /\ UNCHANGED report \/ Stop
  /\ UNCHANGED <<fixed, wave, attempt, baseline, green, standing, suite>>

(* Nothing can run any more: the whole suite has the last word.             *)
Finish ==
  /\ Idle /\ Ready = {}
  /\ report' = [ over |-> TRUE, stopped |-> FALSE,
                 allDone |-> AllDone /\ (cfg.verify => Badness(suite) = 0) ]
  /\ UNCHANGED <<fixed, status, wave, merging, suite>>

Merge ==
  ReviewSendsBack \/ Succeeds \/ Retries \/ KeepsGreen \/ GivesUp \/ Checkpoint

Next ==
  \/ Dispatch
  \/ \E p \in Pos : TakeResult(p)
  \/ Merge
  \/ Finish

Spec == Init /\ [][Next]_vars

(* One thread runs the loop, a call to a model or the suite returns, and a  *)
(* person who is asked answers.                                             *)
FairSpec == Spec /\ WF_vars(Next)

------------------------------------------------------------------------------
(* What makes it correct. *)

TypeOK ==
  /\ tasks \in Boards /\ cfg \in Configs
  /\ status \in [Pos -> Status]
  /\ wave \subseteq Pos /\ current \in (Pos \ wave) \cup {Nobody}
  /\ asking \in BOOLEAN
  /\ attempt \in Nat /\ baseline \in Nat /\ green \in BOOLEAN
  /\ standing \in Verdict /\ suite \in Suites
  /\ report \in [over : BOOLEAN, stopped : BOOLEAN, allDone : BOOLEAN]

UniqueIds == \A p, q \in Pos : tasks[p].id = tasks[q].id => p = q

(* A subtask leaves "pending" only when all it depends on is done, and what *)
(* is done stays so while its dependents run: no worker builds on a file    *)
(* that is not there.  (TaskBoard::ready; ids told apart)                   *)
DepsHonoured ==
  UniqueIds =>
    \A p \in Pos : status[p] # "pending" =>
      \A d \in tasks[p].deps : \E q \in Pos : tasks[q].id = d /\ status[q] = "done"

(* No more subtasks are with a worker, or waiting to be merged, than there  *)
(* are workers (max_workers, "bounded by hardware").                        *)
WorkersBounded ==
  UniqueIds => Cardinality({ p \in Pos : status[p] = "claimed" }) <= Limit

(* Test-driven and review-driven retries share one budget.                  *)
(* (integrate_with_retry: max_subtask_retries)                              *)
RetryBudgetShared == attempt <= cfg.retries

(* A subtask marked done in this step, its contract judged by the suite     *)
(* that step leaves.                                                        *)
MeetsContract ==
  current' = Nobody /\ current # Nobody /\ status'[First(tasks[current].id)] = "done"
    => suite' = Broken \/ suite' \cap Contract(tasks[current].id) = {}

Scoped == cfg.verify /\ cfg.frozen # {} /\ cfg.retries > 0

(* With frozen tests and retries, a subtask that is marked done leaves its  *)
(* own tests passing, unless the suite does not build.  Restricted to runs  *)
(* whose reviews cannot send a green subtask back: see KeptIsGreen.         *)
DoneIsGreen == [][Scoped /\ cfg.review # "retry" => MeetsContract]_vars

(* The same with such reviews: "if a subtask was green on any earlier       *)
(* attempt, that result is kept".  (integrate_with_retry)                   *)
KeptIsGreen == [][Scoped => MeetsContract]_vars

(* A proposal that stops the suite from building is never landed.           *)
(* (orchestrator: "a proposal that breaks the suite is reverted")           *)
BreakageNeverLands == [][cfg.verify /\ suite # Broken => suite' # Broken]_vars

(* Every dependency is on the board, and none waits on itself.              *)
WellFormed ==
  /\ UniqueIds
  /\ \A p \in Pos : \A d \in tasks[p].deps : Known(d)
  /\ \E rank \in [Pos -> Pos] :
       \A p \in Pos : \A d \in tasks[p].deps : rank[First(d)] < rank[p]

(* The subtasks that depend, directly or not, on one that failed.           *)
Downstream ==
  { p \in Pos :
      \A S \in SUBSET Pos :
        (\A q \in Pos :
           (\E d \in tasks[q].deps : status[First(d)] = "failed" \/ First(d) \in S)
             => q \in S)
        => p \in S }

(* A run that was not stopped ends with every subtask done or failed but    *)
(* those downstream of a failure, which were never started: none is         *)
(* forgotten, and none is built on a broken base.  (is_quiescent)           *)
HonestEnd ==
  WellFormed /\ report.over /\ ~ report.stopped =>
    \A p \in Pos : status[p] = (IF p \in Downstream THEN "pending"
                               ELSE IF status[p] = "failed" THEN "failed" ELSE "done")

(* What a run has left to do at most: for each subtask not yet merged a     *)
(* step to take its result up, its attempts and a checkpoint; a step to     *)
(* claim each; and the report.                                              *)
Unclaimed == { p \in Pos : status[p] = "pending" }

Work ==
  (cfg.retries + 3) * Cardinality(Unclaimed \cup wave)
    + Cardinality(Unclaimed)
    + (IF current = Nobody THEN 0 ELSE IF asking THEN 1 ELSE cfg.retries - attempt + 2)
    + (IF report.over THEN 0 ELSE 1)

(* Every step of the loop uses some of that up, whatever models, tests and  *)
(* people answer: a run of N subtasks ends within N * (retries + 4) + 1     *)
(* steps.  (spec 08: "Bounds (so a tiny model can't spin forever)")         *)
WorkShrinks == [][UniqueIds => 0 <= Work' /\ Work' < Work]_vars

(* A run ends.  (spec 08: "Bounds (so a tiny model can't spin forever)")    *)
Termination == <>report.over

------------------------------------------------------------------------------
(* Refinement: a run is a schedule. *)

(* An id that is not on the board is a need that nothing meets.             *)
Needs ==
  [ p \in Pos |-> { IF Known(d) THEN First(d) ELSE Nobody : d \in tasks[p].deps } ]

Schedule ==
  INSTANCE Scheduler WITH Task <- Pos, Nothing <- Nobody, needs <- Needs,
                          limit <- Limit, over <- report.over

(* On a board without repeated ids every step of the swarm is a round, the  *)
(* end of one task, the conclusion, or a matter of the merging alone.       *)
(* (TaskBoard; run_swarm_board_gated)                                       *)
ImplementsScheduler == Schedule!Spec
=============================================================================
