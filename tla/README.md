# smart-coder in TLA+

Specifications, model-checking runs and machine-checked proofs kept beside the
smart-coder workspace (Rust, `src/crates`). This file says what the system
consists of, which module models which part of it, what the runs and proofs
show, and what is left.

## 1. The system

smart-coder turns requests into code with language models. A request is filed on
a public **intake server**, screened, handed to a **daemon** on the developer's
machine, drafted into a specification by a **staged workflow**, reviewed by a
person, and built by a **swarm** of workers whose changes are merged under a
test gate. Around these sit the agent loop, the tools, the user interfaces and
the libraries they share.

| Component | State it keeps | Operations | What is hard |
|---|---|---|---|
| Intake store (`sc-server/store.rs`) | one JSON record per request | claim, reclaim, record drafted/failed/released, accept, send back, release, discard, screening verdicts | stale claims, late reports, per-repository exclusion, a background thread without the handlers' lock |
| Intake HTTP surface (`routes.rs`, `serve.rs`) | settings and sessions; the rate limiter's mutex serialises handlers | filing, polling, reporting, review verbs, caps | counts compared at one moment and spent at another |
| Accounts, links, roster (`account.rs`, `auth.rs`, `roster.rs`) | files under the write lock | sign-in, enrolment, revocation | single use, caches |
| Drafting daemon (`sc-daemon`, `sc-cli` `queue`) | a local queue of task files, what it declares to the server | poll, draft, park, push, release, requeue at start; approve, send back, discard at the terminal | three records that must agree, written one after the other by two processes and people; lost pushes, kills, work handed out again |
| Staged workflow (`sc-workflow`) | `state.json` with a generation, a lease file, artifacts | draft, decide, approve, send back, resume | check-then-write on files, expiry, pauses, restarts in another mode |
| Swarm (`sc-swarm`) | a board of subtasks, the workspace | dispatch a wave, merge, gate, retry, review, stop | dependency order, partial merges, two kinds of retry, honest reports, termination |
| Agent loop (`sc-core`) | one run's history and budgets | act, stall, escalate | budgets; sequential |
| Web hub (`sc-web`), the phone (`sc-android`, `src/android`) | pending confirmations, the stream of events, the run's flags | start, register, announce, resolve, deny all, follow, tap | answers racing a cancel or the end of the run; two locks taken in turn; no command may pass on another's answer |
| Review, verification, index, context, compliance, gateway, tools, interfaces | little or none shared | pure functions, I/O, rendering | not concurrent |

Interactions: daemons and browsers call the server over HTTP; the screening
thread and the handlers share the records on disk; the daemon runs the workflow,
which holds a lease on the repository's plan directory, while the approval and
send-back verbs write that directory without it; the agent of a remote run waits
in the hub for an answer the phone sends; the workflow's work
decomposition becomes the swarm's board; the swarm calls models, the test suite
and the review engine, and asks a person at checkpoints.

`PROJECT.json` lists every component with its sources and status, and under
`hazards` the places that are hard to test, each with the properties that watch
it.

## 2. Modules

| Module | What it is |
|---|---|
| `IntakeStore` | the store, the verbs that write to it, the screening thread, restarts and the clock; its properties |
| `RepoLease` | abstract: the lease on a repository that the claims amount to |
| `WorkQueue` | abstract: the requests of one repository as a daemon and its server rely on them; implemented by `IntakeStore` and by what `Daemon` makes of the server |
| `MCIntakeStore` | instances of `IntakeStore`: clocks and symmetry |
| `IntakeReadmissions` | `IntakeStore` with a history variable counting re-admissions |
| `IntakeStore_proofs` | the proofs about `IntakeStore` |
| `IntakeLease_proofs` | the proofs that `IntakeStore` implements `RepoLease` and `WorkQueue` |
| `IntakeCap_proofs` | the proof of the filing cap |
| `Swarm` | the board, the waves, the gate, the retries, the checkpoints; its properties |
| `Scheduler` | abstract: tasks claimed in rounds, each done or failed before the next |
| `MCSwarm` | boards and settings for `Swarm` |
| `Swarm_proofs` | the proofs about `Swarm` |
| `Workflow` | the run lease, `state.json` and the phase loop of runs on one directory; its properties |
| `Plan` | abstract: one task's design, drafted, accepted, sent back and frozen phase by phase |
| `MCWorkflow` | two runs of two modes, and the constraint that ends behaviours at a race |
| `Workflow_proofs` | the proofs about `Workflow`, races included |
| `WorkflowPlan_proofs` | the proof that `Workflow` implements `Plan` |
| `Daemon` | `queue serve`, `queue run`, the server's record, the queue and the directory of one name, with faults; its properties |
| `MCDaemon` | two requests whose first lines are the same, continue one another, or do neither |
| `Daemon_proofs` | the proofs about `Daemon` |
| `RemoteRun` | the iterate server, its runs, the waiter table, the stream and the phone; its properties |
| `MCRemoteRun` | its instance |
| `RemoteRun_proofs` | the proofs about `RemoteRun` |

`Daemon` composes three components: of the server it keeps what `IntakeStore`
says of one request (queued, claimed, drafted, over), of the workflow the first
phase and the lease of `Workflow`, and between them the daemon whole. That what it
keeps of the server is what the server does is not taken on trust: both modules
implement one abstract specification, `WorkQueue`, below.

### IntakeStore

`requests` is the directory of records; a record keeps the fields decisions
depend on (state, repository, filer, filing time, claim stamp and holder, the
drafted text, whether a send-back note waits, and when drafting runs began).
Texts, names and notes are tokens. `now` is the wall clock, `screening` the
setting, `batch` and `held` are the screening thread's local variables, and
`page` is what a reviewer's browser last showed.

The grain of atomicity is the code's. `dispatch` (serve.rs) holds the rate
limiter's mutex from before routing until the handler returns, so every verb is
one action. The screening thread takes no lock: `finish_screening` reads a
record (`SweepReads`), checks it, and writes the whole record (`SweepWrites`),
and any handler may run in between. `reclaim_stale` walks the records and can be
stopped by a write error; `ReclaimInterrupted` is that prefix of the walk. A
restart loses the thread's variables and nothing else.

The environment is unconstrained: any label may report on any request at any
time, any button may be pressed, filings come at any time. A lost answer to a
poll is a claim nobody reports on, a duplicated or late report is simply a
report. What is checked therefore holds whatever daemons and browsers do.

`...Wrong` operators, here and in the other modules, are not part of the specification.
Each is the definition it precedes with one slip a programmer could make, and is
kept to show that the property it is listed with can fail.

### Swarm

`tasks` is the board and `cfg` the settings, chosen at the start; `status` the
subtasks' states; `wave` the results still to be merged; `current`, `attempt`,
`baseline`, `green` and `standing` the local variables of
`integrate_with_retry`; `suite` the set of failing tests of the workspace.
A suite that does not build is `{NoTest}`: one failure, which is what `badness`
makes of it. Ids are looked up from the front of the board, as `TaskBoard` does,
so a repeated id means what it means in the code.

What a change is accepted on is `Accepted`; what a rejected one leaves is `Rejected`.
`integrate` writes the change, runs the suite and, if it got worse, writes the old
contents back; it ignores errors of either write, and a file that is not text is
backed up as if it were not there, so that the revert deletes it. The setting
`restores` says whether the workspace can be put back: if not, a change that was
rejected may leave any suite behind.

`Lands` records a subtask at once or, over a blocking finding, makes `asking` true:
the code asks the person at the checkpoint first, and calls `complete_subtask` when
the answer is there, whichever it is (`Checkpoint`); only then does a stop end the
run. Between question and answer the subtask is merged and not recorded.

The models are nondeterministic: a worker may produce nothing, a merge may have
any effect on the suite, a review may find nothing, something corroborated, or
something blocking, and the person at a checkpoint may go either way. Tests are
deterministic: the same workspace fails the same tests. Workers of a wave run in
parallel but write nothing, so the merges, which are serial, are the steps.
After `Retries` or `ReviewSendsBack` the next merge is that of the new proposal.

### Workflow

`lease` is the lease file and `disk` is `state.json`; everything indexed by a run
is local to its process: where it is (`pc`), the state it loaded (`state`), the
phase and the draft before the gate (`at`, `draft`), the purpose of the save it is
about to make (`why`), how long ago it wrote its heartbeat (`since`).

Files are read and written in steps of their own. Acquiring, a heartbeat and a
release each read the lease in one step and write it in another; `save_to`
compares generations in one step (fused with the local step before it) and writes
in the next; anything may happen in between, and a run may crash or pause
anywhere. Time is `Tick`: it makes the lease and every heartbeat one older, up to
just past EXPIRY, so a run that makes no heartbeat for long enough can be taken over
from. The read of a heartbeat on a lease that has not aged would rewrite what is
there and is left out.

The gate is a person: accept, edit, send back (with or without a note) and abort,
anywhere. The mode (full test-driven, plan only) and the task are chosen when a
run loads the directory, so a plan begun in one mode is resumed in the other.

A run is let into a directory whose stored first line continues its own task's or is
continued by it, an empty line included: `Alike` is that relation of tasks, and
`Conflict` is its absence, as in `task_conflict`. The run's own task is what its
saves leave there, so a design is handed on from one task to an alike one. `Alike`
is reflexive and symmetric and nothing else is supposed of it: it is not
transitive.

A draft of a phase says some text out of `Says[p]` and remembers (`on`) what each of
the phases it is generated from said then: `Needs` is `needs_upstream` of the phase,
and `Grounds` the texts themselves. Revising yields any text. `current` (runs whose
state is the one on disk), `raced` (a lease file was written or removed that had
changed since it was read) and `torn` (a save landed in the window of another) are
history.

### Daemon

One directory, named by the texts of all requests: two texts with one slug, which
is the hard case. The server's record, the local task and the directory's
specification are three files; everything that writes two of them is two steps,
and its process may be killed between them. `serve` polls, takes a note, begins,
adopts or drafts, parks, pushes or releases; `run` picks from the queue beside it.
A person approves, sends back and discards at the terminal (`ApproveSpec`,
`RecordVerb`: first the directory, then the queue) and accepts or sends back on
the review page. The states nothing is done from (ready, discarded, failed;
accepted, discarded, failed) are one, `"over"`. The generation counter is replaced
by `current`: the processes whose copy is what is on disk. Later phases are left to
`Workflow`.

Which requests' first lines continue which is `Alike`, and `Conflict` is as in
`Workflow`. What can be promised of a directory that alike requests share is less
than one would like, for the relation is not transitive: "Fix the bug" lets "Fix the
bug. In auth" and "Fix the bug. In the parser" into its directory, which would not
let each other in. `Kin` is the closure, over the first lines in use.

A poll whose request the local queue cannot take is pushed as failed (`Unrecorded`).
A note is handed to the directory by a load and a save (`TakeNote`); `one_turn`
ignores its errors, so a note refused because somebody saved in between is dropped.
A release looks at the repository once more: the request is handed back all the
same, but the repository stays declared if it is one by now. The verbs at the
terminal load, compare generations and save with no step between: another save in
between refuses the verb, which then has done nothing. The window between comparison
and write is in `Workflow` (`torn`) and not repeated here.

Faults (a kill, a lost call or answer, a pause past the lease, a claim that is
reclaimed while its daemon is at work, a rebase, a repository that is gone) happen
at any moment, `MaxFaults` in all.

### RemoteRun

`pc` is where each run's thread is, `waiters` the waiter table and `reply` what a
run's channel holds, `events` the hub's stream. Registering and announcing a
prompt are two steps, and so are taking a waiter out and telling of it
(`telling`): the two locks are never held together. `POST /run`, `/confirm` and
`/cancel` are handled one at a time. The phone reads the stream an event at a
time from its index, shows and withdraws cards, and what it sends (`posts`)
arrives at any later moment and any number of times. `approved` and `ran` are
history. Commands remembered for a session, tool results on the stream and
unknown paths are left out.

### The abstract specifications

**RepoLease.** For each repository the claimed request, if any, is read as a lease: its holder
and its stamp. `ImplementsLease` says every step of the store is a step of
`RepoLease`: a lease is granted only when it is free or has outlived its timeout,
an unstamped one is stamped before it can expire, and one step grants one at most.

**WorkQueue.** Of each repository the requests past screening, as none, queued,
claimed, drafted or over, with whether a note waits and what draft is shown. One
claim at a time, of the oldest that waits; reports only under a claim; a note that
every claim handed back or timed out passes on to the next; what is closed is never
offered again. `IntakeStore` is mapped for each repository; a request whose verdict
the screening thread still has to write counts as not offered, so that a late
verdict over a discard (section 4) is a first offer of that request, and not the
return of one a daemon had seen. In `Daemon` the mapping is the variable `server`.
So what `Daemon` has of the server (a poll, reports that arrive late or never, a
claim that times out, a person on the review page) is a use of what the store keeps,
repository by repository.

**Scheduler.** Tasks that need tasks, a limit and an end, and nothing of merges,
suites or reviews: rounds of claims within the limit, of tasks whose needs are
done; every claimed task is done or failed before the next round; a run ends when
nothing can be claimed or a person stops it. In the mapping a dependency is looked
up as `TaskBoard` does, and one that is not on the board is a need that is never
met. With repeated ids a run is no schedule (`swarm_duplicate_ids`), so the
refinement supposes there are none.

**Plan.** `state.json` without runs, leases or generations: whose task it is, what
each phase says, which are approved, the notes and the tests. It passes from a task only to one
alike. Until two saves
overlap every save, of whichever run, is one step of the design: a phase drafted,
accepted, edited or sent back with all that is built on it, a plan file taken, the
tests frozen. The properties of `Workflow` each watch one thing that a save must
not do; this one says of every save what it does, so that a phase skipped by a run
of the other mode, a draft adopted from a task that is not alike, or a send-back that forgets
what is built on the phase is caught as no step of `Plan` at all.

## 3. Runs

| Run | Instance | Shows |
|---|---|---|
| `intake_store` | 2 requests, 2 repositories, 2 daemons, 2 texts, clock 0..2, timeout 2, window 1, caps 1; restarts and switching of screening allowed; 190 thousand states | the invariants, the action properties and the two refinements below |
| `intake_live` | 2 requests, 1 repository, screening configured throughout | `EveryClaimEnds`, `ScreeningEnds` under fairness |
| `intake_discard` | 1 request | **violated**: `DiscardIsFinal` |
| `intake_readmissions` | 2 requests, a budget of 1 | **violated**: `ReadmissionsWithinCap` |
| `swarm` | 3 subtasks on 6 boards, 12 settings (2 of them of a workspace that cannot be put back), 2 tests; 17 thousand states | the safety properties below, the refinement of `Scheduler` and `Termination` |
| `workflow` | 2 runs, 2 modes, 3 phases with the breakdown second and each needing all before it, 3 tasks of which 2 are alike, 2 texts of the first phase, 5 saves; 1.02 million states | the workflow properties below and the refinement of `Plan` |
| `daemon` | 2 requests (one from the server, one from the terminal) on one directory, first lines the same, continuing one another or unrelated, 1 fault, 1 send-back; 339 thousand states | the daemon properties below, the refinement of `WorkQueue`, `RepoFreed` and `Answered` |
| `remote` | 2 runs, 2 commands, 2 prompts; 386 thousand states | the remote properties below and `RunEnds` |
| `daemon_withdrawn` | the daemon with no other repository | **violated**: `WithdrawnNotTaken` |
| `swarm_breaks_build` | the same boards, one setting | **violated**: `BreakageNeverLands` |
| `swarm_keeps_red` | reviews that ask for retries, suites that build throughout | **violated**: `KeptIsGreen` |
| `swarm_duplicate_ids` | a board with a repeated id | **violated**: `Termination` |

Intake properties. `OneClaimPerRepo`: two drafts of one repository are never in
flight. `RecordsCoherent`: stamps, holders, drafts and notes appear exactly in
the states that mean them. `VerdictIsCurrent`: nothing but a discard overtakes a
verdict. `FilingCap`: within any window an account has no more filings than the
cap. `Lifecycle`: only legal moves, so nothing unscreened reaches a daemon,
accepted is final, and a discarded request moves only under a late verdict.
`ImplementsWorkQueue`: above; among what it implies is `NoteSurvives`, that a
send-back note is lost only to the draft it grounds. `ImplementsLease`: above.
`AcceptedIsSettled` and `AcceptedWasShown`: a decision is never rewritten and
was about the text on the reviewer's page.

Swarm properties. `DepsHonoured`: nothing starts before its dependencies are done.
`DoneIsGreen`: with frozen tests, done means the subtask's own tests pass, where
review cannot send green work back. `HonestEnd`: a run that was not stopped ends
with everything done or failed except exactly what is downstream of a failure.
`WorkShrinks`: every step uses up part of a bound on what is left, so that a run of
N subtasks ends within N * (retries + 4) + 1 steps; both kinds of retry draw on one
budget, or it would not. `ImplementsScheduler`: above; it also says that a run which
a person stops at a checkpoint has recorded the subtask they were asked about.
`Termination`. Two more are theorems only, since the refinement or the measure
implies what a run would show of them: `WorkersBounded` and `RetryBudgetShared`.
That a rejected change leaves the suite as it was is not among the properties: see
section 4.

Workflow properties. `OneFreshHolder`: two runs with fresh heartbeats are never
both at work. `StaleSavesRefused`: a run that was taken over from does not
clobber its successor. `PlanCoherent`: approved phases first, then at most one
draft, each grounded on every phase it needs as that now reads, tests only for the
approved breakdown. `OnlyGateApproves`: no resumption, no mode and no run that was
taken over from approves a phase. `ImplementsPlan`: above. It implies `PendingKept`
(a resumed draft is offered again, neither adopted nor redrafted, and a note stays
until its phase is approved) and `OneTaskPerDirectory` (a design is taken over only by
a task alike to the one it was last saved for), which are theorems only.

Daemon properties. `OwnSpec`: no reviewer is shown the specification of a request
whose first line is not linked to theirs by lines that continue one another; more
the code does not promise (section 4). `OnlyHumanApproves`. `DraftKept` and
`SettledKept`: a draft, and an approval, survives kills, lost pushes, re-polled work
and a second process, until it is sent back. `ImplementsWorkQueue`: no report,
however late, moves a request that was settled, sent back or handed out again.
`RepoFreed`: a killed draft does not hold its repository for ever. `Answered`: every
request filed comes to a draft, a failure or a decision, unless serve found its
repository to be none.

Remote properties. `RunsWhatWasApproved`: no answer, late or repeated, lets a
command run that nobody approved. `ToldOnce`: the stream tells of each prompt once
and truly. `NobodyStranded`: a run that waits has a waiter, and a prompt that the
phone shows or will come to show. `RunEnds`: every run ends.

Bounds. Exclusion is about pairs, so two requests of a repository, two daemons
and two repositories show every way it can fail; a clock of three instants holds
a fresh, an ageing and an expired claim, and timeout 2 against window 1 separates
the two durations. One drafted text against another is what the digest tells
apart. Requests and labels are never reused within these runs, so a third would
repeat the roles of the first two. Symmetry is over repositories, labels and
texts, in the safety run only. For the swarm, three subtasks are enough for a
chain, a fan-in, a fan-out, a cycle beside a free task and a dependency that is
missing; two tests let a merge repair one and break the other; retries 0 to 2
cover none, a last and a first-of-several. Ids differ from positions on two
boards, since order of merging follows ids and selection follows positions.

Two runs of the workflow show every takeover, since a third would be a run taken
over from or a taker again. The breakdown being the second of three phases leaves a
phase on either side of it. Five saves are two phases written, reviewed and one sent
back, by one run or by two in turn; an expiry of 0 makes every `Tick` matter.
`UpToARace` ends a behaviour at the first lease file written over one not seen and
at the first torn save: neither has a guard in the code, the properties are stated
up to them, and what two runs may do afterwards the proofs cover. `HandedOnEarly`
has one of the alike tasks save first, as the third on its own would do what they
do, has a design handed on by its second save, and then follows no run of the other
task any further. For the daemon two requests, one of each origin, have every
relation two can have (lines alike or not, both processes, either first), and one
fault at every moment and of every kind is what its recovery is written for.
`FewerOfTwoLines` allows a fault or a send-back but not both where the lines are
unrelated, and neither where one continues the other, since the code then goes the
way it goes for one line and only what is recorded differs. The safety properties
are proved for any number of requests, lines, faults and send-backs. That `Alike`
fails to be transitive takes three lines, so it is the proofs that cover it. Two
prompts suffice for an answer to the first to arrive at the second, two runs for a
run started while the last one still wraps up.

Fairness. `daemon` assumes that processes are started again, that the model
answers and a process that is up goes on, that claims and dead leases run out
and that a rebase ends; not that anything is delivered more often than the
budget of faults makes it, nor that anybody presses a button. `remote` assumes
that model and tools return, that the phone keeps polling, and that a person
answers a prompt that is shown and tries again until the answer arrives.
`intake_live` assumes that somebody keeps polling (daemons loop over `poll` for
ever), that the screening thread is scheduled (an endless loop with a sleep),
and that time passes; no handler and no person is assumed to act. `swarm`
assumes only that the loop continues: model calls and the suite return, which
the code bounds with timeouts.

Deadlock checking is off in the intake and swarm runs: the clock of the former
ends, and a swarm run ends when its report is made. It is on in `workflow`,
`daemon` and `remote`, which never stop.

## 4. What the violations show

* `intake_discard`: the screening thread writes back a record it read before a
  discard; the discarded request is queued again, or quarantined.
* `intake_readmissions`: the drafting budget counts runs begun. Releases nobody
  has polled for are not counted, so more can be admitted than the cap. The shortest
  such behaviour has a send-back and a release, and begins with a claim made by an
  older build, of which no run is on record; without one it takes more filings.
* `swarm_breaks_build`: a suite that does not build counts as one failure, so a
  merge that breaks the build of a suite with a failing test is accepted.
* `swarm_keeps_red`: a review-driven retry that passes the gate but fails the
  subtask's own tests stays in the workspace while the subtask is reported done
  on the strength of the earlier attempt. The run keeps to behaviours whose suite
  always builds, so that this is not `swarm_breaks_build` over again.
* `daemon_withdrawn`: a daemon that withdraws its only repository declares
  nothing, which the server reads as a daemon that serves anything, and hands it
  the request it just released.
* `swarm_duplicate_ids`: with a repeated id the run dispatches the second
  subtask for ever.

Met while modelling and not given a run: requests waiting for a verdict when
screening is switched off stay there; after a stop at a checkpoint the remaining
subtasks of the wave are `Claimed` although a comment says `Pending` (the
report's count covers both); an accepted, incomplete merge of a subtask that
fails is in the workspace but not in `integrated_files`; a later merge may break
the tests of a subtask already done as long as it repairs as many, which only
the final run of the suite reveals; the checkpoint is asked before the subtask is
recorded, although the comments at mod.rs:514-517 and 599-601 have it the other way,
so that a run which dies while a person is asked has merged a subtask its board calls
claimed; and a rejected change is not always gone, although merge.rs:6 says that
"Everything here is reversible": a file that is not text is deleted by the revert,
and a write that fails is not noticed, so that a rejected change may leave a worse
suite than an accepted one could, which is the next merge's standard.

For the staged workflow and the daemon: the comparison of first lines that keeps
requests of one slug apart (drive.rs:391-406) lets a line through that continues the
stored one, and the new line is stored. By way of "Fix the bug" a specification for
"Fix the bug. In auth" is adopted by, and shown for, "Fix the bug. In the parser",
although those two would refuse one another: the comment there says such a collision
must be detected, not adopted.

In the daemon: when the specification of a directory is approved already, a new
request for it drafts and approves the later phases by itself; the lease of a
process killed less than 90 seconds ago makes its requeued task `Failed` rather
than deferred, although `queue.rs` says that Ctrl-C loses nothing; a killed
`queue run` leaves its task `Drafting` until some process is started; `queue
approve` takes neither lease nor digest, so it may approve a newer draft than the
one that was read; the states a person sets locally are overwritten by the `put`
of the turn that is under way; a send-back note is lost if the directory is gone
or the save refused.

In the workflow: the windows of acquire, heartbeat, release and save are
unguarded, and two runs inside one of them both proceed; the frozen tests are lost
when a process dies between saving the approved breakdown and saving its tests,
or when a plan-only plan is resumed test-driven, because approved phases are
skipped; a specification taken again from a changed plan file leaves the later
phases approved on the old text; resuming saves the loaded draft over an edit made
on disk since.

In the remote server: once a run has stopped, `done` stays set, so that `/run` is
accepted beside an active run, and resets the cancel flag they share, which loses
a cancel; a prompt registered after `deny_all` waits for a person although the run
is cancelled; a waiter drained before its prompt was announced leaves a card on
the phone that nobody waits for.

## 5. Proofs

`IntakeStore_proofs` proves, for all values of the constants allowed by
`Bounds`, `Nones` and `NoneHeld` (any numbers of requests, repositories and
daemons, any timeouts and caps, and a clock that may also be set back):

* `TypeCorrect`, `MutualExclusion`, `Coherence`, `VerdictCurrency`: `TypeOK`,
  `OneClaimPerRepo`, `RecordsCoherent` and `VerdictIsCurrent` are invariants;
* `LifecycleHolds`, `NoteSurvivesHolds`, `AcceptedIsSettledHolds`,
  `AcceptedWasShownHolds`: the action properties.

The inductive invariant `IInv` is the conjunction of the four invariants. None of
the last three is inductive alone. Exclusion needs the verdict's invariant: what
the thread writes must be known not to be a second claim. That invariant needs
coherence, since the record written must be a coherent one; and all need types.
One lemma per action shows that it keeps coherence and exclusion of the records;
`ReclaimedUpToAged` treats the walk of `reclaim_stale`, complete or interrupted,
as one operator that each record passes through at most once. The action
properties then follow from `IInv` and the moves each action allows.

`IntakeLease_proofs` proves the refinement: `ClaimsAreLeases`, that `Spec` implies
`ImplementsLease`. The mapping chooses the claimed record of a repository, so it
is read through two lemmas, for a repository without a claim and for one whose
claim, by exclusion, is the only one to choose. A look at some records ages the
leases of those claimed among them (`HolderAges`); a write of a record that is no
claim drops the lease it was, or none (`PutSteps`); a poll ages all and then
grants one that is free (`PollSteps`). The claim of a record without a repository
is no lease, and its steps are stutters.

The same module proves `StoreOffersWork`, that `Spec` implies `ImplementsWorkQueue`:
at most one step of the queue of each repository, whatever one handler does to how
many. Exclusion makes the claim a poll times out the only one there is; the order
of ids makes the request it grants the oldest of those left; coherence gives what a
record shows and whether a note waits in each state; and `VerdictIsCurrent` makes
the write of a verdict a first offer or nothing.

`IntakeCap_proofs` proves `FilingCapHolds`: `FilingCap`, whichever way the clock
moves. A filing is let in only if the window that ends now has room, and that
window holds what is counted in any other that contains now; no other step makes
an account's filing, moves one in time, or gives it to someone else
(`StepFiling`). To count, the invariant adds that an account's filings are finitely
many.

`Swarm_proofs` proves, for boards of any size and shape, any set of tests and any
settings allowed by `SwarmConstants`:

* `WorkShrinksHolds`: the measure of what is left falls with every step, on a board
  without repeated ids: the bound on the length of a run, and the safety behind
  `Termination`, whichever way models, tests and people answer;
* `SwarmSchedules`: such a run implements `Scheduler`, of any size;
* `TypeCorrect`, `DependenciesHonoured`, `BudgetShared`, `WorkersBoundedHolds`,
  `EndIsHonest`: `TypeOK`, `DepsHonoured`, `RetryBudgetShared`, `WorkersBounded`
  and `HonestEnd` are invariants;
* `DoneIsGreenHolds`: the action property.

Its inductive invariant adds four parts to the first three invariants. `InFlight`
(claimed is exactly what waits in the wave or is being merged) says that the
subtask recorded done or failed was claimed, so that no subtask already done is
overwritten: without it `DepsHonoured` is not inductive. `GreenIsReviewed` (only
a run whose reviews retry has a green subtask unrecorded) excludes the merge that
keeps a green result from `DoneIsGreen`. `Asked` (a person is asked only about a
subtask that is merged, and with frozen tests and no send-backs by review, one that
meets its contract or is in a suite that does not build) carries `DoneIsGreen` from
the merge to the answer. `Quiescent` (an unstopped run is over
only when nothing is ready or in flight) gives `HonestEnd`: pending subtasks are
closed under dependents by `DepsHonoured`, and a pending one of least rank that
were not downstream of a failure would be ready. `WorkersBounded` follows from a
bound on the wave, whose last member comes after all others. `FirstFound` shows
that the lookup of an id finds a subtask of that id; the well-foundedness of the
numbers, a library theorem, stands behind it, the least rank and the last member.
The measure counts the subtasks pending, in the wave and being retried; claims move
subtasks from one count to the next (`WaveTakes`), so their
cardinalities are compared by the library's theorems on finite sets. For the
refinement a step is a round (dispatch), the end of one task (the record of a
result), the conclusion, or leaves the schedule alone (merges, retries, reviews).

`Workflow_proofs` proves, for any numbers of runs, phases, tasks and texts, any
expiry and any bound on saves (`WorkflowConstants`: the breakdown is not the first
phase, a phase needs earlier ones only, and alikeness of tasks is reflexive and
symmetric), and without the constraint of the run:

* `TypeCorrect`, `OneHolder`, `StaleRefused`, `DiskCoherent`: `TypeOK`,
  `OneFreshHolder`, `StaleSavesRefused` and `PlanCoherent` are invariants;
* `GateApproves`, `PendingIsKept`, `OneTask`: the action properties.

The inductive invariant has four parts. `FileTypes` and `RunTypes` are the types.
`Fresh` says that until a race a run at work whose heartbeat is fresh holds the
lease, and that lease and heartbeat are of the same age: exclusion alone is not
inductive, because a heartbeat would revive a lease that is somebody else's.
`PlanInv` says that what is on disk and what each run has loaded is `Coherent`,
where a plan file's text, which may change under a plan, excuses what is grounded
on it; that a run about to save holds a state that `Follows` what is on disk, by what
the purpose of the save allows to change; and that a run behind the disk is not
past the comparison (`Behind`). Coherence needs no assumption about races: a
torn save writes a whole, coherent state. The actions on the lease leave the plan
alone and the others the lease (`LeaseAlone`, `PipelineStep`), so each half has
its own lemmas; `DiskSteps` reduces the action properties to the one action that
writes the disk.

`WorkflowPlan_proofs` proves `WorkflowKeepsThePlan`: `Spec` implies
`ImplementsPlan`, under the same assumptions. The proof turns on `SavesInv`
(`SavesContinue`): the state each run is about to save, wherever it was paused
since it compared generations, makes of what is on disk the one step of the
design that its purpose names (`Moves`), as long as no other save came between.
`Follows` of `Workflow_proofs` bounds what a save may change and is not enough:
a step of `Plan` says which phase was due, that a draft under review is the one
decided on, and that the tests had not been written. Every action but the save
itself leaves the design alone, so `WriteSave` is the only one that is mapped to
a step; a save that overlaps another sets `overlapped`.

`Daemon_proofs` proves, for any set of numbered requests, any first lines and
texts and any number of faults and send-backs (`DaemonConstants`: of any text
there is another, since a redraft says something else):

* `TypeCorrect`, `OwnSpecShown`: `TypeOK` and `OwnSpec` are invariants;
* `HumansApprove`, `DraftIsKept`, `ApprovalIsKept`: the action properties;
* `DraftingIsOwnedHolds`: a task that counts as being drafted is, unless a process
  is down, whose start puts it back. What is left of `RepoFreed` is that processes
  go on and are started again, which is its fairness;
* `DaemonUsesWorkQueue`: `Spec` implies `ImplementsWorkQueue`.

`OwnSpec` becomes inductive with `OneKin` (the specification in the directory, its
rendering, the task of its state, and the requests shown, sent back or under review
are all of kin) and `SeesSpec` (a process whose copy is current saw what is there,
for a request of that kin). `KinEquivalence` shows that kinship is an equivalence
though alikeness is none, and that two lines in use that are alike are kin: this is
what makes an adoption keep the invariant. That the oldest of some waiting requests
is one of them rests on the well-foundedness of the numbers, a library theorem.
`DaemonUsesWorkQueue` adds `Written`: a draft that is put up was written for some
text and what waits shows none, so that a report is a submission, a return or the
close of a claim, or finds no claim and does nothing.

`StoreOffersWork` and `DaemonUsesWorkQueue` together say that the two sides of the
HTTP interface agree on its states. That is agreement of safety; that a request the
store offers is in the end asked for is `Answered` and `EveryClaimEnds`, each
checked on its own side.

`RemoteRun_proofs` proves, for any number of runs, commands and prompts:

* `TypeCorrect`, `OnlyApprovedRun`, `ToldOnceHolds`, `NobodyStrandedHolds`:
  `TypeOK`, `RunsWhatWasApproved`, `ToldOnce` and `NobodyStranded` are invariants.

An allowed answer, wherever it is on its way (in the phone, on the stream, in a
channel), was given by a person to the command that id was announced with
(`OneCommandPerId`, `AllowedByPerson`); a prompt is either still waited on, or
being told of, or told of, and once only (`SettledOnce`); and one that was
denied has not run and cannot (`DeniedNeverRuns`). `NobodyStranded` rests on
three facts of its own (`Reachable`): an id is announced once (`AnnouncedOnce`),
a run without an answer keeps its waiter until somebody takes it out to answer
(`WaiterKept`), and its prompt is on a card or still ahead of the phone on the
stream (`Shown`). Each of the inductive invariants was checked by TLC as well.

Model-checked only: all liveness, that is `EveryClaimEnds`, `ScreeningEnds`,
`Termination`, `RepoFreed`, `Answered` and `RunEnds` (fairness and ENABLED are
outside the prover). The safety half of three of them is proved: `WorkShrinksHolds`
for `Termination`, `DraftingIsOwnedHolds` for `RepoFreed`, `NobodyStrandedHolds` for
`RunEnds`. Every other property of a passing run is a theorem.

## 6. Plan

1. *done* `IntakeStore`, its runs, its invariants and action properties proved;
   `Swarm` and its runs.
2. *done* `Swarm_proofs`: the invariants and action properties of `Swarm` for
   any board.
3. *done* `Workflow`: expiry, heartbeats, takeovers, the generation check of
   `save_to` with the steps the file system separates, and the loop of `drive.rs`
   over them; its proofs.
4. *done* `Daemon`: the local queue with two processes, crashes, a lossy network
   and a directory two requests share; its proofs.
5. *done* `RemoteRun`: the iterate server, the hub's confirmations and the phone;
   its proofs.
6. *done* The proofs that `IntakeStore` implements `RepoLease` and keeps the
   filing cap.
7. *done* `Scheduler`, `Plan` and `WorkQueue`, and the proofs that `Swarm`,
   `Workflow`, and `IntakeStore` and `Daemon` implement them; the measure that bounds
   a run of the swarm; the safety behind `RepoFreed` and `RunEnds`.
8. `Decompose` (coalescing by file and rewriting of dependencies against a
   reference definition), the agent loop's budgets, accounts and links: sequential
   code, each a small module.

## 7. Limits

The intake model assumes the public surface is configured (without it
`drafting_budget` is not applied). Repository names served by a poll are always a
non-empty set: naming none means all. Account, link and settings files, sign-in,
rate limits and rendering are left out, and so are the long poll's timing (each
re-check is a poll) and partially written files. Capping the drafting log at the
budget is exact, since counts are only compared with it. In the swarm the worker's
prompt, the advisor, events and the list of integrated files are left out; frozen
files are protected by construction, since a merge never writes them. File contents
while a file is being written are below the grain of every module: a write is one
step, as `rename` makes it, and the temporary name two threads share (store.rs,
`write_atomic`) stays a hazard without a property.

The workflow leaves out the `.md` renderings (an edit on disk is the gate's
revision), progress events and the writer of the tests; a person who edits
`state.json` beside a run is part of `Daemon` only, as its approve and send-back
verbs. The daemon leaves out request texts that name a plan file, preflight
details and logging. The remote server leaves out the single-run dashboard, whose
browser stops following at `done`.

Not modelled, and why. Most of the workspace is not a state machine that several
actors share: the editor, the terminal and desktop interfaces, the phone's screens
and the web pages are rendering and input handling; the model backends and the
gateway are HTTP clients; the index, tracing, verification parsers, compliance
packs and decomposition are pure functions of their inputs; accounts, settings and
rosters are files written by one handler at a time under one mutex; the agent loop
is one thread's loop over a budget. By lines these are nearly all of the code, so
the share of it the modules stand for stays small: what is modelled is the part
where several processes, people and failures meet.
