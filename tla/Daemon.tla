------------------------------- MODULE Daemon -------------------------------
(***************************************************************************)
(* The drafting daemon on one machine and one repository: `queue serve`,   *)
(* which polls the server and pushes what it drafted, `queue run`, which   *)
(* works off the local queue beside it, and the people who press buttons   *)
(* at the terminal and on the review page.  (src/crates/sc-daemon:         *)
(* client.rs, runner.rs, queue.rs, park.rs; src/crates/sc-cli: queue.rs)   *)
(*                                                                         *)
(* The requests are those whose text names ONE artifact directory, the     *)
(* hard case.  The three records that must agree about a request (the      *)
(* server's, the local queue's and the directory's state.json) are files   *)
(* of their own, written one after the other, so everything that writes    *)
(* two of them is two steps, between which its process may die.            *)
(*                                                                         *)
(* Faults (a process killed, a message lost, a run paused past its lease   *)
(* or its claim, a rebase begun) happen any time, MaxFaults times in all.  *)
(***************************************************************************)
EXTENDS Integers

CONSTANTS
  Requests,      \* ids, ordered: the oldest is the smallest
  Remote,        \* those filed at the server, the others at the terminal
  Lines,         \* the first lines of the texts of requests
  Alike,         \* pairs of them of which one continues the other
  Layouts,       \* which requests have which first line
  Text,          \* what a drafted specification may say
  Serve, Run,    \* the two processes
  OtherRepos,    \* does the daemon serve other repositories as well?
  MaxFaults,     \* bound: faults in a behaviour
  MaxSendBacks,  \* bound: send-backs in a behaviour
  NoOne, NoRequest, NoLine, NoText

Procs == {Serve, Run}

ASSUME DaemonConstants ==
  /\ Requests \subseteq Nat /\ Remote \subseteq Requests
  /\ \A t \in Text \cup {NoText} : \E u \in Text : u # t
  /\ Layouts \subseteq [Requests -> Lines]
  /\ Alike \subseteq Lines \X Lines
  /\ \A x \in Lines : <<x, x>> \in Alike
  /\ \A x, y \in Lines : <<x, y>> \in Alike => <<y, x>> \in Alike
  /\ Serve # Run /\ NoOne \notin Procs
  /\ NoRequest \notin Requests /\ NoLine \notin Lines /\ NoText \notin Text
  /\ OtherRepos \in BOOLEAN
  /\ MaxFaults \in Nat /\ MaxSendBacks \in Nat

(* "over" stands for the states nothing is done from: ready, discarded and   *)
(* failed in the queue, accepted, discarded and failed on the server.       *)
TaskStates == {"none", "queued", "drafting", "review", "over"}
ServerStates == {"none", "queued", "claimed", "drafted", "over"}

(* The Specs artifact: for whom it was written tells texts apart as well.   *)
Artifact ==
  [ status : {"none", "draft", "approved"}, text : Text \cup {NoText},
    line : Lines \cup {NoLine} ]
NoArtifact == [status |-> "none", text |-> NoText, line |-> NoLine]

VARIABLES
  line,      \* the first line of each request's text
  server,    \* the server's record of each request; shown: for whom the spec
             \* it shows was written; note: a send-back note to hand over
  task,      \* the state of each request's task in the local queue
  spec,      \* the directory's Specs artifact
  owner,     \* the first line of the task its state.json is for
  file,      \* for whom spec.md was written
  lease,     \* who took its lease
  repo,      \* the repository: "ready", "busy" in a rebase, "gone"
  declared,  \* does the running serve still declare the repository?
  pc, on,    \* where each process is, and with which request
  seen,      \* the artifact it loaded
  current,   \* processes since whose load the directory was not saved
  verb,      \* what a person's verb has yet to record in the queue
  faults, backs

vars == <<line, server, task, spec, owner, file, lease, repo, declared,
          pc, on, seen, current, verb, faults, backs>>
directory == <<spec, owner, file>>
budget == <<faults, backs>>

NoVerb == [to |-> "none", on |-> NoRequest]

Set(f, x, v) == [f EXCEPT ![x] = v]
Oldest(S) == CHOOSE q \in S : \A k \in S : q <= k
InState(s) == {q \in Requests : task[q] = s}

Fault == faults < MaxFaults /\ faults' = faults + 1 /\ UNCHANGED backs

(* p goes on to `place`; its request and what it loaded are kept only while *)
(* they are needed.                                                         *)
Goes(p, place) ==
  /\ pc' = Set(pc, p, place)
  /\ on' = IF place \in {"down", "up"} THEN Set(on, p, NoRequest) ELSE on
  /\ seen' = Set(seen, p, NoArtifact)
  /\ current' = current \ {p}

(* Wrong: a turn hands its request on to the next.                          *)
TurnOverWrong(p) == pc' = Set(pc, p, "up") /\ UNCHANGED <<on, seen, current>>
(* The next turn: serve polls again, run goes on with the next task.        *)
TurnOver(p) == Goes(p, "up")

------------------------------------------------------------------------------
(* The server, as far as a daemon sees it (IntakeStore has it whole), and   *)
(* the people in front of it.                                               *)

Unfiled(q) == server[q].state = "none" /\ task[q] = "none"
Claimed == {q \in Requests : server[q].state = "claimed"}
Waiting == {q \in Requests : server[q].state = "queued"}

OnServer(q, state) == server' = [server EXCEPT ![q].state = state]

File(q) ==
  /\ q \in Remote /\ Unfiled(q)
  /\ OnServer(q, "queued")
  /\ UNCHANGED <<line, task, directory, lease, repo, declared, pc, on, seen, current, verb, budget>>

(* Accepted, or discarded in whatever state.                                *)
Settle(q) ==
  /\ server[q].state \notin {"none", "over"}
  /\ OnServer(q, "over")
  /\ UNCHANGED <<line, task, directory, lease, repo, declared, pc, on, seen, current, verb, budget>>

SendBackThere(q) ==
  /\ server[q].state = "drafted"
  /\ backs < MaxSendBacks /\ backs' = backs + 1
  /\ server' = [server EXCEPT ![q] = [state |-> "queued", note |-> TRUE, shown |-> NoLine]]
  /\ UNCHANGED <<line, task, directory, lease, repo, declared, pc, on, seen, current, verb, faults>>

(* A claim times out, which is a fault if its daemon is still at it.        *)
Reclaim(q) ==
  /\ q \in Claimed
  /\ IF on[Serve] = q THEN Fault ELSE UNCHANGED budget
  /\ OnServer(q, "queued")
  /\ UNCHANGED <<line, task, directory, lease, repo, declared, pc, on, seen, current, verb>>

(* Wrong: a report is taken whatever became of the claim.                   *)
ReportedWrong(q, state, shown) ==
  server' = Set(server, q, [state |-> state, shown |-> shown,
                            note |-> server[q].note /\ state # "drafted"])
(* A report is taken from whoever holds the claim.                          *)
Reported(q, state, shown) ==
  server' = IF q \in Claimed
            THEN Set(server, q, [state |-> state, shown |-> shown,
                                 note |-> server[q].note /\ state # "drafted"])
            ELSE server

------------------------------------------------------------------------------
(* queue.rs and the command line. *)

Add(q) ==
  /\ q \notin Remote /\ Unfiled(q)
  /\ task' = Set(task, q, "queued")
  /\ UNCHANGED <<line, server, directory, lease, repo, declared, pc, on, seen, current, verb, budget>>

(* Wrong: what a killed process was drafting is left as it is.              *)
RequeuedWrong == task
(* requeue_abandoned                                                        *)
Requeued == [q \in Requests |-> IF task[q] = "drafting" THEN "queued" ELSE task[q]]

Start(p) ==
  /\ pc[p] = "down"
  /\ task' = Requeued
  /\ declared' = (declared \/ p = Serve)
  /\ Goes(p, "up")
  /\ UNCHANGED <<line, server, directory, lease, repo, verb, budget>>

(* Ctrl-C, a crash, a power cut.                                            *)
Crash(p) ==
  /\ pc[p] # "down"
  /\ Fault
  /\ Goes(p, "down")
  /\ UNCHANGED <<line, server, task, directory, lease, repo, declared, verb>>

(* next_to_draft: the oldest queued task, unless the repository is busy.    *)
Pick ==
  /\ pc[Run] = "up"
  /\ IF InState("queued") = {} \/ InState("drafting") # {}
       THEN Goes(Run, "down")
       ELSE /\ pc' = Set(pc, Run, "begin")
            /\ on' = Set(on, Run, Oldest(InState("queued")))
            /\ UNCHANGED <<seen, current>>
  /\ UNCHANGED <<line, server, task, directory, lease, repo, declared, verb, budget>>

------------------------------------------------------------------------------
(* client.rs: one_turn, up to the draft. *)

(* A poll that declares no repository is served any.                        *)
Offered == declared \/ ~ OtherRepos

Poll ==
  /\ pc[Serve] = "up"
  /\ Offered /\ Claimed = {} /\ Waiting # {}
  /\ LET q == Oldest(Waiting)
     IN /\ OnServer(q, "claimed")
        /\ \/ /\ task' = Set(task, q, "queued")
              /\ pc' = Set(pc, Serve, IF server[q].note THEN "noting" ELSE "begin")
              /\ on' = Set(on, Serve, q)
              /\ UNCHANGED budget
           \/ Fault /\ UNCHANGED <<task, pc, on>>
           \/ /\ Fault /\ UNCHANGED task
              /\ pc' = Set(pc, Serve, "unrecorded")
              /\ on' = Set(on, Serve, q)
  /\ UNCHANGED <<line, directory, lease, repo, declared, seen, current, verb>>

(* The local queue could not take the request, and the server is told.      *)
Unrecorded ==
  /\ pc[Serve] = "unrecorded"
  /\ \/ Reported(on[Serve], "over", NoLine) /\ UNCHANGED budget
     \/ Fault /\ UNCHANGED server
  /\ TurnOver(Serve)
  /\ UNCHANGED <<line, task, directory, lease, repo, declared, verb>>

(* Is anyone else about to save the directory, or has just done so?         *)
SavingBeside == pc[Run] = "drafting" \/ verb # NoVerb

(* send_back_note, in a directory that has a state.json.  one_turn ignores  *)
(* its errors: it is refused if another save comes between its load and its *)
(* own, which then is as if it had never begun.                             *)
TakeNote ==
  /\ pc[Serve] = "noting"
  /\ pc' = Set(pc, Serve, "begin")
  /\ \/ (owner = NoLine \/ SavingBeside) /\ UNCHANGED <<spec, current>>
     \/ owner # NoLine /\ spec' = NoArtifact /\ current' = {}
  /\ UNCHANGED <<line, server, task, owner, file, lease, repo, declared, on, seen, verb, budget>>

------------------------------------------------------------------------------
(* runner.rs: draft. *)

(* Wrong: what is no repository is waited for as well.                      *)
RefusalWrong(p) == IF p = Run THEN "down" ELSE "up"
(* Where a run goes that preflight refuses: run ends, serve lets a rebase   *)
(* finish, and hands back what is no repository.                            *)
Refusal(p) == IF p = Run THEN "down" ELSE IF repo = "gone" THEN "release" ELSE "up"

Begin(p) ==
  /\ pc[p] = "begin"
  /\ IF repo = "ready"
       THEN task' = Set(task, on[p], "drafting") /\ Goes(p, "adopt")
       ELSE task' = Set(task, on[p], "queued") /\ Goes(p, Refusal(p))
  /\ UNCHANGED <<line, server, directory, lease, repo, declared, verb, budget>>

(* Wrong: whatever the directory holds is taken for this task's.            *)
ConflictWrong(q) == FALSE
(* task_conflict: neither first line starts with the other (an empty one    *)
(* starts every line).                                                      *)
Conflict(q) == owner # NoLine /\ <<owner, line[q]>> \notin Alike

(* run_workflow takes the lease and loads the directory, or fails.          *)
Adopt(p) ==
  /\ pc[p] = "adopt"
  /\ IF lease # NoOne \/ Conflict(on[p])
       THEN Goes(p, "failing") /\ UNCHANGED lease
       ELSE /\ lease' = p
            /\ pc' = Set(pc, p, "drafting")
            /\ seen' = Set(seen, p, spec)
            /\ current' = current \cup {p}
            /\ UNCHANGED on
  /\ UNCHANGED <<line, server, task, directory, repo, declared, verb, budget>>

(* A generated text never says what the one it would replace says.          *)
NewText == CHOOSE t \in Text : t # spec.text

(* Wrong: a restored draft is written anew.                                 *)
DraftedWrong(p) == [status |-> "draft", text |-> NewText, line |-> line[on[p]]]
(* The draft a run left is offered again; else one is generated.            *)
Drafted(p) ==
  IF seen[p].status = "draft" THEN seen[p]
  ELSE [status |-> "draft", text |-> NewText, line |-> line[on[p]]]

(* Wrong: the save looks at nothing.                                        *)
SaveRefusedWrong(p) == FALSE
(* save_to: another save came first.                                        *)
SaveRefused(p) == p \notin current

(* The model fails, or the save is refused, or the draft is saved and the   *)
(* gate parks the run.  In a directory whose specification is approved the  *)
(* run goes on to the later phases, which the gate lets pass, and ends      *)
(* without having parked.                                                   *)
Draft(p) ==
  /\ pc[p] = "drafting"
  /\ \/ Goes(p, "failing") /\ UNCHANGED directory
     \/ /\ ~ SaveRefused(p)
        /\ owner' = line[on[p]]
        /\ pc' = Set(pc, p, IF seen[p].status = "approved" THEN "failing" ELSE "parking")
        /\ current' = {}
        /\ seen' = Set(seen, p, NoArtifact)
        /\ IF seen[p].status = "approved"
             THEN spec' = seen[p] /\ UNCHANGED file
             ELSE /\ spec' = Drafted(p)
                  /\ file' = spec'.line
        /\ UNCHANGED on
  /\ UNCHANGED <<line, server, task, lease, repo, declared, verb, budget>>

Dropped(p) == lease' = IF lease = p THEN NoOne ELSE lease

(* Wrong: the gate of a minimal ceremony, which lets the phase pass.        *)
GateWrong(a) == [a EXCEPT !.status = "approved"]
(* ParkingGate *)
Gate(a) == a

Park(p) ==
  /\ pc[p] = "parking"
  /\ Dropped(p)
  /\ spec' = Gate(spec)
  /\ task' = Set(task, on[p], "review")
  /\ IF p = Serve THEN Goes(p, "pushing") ELSE TurnOver(p)
  /\ UNCHANGED <<line, server, owner, file, repo, declared, verb, budget>>

------------------------------------------------------------------------------
(* client.rs: what becomes of the draft.  Each message may be lost.         *)

Push ==
  /\ pc[Serve] = "pushing"
  /\ \/ Reported(on[Serve], "drafted", file) /\ UNCHANGED budget
     \/ Fault /\ UNCHANGED server
  /\ TurnOver(Serve)
  /\ UNCHANGED <<line, task, directory, lease, repo, declared, verb>>

Fail(p) ==
  /\ pc[p] = "failing"
  /\ Dropped(p)
  /\ task' = Set(task, on[p], "over")
  /\ IF p = Serve
       THEN \/ Reported(on[p], "over", NoLine) /\ UNCHANGED budget
            \/ Fault /\ UNCHANGED server
       ELSE UNCHANGED <<server, budget>>
  /\ TurnOver(p)
  /\ UNCHANGED <<line, directory, repo, declared, verb>>

(* The repository, if it still is none, is no longer declared, and the      *)
(* request is handed back.                                                  *)
Release ==
  /\ pc[Serve] = "release"
  /\ declared' = (declared /\ repo # "gone")
  /\ \/ Reported(on[Serve], "queued", NoLine) /\ UNCHANGED budget
     \/ Fault /\ UNCHANGED server
  /\ TurnOver(Serve)
  /\ UNCHANGED <<line, task, directory, lease, repo, verb>>

------------------------------------------------------------------------------
(* The person at the terminal: approve, send_back, discard.  The first two  *)
(* load the directory and save it, taking no lease, and then the task.  A   *)
(* verb that is refused, as another save came between its load and its own, *)
(* has done nothing.                                                        *)

ApproveSpec(q) ==
  /\ verb = NoVerb
  /\ task[q] = "review" /\ owner # NoLine
  /\ spec' = IF spec.status = "none" THEN spec ELSE [spec EXCEPT !.status = "approved"]
  /\ current' = {}
  /\ verb' = [to |-> "over", on |-> q]
  /\ UNCHANGED <<line, server, task, owner, file, lease, repo, declared, pc, on, seen, budget>>

SendBackHere(q) ==
  /\ verb = NoVerb
  /\ task[q] = "review" /\ owner # NoLine
  /\ backs < MaxSendBacks /\ backs' = backs + 1
  /\ spec' = NoArtifact
  /\ current' = {}
  /\ verb' = [to |-> "queued", on |-> q]
  /\ UNCHANGED <<line, server, task, owner, file, lease, repo, declared, pc, on, seen, faults>>

(* set_state, which an interrupt may forestall.                             *)
RecordVerb ==
  /\ verb # NoVerb
  /\ \/ task' = Set(task, verb.on, verb.to) /\ UNCHANGED budget
     \/ Fault /\ UNCHANGED task
  /\ verb' = NoVerb
  /\ UNCHANGED <<line, server, directory, lease, repo, declared, pc, on, seen, current>>

Discard(q) ==
  /\ task[q] \in {"queued", "drafting", "review"}
  /\ task' = Set(task, q, "over")
  /\ UNCHANGED <<line, server, directory, lease, repo, declared, pc, on, seen, current, verb, budget>>

------------------------------------------------------------------------------
(* Time and the developer's repository. *)

AtWork(p) == pc[p] \in {"drafting", "parking"}

(* A lease no heartbeat refreshes expires; that of a live run only if the   *)
(* run was paused, and the run does not notice.                             *)
Expire ==
  /\ lease # NoOne
  /\ IF \E p \in Procs : lease = p /\ AtWork(p) THEN Fault ELSE UNCHANGED budget
  /\ lease' = NoOne
  /\ UNCHANGED <<line, server, task, directory, repo, declared, pc, on, seen, current, verb>>

RebaseBegins ==
  /\ repo = "ready" /\ repo' = "busy"
  /\ Fault
  /\ UNCHANGED <<line, server, task, directory, lease, declared, pc, on, seen, current, verb>>

RebaseEnds ==
  /\ repo = "busy" /\ repo' = "ready"
  /\ UNCHANGED <<line, server, task, directory, lease, declared, pc, on, seen, current, verb, budget>>

(* The configured path is no repository (any more), until it is again.      *)
Moved ==
  /\ repo # "gone" /\ repo' = "gone"
  /\ Fault
  /\ UNCHANGED <<line, server, task, directory, lease, declared, pc, on, seen, current, verb>>

Restored ==
  /\ repo = "gone" /\ repo' = "ready"
  /\ UNCHANGED <<line, server, task, directory, lease, declared, pc, on, seen, current, verb, budget>>

------------------------------------------------------------------------------
Init ==
  /\ line \in Layouts
  /\ server = [q \in Requests |-> [state |-> "none", note |-> FALSE, shown |-> NoLine]]
  /\ task = [q \in Requests |-> "none"]
  /\ spec = NoArtifact /\ owner = NoLine /\ file = NoLine
  /\ lease = NoOne
  /\ repo = "ready" /\ declared = FALSE
  /\ pc = [p \in Procs |-> "down"]
  /\ on = [p \in Procs |-> NoRequest]
  /\ seen = [p \in Procs |-> NoArtifact]
  /\ current = {}
  /\ verb = NoVerb
  /\ faults = 0 /\ backs = 0

Turn(p) == Begin(p) \/ Adopt(p) \/ Draft(p) \/ Park(p) \/ Fail(p)
Serving == Poll \/ Unrecorded \/ TakeNote \/ Push \/ Release
People(q) ==
  \/ File(q) \/ Settle(q) \/ SendBackThere(q)
  \/ Add(q) \/ ApproveSpec(q) \/ SendBackHere(q) \/ Discard(q)

(* What a process does next: at each place one of these.                    *)
GoesOn(p) == Start(p) \/ Turn(p) \/ (p = Serve /\ Serving) \/ (p = Run /\ Pick)

Next ==
  \/ \E p \in Procs : GoesOn(p) \/ Crash(p)
  \/ \E q \in Requests : People(q) \/ Reclaim(q)
  \/ RecordVerb \/ Expire \/ RebaseBegins \/ RebaseEnds \/ Moved \/ Restored

(* A process that has stopped is started again; one that is up goes on; a   *)
(* claim and a dead lease run out; a rebase comes to an end.                *)
Fairness ==
  /\ \A p \in Procs : WF_vars(GoesOn(p))
  /\ \A q \in Remote : WF_vars(Reclaim(q) /\ faults' = faults)
  /\ WF_vars(Expire /\ faults' = faults) /\ WF_vars(RebaseEnds)

Spec == Init /\ [][Next]_vars
FairSpec == Spec /\ Fairness

------------------------------------------------------------------------------
(* Properties. *)

Places == {"down", "up", "unrecorded", "noting", "begin", "adopt", "drafting", "parking",
           "pushing", "failing", "release"}

(* The variables keep their types; a process has a request while it is at   *)
(* work on one, and a copy of the directory while it drafts. *)
TypeOK ==
  /\ line \in [Requests -> Lines]
  /\ server \in [Requests -> [state : ServerStates, note : BOOLEAN, shown : Lines \cup {NoLine}]]
  /\ task \in [Requests -> TaskStates]
  /\ spec \in Artifact /\ seen \in [Procs -> Artifact]
  /\ owner \in Lines \cup {NoLine} /\ file \in Lines \cup {NoLine}
  /\ declared \in BOOLEAN
  /\ lease \in Procs \cup {NoOne}
  /\ repo \in {"ready", "busy", "gone"}
  /\ pc \in [Procs -> Places] /\ on \in [Procs -> Requests \cup {NoRequest}]
  /\ \A p \in Procs : on[p] = NoRequest <=> pc[p] \in {"down", "up"}
  /\ current \subseteq {p \in Procs : pc[p] = "drafting"}
  /\ verb \in {NoVerb} \cup [to : {"over", "queued"}, on : Requests]
  /\ faults \in 0 .. MaxFaults /\ backs \in 0 .. MaxSendBacks

(* Are x and y linked by first lines in use, each alike to the next?        *)
Linked(used, x, y) ==
  /\ {x, y} \subseteq used
  /\ \A S \in SUBSET used :
       (\A u, v \in used : <<u, v>> \in Alike /\ u \in S => v \in S) => (x \in S <=> y \in S)
Kin(x, y) == Linked({line[q] : q \in Requests}, x, y)

(* The reviewer of a request is only ever shown a specification written for *)
(* that request's first line or one linked to it by lines that continue one *)
(* another, although another's may lie in the directory both texts name,    *)
(* and spec.md is read after the lease was dropped.                         *)
(* (drive.rs: task_conflict; runner.rs: read_spec)                          *)
OwnSpec ==
  \A q \in Requests : server[q].shown = NoLine \/ Kin(server[q].shown, line[q])

(* No run of the daemon approves a specification: one becomes approved when *)
(* a person approves a task that was put up for review. (park.rs)           *)
OnlyHumanApproves ==
  [][ spec'.status = "approved" /\ spec.status # "approved" =>
        \E q \in Requests : task[q] = "review" /\ verb' = [to |-> "over", on |-> q] ]_vars

(* A person sent back a request of whose kin the directory is.              *)
SendsBack ==
  \E q \in Requests :
    /\ Kin(line[q], owner)
    /\ \/ verb = NoVerb /\ verb' = [to |-> "queued", on |-> q]
       \/ pc[Serve] = "noting" /\ on[Serve] = q /\ pc'[Serve] = "begin"

SameSpec == spec'.text = spec.text /\ spec'.line = spec.line

(* The draft that waits for review stays the draft that is reviewed, until  *)
(* it is sent back: a killed daemon, a push that is lost, a claim handed    *)
(* out again and a second process of this machine all come back to it.      *)
(* (drive.rs: "they approve the artifact they were already shown")          *)
DraftKept ==
  [][ spec.status = "draft" => (spec'.status # "none" /\ SameSpec) \/ SendsBack ]_vars

(* An approval, which takes no lease, is not undone by a run that loaded    *)
(* the directory before it, nor by a request filed twice or polled again.   *)
(* (state.rs: "an approval made on one surface, clobbered by another        *)
(* surface's next phase save")                                              *)
SettledKept ==
  [][ spec.status = "approved" => (spec'.status = "approved" /\ SameSpec) \/ SendsBack ]_vars

(* A task that counts as being drafted is, unless a process is down, whose  *)
(* start puts it back. (queue.rs: requeue_abandoned)                        *)
DraftingIsOwned ==
  \A q \in InState("drafting") :
    \/ \E p \in Procs : on[p] = q /\ pc[p] \in {"adopt", "drafting", "parking", "failing"}
    \/ \E p \in Procs : pc[p] = "down"

(* A repository does not stay taken by a draft nobody is working on.        *)
(* (queue.rs: "such a task holds its repository forever")                   *)
RepoFreed == InState("drafting") # {} ~> InState("drafting") = {}

(* Every request that is filed, or sent back, is drafted, reported as       *)
(* failed, or settled, through faults of every kind, but while serve has    *)
(* found its repository to be none and no longer asks for it.               *)
Answered ==
  \A q \in Remote :
    server[q].state \in {"queued", "claimed"}
      ~> server[q].state \in {"drafted", "over"} \/ ~ declared

(* A repository that turned out to be none is not offered again by the      *)
(* daemon that found out. (client.rs: "would otherwise claim and release    *)
(* the same work every poll for ever")                                      *)
WithdrawnNotTaken ==
  [][ \A q \in Requests : ~ declared /\ server[q].state = "queued" =>
        server'[q].state # "claimed" ]_vars

------------------------------------------------------------------------------
(* Refinement: the server a daemon sees is a work queue, as IntakeStore's is *)
(* for every repository. *)

Work == INSTANCE WorkQueue WITH Id <- Requests, Drafts <- Lines, NoDraft <- NoLine,
                                work <- server

(* The daemon, its losses and restarts and the people on the review page    *)
(* use the server as a work queue: nothing is drafted but under a claim,    *)
(* and no report, however late, moves a request that was settled or taken   *)
(* back. (client.rs: one_turn; queue.rs)                                    *)
ImplementsWorkQueue == Work!Spec
=============================================================================
