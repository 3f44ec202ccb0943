----------------------------- MODULE RemoteRun -----------------------------
(***************************************************************************)
(* The remote iterate server: runs of the agent, each on a thread of its   *)
(* own, started by POST /run; the commands they may not run unasked, each  *)
(* of which blocks its run until somebody answers; the stream of events    *)
(* that tells; and the phone that follows the stream and answers.          *)
(* (src/crates/sc-web: iterate_server.rs, remote_confirm.rs, hub.rs; the   *)
(* agent is in src/crates/sc-core, the phone in src/android)               *)
(*                                                                         *)
(* Requests are handled one at a time, by one thread; the runs go on       *)
(* meanwhile.  The waiter table and the stream have a lock each, and what  *)
(* writes both takes the one after the other, in two steps.  An answer the *)
(* phone sent arrives at any later time, and any number of times.          *)
(***************************************************************************)
EXTENDS Integers, Sequences

CONSTANTS
  Runs,         \* runs, in the order they are started: 1 ..
  Commands,     \* commands that need an answer
  MaxPrompts,   \* bound: prompts in a behaviour
  NoCommand

Ids == 0 .. MaxPrompts - 1
NoId == -1

ASSUME RemoteConstants ==
  /\ Runs \subseteq Nat \ {0} /\ \A r \in Runs : 1 .. r \subseteq Runs
  /\ MaxPrompts \in Nat
  /\ NoCommand \notin Commands

Prompt == [id : Ids, command : Commands]
Answer == [id : Ids, allowed : BOOLEAN]

VARIABLES
  started,  \* RunState.started
  cancel,   \* the flag all runs share
  pc,       \* where each run is
  asked,    \* the prompt it is at
  reply,    \* what its channel holds
  waiters,  \* ids somebody waits on
  nextId,
  events,   \* the stream: prompts announced, prompts resolved, runs stopped
  telling,  \* answers given that the handler has yet to put on the stream
  from,     \* how much of the stream the phone has
  cards,    \* prompts the phone shows
  known,    \* ids it has shown
  posts,    \* the answers it has sent
  approved, \* prompts a person approved, as they read    (history)
  ran       \* prompts whose command a run went on to run (history)

server == <<waiters, nextId, telling>>
phone == <<from, cards, known, posts, approved>>
vars == <<started, cancel, pc, asked, reply, server, events, phone, ran>>

NoPrompt == [id |-> NoId, command |-> NoCommand]
Set(f, r, v) == [f EXCEPT ![r] = v]

Announcement(p) == [kind |-> "pending", id |-> p.id, command |-> p.command]
Resolution(a) == [kind |-> "resolved", id |-> a.id, allowed |-> a.allowed]
Stopped == [kind |-> "stopped"]

------------------------------------------------------------------------------
(* hub.rs *)

Push(e) == events' = Append(events, e)

(* Once a run has stopped, for good.                                        *)
Done == \E i \in DOMAIN events : events[i].kind = "stopped"

(* Wrong: the index to go on from is one too far.                           *)
NextOneWrong(i) == i + 2
(* since, read an event at a time                                           *)
NextOne(i) == i + 1

------------------------------------------------------------------------------
(* The runs. *)

(* The agent's turns: the flag is read between them, not while the model    *)
(* thinks.                                                                  *)
Turn(r) ==
  /\ pc[r] = "turn"
  /\ IF cancel THEN Push(Stopped) /\ pc' = Set(pc, r, "stopped")
     ELSE pc' = Set(pc, r, "thinking") /\ UNCHANGED events
  /\ UNCHANGED <<started, cancel, asked, reply, server, phone, ran>>

(* It finishes, runs out of steps, or fails, which tells nobody.            *)
Stop(r) ==
  /\ pc[r] = "thinking"
  /\ Push(Stopped) \/ UNCHANGED events
  /\ pc' = Set(pc, r, "stopped")
  /\ UNCHANGED <<started, cancel, asked, reply, server, phone, ran>>

(* Wrong: an id nobody waits on will do.                                    *)
FreshIdWrong == CHOOSE i \in Ids : i \notin waiters /\ \A j \in Ids \ waiters : i <= j
FreshId == nextId

(* confirm_command: the waiter is entered ...                               *)
Ask(r, c) ==
  /\ pc[r] = "thinking"
  /\ nextId < MaxPrompts
  /\ nextId' = nextId + 1
  /\ asked' = Set(asked, r, [id |-> FreshId, command |-> c])
  /\ waiters' = waiters \cup {FreshId}
  /\ pc' = Set(pc, r, "asking")
  /\ UNCHANGED <<started, cancel, reply, events, telling, phone, ran>>

(* ... the prompt announced ...                                             *)
Announce(r) ==
  /\ pc[r] = "asking"
  /\ Push(Announcement(asked[r]))
  /\ pc' = Set(pc, r, "waiting")
  /\ UNCHANGED <<started, cancel, asked, reply, server, phone, ran>>

(* ... and the answer waited for; one that allows it runs the command.      *)
Hear(r) ==
  /\ pc[r] = "waiting"
  /\ reply[r] # "none"
  /\ ran' = IF reply[r] = "allow" THEN ran \cup {asked[r]} ELSE ran
  /\ reply' = Set(reply, r, "none")
  /\ asked' = Set(asked, r, NoPrompt)
  /\ pc' = Set(pc, r, "turn")
  /\ UNCHANGED <<started, cancel, server, events, phone>>

(* What it did is kept or reverted, and the stream told once more.          *)
Finish(r) ==
  /\ pc[r] = "stopped"
  /\ Push(Stopped)
  /\ started' = FALSE
  /\ pc' = Set(pc, r, "over")
  /\ UNCHANGED <<cancel, asked, reply, server, phone, ran>>

------------------------------------------------------------------------------
(* The requests. *)

Free == telling = {}

PostRun(r) ==
  /\ Free
  /\ ~ started \/ Done
  /\ pc[r] = "unborn" /\ \A q \in 1 .. r - 1 : pc[q] # "unborn"
  /\ started' = TRUE
  /\ cancel' = FALSE
  /\ pc' = Set(pc, r, "turn")
  /\ UNCHANGED <<asked, reply, server, events, phone, ran>>

Replied(ids, v) ==
  reply' = [r \in Runs |-> IF asked[r].id \in ids THEN v ELSE reply[r]]

(* Wrong: the waiter is looked up and left.                                 *)
TakenWrong(ids) == waiters
Taken(ids) == waiters \ ids

(* resolve, up to the send; for an id nobody waits on, it does nothing.     *)
Resolve(a) ==
  /\ Free
  /\ a \in posts /\ a.id \in waiters
  /\ waiters' = Taken({a.id})
  /\ Replied({a.id}, IF a.allowed THEN "allow" ELSE "deny")
  /\ telling' = {a}
  /\ UNCHANGED <<started, cancel, pc, asked, nextId, events, phone, ran>>

(* POST /cancel: the flag, then deny_all, up to the sends.                  *)
PostCancel ==
  /\ Free
  /\ cancel' = TRUE
  /\ waiters' = {}
  /\ Replied(waiters, "deny")
  /\ telling' = {[id |-> i, allowed |-> FALSE] : i \in waiters}
  /\ UNCHANGED <<started, pc, asked, nextId, events, phone, ran>>

Tell ==
  /\ \E a \in telling : Push(Resolution(a)) /\ telling' = telling \ {a}
  /\ UNCHANGED <<started, cancel, pc, asked, reply, waiters, nextId, phone, ran>>

------------------------------------------------------------------------------
(* The phone. *)

(* GET /events, and what the phone makes of one.                            *)
Follow ==
  /\ Free
  /\ from < Len(events)
  /\ from' = NextOne(from)
  /\ LET e == events[from + 1]
     IN CASE e.kind = "pending" /\ e.id \notin known ->
               /\ cards' = cards \cup {[id |-> e.id, command |-> e.command]}
               /\ known' = known \cup {e.id}
          [] e.kind = "resolved" ->
               cards' = {p \in cards : p.id # e.id} /\ UNCHANGED known
          [] OTHER -> UNCHANGED <<cards, known>>
  /\ UNCHANGED <<started, cancel, pc, asked, reply, server, events, posts, approved, ran>>

Tap(p, allowed) ==
  /\ p \in cards
  /\ posts' = posts \cup {[id |-> p.id, allowed |-> allowed]}
  /\ approved' = IF allowed THEN approved \cup {p} ELSE approved
  /\ UNCHANGED <<started, cancel, pc, asked, reply, server, events, from, cards, known, ran>>

------------------------------------------------------------------------------
Init ==
  /\ started = FALSE /\ cancel = FALSE
  /\ pc = [r \in Runs |-> "unborn"]
  /\ asked = [r \in Runs |-> NoPrompt]
  /\ reply = [r \in Runs |-> "none"]
  /\ waiters = {} /\ nextId = 0 /\ telling = {}
  /\ events = <<>>
  /\ from = 0 /\ cards = {} /\ known = {} /\ posts = {}
  /\ approved = {} /\ ran = {}

Agent(r) ==
  \/ Turn(r) \/ Stop(r) \/ Announce(r) \/ Hear(r) \/ Finish(r)
  \/ \E c \in Commands : Ask(r, c)
Answering == \E a \in posts : Resolve(a)
Tapping == \E p \in cards, allowed \in BOOLEAN : Tap(p, allowed)

Next ==
  \/ \E r \in Runs : Agent(r) \/ PostRun(r)
  \/ Answering \/ PostCancel \/ Tell \/ Follow \/ Tapping

(* The model answers, the phone polls, a person answers every prompt that   *)
(* is shown, and keeps at it until the answer arrives.                      *)
Fairness ==
  /\ \A r \in Runs : WF_vars(Agent(r))
  /\ WF_vars(Tell) /\ WF_vars(Follow)
  /\ \A i \in Ids : WF_vars(\E p \in cards, allowed \in BOOLEAN : p.id = i /\ Tap(p, allowed))
  /\ \A i \in Ids : WF_vars(\E a \in posts : a.id = i /\ Resolve(a))

Spec == Init /\ [][Next]_vars
FairSpec == Spec /\ Fairness

------------------------------------------------------------------------------
(* Properties. *)

Event ==
  [kind : {"pending"}, id : Ids, command : Commands] \cup
  [kind : {"resolved"}, id : Ids, allowed : BOOLEAN] \cup {Stopped}

(* The variables keep their types, and a run is at a prompt while it asks.  *)
TypeOK ==
  /\ started \in BOOLEAN /\ cancel \in BOOLEAN
  /\ pc \in [Runs -> {"unborn", "turn", "thinking", "asking", "waiting", "stopped", "over"}]
  /\ asked \in [Runs -> Prompt \cup {NoPrompt}]
  /\ \A r \in Runs : asked[r] = NoPrompt <=> pc[r] \notin {"asking", "waiting"}
  /\ reply \in [Runs -> {"none", "allow", "deny"}]
  /\ waiters \subseteq Ids /\ nextId \in 0 .. MaxPrompts
  /\ events \in Seq(Event) /\ telling \subseteq Answer
  /\ from \in 0 .. Len(events)
  /\ cards \subseteq Prompt /\ known \subseteq Ids /\ posts \subseteq Answer
  /\ approved \subseteq Prompt /\ ran \subseteq Prompt

(* A command runs only if a person who was shown that command approved it:  *)
(* an answer that is late, repeated, or meant for an earlier prompt never   *)
(* lets another through. (remote_confirm.rs: "can never be applied to a     *)
(* later, different command")                                               *)
RunsWhatWasApproved == ran \subseteq approved

Told(i) == {k \in DOMAIN events : events[k].kind = "resolved" /\ events[k].id = i}

(* The stream tells of each prompt once what became of it, and no command   *)
(* is run that the stream says was denied, whoever else answers or cancels. *)
ToldOnce ==
  /\ \A i \in Ids, j, k \in DOMAIN events : j \in Told(i) /\ k \in Told(i) => j = k
  /\ \A p \in ran, k \in DOMAIN events : k \in Told(p.id) => events[k].allowed

(* Whoever can be seen, answered and heard: the run's prompt is on a card,  *)
(* or announced where the phone has yet to read, and not as an id that the  *)
(* phone takes for one it has shown; and its id has a waiter.               *)
CanBeAnswered(r) ==
  /\ asked[r].id \in waiters
  /\ \/ asked[r] \in cards
     \/ /\ asked[r].id \notin known
        /\ \E k \in from + 1 .. Len(events) : events[k] = Announcement(asked[r])

(* A run never waits for an answer that nobody can give: across cancels,    *)
(* answers to others, and the two locks taken in turn.                      *)
(* (remote_confirm.rs: "rather than hanging the run forever")               *)
NobodyStranded ==
  \A r \in Runs : pc[r] = "waiting" /\ reply[r] = "none" => CanBeAnswered(r)

(* Every run comes to its end while somebody answers the prompts, those     *)
(* made after a cancel and those of two runs at once included: no prompt is *)
(* waited on that nobody can see. (remote_confirm.rs: "rather than hanging  *)
(* the run forever")                                                        *)
RunEnds == \A r \in Runs : pc[r] = "turn" ~> pc[r] = "over"
=============================================================================
