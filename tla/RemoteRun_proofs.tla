-------------------------- MODULE RemoteRun_proofs --------------------------
(***************************************************************************)
(* What the run of RemoteRun shows with two runs and two prompts, proved   *)
(* for any numbers of runs, prompts and commands.                          *)
(***************************************************************************)
EXTENDS RemoteRun, TLAPS

Dom == DOMAIN events

(* Every prompt that is anywhere: announced, waited at, shown, answered.    *)
Announced == {[id |-> events[k].id, command |-> events[k].command] :
                k \in {j \in Dom : events[j].kind = "pending"}}
Prompts == Announced \cup ({asked[r] : r \in Runs} \ {NoPrompt})
             \cup cards \cup approved \cup ran

(* An id stands for one command, and those not given out for none. *)
OneCommandPerId ==
  /\ \A p \in Prompts : p.id < nextId
  /\ \A p, q \in Prompts : p.id = q.id => p = q

(* What allows a command comes from a person who approved it. *)
AllowedByPerson ==
  /\ \A a \in posts : a.allowed => \E p \in approved : p.id = a.id
  /\ \A r \in Runs : reply[r] = "allow" => asked[r] \in approved
  /\ \A r \in Runs : asked[r] = NoPrompt => reply[r] = "none"

Resolved == {k \in Dom : events[k].kind = "resolved"}

(* An id is waited on, or being told of, or told of, and only once. *)
SettledOnce ==
  /\ \A i \in waiters : i < nextId
  /\ \A a \in telling : a.id < nextId /\ a.id \notin waiters
  /\ \A k \in Resolved : events[k].id < nextId /\ events[k].id \notin waiters
  /\ \A a, b \in telling : a.id = b.id => a = b
  /\ \A a \in telling, k \in Resolved : events[k].id # a.id
  /\ \A j, k \in Resolved : events[j].id = events[k].id => j = k

(* The command of that id neither ran nor will. *)
NeverRuns(i) ==
  /\ \A p \in ran : p.id # i
  /\ \A r \in Runs : reply[r] = "allow" => asked[r].id # i

(* A prompt that was answered is not waited on, and one that is, or was     *)
(* denied, did not run. *)
DeniedNeverRuns ==
  /\ \A p \in ran : p.id \notin waiters
  /\ \A r \in Runs : reply[r] # "none" => asked[r].id \notin waiters
  /\ \A a \in telling : ~ a.allowed => NeverRuns(a.id)
  /\ \A k \in Resolved : ~ events[k].allowed => NeverRuns(events[k].id)

IInv ==
  /\ TypeOK /\ OneCommandPerId /\ AllowedByPerson /\ RunsWhatWasApproved
  /\ SettledOnce /\ DeniedNeverRuns

------------------------------------------------------------------------------
(* Types *)

(* What a push does to the stream. (Hub::push) *)
LEMMA Pushed ==
  ASSUME events \in Seq(Event), NEW e \in Event, Push(e)
  PROVE  /\ events' \in Seq(Event)
         /\ Len(events') = Len(events) + 1
         /\ Len(events) + 1 \notin Dom
         /\ Dom' = Dom \cup {Len(events) + 1}
         /\ \A k \in Dom : events'[k] = events[k]
         /\ events'[Len(events) + 1] = e
<1>1. Len(events) \in Nat /\ Dom = 1 .. Len(events)
  BY DEF Dom
<1>2. events' = Append(events, e)
  BY DEF Push
<1>3. events' \in Seq(Event) /\ Len(events') = Len(events) + 1
  BY <1>2
<1>4. Dom' = 1 .. Len(events) + 1
  BY <1>3 DEF Dom
<1> QED  BY <1>1, <1>2, <1>3, <1>4

(* The kinds of events tell them apart. *)
LEMMA Kinds ==
  /\ \A e \in Event :
       /\ e.kind \in {"pending", "resolved", "stopped"}
       /\ e.kind = "pending" => e.id \in Ids /\ e.command \in Commands
       /\ e.kind = "resolved" => e.id \in Ids /\ e.allowed \in BOOLEAN
  /\ \A p \in Prompt : /\ Announcement(p) \in Event
                       /\ Announcement(p).kind = "pending"
                       /\ Announcement(p).id = p.id /\ Announcement(p).command = p.command
  /\ \A a \in Answer : /\ Resolution(a) \in Event
                       /\ Resolution(a).kind = "resolved"
                       /\ Resolution(a).id = a.id /\ Resolution(a).allowed = a.allowed
  /\ Stopped \in Event /\ Stopped.kind = "stopped"
<1>1. \A p \in Prompt : /\ Announcement(p) \in Event
                       /\ Announcement(p).kind = "pending"
                       /\ Announcement(p).id = p.id /\ Announcement(p).command = p.command
  BY DEF Prompt, Announcement, Event
<1>2. \A a \in Answer : /\ Resolution(a) \in Event
                       /\ Resolution(a).kind = "resolved"
                       /\ Resolution(a).id = a.id /\ Resolution(a).allowed = a.allowed
  BY DEF Answer, Resolution, Event
<1>3. Stopped \in Event /\ Stopped.kind = "stopped"
  BY DEF Stopped, Event
<1>4. ASSUME NEW e \in Event
      PROVE  /\ e.kind \in {"pending", "resolved", "stopped"}
             /\ e.kind = "pending" => e.id \in Ids /\ e.command \in Commands
             /\ e.kind = "resolved" => e.id \in Ids /\ e.allowed \in BOOLEAN
  BY <1>4 DEF Event, Stopped
<1> QED  BY <1>1, <1>2, <1>3, <1>4

(* NoPrompt is none of the prompts. *)
LEMMA NotAPrompt == NoPrompt \notin Prompt /\ NoPrompt.id = NoId /\ NoId \notin Ids
<1>1. NoId \notin Ids
  BY RemoteConstants DEF Ids, NoId
<1> QED  BY <1>1 DEF NoPrompt, Prompt

(* A push leaves the reader within the stream. *)
LEMMA PushedType ==
  ASSUME TypeOK, NEW e \in Event, Push(e), from' = from
  PROVE  events' \in Seq(Event) /\ from' \in 0 .. Len(events')
<1>1. events \in Seq(Event) /\ from \in 0 .. Len(events) /\ Len(events) \in Nat
  BY DEF TypeOK
<1> QED  BY <1>1, Pushed DEF Dom

(* The types, one action at a time. *)
LEMMA TypeStep ==
  ASSUME TypeOK, Next PROVE TypeOK'
<1> USE Kinds, NotAPrompt, RemoteConstants
<1>1. ASSUME NEW r \in Runs, Turn(r) PROVE TypeOK'
  <2>1. CASE cancel
    BY <1>1, <2>1, PushedType DEF Turn, TypeOK, Set, server, phone
  <2>2. CASE ~ cancel
    BY <1>1, <2>2 DEF Turn, TypeOK, Set, server, phone
  <2> QED  BY <2>1, <2>2
<1>2. ASSUME NEW r \in Runs, Stop(r) PROVE TypeOK'
  <2>1. CASE Push(Stopped)
    BY <1>2, <2>1, PushedType DEF Stop, TypeOK, Set, server, phone
  <2>2. CASE UNCHANGED events
    BY <1>2, <2>2 DEF Stop, TypeOK, Set, server, phone
  <2> QED  BY <1>2, <2>1, <2>2 DEF Stop
<1>3. ASSUME NEW r \in Runs, NEW c \in Commands, Ask(r, c) PROVE TypeOK'
  <2>1. [id |-> FreshId, command |-> c] \in Prompt /\ FreshId \in Ids
    BY <1>3 DEF Ask, TypeOK, FreshId, Ids, Prompt
  <2> QED  BY <1>3, <2>1 DEF Ask, TypeOK, Set, phone
<1>4. ASSUME NEW r \in Runs, Announce(r) PROVE TypeOK'
  <2>1. asked[r] \in Prompt
    BY <1>4 DEF Announce, TypeOK
  <2> QED  BY <1>4, <2>1, PushedType DEF Announce, TypeOK, Set, server, phone
<1>5. ASSUME NEW r \in Runs, Hear(r) PROVE TypeOK'
  <2>1. asked[r] \in Prompt
    BY <1>5 DEF Hear, TypeOK
  <2> QED  BY <1>5, <2>1 DEF Hear, TypeOK, Set, server, phone
<1>6. ASSUME NEW r \in Runs, Finish(r) PROVE TypeOK'
  BY <1>6, PushedType DEF Finish, TypeOK, Set, server, phone
<1>7. ASSUME NEW r \in Runs, PostRun(r) PROVE TypeOK'
  BY <1>7 DEF PostRun, TypeOK, Set, server, phone
<1>8. ASSUME NEW a \in posts, Resolve(a) PROVE TypeOK'
  BY <1>8 DEF Resolve, TypeOK, Taken, Replied, phone
<1>9. CASE PostCancel
  <2>1. {[id |-> i, allowed |-> FALSE] : i \in waiters} \subseteq Answer
    <3>1. ASSUME NEW i \in waiters PROVE [id |-> i, allowed |-> FALSE] \in Answer
      <4>1. i \in Ids
        BY DEF TypeOK
      <4> QED  BY <4>1 DEF Answer
    <3> QED  BY <3>1
  <2> QED  BY <1>9, <2>1 DEF PostCancel, TypeOK, Replied, phone
<1>10. CASE Tell
  <2>1. PICK a \in telling : Push(Resolution(a)) /\ telling' = telling \ {a}
    BY <1>10 DEF Tell
  <2>2. a \in Answer
    BY DEF TypeOK
  <2> QED  BY <1>10, <2>1, <2>2, PushedType DEF Tell, TypeOK, phone
<1>11. CASE Follow
  <2> DEFINE e == events[from + 1]
  <2>1. e \in Event
    BY <1>11 DEF Follow, TypeOK
  <2>2. from' \in 0 .. Len(events)
    BY <1>11 DEF Follow, TypeOK, NextOne
  <2>3. cards' \subseteq Prompt /\ known' \subseteq Ids
    <3>1. CASE e.kind = "pending" /\ e.id \notin known
      BY <1>11, <2>1, <3>1 DEF Follow, TypeOK, Prompt
    <3>2. CASE e.kind = "resolved"
      BY <1>11, <2>1, <3>2 DEF Follow, TypeOK
    <3>3. CASE ~ (e.kind = "pending" /\ e.id \notin known) /\ e.kind # "resolved"
      BY <1>11, <2>1, <3>3 DEF Follow, TypeOK
    <3> QED  BY <3>1, <3>2, <3>3
  <2> QED  BY <1>11, <2>2, <2>3 DEF Follow, TypeOK, server
<1>12. ASSUME NEW p \in cards, NEW allowed \in BOOLEAN, Tap(p, allowed) PROVE TypeOK'
  BY <1>12 DEF Tap, TypeOK, server, Prompt, Answer
<1> QED
  BY <1>1, <1>2, <1>3, <1>4, <1>5, <1>6, <1>7, <1>8, <1>9, <1>10, <1>11, <1>12
     DEF Next, Agent, Answering, Tapping

(* The types hold at the start. *)
LEMMA TypeInit ==
  ASSUME Init PROVE TypeOK
<1>1. events \in Seq(Event) /\ from \in 0 .. Len(events)
  BY DEF Init
<1>2. nextId \in 0 .. MaxPrompts
  BY RemoteConstants DEF Init
<1> QED  BY <1>1, <1>2 DEF Init, TypeOK

(* Every variable keeps its type, for any runs, prompts and commands. *)
THEOREM TypeCorrect == Spec => []TypeOK
<1>1. TypeOK /\ [Next]_vars => TypeOK'
  <2>1. CASE UNCHANGED vars
    BY <2>1 DEF vars, server, phone, TypeOK
  <2> QED  BY <2>1, TypeStep
<1> QED  BY TypeInit, <1>1, PTL DEF Spec

------------------------------------------------------------------------------
(* What ran was approved *)

(* What a push adds to the prompts announced. *)
LEMMA AnnouncedAfter ==
  ASSUME TypeOK, NEW e \in Event, Push(e)
  PROVE  \A p \in Announced' :
           p \in Announced \/ (e.kind = "pending" /\ p = [id |-> e.id, command |-> e.command])
<1>1. events \in Seq(Event)
  BY DEF TypeOK
<1>2. SUFFICES ASSUME NEW k \in Dom', events'[k].kind = "pending",
                      NEW p, p = [id |-> events'[k].id, command |-> events'[k].command]
               PROVE  p \in Announced \/ (e.kind = "pending" /\ p = [id |-> e.id, command |-> e.command])
  BY DEF Announced
<1>3. CASE k \in Dom
  <2>1. events'[k] = events[k]
    BY <1>1, <1>3, Pushed
  <2> QED  BY <1>2, <1>3, <2>1 DEF Announced
<1>4. CASE k \notin Dom
  <2>1. events'[k] = e
    BY <1>1, <1>4, Pushed
  <2> QED  BY <1>2, <2>1
<1> QED  BY <1>3, <1>4

(* A prompt is made only by asking; every other step copies those there are. *)
LEMMA PromptsCopied ==
  ASSUME TypeOK, Next
  PROVE  \/ Prompts' \subseteq Prompts /\ nextId' = nextId
         \/ \E r \in Runs, c \in Commands :
              /\ Ask(r, c)
              /\ Prompts' \subseteq Prompts \cup {[id |-> nextId, command |-> c]}
<1> DEFINE Copied == Prompts' \subseteq Prompts /\ nextId' = nextId
<1> USE Kinds, NotAPrompt, RemoteConstants
<1>0. ASSUME Announced' \subseteq Announced, UNCHANGED asked, UNCHANGED phone, UNCHANGED ran, UNCHANGED nextId
      PROVE  Copied
  BY <1>0 DEF Prompts, phone
<1>00. ASSUME UNCHANGED events PROVE Announced' = Announced
  BY <1>00 DEF Announced, Dom
<1>000. ASSUME Push(Stopped) PROVE Announced' \subseteq Announced
  BY <1>000, AnnouncedAfter
<1>1. ASSUME NEW r \in Runs, Turn(r) PROVE Copied
  BY <1>0, <1>00, <1>000, <1>1 DEF Turn, server
<1>2. ASSUME NEW r \in Runs, Stop(r) PROVE Copied
  BY <1>0, <1>00, <1>000, <1>2 DEF Stop, server
<1>3. ASSUME NEW r \in Runs, NEW c \in Commands, Ask(r, c)
      PROVE  Prompts' \subseteq Prompts \cup {[id |-> nextId, command |-> c]}
  <2>1. \A q \in Runs : asked'[q] \in {asked[q], [id |-> nextId, command |-> c]}
    BY <1>3 DEF Ask, Set, FreshId, TypeOK
  <2> QED  BY <1>3, <1>00, <2>1 DEF Ask, Prompts, phone
<1>4. ASSUME NEW r \in Runs, Announce(r) PROVE Copied
  <2>1. asked[r] \in Prompt
    BY <1>4 DEF Announce, TypeOK
  <2>2. asked[r] = [id |-> asked[r].id, command |-> asked[r].command]
    BY <2>1 DEF Prompt
  <2>3. asked[r] \in Prompts
    BY <2>1 DEF Prompts
  <2>4. Announced' \subseteq Announced \cup {asked[r]}
    BY <1>4, <2>1, <2>2, AnnouncedAfter DEF Announce
  <2> QED  BY <1>4, <2>3, <2>4 DEF Announce, Prompts, server, phone
<1>5. ASSUME NEW r \in Runs, Hear(r) PROVE Copied
  <2>1. asked[r] \in Prompt
    BY <1>5 DEF Hear, TypeOK
  <2>2. asked[r] \in Prompts
    BY <2>1 DEF Prompts
  <2>3. \A q \in Runs : asked'[q] \in {asked[q], NoPrompt}
    BY <1>5 DEF Hear, Set, TypeOK
  <2>4. ran' \subseteq ran \cup {asked[r]}
    BY <1>5 DEF Hear
  <2>5. Announced' = Announced
    BY <1>5, <1>00 DEF Hear
  <2>6. UNCHANGED <<phone, nextId>>
    BY <1>5 DEF Hear, server
  <2> QED  BY <2>2, <2>3, <2>4, <2>5, <2>6 DEF Prompts, phone
<1>6. ASSUME NEW r \in Runs, Finish(r) PROVE Copied
  BY <1>0, <1>000, <1>6 DEF Finish, server
<1>7. ASSUME NEW r \in Runs, PostRun(r) PROVE Copied
  BY <1>0, <1>00, <1>7 DEF PostRun, server
<1>8. ASSUME NEW a \in posts, Resolve(a) PROVE Copied
  BY <1>0, <1>00, <1>8 DEF Resolve
<1>9. CASE PostCancel
  BY <1>0, <1>00, <1>9 DEF PostCancel
<1>10. CASE Tell
  <2>1. PICK a \in telling : Push(Resolution(a)) /\ telling' = telling \ {a}
    BY <1>10 DEF Tell
  <2>2. a \in Answer
    BY DEF TypeOK
  <2>3. Announced' \subseteq Announced
    BY <2>1, <2>2, AnnouncedAfter
  <2> QED  BY <1>0, <1>10, <2>3 DEF Tell
<1>11. CASE Follow
  <2> DEFINE e == events[from + 1]
  <2>1. from + 1 \in Dom
    BY <1>11 DEF Follow, TypeOK, Dom
  <2>2. cards' \subseteq cards \cup Announced
    <3>1. CASE e.kind = "pending" /\ e.id \notin known
      BY <1>11, <2>1, <3>1 DEF Follow, Announced
    <3>2. CASE e.kind = "resolved"
      BY <1>11, <3>2 DEF Follow
    <3>3. CASE ~ (e.kind = "pending" /\ e.id \notin known) /\ e.kind # "resolved"
      BY <1>11, <3>3 DEF Follow
    <3> QED  BY <3>1, <3>2, <3>3
  <2> QED  BY <1>11, <1>00, <2>2 DEF Follow, Prompts, server
<1>12. ASSUME NEW p \in cards, NEW allowed \in BOOLEAN, Tap(p, allowed) PROVE Copied
  BY <1>12, <1>00 DEF Tap, Prompts, server
<1> QED
  BY <1>1, <1>2, <1>3, <1>4, <1>5, <1>6, <1>7, <1>8, <1>9, <1>10, <1>11, <1>12
     DEF Next, Agent, Answering, Tapping

(* Ids are not given out twice. *)
LEMMA OneCommandStep ==
  ASSUME TypeOK, OneCommandPerId, Next PROVE OneCommandPerId'
<1>1. CASE Prompts' \subseteq Prompts /\ nextId' = nextId
  BY <1>1 DEF OneCommandPerId
<1>2. ASSUME NEW r \in Runs, NEW c \in Commands, Ask(r, c),
             Prompts' \subseteq Prompts \cup {[id |-> nextId, command |-> c]}
      PROVE  OneCommandPerId'
  <2>1. nextId \in Nat /\ nextId' = nextId + 1
    BY <1>2, RemoteConstants DEF Ask, TypeOK
  <2>2. \A p \in Prompts : p.id \in Int
    BY RemoteConstants, Kinds, NotAPrompt DEF TypeOK, Prompts, Announced, Prompt, Ids, Dom
  <2> QED  BY <1>2, <2>1, <2>2 DEF OneCommandPerId
<1> QED  BY <1>1, <1>2, PromptsCopied

(* A prompt a run is at is a prompt, with a number for its id. *)
LEMMA AskedIsPrompt ==
  ASSUME TypeOK, NEW r \in Runs, asked[r].id \in Ids
  PROVE  asked[r] \in Prompt /\ asked[r] \in Prompts
<1>1. asked[r] \in Prompt
  BY NotAPrompt DEF TypeOK
<1> QED  BY <1>1, NotAPrompt DEF Prompts

(* Only a tap allows, and only the prompt whose id it carries. *)
LEMMA AllowedStep ==
  ASSUME TypeOK, OneCommandPerId, AllowedByPerson, Next PROVE AllowedByPerson'
<1> DEFINE Same == UNCHANGED <<asked, reply, posts, approved>>
<1>0. ASSUME Same PROVE AllowedByPerson'
  BY <1>0 DEF AllowedByPerson
<1>1. ASSUME NEW r \in Runs, Turn(r) PROVE AllowedByPerson'
  BY <1>0, <1>1 DEF Turn, phone
<1>2. ASSUME NEW r \in Runs, Stop(r) PROVE AllowedByPerson'
  BY <1>0, <1>2 DEF Stop, phone
<1>3. ASSUME NEW r \in Runs, NEW c \in Commands, Ask(r, c) PROVE AllowedByPerson'
  <2>1. reply[r] = "none"
    BY <1>3 DEF Ask, TypeOK, AllowedByPerson
  <2>2. \A q \in Runs \ {r} : asked'[q] = asked[q]
    BY <1>3 DEF Ask, Set, TypeOK
  <2> QED  BY <1>3, <2>1, <2>2 DEF Ask, AllowedByPerson, phone
<1>4. ASSUME NEW r \in Runs, Announce(r) PROVE AllowedByPerson'
  BY <1>0, <1>4 DEF Announce, phone
<1>5. ASSUME NEW r \in Runs, Hear(r) PROVE AllowedByPerson'
  <2>1. reply'[r] = "none"
    BY <1>5 DEF Hear, Set, TypeOK
  <2>2. \A q \in Runs \ {r} : asked'[q] = asked[q] /\ reply'[q] = reply[q]
    BY <1>5 DEF Hear, Set, TypeOK
  <2> QED  BY <1>5, <2>1, <2>2 DEF Hear, AllowedByPerson, phone
<1>6. ASSUME NEW r \in Runs, Finish(r) PROVE AllowedByPerson'
  BY <1>0, <1>6 DEF Finish, phone
<1>7. ASSUME NEW r \in Runs, PostRun(r) PROVE AllowedByPerson'
  BY <1>0, <1>7 DEF PostRun, phone
<1>8. ASSUME NEW a \in posts, Resolve(a) PROVE AllowedByPerson'
  <2>1. a.id \in Ids
    BY <1>8 DEF Resolve, TypeOK
  <2>2. \A q \in Runs : reply'[q] = IF asked[q].id = a.id THEN (IF a.allowed THEN "allow" ELSE "deny") ELSE reply[q]
    BY <1>8 DEF Resolve, Replied
  <2>3. UNCHANGED <<asked, posts, approved>>
    BY <1>8 DEF Resolve, phone
  <2>4. ASSUME NEW q \in Runs, reply'[q] = "allow" PROVE asked'[q] \in approved'
    <3>1. CASE asked[q].id = a.id
      <4>1. a.allowed
        BY <2>2, <2>4, <3>1
      <4>2. PICK p \in approved : p.id = a.id
        BY <4>1 DEF AllowedByPerson
      <4>3. p \in Prompts /\ asked[q] \in Prompts
        BY <2>1, <3>1, AskedIsPrompt DEF Prompts
      <4>4. p = asked[q]
        BY <3>1, <4>2, <4>3 DEF OneCommandPerId
      <4> QED  BY <2>3, <4>4
    <3>2. CASE asked[q].id # a.id
      BY <2>2, <2>3, <2>4, <3>2 DEF AllowedByPerson
    <3> QED  BY <3>1, <3>2
  <2>5. ASSUME NEW q \in Runs, asked'[q] = NoPrompt PROVE reply'[q] = "none"
    <3>1. asked[q].id # a.id
      BY <2>1, <2>3, <2>5, NotAPrompt
    <3> QED  BY <2>2, <2>3, <2>5, <3>1 DEF AllowedByPerson
  <2> QED  BY <2>3, <2>4, <2>5 DEF AllowedByPerson
<1>9. CASE PostCancel
  <2>1. \A q \in Runs : reply'[q] = IF asked[q].id \in waiters THEN "deny" ELSE reply[q]
    BY <1>9 DEF PostCancel, Replied
  <2>2. \A q \in Runs : asked[q] = NoPrompt => asked[q].id \notin waiters
    BY NotAPrompt DEF TypeOK
  <2> QED  BY <1>9, <2>1, <2>2 DEF PostCancel, AllowedByPerson, phone
<1>10. CASE Tell
  BY <1>0, <1>10 DEF Tell, phone
<1>11. CASE Follow
  BY <1>0, <1>11 DEF Follow
<1>12. ASSUME NEW p \in cards, NEW allowed \in BOOLEAN, Tap(p, allowed) PROVE AllowedByPerson'
  BY <1>12 DEF Tap, AllowedByPerson
<1> QED
  BY <1>1, <1>2, <1>3, <1>4, <1>5, <1>6, <1>7, <1>8, <1>9, <1>10, <1>11, <1>12
     DEF Next, Agent, Answering, Tapping

(* A command runs only on an answer that allows it. *)
LEMMA RanStep ==
  ASSUME TypeOK, AllowedByPerson, RunsWhatWasApproved, Next PROVE RunsWhatWasApproved'
<1>1. approved \subseteq approved'
  BY DEF Next, Agent, Answering, Tapping, Turn, Stop, Ask, Announce, Hear, Finish,
         PostRun, Resolve, PostCancel, Tell, Follow, Tap, phone
<1>2. \A p \in ran' : p \in ran \/ \E r \in Runs : p = asked[r] /\ reply[r] = "allow"
  BY DEF Next, Agent, Answering, Tapping, Turn, Stop, Ask, Announce, Hear, Finish,
         PostRun, Resolve, PostCancel, Tell, Follow, Tap
<1> QED  BY <1>1, <1>2 DEF RunsWhatWasApproved, AllowedByPerson

------------------------------------------------------------------------------
(* What became of a prompt is told once *)

(* What a push adds to what is told. *)
LEMMA ResolvedAfter ==
  ASSUME TypeOK, NEW e \in Event, Push(e), NEW k \in Resolved'
  PROVE  \/ k \in Resolved /\ events'[k] = events[k]
         \/ k = Len(events) + 1 /\ events'[k] = e /\ e.kind = "resolved"
<1>1. events \in Seq(Event)
  BY DEF TypeOK
<1> QED  BY <1>1, Pushed DEF Resolved

(* The stream tells nothing new of any prompt. *)
Quiet == \A k \in Resolved' : k \in Resolved /\ events'[k] = events[k]

(* Only the resolutions do. (Hub::push) *)
LEMMA QuietSteps ==
  ASSUME TypeOK
  PROVE  /\ UNCHANGED events => Quiet
         /\ Push(Stopped) => Quiet
         /\ \A p \in Prompt : Push(Announcement(p)) => Quiet
<1>1. UNCHANGED events => Quiet
  BY DEF Quiet, Resolved, Dom
<1>2. Push(Stopped) => Quiet
  BY Kinds, ResolvedAfter DEF Quiet
<1>3. \A p \in Prompt : Push(Announcement(p)) => Quiet
  BY Kinds, ResolvedAfter DEF Quiet
<1> QED  BY <1>1, <1>2, <1>3

(* Each step tells of what was waited on, or of nothing. *)
LEMMA SettledStep ==
  ASSUME TypeOK, SettledOnce, Next PROVE SettledOnce'
<1> DEFINE Same == Quiet /\ UNCHANGED <<waiters, telling, nextId>>
<1>0. ASSUME Same PROVE SettledOnce'
  BY <1>0 DEF Quiet, SettledOnce
<1>00. nextId \in Nat
  BY RemoteConstants DEF TypeOK
<1>1. ASSUME NEW r \in Runs, Turn(r) PROVE SettledOnce'
  BY <1>0, <1>1, QuietSteps DEF Turn, server
<1>2. ASSUME NEW r \in Runs, Stop(r) PROVE SettledOnce'
  BY <1>0, <1>2, QuietSteps DEF Stop, server
<1>3. ASSUME NEW r \in Runs, NEW c \in Commands, Ask(r, c) PROVE SettledOnce'
  <2>1. nextId' = nextId + 1 /\ waiters' = waiters \cup {nextId} /\ UNCHANGED telling
    BY <1>3 DEF Ask, FreshId
  <2>2. Quiet
    BY <1>3, QuietSteps DEF Ask
  <2>3. \A k \in Resolved : events[k].id \in Int
    BY Kinds, RemoteConstants DEF Resolved, Dom, TypeOK, Ids
  <2>4. \A a \in telling : a.id \in Int
    BY RemoteConstants DEF TypeOK, Answer, Ids
  <2>5. \A i \in waiters : i \in Int
    BY RemoteConstants DEF TypeOK, Ids
  <2> QED  BY <1>00, <2>1, <2>2, <2>3, <2>4, <2>5 DEF Quiet, SettledOnce
<1>4. ASSUME NEW r \in Runs, Announce(r) PROVE SettledOnce'
  <2>1. asked[r] \in Prompt
    BY <1>4 DEF Announce, TypeOK
  <2> QED  BY <1>0, <1>4, <2>1, QuietSteps DEF Announce, server
<1>5. ASSUME NEW r \in Runs, Hear(r) PROVE SettledOnce'
  BY <1>0, <1>5, QuietSteps DEF Hear, server
<1>6. ASSUME NEW r \in Runs, Finish(r) PROVE SettledOnce'
  BY <1>0, <1>6, QuietSteps DEF Finish, server
<1>7. ASSUME NEW r \in Runs, PostRun(r) PROVE SettledOnce'
  BY <1>0, <1>7, QuietSteps DEF PostRun, server
<1>8. ASSUME NEW a \in posts, Resolve(a) PROVE SettledOnce'
  <2>1. waiters' = waiters \ {a.id} /\ telling' = {a} /\ nextId' = nextId /\ a.id \in waiters
    BY <1>8 DEF Resolve, Taken
  <2>2. Quiet
    BY <1>8, QuietSteps DEF Resolve
  <2> QED  BY <2>1, <2>2 DEF Quiet, SettledOnce
<1>9. CASE PostCancel
  <2>1. /\ waiters' = {} /\ nextId' = nextId
        /\ telling' = {[id |-> i, allowed |-> FALSE] : i \in waiters}
    BY <1>9 DEF PostCancel
  <2>2. Quiet
    BY <1>9, QuietSteps DEF PostCancel
  <2>3. \A a \in telling' : \E i \in waiters : a = [id |-> i, allowed |-> FALSE]
    BY <2>1
  <2>4. ASSUME NEW a \in telling' PROVE a.id \in waiters
    <3>1. PICK i \in waiters : a = [id |-> i, allowed |-> FALSE]
      BY <2>3
    <3>2. a.id = i
      BY <3>1
    <3> QED  BY <3>2
  <2>5. ASSUME NEW a \in telling', NEW b \in telling', a.id = b.id PROVE a = b
    <3>1. PICK i \in waiters : a = [id |-> i, allowed |-> FALSE]
      BY <2>3
    <3>2. PICK j \in waiters : b = [id |-> j, allowed |-> FALSE]
      BY <2>3
    <3>3. a.id = i /\ b.id = j
      BY <3>1, <3>2
    <3> QED  BY <2>5, <3>1, <3>2, <3>3
  <2>6. \A a \in telling' : a.id < nextId' /\ a.id \notin waiters'
    BY <2>1, <2>4 DEF SettledOnce
  <2>7. \A k \in Resolved' : events'[k].id < nextId' /\ events'[k].id \notin waiters
    BY <2>1, <2>2 DEF Quiet, SettledOnce
  <2>8. \A a \in telling', k \in Resolved' : events'[k].id # a.id
    BY <2>4, <2>7
  <2>9. \A j, k \in Resolved' : events'[j].id = events'[k].id => j = k
    BY <2>2 DEF Quiet, SettledOnce
  <2> QED  BY <2>1, <2>5, <2>6, <2>7, <2>8, <2>9 DEF SettledOnce
<1>10. CASE Tell
  <2>1. PICK a \in telling : Push(Resolution(a)) /\ telling' = telling \ {a}
    BY <1>10 DEF Tell
  <2>2. a \in Answer
    BY DEF TypeOK
  <2>3. ASSUME NEW k \in Resolved'
        PROVE  \/ k \in Resolved /\ events'[k] = events[k]
               \/ k = Len(events) + 1 /\ events'[k].id = a.id
    <3>1. Resolution(a) \in Event /\ Resolution(a).id = a.id
      BY <2>2, Kinds
    <3> QED  BY <2>1, <2>3, <3>1, ResolvedAfter
  <2>4. UNCHANGED <<waiters, nextId>>
    BY <1>10 DEF Tell
  <2> QED  BY <2>1, <2>3, <2>4 DEF SettledOnce
<1>11. CASE Follow
  BY <1>0, <1>11, QuietSteps DEF Follow, server
<1>12. ASSUME NEW p \in cards, NEW allowed \in BOOLEAN, Tap(p, allowed) PROVE SettledOnce'
  BY <1>0, <1>12, QuietSteps DEF Tap, server
<1> QED
  BY <1>1, <1>2, <1>3, <1>4, <1>5, <1>6, <1>7, <1>8, <1>9, <1>10, <1>11, <1>12
     DEF Next, Agent, Answering, Tapping

(* A denial is of a prompt that was waited on, and so had not run. *)
LEMMA DeniedStep ==
  ASSUME TypeOK, OneCommandPerId, AllowedByPerson, SettledOnce, DeniedNeverRuns, Next
  PROVE  DeniedNeverRuns'
<1> DEFINE Same == Quiet /\ UNCHANGED <<waiters, telling, ran, reply, asked>>
<1>0. ASSUME Same PROVE DeniedNeverRuns'
  BY <1>0 DEF Quiet, DeniedNeverRuns, NeverRuns
<1>1. ASSUME NEW r \in Runs, Turn(r) PROVE DeniedNeverRuns'
  BY <1>0, <1>1, QuietSteps DEF Turn, server
<1>2. ASSUME NEW r \in Runs, Stop(r) PROVE DeniedNeverRuns'
  BY <1>0, <1>2, QuietSteps DEF Stop, server
<1>3. ASSUME NEW r \in Runs, NEW c \in Commands, Ask(r, c) PROVE DeniedNeverRuns'
  <2>1. waiters' = waiters \cup {nextId} /\ UNCHANGED <<telling, ran, reply>>
    BY <1>3 DEF Ask, FreshId
  <2>2. Quiet
    BY <1>3, QuietSteps DEF Ask
  <2>3. nextId \in Nat
    BY RemoteConstants DEF TypeOK
  <2>4. \A p \in ran : p.id # nextId
    BY <2>3 DEF OneCommandPerId, Prompts
  <2>5. reply[r] = "none"
    BY <1>3 DEF Ask, TypeOK, AllowedByPerson
  <2>6. \A q \in Runs \ {r} : asked'[q] = asked[q]
    BY <1>3 DEF Ask, Set, TypeOK
  <2>7. \A q \in Runs : reply[q] # "none" => asked[q].id # nextId
    <3>1. SUFFICES ASSUME NEW q \in Runs, reply[q] # "none" PROVE asked[q].id # nextId
      OBVIOUS
    <3>2. asked[q] \in Prompts
      BY <3>1 DEF AllowedByPerson, Prompts
    <3> QED  BY <2>3, <3>2 DEF OneCommandPerId
  <2> QED  BY <2>1, <2>2, <2>4, <2>5, <2>6, <2>7 DEF Quiet, DeniedNeverRuns, NeverRuns
<1>4. ASSUME NEW r \in Runs, Announce(r) PROVE DeniedNeverRuns'
  <2>1. asked[r] \in Prompt
    BY <1>4 DEF Announce, TypeOK
  <2> QED  BY <1>0, <1>4, <2>1, QuietSteps DEF Announce, server
<1>5. ASSUME NEW r \in Runs, Hear(r) PROVE DeniedNeverRuns'
  <2>1. reply'[r] = "none" /\ reply[r] # "none"
    BY <1>5 DEF Hear, Set, TypeOK
  <2>2. \A q \in Runs \ {r} : asked'[q] = asked[q] /\ reply'[q] = reply[q]
    BY <1>5 DEF Hear, Set, TypeOK
  <2>3. \A p \in ran' : p \in ran \/ (p = asked[r] /\ reply[r] = "allow")
    BY <1>5 DEF Hear
  <2>4. Quiet /\ UNCHANGED <<waiters, telling>>
    BY <1>5, QuietSteps DEF Hear, server
  <2> QED  BY <2>1, <2>2, <2>3, <2>4 DEF Quiet, DeniedNeverRuns, NeverRuns
<1>6. ASSUME NEW r \in Runs, Finish(r) PROVE DeniedNeverRuns'
  BY <1>0, <1>6, QuietSteps DEF Finish, server
<1>7. ASSUME NEW r \in Runs, PostRun(r) PROVE DeniedNeverRuns'
  BY <1>0, <1>7, QuietSteps DEF PostRun, server
<1>8. ASSUME NEW a \in posts, Resolve(a) PROVE DeniedNeverRuns'
  <2>1. waiters' = waiters \ {a.id} /\ telling' = {a} /\ a.id \in waiters
    BY <1>8 DEF Resolve, Taken
  <2>2. \A q \in Runs : reply'[q] = IF asked[q].id = a.id THEN (IF a.allowed THEN "allow" ELSE "deny") ELSE reply[q]
    BY <1>8 DEF Resolve, Replied
  <2>3. Quiet /\ UNCHANGED <<asked, ran>>
    BY <1>8, QuietSteps DEF Resolve
  <2>4. ASSUME NEW i \in Ids, NeverRuns(i), i # a.id \/ ~ a.allowed
        PROVE  /\ \A p \in ran' : p.id # i
               /\ \A q \in Runs : reply'[q] = "allow" => asked'[q].id # i
    BY <2>2, <2>3, <2>4 DEF NeverRuns
  <2>5. ASSUME ~ a.allowed
        PROVE  /\ \A p \in ran' : p.id # a.id
               /\ \A q \in Runs : reply'[q] = "allow" => asked'[q].id # a.id
    BY <2>1, <2>2, <2>3, <2>5 DEF DeniedNeverRuns
  <2>6. ASSUME NEW k \in Resolved', ~ events'[k].allowed
        PROVE  /\ \A p \in ran' : p.id # events'[k].id
               /\ \A q \in Runs : reply'[q] = "allow" => asked'[q].id # events'[k].id
    <3>1. k \in Resolved /\ events'[k] = events[k]
      BY <2>3, <2>6 DEF Quiet
    <3>2. NeverRuns(events[k].id) /\ events[k].id # a.id
      BY <2>1, <2>6, <3>1 DEF DeniedNeverRuns, SettledOnce
    <3>3. events[k].id \in Ids
      BY <3>1, Kinds DEF Resolved, Dom, TypeOK
    <3> QED  BY <2>4, <3>1, <3>2, <3>3
  <2>7. \A q \in Runs : reply'[q] # "none" => asked'[q].id \notin waiters'
    BY <2>1, <2>2, <2>3 DEF DeniedNeverRuns
  <2>8. \A p \in ran' : p.id \notin waiters'
    BY <2>1, <2>3 DEF DeniedNeverRuns
  <2> QED  BY <2>1, <2>5, <2>6, <2>7, <2>8 DEF DeniedNeverRuns, NeverRuns
<1>9. CASE PostCancel
  <2>1. waiters' = {} /\ telling' = {[id |-> i, allowed |-> FALSE] : i \in waiters}
    BY <1>9 DEF PostCancel
  <2>2. \A q \in Runs : reply'[q] = IF asked[q].id \in waiters THEN "deny" ELSE reply[q]
    BY <1>9 DEF PostCancel, Replied
  <2>3. Quiet /\ UNCHANGED <<asked, ran>>
    BY <1>9, QuietSteps DEF PostCancel, phone
  <2>4. /\ \A p \in ran' : p.id \notin waiters
        /\ \A q \in Runs : reply'[q] = "allow" => asked'[q].id \notin waiters
    BY <2>2, <2>3 DEF DeniedNeverRuns
  <2>5. ASSUME NEW k \in Resolved', ~ events'[k].allowed
        PROVE  /\ \A p \in ran' : p.id # events'[k].id
               /\ \A q \in Runs : reply'[q] = "allow" => asked'[q].id # events'[k].id
    <3>1. k \in Resolved /\ events'[k] = events[k]
      BY <2>3, <2>5 DEF Quiet
    <3>2. NeverRuns(events[k].id)
      BY <2>5, <3>1 DEF DeniedNeverRuns
    <3> QED  BY <2>2, <2>3, <3>1, <3>2 DEF NeverRuns
  <2>6. ASSUME NEW b \in telling' PROVE b.id \in waiters
    <3>1. PICK i \in waiters : b = [id |-> i, allowed |-> FALSE]
      BY <2>1
    <3>2. b.id = i
      BY <3>1
    <3> QED  BY <3>2
  <2>7. ASSUME NEW b \in telling'
        PROVE  /\ \A p \in ran' : p.id # b.id
               /\ \A q \in Runs : reply'[q] = "allow" => asked'[q].id # b.id
    BY <2>4, <2>6
  <2>8. /\ \A p \in ran' : p.id \notin waiters'
        /\ \A q \in Runs : reply'[q] # "none" => asked'[q].id \notin waiters'
    BY <2>1
  <2> QED  BY <2>5, <2>7, <2>8 DEF DeniedNeverRuns, NeverRuns
<1>10. CASE Tell
  <2>1. PICK a \in telling : Push(Resolution(a)) /\ telling' = telling \ {a}
    BY <1>10 DEF Tell
  <2>2. a \in Answer
    BY DEF TypeOK
  <2>3. ASSUME NEW k \in Resolved'
        PROVE  \/ k \in Resolved /\ events'[k] = events[k]
               \/ events'[k].id = a.id /\ events'[k].allowed = a.allowed
    <3>1. /\ Resolution(a) \in Event
          /\ Resolution(a).id = a.id /\ Resolution(a).allowed = a.allowed
      BY <2>2, Kinds
    <3> QED  BY <2>1, <2>3, <3>1, ResolvedAfter
  <2>4. UNCHANGED <<waiters, asked, reply, ran>>
    BY <1>10 DEF Tell
  <2> QED  BY <2>1, <2>3, <2>4 DEF DeniedNeverRuns, NeverRuns
<1>11. CASE Follow
  BY <1>0, <1>11, QuietSteps DEF Follow, server
<1>12. ASSUME NEW p \in cards, NEW allowed \in BOOLEAN, Tap(p, allowed) PROVE DeniedNeverRuns'
  BY <1>0, <1>12, QuietSteps DEF Tap, server
<1> QED
  BY <1>1, <1>2, <1>3, <1>4, <1>5, <1>6, <1>7, <1>8, <1>9, <1>10, <1>11, <1>12
     DEF Next, Agent, Answering, Tapping

------------------------------------------------------------------------------
(* Theorems *)

(* Together the parts are inductive. *)
THEOREM Invariance == Spec => []IInv
<1>1. Init => IInv
  <2>1. ASSUME Init PROVE Dom = {} /\ Prompts = {} /\ TypeOK
    <3>1. Dom = {}
      BY <2>1 DEF Init, Dom
    <3>2. Announced = {}
      BY <3>1 DEF Announced
    <3>3. {asked[r] : r \in Runs} \subseteq {NoPrompt}
      BY <2>1 DEF Init
    <3> QED  BY <2>1, <3>1, <3>2, <3>3, TypeInit DEF Init, Prompts
  <2> QED
    BY <2>1 DEF Init, IInv, OneCommandPerId, AllowedByPerson, SettledOnce, DeniedNeverRuns,
                RunsWhatWasApproved, Resolved
<1>2. IInv /\ [Next]_vars => IInv'
  <2>1. CASE UNCHANGED vars
    <3>1. UNCHANGED <<Dom, Prompts, Resolved>>
      BY <2>1 DEF vars, server, phone, Dom, Prompts, Announced, Resolved
    <3> QED
      BY <2>1, <3>1 DEF vars, server, phone, IInv, TypeOK, OneCommandPerId, AllowedByPerson,
                   SettledOnce, DeniedNeverRuns, NeverRuns, RunsWhatWasApproved
  <2>2. CASE Next
    BY <2>2, TypeStep, OneCommandStep, AllowedStep, RanStep, SettledStep, DeniedStep DEF IInv
  <2> QED  BY <2>1, <2>2
<1> QED  BY <1>1, <1>2, PTL DEF Spec

(* Whatever answers are late, repeated or meant for an earlier prompt, a    *)
(* command runs only if a person was shown it and approved it.              *)
(* (confirm_command, resolve) *)
THEOREM OnlyApprovedRun == Spec => []RunsWhatWasApproved
<1>1. IInv => RunsWhatWasApproved
  BY DEF IInv
<1> QED  BY <1>1, Invariance, PTL

(* The stream tells of each prompt once, and says denied only of commands   *)
(* that do not run. (resolve, deny_all) *)
THEOREM ToldOnceHolds == Spec => []ToldOnce
<1>1. ASSUME IInv PROVE ToldOnce
  <2>1. \A i \in Ids, k \in Dom : k \in Told(i) => k \in Resolved /\ events[k].id = i
    BY DEF Told, Resolved, Dom
  <2>2. \A i \in Ids, j, k \in Dom : j \in Told(i) /\ k \in Told(i) => j = k
    BY <1>1, <2>1 DEF IInv, SettledOnce
  <2>3. ASSUME NEW p \in ran, NEW k \in Dom, k \in Told(p.id) PROVE events[k].allowed
    <3>1. k \in Resolved /\ events[k].id = p.id
      BY <2>3 DEF Told, Resolved, Dom
    <3> QED  BY <1>1, <3>1 DEF IInv, DeniedNeverRuns, NeverRuns
  <2> QED  BY <2>2, <2>3 DEF ToldOnce, Dom
<1> QED  BY <1>1, Invariance, PTL

------------------------------------------------------------------------------
(* Nobody waits for an answer that cannot be given *)

Pending == {k \in Dom : events[k].kind = "pending"}

(* Each prompt is announced once, after it was asked, by one run; and the   *)
(* phone knows the ids it has read of. *)
AnnouncedOnce ==
  /\ \A j, k \in Pending : events[j].id = events[k].id => j = k
  /\ \A r \in Runs : pc[r] = "asking" => \A k \in Pending : events[k].id # asked[r].id
  /\ \A q, r \in Runs : asked[q] # NoPrompt /\ asked[q].id = asked[r].id => q = r
  /\ \A i \in known : \E k \in Pending : k <= from /\ events[k].id = i

(* A run that has no reply yet has a waiter. *)
WaiterKept ==
  \A r \in Runs :
    pc[r] \in {"asking", "waiting"} /\ reply[r] = "none" => asked[r].id \in waiters

Ahead(r) == \E k \in Dom : k > from /\ events[k] = Announcement(asked[r])

(* Its prompt is on a card or on its way to one. *)
Shown ==
  \A r \in Runs :
    pc[r] = "waiting" /\ reply[r] = "none" => asked[r] \in cards \/ Ahead(r)

Reachable == AnnouncedOnce /\ WaiterKept /\ Shown

(* What a push adds to what is announced. (Hub::push) *)
LEMMA PendingAfter ==
  ASSUME TypeOK, NEW e \in Event, Push(e), NEW k \in Pending'
  PROVE  \/ k \in Pending /\ events'[k] = events[k]
         \/ k = Len(events) + 1 /\ events'[k] = e /\ e.kind = "pending"
<1>1. events \in Seq(Event)
  BY DEF TypeOK
<1> QED  BY <1>1, Pushed DEF Pending

(* The stream announces nothing new. *)
Mute == \A k \in Pending' : k \in Pending /\ events'[k] = events[k]

(* The stream only grows. *)
Grows == \A k \in Dom : k \in Dom' /\ events'[k] = events[k]

(* Pushes announce nothing but prompts, and nothing leaves the stream.      *)
LEMMA StreamSteps ==
  ASSUME TypeOK
  PROVE  /\ UNCHANGED events => Mute /\ Grows
         /\ Push(Stopped) => Mute /\ Grows
         /\ \A a \in Answer : Push(Resolution(a)) => Mute /\ Grows
         /\ \A p \in Prompt : Push(Announcement(p)) => Grows
<1>0. events \in Seq(Event)
  BY DEF TypeOK
<1>1. UNCHANGED events => Mute /\ Grows
  BY DEF Mute, Grows, Pending, Dom
<1>2. ASSUME NEW e \in Event, Push(e) PROVE Grows
  BY <1>0, <1>2, Pushed DEF Grows
<1>3. ASSUME NEW e \in Event, Push(e), e.kind # "pending" PROVE Mute
  BY <1>3, PendingAfter DEF Mute
<1> QED  BY <1>1, <1>2, <1>3, Kinds

(* A prompt is announced once. (confirm_command) *)
LEMMA OnceStep ==
  ASSUME TypeOK, OneCommandPerId, AnnouncedOnce, Next PROVE AnnouncedOnce'
<1> DEFINE Same == /\ Mute /\ Grows /\ UNCHANGED <<asked, known, from>>
                   /\ \A r \in Runs : pc'[r] = "asking" => pc[r] = "asking"
<1>0. ASSUME Mute, Grows, UNCHANGED <<known, from>>
      PROVE  \A i \in known' : \E k \in Pending' : k <= from' /\ events'[k].id = i
  <2>1. \A k \in Pending : k \in Pending' /\ events'[k] = events[k]
    BY <1>0 DEF Grows, Pending
  <2> QED  BY <1>0, <2>1 DEF AnnouncedOnce
<1>00. ASSUME Same PROVE AnnouncedOnce'
  BY <1>0, <1>00 DEF AnnouncedOnce, Mute
<1>000. ASSUME NEW f, NEW r, NEW v, v # "asking", f = [q \in Runs |-> f[q]]
        PROVE  \A q \in Runs : Set(f, r, v)[q] = "asking" => f[q] = "asking"
  BY <1>000 DEF Set
<1>0000. pc = [q \in Runs |-> pc[q]]
  BY DEF TypeOK
<1>1. ASSUME NEW r \in Runs, Turn(r) PROVE AnnouncedOnce'
  BY <1>00, <1>000, <1>0000, <1>1, StreamSteps DEF Turn, phone
<1>2. ASSUME NEW r \in Runs, Stop(r) PROVE AnnouncedOnce'
  BY <1>00, <1>000, <1>0000, <1>2, StreamSteps DEF Stop, phone
<1>3. ASSUME NEW r \in Runs, NEW c \in Commands, Ask(r, c) PROVE AnnouncedOnce'
  <2>1. Mute /\ Grows /\ UNCHANGED <<known, from>>
    BY <1>3, StreamSteps DEF Ask, phone
  <2>2. /\ asked'[r].id = nextId /\ asked'[r] # NoPrompt
        /\ \A q \in Runs \ {r} : asked'[q] = asked[q] /\ pc'[q] = pc[q]
    <3>1. nextId # NoId
      BY <1>3, RemoteConstants DEF Ask, TypeOK, NoId
    <3> QED  BY <1>3, <3>1 DEF Ask, Set, FreshId, TypeOK, NoPrompt
  <2>3. nextId \in Nat
    BY RemoteConstants DEF TypeOK
  <2>4. \A k \in Pending : events[k].id # nextId
    <3>1. ASSUME NEW k \in Pending PROVE events[k].id < nextId
      <4> DEFINE p == [id |-> events[k].id, command |-> events[k].command]
      <4>1. p \in Prompts
        BY <3>1 DEF Prompts, Announced, Pending
      <4>2. p.id < nextId
        BY <4>1 DEF OneCommandPerId
      <4> QED  BY <4>2
    <3> QED  BY <2>3, <3>1
  <2>5. \A q \in Runs : asked[q].id # nextId
    <3>1. ASSUME NEW q \in Runs, asked[q].id = nextId PROVE FALSE
      <4>1. asked[q] # NoPrompt
        BY <2>3, <3>1 DEF NoPrompt, NoId
      <4>2. asked[q].id < nextId
        BY <4>1 DEF OneCommandPerId, Prompts
      <4> QED  BY <2>3, <3>1, <4>2
    <3> QED  BY <3>1
  <2>6. ASSUME NEW q \in Runs, NEW t \in Runs, asked'[q] # NoPrompt,
               asked'[q].id = asked'[t].id
        PROVE  q = t
    BY <2>2, <2>5, <2>6 DEF AnnouncedOnce
  <2>7. ASSUME NEW q \in Runs, pc'[q] = "asking", NEW k \in Pending'
        PROVE  events'[k].id # asked'[q].id
    BY <2>1, <2>2, <2>4, <2>7 DEF AnnouncedOnce, Mute
  <2>8. \A j, k \in Pending' : events'[j].id = events'[k].id => j = k
    BY <2>1 DEF AnnouncedOnce, Mute
  <2> QED  BY <1>0, <2>1, <2>6, <2>7, <2>8 DEF AnnouncedOnce
<1>4. ASSUME NEW r \in Runs, Announce(r) PROVE AnnouncedOnce'
  <2>1. asked[r] \in Prompt /\ asked[r] # NoPrompt
    BY <1>4, NotAPrompt DEF Announce, TypeOK
  <2>2. Grows /\ UNCHANGED <<asked, known, from>>
    BY <1>4, <2>1, StreamSteps DEF Announce, phone
  <2>3. ASSUME NEW k \in Pending'
        PROVE  \/ k \in Pending /\ events'[k] = events[k]
               \/ k = Len(events) + 1 /\ events'[k].id = asked[r].id
    <3>1. Announcement(asked[r]) \in Event /\ Announcement(asked[r]).id = asked[r].id
      BY <2>1, Kinds
    <3> QED  BY <1>4, <2>3, <3>1, PendingAfter DEF Announce
  <2>4. pc[r] = "asking" /\ pc'[r] = "waiting" /\ \A q \in Runs \ {r} : pc'[q] = pc[q]
    BY <1>4 DEF Announce, Set, TypeOK
  <2>5. \A k \in Pending : k \in Pending' /\ events'[k] = events[k]
    BY <2>2 DEF Grows, Pending
  <2>6. \A i \in known' : \E k \in Pending' : k <= from' /\ events'[k].id = i
    BY <2>2, <2>5 DEF AnnouncedOnce
  <2>7. \A j, k \in Pending' : events'[j].id = events'[k].id => j = k
    BY <2>3, <2>4 DEF AnnouncedOnce
  <2>8. ASSUME NEW q \in Runs, pc'[q] = "asking", NEW k \in Pending'
        PROVE  events'[k].id # asked'[q].id
    <3>1. q # r /\ pc[q] = "asking"
      BY <2>4, <2>8
    <3>2. asked[q].id # asked[r].id
      BY <2>1, <3>1 DEF AnnouncedOnce
    <3> QED  BY <2>2, <2>3, <3>1, <3>2 DEF AnnouncedOnce
  <2> QED  BY <2>2, <2>6, <2>7, <2>8 DEF AnnouncedOnce
<1>5. ASSUME NEW r \in Runs, Hear(r) PROVE AnnouncedOnce'
  <2>1. Mute /\ Grows /\ UNCHANGED <<known, from>>
    BY <1>5, StreamSteps DEF Hear, phone
  <2>2. /\ asked'[r] = NoPrompt /\ pc'[r] = "turn"
        /\ \A q \in Runs \ {r} : asked'[q] = asked[q] /\ pc'[q] = pc[q]
    BY <1>5 DEF Hear, Set, TypeOK
  <2>3. ASSUME NEW q \in Runs, NEW t \in Runs, asked'[q] # NoPrompt,
               asked'[q].id = asked'[t].id
        PROVE  q = t
    <3>1. q # r /\ asked[q] \in Prompt
      BY <2>2, <2>3 DEF TypeOK
    <3>2. asked[q].id # NoPrompt.id
      BY <3>1, NotAPrompt DEF Prompt
    <3> QED  BY <2>2, <2>3, <3>1, <3>2 DEF AnnouncedOnce
  <2>4. ASSUME NEW q \in Runs, pc'[q] = "asking", NEW k \in Pending'
        PROVE  events'[k].id # asked'[q].id
    BY <2>1, <2>2, <2>4 DEF AnnouncedOnce, Mute
  <2>5. \A j, k \in Pending' : events'[j].id = events'[k].id => j = k
    BY <2>1 DEF AnnouncedOnce, Mute
  <2> QED  BY <1>0, <2>1, <2>3, <2>4, <2>5 DEF AnnouncedOnce
<1>6. ASSUME NEW r \in Runs, Finish(r) PROVE AnnouncedOnce'
  BY <1>00, <1>000, <1>0000, <1>6, StreamSteps DEF Finish, phone
<1>7. ASSUME NEW r \in Runs, PostRun(r) PROVE AnnouncedOnce'
  BY <1>00, <1>000, <1>0000, <1>7, StreamSteps DEF PostRun, phone
<1>8. ASSUME NEW a \in posts, Resolve(a) PROVE AnnouncedOnce'
  BY <1>00, <1>8, StreamSteps DEF Resolve, phone
<1>9. CASE PostCancel
  BY <1>00, <1>9, StreamSteps DEF PostCancel, phone
<1>10. CASE Tell
  <2>1. PICK a \in telling : Push(Resolution(a))
    BY <1>10 DEF Tell
  <2>2. a \in Answer
    BY DEF TypeOK
  <2> QED  BY <1>00, <1>10, <2>1, <2>2, StreamSteps DEF Tell, phone
<1>11. CASE Follow
  <2>1. Mute /\ UNCHANGED <<asked, pc, events>> /\ from' = from + 1
    BY <1>11, StreamSteps DEF Follow, NextOne
  <2>2. from \in Nat /\ from + 1 \in Dom
    BY <1>11 DEF Follow, TypeOK, Dom
  <2>3. Pending' = Pending
    BY <2>1 DEF Pending, Dom
  <2>4. ASSUME NEW i \in known' PROVE \E k \in Pending' : k <= from' /\ events'[k].id = i
    <3>1. CASE i \in known
      <4>1. PICK k \in Pending : k <= from /\ events[k].id = i
        BY <3>1 DEF AnnouncedOnce
      <4>2. k \in Int
        BY DEF Pending, Dom, TypeOK
      <4> QED  BY <2>1, <2>2, <2>3, <4>1, <4>2
    <3>2. CASE i \notin known
      <4>1. events[from + 1].kind = "pending" /\ i = events[from + 1].id
        BY <1>11, <2>4, <3>2 DEF Follow
      <4>2. from + 1 \in Pending
        BY <2>2, <4>1 DEF Pending
      <4> QED  BY <2>1, <2>2, <2>3, <4>1, <4>2
    <3> QED  BY <3>1, <3>2
  <2> QED  BY <2>1, <2>3, <2>4 DEF AnnouncedOnce
<1>12. ASSUME NEW p \in cards, NEW allowed \in BOOLEAN, Tap(p, allowed) PROVE AnnouncedOnce'
  BY <1>00, <1>12, StreamSteps DEF Tap
<1> QED
  BY <1>1, <1>2, <1>3, <1>4, <1>5, <1>6, <1>7, <1>8, <1>9, <1>10, <1>11, <1>12
     DEF Next, Agent, Answering, Tapping

(* A waiter is taken out only by what puts a reply into its channel.        *)
(* (resolve, deny_all) *)
LEMMA WaiterStep ==
  ASSUME TypeOK, WaiterKept, Next PROVE WaiterKept'
<1> DEFINE Quick(r) == pc[r] \in {"asking", "waiting"} /\ reply[r] = "none"
<1>0. ASSUME UNCHANGED <<asked, waiters>>,
             \A r \in Runs : pc'[r] \in {"asking", "waiting"} /\ reply'[r] = "none" => Quick(r)
      PROVE  WaiterKept'
  BY <1>0 DEF WaiterKept
<1>1. ASSUME NEW r \in Runs, Turn(r) PROVE WaiterKept'
  BY <1>0, <1>1 DEF Turn, Set, TypeOK, server
<1>2. ASSUME NEW r \in Runs, Stop(r) PROVE WaiterKept'
  BY <1>0, <1>2 DEF Stop, Set, TypeOK, server
<1>3. ASSUME NEW r \in Runs, NEW c \in Commands, Ask(r, c) PROVE WaiterKept'
  BY <1>3 DEF Ask, Set, FreshId, TypeOK, WaiterKept
<1>4. ASSUME NEW r \in Runs, Announce(r) PROVE WaiterKept'
  BY <1>0, <1>4 DEF Announce, Set, TypeOK, server
<1>5. ASSUME NEW r \in Runs, Hear(r) PROVE WaiterKept'
  BY <1>5 DEF Hear, Set, TypeOK, WaiterKept, server
<1>6. ASSUME NEW r \in Runs, Finish(r) PROVE WaiterKept'
  BY <1>0, <1>6 DEF Finish, Set, TypeOK, server
<1>7. ASSUME NEW r \in Runs, PostRun(r) PROVE WaiterKept'
  BY <1>0, <1>7 DEF PostRun, Set, TypeOK, server
<1>8. ASSUME NEW a \in posts, Resolve(a) PROVE WaiterKept'
  BY <1>8 DEF Resolve, Replied, Taken, TypeOK, WaiterKept
<1>9. CASE PostCancel
  BY <1>9 DEF PostCancel, Replied, TypeOK, WaiterKept
<1>10. CASE Tell
  BY <1>0, <1>10 DEF Tell
<1>11. CASE Follow
  BY <1>0, <1>11 DEF Follow, server
<1>12. ASSUME NEW p \in cards, NEW allowed \in BOOLEAN, Tap(p, allowed) PROVE WaiterKept'
  BY <1>0, <1>12 DEF Tap, server
<1> QED
  BY <1>1, <1>2, <1>3, <1>4, <1>5, <1>6, <1>7, <1>8, <1>9, <1>10, <1>11, <1>12
     DEF Next, Agent, Answering, Tapping

(* A prompt stays ahead until it is read, and on its card until somebody is *)
(* told of an answer. (Hub::since) *)
LEMMA ShownStep ==
  ASSUME TypeOK, SettledOnce, AnnouncedOnce, WaiterKept, Shown, Next PROVE Shown'
<1> DEFINE Quick(r) == pc[r] = "waiting" /\ reply[r] = "none"
<1>0. ASSUME Grows, UNCHANGED <<cards, from>>,
             \A r \in Runs : pc'[r] = "waiting" /\ reply'[r] = "none"
                               => Quick(r) /\ asked'[r] = asked[r]
      PROVE  Shown'
  <2> SUFFICES ASSUME NEW r \in Runs, pc'[r] = "waiting", reply'[r] = "none"
               PROVE  asked'[r] \in cards' \/ Ahead(r)'
    BY DEF Shown
  <2>1. asked[r] \in cards \/ Ahead(r)
    BY <1>0 DEF Shown
  <2> QED  BY <1>0, <2>1 DEF Ahead, Grows
<1>1. ASSUME NEW r \in Runs, Turn(r) PROVE Shown'
  BY <1>0, <1>1, StreamSteps DEF Turn, Set, TypeOK, phone
<1>2. ASSUME NEW r \in Runs, Stop(r) PROVE Shown'
  BY <1>0, <1>2, StreamSteps DEF Stop, Set, TypeOK, phone
<1>3. ASSUME NEW r \in Runs, NEW c \in Commands, Ask(r, c) PROVE Shown'
  BY <1>0, <1>3, StreamSteps DEF Ask, Set, TypeOK, phone
<1>4. ASSUME NEW r \in Runs, Announce(r) PROVE Shown'
  <2>1. asked[r] \in Prompt
    BY <1>4 DEF Announce, TypeOK
  <2>2. Grows /\ UNCHANGED <<asked, cards, from, reply>>
    BY <1>4, <2>1, StreamSteps DEF Announce, phone
  <2>3. Len(events) + 1 \in Dom' /\ events'[Len(events) + 1] = Announcement(asked[r])
    BY <1>4, <2>1, Pushed, Kinds DEF Announce, TypeOK
  <2>4. Len(events) + 1 > from
    BY DEF TypeOK
  <2>5. \A q \in Runs \ {r} : pc'[q] = pc[q]
    BY <1>4 DEF Announce, Set, TypeOK
  <2>6. Ahead(r)'
    BY <2>2, <2>3, <2>4 DEF Ahead
  <2>7. ASSUME NEW q \in Runs \ {r}, pc[q] = "waiting", reply[q] = "none"
        PROVE  asked'[q] \in cards' \/ Ahead(q)'
    <3>1. asked[q] \in cards \/ Ahead(q)
      BY <2>7 DEF Shown
    <3> QED  BY <2>2, <3>1 DEF Ahead, Grows
  <2> QED  BY <2>2, <2>5, <2>6, <2>7 DEF Shown
<1>5. ASSUME NEW r \in Runs, Hear(r) PROVE Shown'
  BY <1>0, <1>5, StreamSteps DEF Hear, Set, TypeOK, phone
<1>6. ASSUME NEW r \in Runs, Finish(r) PROVE Shown'
  BY <1>0, <1>6, StreamSteps DEF Finish, Set, TypeOK, phone
<1>7. ASSUME NEW r \in Runs, PostRun(r) PROVE Shown'
  BY <1>0, <1>7, StreamSteps DEF PostRun, Set, TypeOK, phone
<1>8. ASSUME NEW a \in posts, Resolve(a) PROVE Shown'
  BY <1>0, <1>8, StreamSteps DEF Resolve, Replied, phone
<1>9. CASE PostCancel
  BY <1>0, <1>9, StreamSteps DEF PostCancel, Replied, phone
<1>10. CASE Tell
  <2>1. PICK a \in telling : Push(Resolution(a))
    BY <1>10 DEF Tell
  <2>2. a \in Answer
    BY DEF TypeOK
  <2> QED  BY <1>0, <1>10, <2>1, <2>2, StreamSteps DEF Tell, phone
<1>11. CASE Follow
  <2> SUFFICES ASSUME NEW r \in Runs, pc'[r] = "waiting", reply'[r] = "none"
               PROVE  asked'[r] \in cards' \/ Ahead(r)'
    BY DEF Shown
  <2> DEFINE e == events[from + 1]
  <2>1. UNCHANGED <<pc, asked, reply, events>> /\ from' = from + 1
    BY <1>11 DEF Follow, NextOne
  <2>2. from \in Nat /\ from + 1 \in Dom
    BY <1>11 DEF Follow, TypeOK, Dom
  <2>3. asked[r].id \in waiters /\ asked[r] \in Prompt
    BY <2>1 DEF WaiterKept, TypeOK
  <2>4. CASE asked[r] \in cards
    <3>1. e.kind = "resolved" => e.id # asked[r].id
      BY <2>2, <2>3 DEF SettledOnce, Resolved
    <3>2. CASE e.kind = "pending" /\ e.id \notin known
      BY <1>11, <2>1, <2>4, <3>2 DEF Follow
    <3>3. CASE e.kind = "resolved"
      BY <1>11, <2>1, <2>4, <3>1, <3>3 DEF Follow
    <3>4. CASE ~ (e.kind = "pending" /\ e.id \notin known) /\ e.kind # "resolved"
      BY <1>11, <2>1, <2>4, <3>4 DEF Follow
    <3> QED  BY <3>2, <3>3, <3>4
  <2>5. CASE asked[r] \notin cards
    <3>1. PICK k \in Dom : k > from /\ events[k] = Announcement(asked[r])
      BY <2>1, <2>5 DEF Shown, Ahead
    <3>2. k \in Int
      BY DEF Dom, TypeOK
    <3>3. CASE k = from + 1
      <4>1. e.kind = "pending" /\ e.id = asked[r].id /\ e.command = asked[r].command
        BY <2>3, <3>1, <3>3, Kinds
      <4>2. ASSUME NEW j \in Pending, j <= from, events[j].id = e.id PROVE FALSE
        <5>1. from + 1 \in Pending
          BY <2>2, <4>1 DEF Pending
        <5>2. j = from + 1
          BY <4>2, <5>1 DEF AnnouncedOnce
        <5> QED  BY <2>2, <4>2, <5>2
      <4>3. e.id \notin known
        BY <4>2 DEF AnnouncedOnce
      <4>4. [id |-> e.id, command |-> e.command] \in cards'
        BY <1>11, <4>1, <4>3 DEF Follow
      <4>5. [id |-> e.id, command |-> e.command] = asked[r]
        BY <2>3, <4>1 DEF Prompt
      <4> QED  BY <2>1, <4>4, <4>5
    <3>4. CASE k # from + 1
      <4>1. k > from + 1
        BY <2>2, <3>1, <3>2, <3>4
      <4> QED  BY <2>1, <3>1, <4>1 DEF Ahead, Dom
    <3> QED  BY <3>3, <3>4
  <2> QED  BY <2>4, <2>5
<1>12. ASSUME NEW p \in cards, NEW allowed \in BOOLEAN, Tap(p, allowed) PROVE Shown'
  BY <1>0, <1>12, StreamSteps DEF Tap
<1> QED
  BY <1>1, <1>2, <1>3, <1>4, <1>5, <1>6, <1>7, <1>8, <1>9, <1>10, <1>11, <1>12
     DEF Next, Agent, Answering, Tapping

(* No run ever waits for an answer nobody can give: its waiter is there,    *)
(* and its prompt on a card or ahead of the phone, whatever is cancelled,   *)
(* answered late or told of others. The run needs no more than that the     *)
(* phone polls and a person answers. (confirm_command, deny_all, since)     *)
THEOREM NobodyStrandedHolds == Spec => []NobodyStranded
<1>1. Init => Reachable
  BY DEF Init, Reachable, AnnouncedOnce, WaiterKept, Shown, Pending, Dom
<1>2. IInv /\ Reachable /\ [Next]_vars => Reachable'
  <2> SUFFICES ASSUME IInv, Reachable, [Next]_vars PROVE Reachable'
    OBVIOUS
  <2>1. CASE Next
    BY <2>1, OnceStep, WaiterStep, ShownStep DEF IInv, Reachable
  <2>2. CASE UNCHANGED vars
    <3>1. UNCHANGED <<Dom, Pending>>
      BY <2>2 DEF vars, Dom, Pending
    <3> QED
      BY <2>2, <3>1 DEF vars, server, phone, Reachable, AnnouncedOnce, WaiterKept, Shown,
                   Ahead
  <2> QED  BY <2>1, <2>2
<1>3. IInv /\ Reachable => NobodyStranded
  <2> SUFFICES ASSUME IInv, Reachable, NEW r \in Runs, pc[r] = "waiting",
                      reply[r] = "none"
               PROVE  CanBeAnswered(r)
    BY DEF NobodyStranded
  <2>1. asked[r].id \in waiters
    BY DEF Reachable, WaiterKept
  <2>2. CASE asked[r] \in cards
    BY <2>1, <2>2 DEF CanBeAnswered
  <2>3. CASE asked[r] \notin cards
    <3>1. PICK k \in Dom : k > from /\ events[k] = Announcement(asked[r])
      BY <2>3 DEF Reachable, Shown, Ahead
    <3>2. asked[r] \in Prompt /\ events \in Seq(Event) /\ from \in Nat
      BY DEF IInv, TypeOK
    <3>3. k \in Pending /\ events[k].id = asked[r].id
      BY <3>1, <3>2, Kinds DEF Pending
    <3>4. ASSUME NEW j \in Pending, j <= from, events[j].id = asked[r].id PROVE FALSE
      <4>1. j = k
        BY <3>3, <3>4 DEF Reachable, AnnouncedOnce
      <4>2. k \in Int
        BY <3>2 DEF Dom
      <4> QED  BY <3>1, <3>2, <3>4, <4>1, <4>2
    <3>5. asked[r].id \notin known
      BY <3>4 DEF Reachable, AnnouncedOnce
    <3>6. k \in from + 1 .. Len(events)
      BY <3>1, <3>2 DEF Dom
    <3> QED  BY <2>1, <3>1, <3>5, <3>6 DEF CanBeAnswered
  <2> QED  BY <2>2, <2>3
<1> QED  BY <1>1, <1>2, <1>3, Invariance, PTL DEF Spec

=============================================================================
