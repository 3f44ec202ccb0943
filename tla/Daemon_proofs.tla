---------------------------- MODULE Daemon_proofs ----------------------------
(***************************************************************************)
(* What the run of Daemon shows with two requests, two texts, one fault    *)
(* and one send-back, proved for any numbers of them.                      *)
(***************************************************************************)
EXTENDS Daemon, WellFoundedInduction, TLAPS

(* The directory is that of one kin of first lines: of it are the one it is *)
(* for, those that specification and spec.md were written for, and those of *)
(* all requests that have been put up for review.                           *)
OneKin ==
  /\ owner \in {line[q] : q \in Requests} \cup {NoLine}
  /\ file = NoLine \/ Kin(file, owner)
  /\ spec.line = NoLine \/ Kin(spec.line, owner)
  /\ \A q \in Requests :
       /\ task[q] = "review" => Kin(owner, line[q])
       /\ server[q].state = "drafted" \/ server[q].note => Kin(owner, line[q])
  /\ \A p \in Procs : pc[p] \in {"parking", "pushing", "noting"} => Kin(owner, line[on[p]])

(* A process whose save would be let through has seen what it replaces, and *)
(* its text is alike to that of whom the directory is.                      *)
SeesSpec ==
  \A p \in current : (owner = NoLine \/ <<owner, line[on[p]]>> \in Alike) /\ seen[p] = spec

IInv == TypeOK /\ OneKin /\ SeesSpec /\ OwnSpec

------------------------------------------------------------------------------
(* Kinship *)

(* Kin is an equivalence of the first lines in use, and alike lines are kin. *)
(* (task_conflict, which is none) *)
LEMMA KinEquivalence ==
  ASSUME TypeOK
  PROVE  /\ \A q \in Requests : Kin(line[q], line[q])
         /\ \A x, y : Kin(x, y) => Kin(y, x) /\ x \in Lines /\ y \in Lines
         /\ \A x, y, z : Kin(x, y) /\ Kin(y, z) => Kin(x, z)
         /\ \A q, i \in Requests : <<line[q], line[i]>> \in Alike => Kin(line[q], line[i])
<1> DEFINE Used == {line[q] : q \in Requests}
           Shut(S) == \A u, v \in Used : <<u, v>> \in Alike /\ u \in S => v \in S
<1>0. Used \subseteq Lines /\ \A q \in Requests : line[q] \in Used
  BY DEF TypeOK
<1>1. \A x, y : Kin(x, y) <=> {x, y} \subseteq Used /\ \A S \in SUBSET Used : Shut(S) => (x \in S <=> y \in S)
  BY DEF Kin, Linked
<1>2. ASSUME NEW q \in Requests, NEW i \in Requests, <<line[q], line[i]>> \in Alike
      PROVE  Kin(line[q], line[i])
  <2>1. <<line[i], line[q]>> \in Alike
    BY <1>0, <1>2, DaemonConstants
  <2>2. ASSUME NEW S \in SUBSET Used, Shut(S) PROVE line[q] \in S <=> line[i] \in S
    BY <1>0, <1>2, <2>1, <2>2
  <2>3. {line[q], line[i]} \subseteq Used
    BY <1>0
  <2> HIDE DEF Used, Shut
  <2> QED  BY <1>1, <2>2, <2>3
<1> HIDE DEF Used, Shut
<1>3. \A q \in Requests : Kin(line[q], line[q])
  BY <1>0, <1>1
<1>4. \A x, y : Kin(x, y) => Kin(y, x) /\ x \in Lines /\ y \in Lines
  BY <1>0, <1>1
<1>5. ASSUME NEW x, NEW y, NEW z, Kin(x, y), Kin(y, z) PROVE Kin(x, z)
  BY <1>1, <1>5
<1> QED  BY <1>2, <1>3, <1>4, <1>5

------------------------------------------------------------------------------
(* Types *)

(* The oldest request of some is one of them, and no other is older.        *)
(* (next_to_draft) *)
LEMMA OldestIsOne ==
  ASSUME NEW S \in SUBSET Requests, S # {}
  PROVE  Oldest(S) \in S /\ \A k \in S : Oldest(S) <= k
<1> DEFINE R == OpToRel(<, Nat)
<1>1. S \subseteq Nat
  BY DaemonConstants
<1>2. PICK q \in S : \A k \in S : <<k, q>> \notin R
  <2> HIDE DEF R
  <2>1. IsWellFoundedOn(R, Nat)
    BY NatLessThanWellFounded DEF R
  <2> QED  BY <1>1, <2>1, WFMin
<1>3. ASSUME NEW k \in S PROVE q <= k
  <2>1. ~ (k < q)
    BY <1>1, <1>2 DEF OpToRel
  <2> QED  BY <1>1, <2>1
<1> QED  BY <1>3 DEF Oldest

(* A text is generated. (generate_for) *)
LEMMA NewTextIsText == ASSUME TypeOK PROVE NewText \in Text
<1>1. spec.text \in Text \cup {NoText}
  BY DEF TypeOK, Artifact
<1>2. \E t \in Text : t # spec.text
  BY <1>1, DaemonConstants
<1> QED  BY <1>2 DEF NewText

(* The types of what a process keeps. *)
ProcTypes ==
  /\ seen \in [Procs -> Artifact]
  /\ pc \in [Procs -> Places] /\ on \in [Procs -> Requests \cup {NoRequest}]
  /\ \A p \in Procs : on[p] = NoRequest <=> pc[p] \in {"down", "up"}
  /\ current \subseteq {p \in Procs : pc[p] = "drafting"}

(* No artifact is one. *)
LEMMA NothingIsArtifact == NoArtifact \in Artifact
BY DEF NoArtifact, Artifact

(* Where a process goes, it has a request if it needs one. *)
LEMMA GoesTypes ==
  ASSUME TypeOK, NEW p \in Procs, NEW place \in Places, Goes(p, place),
         place \in {"down", "up"} \/ on[p] # NoRequest
  PROVE  ProcTypes'
<1>1. seen' \in [Procs -> Artifact] /\ pc' \in [Procs -> Places]
  BY NothingIsArtifact DEF TypeOK, Goes, Set
<1>2. on' \in [Procs -> Requests \cup {NoRequest}]
  BY DEF TypeOK, Goes, Set
<1>3. \A q \in Procs : on'[q] = NoRequest <=> pc'[q] \in {"down", "up"}
  BY DEF TypeOK, Goes, Set
<1>4. current' \subseteq {q \in Procs : pc'[q] = "drafting"}
  BY DEF TypeOK, Goes, Set
<1> QED  BY <1>1, <1>2, <1>3, <1>4 DEF ProcTypes

(* The parts whose types are told apart. *)
WorldTypes ==
  /\ line \in [Requests -> Lines]
  /\ server \in [Requests -> [state : ServerStates, note : BOOLEAN, shown : Lines \cup {NoLine}]]
  /\ task \in [Requests -> TaskStates]
  /\ spec \in Artifact
  /\ owner \in Lines \cup {NoLine} /\ file \in Lines \cup {NoLine}
  /\ declared \in BOOLEAN
  /\ lease \in Procs \cup {NoOne}
  /\ repo \in {"ready", "busy", "gone"}
  /\ verb \in {NoVerb} \cup [to : {"over", "queued"}, on : Requests]
  /\ faults \in 0 .. MaxFaults /\ backs \in 0 .. MaxSendBacks

(* A fault keeps the budget. *)
LEMMA FaultTypes ==
  ASSUME TypeOK, Fault \/ UNCHANGED budget PROVE faults' \in 0 .. MaxFaults /\ backs' \in 0 .. MaxSendBacks
BY DaemonConstants DEF TypeOK, Fault, budget

(* A report keeps the server's records records. (push_drafted, push_failed, *)
(* push_released) *)
LEMMA ReportedTypes ==
  ASSUME TypeOK, NEW q \in Requests, NEW s \in ServerStates, NEW l \in Lines \cup {NoLine},
         Reported(q, s, l)
  PROVE  server' \in [Requests -> [state : ServerStates, note : BOOLEAN, shown : Lines \cup {NoLine}]]
BY DEF TypeOK, Reported, Set

(* A step of one process or of one person keeps the types. *)
LEMMA ProcessTypes ==
  ASSUME TypeOK, NEW p \in Procs, Start(p) \/ Turn(p) \/ Crash(p) PROVE TypeOK'
<1> SUFFICES WorldTypes' /\ ProcTypes'
  BY DEF TypeOK, WorldTypes, ProcTypes
<1> USE NothingIsArtifact
<1>1. WorldTypes /\ ProcTypes /\ on[p] \in Requests \cup {NoRequest}
  BY DEF TypeOK, WorldTypes, ProcTypes
<1>2. CASE Start(p)
  <2>1. WorldTypes'
    BY <1>1, <1>2 DEF Start, WorldTypes, Requeued, TaskStates, directory, budget
  <2>2. ProcTypes'
    BY <1>2, GoesTypes DEF Start, Places
  <2> QED  BY <2>1, <2>2
<1>3. CASE Crash(p)
  <2>1. WorldTypes'
    BY <1>1, <1>3, FaultTypes DEF Crash, WorldTypes, directory
  <2>2. ProcTypes'
    BY <1>3, GoesTypes DEF Crash, Places
  <2> QED  BY <2>1, <2>2
<1>4. CASE Begin(p)
  <2>0. on[p] # NoRequest
    BY <1>4 DEF Begin, TypeOK
  <2>1. WorldTypes'
    BY <1>1, <1>4 DEF Begin, WorldTypes, Set, TaskStates, directory, budget
  <2>2. ASSUME repo = "ready" PROVE ProcTypes'
    BY <1>4, <2>0, <2>2, GoesTypes DEF Begin, Places
  <2>3. ASSUME repo # "ready" PROVE ProcTypes'
    <3>1. Refusal(p) \in Places
      BY DEF Refusal, Places
    <3> QED  BY <1>4, <2>0, <2>3, <3>1, GoesTypes DEF Begin
  <2> QED  BY <2>1, <2>2, <2>3
<1>5. CASE Adopt(p)
  <2>0. on[p] # NoRequest
    BY <1>5 DEF Adopt, TypeOK
  <2>1. WorldTypes'
    BY <1>1, <1>5 DEF Adopt, WorldTypes, directory, budget
  <2>2. ASSUME lease # NoOne \/ Conflict(on[p]) PROVE ProcTypes'
    BY <1>5, <2>0, <2>2, GoesTypes DEF Adopt, Places
  <2>3. ASSUME ~ (lease # NoOne \/ Conflict(on[p])) PROVE ProcTypes'
    <3>1. /\ pc' = Set(pc, p, "drafting") /\ seen' = Set(seen, p, spec)
          /\ current' = current \cup {p} /\ on' = on
      BY <1>5, <2>3 DEF Adopt
    <3> QED  BY <1>1, <2>0, <3>1 DEF ProcTypes, WorldTypes, Set, Places
  <2> QED  BY <2>1, <2>2, <2>3
<1>6. CASE Draft(p)
  <2>0. on[p] # NoRequest /\ on[p] \in Requests
    BY <1>1, <1>6 DEF Draft, TypeOK
  <2>1. CASE Goes(p, "failing") /\ UNCHANGED directory
    <3>1. WorldTypes'
      BY <1>1, <1>6, <2>1 DEF Draft, WorldTypes, directory, budget
    <3> QED  BY <2>0, <2>1, <3>1, GoesTypes DEF Places
  <2>2. CASE ~ (Goes(p, "failing") /\ UNCHANGED directory)
    <3>1. /\ owner' = line[on[p]]
          /\ pc' = Set(pc, p, IF seen[p].status = "approved" THEN "failing" ELSE "parking")
          /\ current' = {} /\ seen' = Set(seen, p, NoArtifact) /\ on' = on
          /\ IF seen[p].status = "approved" THEN spec' = seen[p] /\ UNCHANGED file
             ELSE spec' = Drafted(p) /\ file' = spec'.line
      BY <1>6, <2>2 DEF Draft
    <3>2. Drafted(p) \in Artifact
      BY <1>1, <2>0, NewTextIsText DEF Drafted, Artifact, ProcTypes, WorldTypes
    <3>3. spec' \in Artifact /\ file' \in Lines \cup {NoLine}
      <4>1. seen[p] \in Artifact
        BY <1>1 DEF ProcTypes
      <4> QED  BY <1>1, <3>1, <3>2, <4>1 DEF WorldTypes, Artifact
    <3>4. WorldTypes'
      BY <1>1, <1>6, <2>0, <3>1, <3>3 DEF Draft, WorldTypes, budget
    <3>5. ProcTypes'
      BY <1>1, <2>0, <3>1 DEF ProcTypes, Set, Places
    <3> QED  BY <3>4, <3>5
  <2> QED  BY <2>1, <2>2
<1>7. CASE Park(p)
  <2>0. on[p] # NoRequest
    BY <1>7 DEF Park, TypeOK
  <2>1. WorldTypes'
    BY <1>1, <1>7 DEF Park, WorldTypes, Gate, Dropped, Set, TaskStates, budget
  <2>2. ProcTypes'
    BY <1>7, <2>0, GoesTypes DEF Park, TurnOver, Places
  <2> QED  BY <2>1, <2>2
<1>8. CASE Fail(p)
  <2>0. on[p] \in Requests
    BY <1>1, <1>8 DEF Fail, TypeOK
  <2>1. server' \in [Requests -> [state : ServerStates, note : BOOLEAN, shown : Lines \cup {NoLine}]]
    BY <1>1, <1>8, <2>0, ReportedTypes DEF Fail, WorldTypes, ServerStates
  <2>2. faults' \in 0 .. MaxFaults /\ backs' \in 0 .. MaxSendBacks
    BY <1>8, FaultTypes DEF Fail, budget
  <2>3. WorldTypes'
    BY <1>1, <1>8, <2>1, <2>2 DEF Fail, WorldTypes, Dropped, Set, TaskStates, directory
  <2>4. ProcTypes'
    BY <1>8, GoesTypes DEF Fail, TurnOver, Places
  <2> QED  BY <2>3, <2>4
<1> QED  BY <1>2, <1>3, <1>4, <1>5, <1>6, <1>7, <1>8 DEF Turn

(* So does a step of the server's side of the daemon, or of its queue. *)
LEMMA ServingTypes ==
  ASSUME TypeOK, Serving \/ Pick PROVE TypeOK'
<1> SUFFICES WorldTypes' /\ ProcTypes'
  BY DEF TypeOK, WorldTypes, ProcTypes
<1> USE NothingIsArtifact
<1>1. WorldTypes /\ ProcTypes /\ Serve \in Procs /\ Run \in Procs /\ Serve # Run
  BY DaemonConstants DEF TypeOK, WorldTypes, ProcTypes, Procs
<1>2. CASE Poll
  <2>1. Waiting # {} /\ Waiting \subseteq Requests
    BY <1>2 DEF Poll, Waiting
  <2>2. Oldest(Waiting) \in Requests
    BY <2>1, OldestIsOne
  <2>3. faults' \in 0 .. MaxFaults /\ backs' \in 0 .. MaxSendBacks
    BY <1>2, FaultTypes DEF Poll
  <2>4. server' = [server EXCEPT ![Oldest(Waiting)].state = "claimed"]
    BY <1>2 DEF Poll, OnServer
  <2>5. task' = task \/ task' = Set(task, Oldest(Waiting), "queued")
    BY <1>2 DEF Poll
  <2>6. WorldTypes'
    BY <1>1, <1>2, <2>2, <2>3, <2>4, <2>5 DEF Poll, WorldTypes, Set, ServerStates, TaskStates, directory
  <2>7. \/ UNCHANGED <<pc, on>>
        \/ /\ \E place \in {"noting", "begin", "unrecorded"} : pc' = Set(pc, Serve, place)
           /\ on' = Set(on, Serve, Oldest(Waiting))
    BY <1>2 DEF Poll
  <2>8. pc[Serve] = "up" /\ UNCHANGED <<seen, current>>
    BY <1>2 DEF Poll
  <2>9. ProcTypes'
    BY <1>1, <2>2, <2>7, <2>8, DaemonConstants DEF ProcTypes, Set, Places
  <2> QED  BY <2>6, <2>9
<1>3. CASE TakeNote
  <2>1. WorldTypes'
    BY <1>1, <1>3 DEF TakeNote, WorldTypes, budget
  <2>2. pc[Serve] = "noting" /\ pc' = Set(pc, Serve, "begin") /\ UNCHANGED <<on, seen>>
    BY <1>3 DEF TakeNote
  <2>3. current' \subseteq current
    BY <1>3 DEF TakeNote
  <2>4. ProcTypes'
    BY <1>1, <2>2, <2>3 DEF ProcTypes, Set, Places
  <2> QED  BY <2>1, <2>4
<1>4. CASE Push
  <2>0. on[Serve] \in Requests
    BY <1>1, <1>4 DEF Push, ProcTypes
  <2>1. server' \in [Requests -> [state : ServerStates, note : BOOLEAN, shown : Lines \cup {NoLine}]]
    BY <1>1, <1>4, <2>0, ReportedTypes DEF Push, WorldTypes, ServerStates
  <2>2. faults' \in 0 .. MaxFaults /\ backs' \in 0 .. MaxSendBacks
    BY <1>4, FaultTypes DEF Push
  <2>3. WorldTypes'
    BY <1>1, <1>4, <2>1, <2>2 DEF Push, WorldTypes, directory
  <2>4. ProcTypes'
    BY <1>1, <1>4, GoesTypes DEF Push, TurnOver, Places
  <2> QED  BY <2>3, <2>4
<1>5. CASE Release
  <2>0. on[Serve] \in Requests
    BY <1>1, <1>5 DEF Release, ProcTypes
  <2>1. server' \in [Requests -> [state : ServerStates, note : BOOLEAN, shown : Lines \cup {NoLine}]]
    BY <1>1, <1>5, <2>0, ReportedTypes DEF Release, WorldTypes, ServerStates
  <2>2. faults' \in 0 .. MaxFaults /\ backs' \in 0 .. MaxSendBacks
    BY <1>5, FaultTypes DEF Release
  <2>3. WorldTypes'
    BY <1>1, <1>5, <2>1, <2>2 DEF Release, WorldTypes, directory
  <2>4. ProcTypes'
    BY <1>1, <1>5, GoesTypes DEF Release, TurnOver, Places
  <2> QED  BY <2>3, <2>4
<1>7. CASE Unrecorded
  <2>0. on[Serve] \in Requests
    BY <1>1, <1>7 DEF Unrecorded, ProcTypes
  <2>1. server' \in [Requests -> [state : ServerStates, note : BOOLEAN, shown : Lines \cup {NoLine}]]
    BY <1>1, <1>7, <2>0, ReportedTypes DEF Unrecorded, WorldTypes, ServerStates
  <2>2. faults' \in 0 .. MaxFaults /\ backs' \in 0 .. MaxSendBacks
    BY <1>7, FaultTypes DEF Unrecorded
  <2>3. WorldTypes'
    BY <1>1, <1>7, <2>1, <2>2 DEF Unrecorded, WorldTypes, directory
  <2>4. ProcTypes'
    BY <1>1, <1>7, GoesTypes DEF Unrecorded, TurnOver, Places
  <2> QED  BY <2>3, <2>4
<1>6. CASE Pick
  <2>1. WorldTypes'
    BY <1>1, <1>6 DEF Pick, WorldTypes, directory, budget
  <2>2. ASSUME InState("queued") = {} \/ InState("drafting") # {} PROVE ProcTypes'
    BY <1>1, <1>6, <2>2, GoesTypes DEF Pick, Places
  <2>3. ASSUME ~ (InState("queued") = {} \/ InState("drafting") # {}) PROVE ProcTypes'
    <3>1. Oldest(InState("queued")) \in Requests
      BY <2>3, OldestIsOne DEF InState
    <3>2. /\ pc[Run] = "up" /\ pc' = Set(pc, Run, "begin")
          /\ on' = Set(on, Run, Oldest(InState("queued"))) /\ UNCHANGED <<seen, current>>
      BY <1>6, <2>3 DEF Pick
    <3> QED  BY <1>1, <3>1, <3>2, DaemonConstants DEF ProcTypes, Set, Places
  <2> QED  BY <2>1, <2>2, <2>3
<1> QED  BY <1>2, <1>3, <1>4, <1>5, <1>6, <1>7 DEF Serving

(* So do people, time and the repository. *)
LEMMA WorldStepTypes ==
  ASSUME TypeOK,
         \/ \E q \in Requests : People(q) \/ Reclaim(q)
         \/ RecordVerb \/ Expire \/ RebaseBegins \/ RebaseEnds \/ Moved \/ Restored
  PROVE  TypeOK'
<1> SUFFICES WorldTypes' /\ ProcTypes'
  BY DEF TypeOK, WorldTypes, ProcTypes
<1>1. WorldTypes /\ ProcTypes
  BY DEF TypeOK, WorldTypes, ProcTypes
<1>2. ProcTypes'
  <2>1. UNCHANGED <<pc, on, seen>> /\ current' \subseteq current
    BY DEF People, File, Settle, SendBackThere, Add, ApproveSpec, SendBackHere, Discard,
           Reclaim, RecordVerb, Expire, RebaseBegins, RebaseEnds, Moved, Restored
  <2> QED  BY <1>1, <2>1 DEF ProcTypes
<1>3. ASSUME NEW q \in Requests, People(q) PROVE WorldTypes'
  <2>1. CASE File(q) \/ Settle(q)
    BY <1>1, <2>1 DEF File, Settle, OnServer, WorldTypes, ServerStates, directory, budget
  <2>2. CASE SendBackThere(q)
    BY <1>1, <2>2, DaemonConstants DEF SendBackThere, WorldTypes, ServerStates, directory
  <2>3. CASE Add(q) \/ Discard(q)
    BY <1>1, <2>3 DEF Add, Discard, WorldTypes, Set, TaskStates, directory, budget
  <2>4. CASE ApproveSpec(q)
    <3>1. spec' \in Artifact
      BY <1>1, <2>4 DEF ApproveSpec, WorldTypes, Artifact
    <3> QED  BY <1>1, <2>4, <3>1 DEF ApproveSpec, WorldTypes, budget
  <2>5. CASE SendBackHere(q)
    BY <1>1, <2>5, NothingIsArtifact, DaemonConstants DEF SendBackHere, WorldTypes
  <2> QED  BY <1>3, <2>1, <2>2, <2>3, <2>4, <2>5 DEF People
<1>4. ASSUME NEW q \in Requests, Reclaim(q) PROVE WorldTypes'
  <2>1. faults' \in 0 .. MaxFaults /\ backs' \in 0 .. MaxSendBacks
    BY <1>4, FaultTypes DEF Reclaim
  <2> QED  BY <1>1, <1>4, <2>1 DEF Reclaim, OnServer, WorldTypes, ServerStates, directory
<1>5. ASSUME RecordVerb PROVE WorldTypes'
  <2>1. faults' \in 0 .. MaxFaults /\ backs' \in 0 .. MaxSendBacks
    BY <1>5, FaultTypes DEF RecordVerb
  <2>2. verb.to \in TaskStates
    BY <1>1 DEF WorldTypes, TaskStates, NoVerb
  <2>3. task' \in [Requests -> TaskStates]
    BY <1>1, <1>5, <2>2 DEF RecordVerb, Set, WorldTypes
  <2> QED  BY <1>1, <1>5, <2>1, <2>2, <2>3 DEF RecordVerb, WorldTypes, directory
<1>6. ASSUME Expire PROVE WorldTypes'
  <2>1. faults' \in 0 .. MaxFaults /\ backs' \in 0 .. MaxSendBacks
    BY <1>6, FaultTypes DEF Expire
  <2> QED  BY <1>1, <1>6, <2>1 DEF Expire, WorldTypes, directory
<1>7. ASSUME RebaseBegins \/ RebaseEnds \/ Moved \/ Restored PROVE WorldTypes'
  <2>1. faults' \in 0 .. MaxFaults /\ backs' \in 0 .. MaxSendBacks
    BY <1>7, FaultTypes DEF RebaseBegins, RebaseEnds, Moved, Restored
  <2> QED  BY <1>1, <1>7, <2>1 DEF RebaseBegins, RebaseEnds, Moved, Restored, WorldTypes, directory
<1> QED  BY <1>2, <1>3, <1>4, <1>5, <1>6, <1>7

(* The types hold at the start. *)
LEMMA TypeInit == Init => TypeOK
<1> SUFFICES ASSUME Init PROVE WorldTypes /\ ProcTypes
  BY DEF TypeOK, WorldTypes, ProcTypes
<1>1. line \in [Requests -> Lines]
  BY DaemonConstants DEF Init
<1>2. server \in [Requests -> [state : ServerStates, note : BOOLEAN, shown : Lines \cup {NoLine}]]
  BY DEF Init, ServerStates
<1>3. verb \in {NoVerb} \cup [to : {"over", "queued"}, on : Requests]
  BY DEF Init
<1>4. faults \in 0 .. MaxFaults /\ backs \in 0 .. MaxSendBacks
  BY DaemonConstants DEF Init
<1>5. WorldTypes
  BY <1>1, <1>2, <1>3, <1>4, NothingIsArtifact DEF Init, WorldTypes, TaskStates
<1>6. ProcTypes
  BY NothingIsArtifact DEF Init, ProcTypes, Places
<1> QED  BY <1>5, <1>6

(* Every variable keeps its type, whoever does what and dies when. *)
THEOREM TypeCorrect == Spec => []TypeOK
<1>1. ASSUME TypeOK, [Next]_vars PROVE TypeOK'
  <2>1. CASE UNCHANGED vars
    BY <1>1, <2>1 DEF TypeOK, vars
  <2>2. CASE Next
    BY <1>1, <2>2, ProcessTypes, ServingTypes, WorldStepTypes DEF Next, GoesOn
  <2> QED  BY <1>1, <2>1, <2>2
<1> QED  BY <1>1, TypeInit, PTL DEF Spec

------------------------------------------------------------------------------
(* Whose the directory is *)

Reviewed(q) == task[q] = "review" \/ server[q].state = "drafted" \/ server[q].note
AtOwn(p) == pc[p] \in {"parking", "pushing", "noting"}

(* What every step but the saving of a draft does to the parts. *)
Keeps ==
  /\ UNCHANGED <<line, owner, file>>
  /\ \A q \in Requests : Reviewed(q)' => Reviewed(q) \/ Kin(owner, line[q])
  /\ \A q \in Requests :
       server'[q].shown \in {NoLine, server[q].shown} \/ (server'[q].shown = file /\ Kin(owner, line[q]))
  /\ \A p \in Procs : AtOwn(p)' => (AtOwn(p) /\ on'[p] = on[p]) \/ Kin(owner, line[on'[p]])
  /\ \/ spec' = spec
     \/ spec'.line \in {NoLine, spec.line} /\ current' = {}
  /\ \A p \in current' :
       \/ p \in current /\ on'[p] = on[p] /\ seen'[p] = seen[p]
       \/ (owner = NoLine \/ <<owner, line[on'[p]]>> \in Alike) /\ seen'[p] = spec

(* And that keeps them. *)
LEMMA KeepsIsEnough ==
  ASSUME TypeOK, OneKin, SeesSpec, OwnSpec, Keeps PROVE OneKin' /\ SeesSpec' /\ OwnSpec'
<1>0. line' = line /\ owner' = owner /\ file' = file
  BY DEF Keeps
<1>1. OneKin'
  <2>1. owner' \in {line'[q] : q \in Requests} \cup {NoLine}
    BY <1>0 DEF OneKin
  <2>2. /\ file' = NoLine \/ Kin(file, owner)'
        /\ spec'.line = NoLine \/ Kin(spec.line, owner)'
    BY <1>0 DEF OneKin, Keeps, Kin
  <2>3. \A q \in Requests : Reviewed(q)' => Kin(owner, line[q])'
    BY <1>0 DEF OneKin, Keeps, Kin, Reviewed
  <2>4. \A p \in Procs : AtOwn(p)' => Kin(owner, line[on[p]])'
    BY <1>0 DEF OneKin, Keeps, Kin, AtOwn
  <2> QED  BY <2>1, <2>2, <2>3, <2>4 DEF OneKin, Reviewed, AtOwn
<1>2. SeesSpec'
  BY DEF SeesSpec, Keeps
<1>3. OwnSpec'
  <2>1. SUFFICES ASSUME NEW q \in Requests, server'[q].shown # NoLine
                 PROVE  Kin(server'[q].shown, line[q])
    BY <1>0 DEF OwnSpec, Kin
  <2>2. CASE server'[q].shown = server[q].shown
    BY <2>1, <2>2 DEF OwnSpec
  <2>3. CASE server'[q].shown = file /\ Kin(owner, line[q])
    BY <2>1, <2>3, KinEquivalence DEF OneKin
  <2> QED  BY <2>1, <2>2, <2>3 DEF Keeps
<1> QED  BY <1>1, <1>2, <1>3

(* A turn that is over, and a process that stops, leave the rest alone. *)
LEMMA GoesKeeps ==
  ASSUME TypeOK, NEW p \in Procs, NEW place \in Places, Goes(p, place)
  PROVE  /\ \A k \in current' : k \in current /\ on'[k] = on[k] /\ seen'[k] = seen[k]
         /\ \A k \in Procs \ {p} : pc'[k] = pc[k] /\ on'[k] = on[k]
         /\ pc'[p] = place /\ (place \notin {"down", "up"} => on'[p] = on[p])
<1>1. current \subseteq Procs
  BY DEF TypeOK
<1> QED  BY <1>1 DEF TypeOK, Goes, Set

(* What a report leaves, and what it adds. (push_drafted and the others) *)
LEMMA ReportedKeeps ==
  ASSUME TypeOK, NEW q \in Requests, NEW s \in ServerStates, NEW l \in Lines \cup {NoLine},
         Reported(q, s, l)
  PROVE  /\ \A k \in Requests \ {q} : server'[k] = server[k]
         /\ \/ server' = server
            \/ server'[q].state = s /\ server'[q].shown = l /\ (server'[q].note => server[q].note)
BY DEF TypeOK, Reported, Set

(* The steps of one process, but for the saving of a draft. *)
LEMMA ProcessKeeps ==
  ASSUME TypeOK, OneKin, SeesSpec, NEW p \in Procs,
         Start(p) \/ Begin(p) \/ Adopt(p) \/ Park(p) \/ Fail(p) \/ Crash(p)
  PROVE  Keeps
<1>1. CASE Start(p)
  <2>1. UNCHANGED <<line, owner, file, spec, server>> /\ task' = Requeued /\ Goes(p, "up")
    BY <1>1 DEF Start, directory
  <2>2. \A q \in Requests : task'[q] = "review" => task[q] = "review"
    BY <2>1 DEF Requeued
  <2> QED  BY <2>1, <2>2, GoesKeeps DEF Keeps, Reviewed, AtOwn, Places
<1>2. CASE Crash(p)
  <2>1. UNCHANGED <<line, owner, file, spec, server, task>> /\ Goes(p, "down")
    BY <1>2 DEF Crash, directory
  <2> QED  BY <2>1, GoesKeeps DEF Keeps, Reviewed, AtOwn, Places
<1>3. CASE Begin(p)
  <2>1. /\ UNCHANGED <<line, owner, file, spec, server>>
        /\ task' = Set(task, on[p], "drafting") \/ task' = Set(task, on[p], "queued")
    BY <1>3 DEF Begin, directory
  <2>2. \A q \in Requests : task'[q] = "review" => task[q] = "review"
    BY <2>1 DEF Set, TypeOK
  <2>3. PICK place \in {"adopt", "down", "up", "release"} : Goes(p, place)
    BY <1>3 DEF Begin, Refusal
  <2> QED  BY <2>1, <2>2, <2>3, GoesKeeps DEF Keeps, Reviewed, AtOwn, Places
<1>4. CASE Adopt(p)
  <2>1. UNCHANGED <<line, owner, file, spec, server, task>>
    BY <1>4 DEF Adopt, directory
  <2>2. CASE lease # NoOne \/ Conflict(on[p])
    <3>1. Goes(p, "failing")
      BY <1>4, <2>2 DEF Adopt
    <3> QED  BY <2>1, <3>1, GoesKeeps DEF Keeps, Reviewed, AtOwn, Places
  <2>3. CASE ~ (lease # NoOne \/ Conflict(on[p]))
    <3>1. /\ pc' = Set(pc, p, "drafting") /\ seen' = Set(seen, p, spec)
          /\ current' = current \cup {p} /\ on' = on
      BY <1>4, <2>3 DEF Adopt
    <3>2. \A k \in Procs : AtOwn(k)' => AtOwn(k) /\ on'[k] = on[k]
      BY <3>1 DEF AtOwn, Set, TypeOK
    <3>3. \A k \in current' : \/ k \in current /\ on'[k] = on[k] /\ seen'[k] = seen[k]
                              \/ (owner = NoLine \/ <<owner, line[on'[k]]>> \in Alike) /\ seen'[k] = spec
      BY <2>3, <3>1 DEF Conflict, Set, TypeOK
    <3> QED  BY <2>1, <3>2, <3>3 DEF Keeps, Reviewed
  <2> QED  BY <2>2, <2>3
<1>5. CASE Park(p)
  <2>1. /\ UNCHANGED <<line, owner, file, spec, server>>
        /\ pc[p] = "parking" /\ task' = Set(task, on[p], "review")
    BY <1>5 DEF Park, Gate
  <2>2. Kin(owner, line[on[p]])
    BY <2>1 DEF OneKin
  <2>3. \A q \in Requests : task'[q] = "review" => task[q] = "review" \/ Kin(owner, line[q])
    BY <2>1, <2>2 DEF Set, TypeOK
  <2>4. Goes(p, "pushing") \/ Goes(p, "up")
    BY <1>5 DEF Park, TurnOver
  <2>5. \A q \in Requests : Reviewed(q)' => Reviewed(q) \/ Kin(owner, line[q])
    BY <2>1, <2>3 DEF Reviewed
  <2>6. CASE Goes(p, "pushing")
    BY <2>1, <2>2, <2>5, <2>6, GoesKeeps DEF Keeps, AtOwn, Places
  <2>7. CASE Goes(p, "up")
    BY <2>1, <2>5, <2>7, GoesKeeps DEF Keeps, AtOwn, Places
  <2> QED  BY <2>4, <2>6, <2>7
<1>6. CASE Fail(p)
  <2>1. /\ UNCHANGED <<line, owner, file, spec>>
        /\ task' = Set(task, on[p], "over") /\ Goes(p, "up")
    BY <1>6 DEF Fail, TurnOver, directory
  <2>2. \A q \in Requests : task'[q] = "review" => task[q] = "review"
    BY <2>1 DEF Set, TypeOK
  <2>3. on[p] \in Requests
    BY <1>6 DEF Fail, TypeOK
  <2>4. UNCHANGED server \/ Reported(on[p], "over", NoLine)
    BY <1>6 DEF Fail
  <2>5. \A q \in Requests : \/ server'[q] = server[q]
                            \/ /\ server'[q].state = "over" /\ server'[q].shown = NoLine
                               /\ server'[q].note => server[q].note
    BY <2>3, <2>4, ReportedKeeps DEF ServerStates
  <2> QED  BY <2>1, <2>2, <2>5, GoesKeeps DEF Keeps, Reviewed, AtOwn, Places
<1> QED  BY <1>1, <1>2, <1>3, <1>4, <1>5, <1>6

(* The steps of the server's side of the daemon, and of its queue. *)
LEMMA ServingKeeps ==
  ASSUME TypeOK, OneKin, Serving \/ Pick PROVE Keeps
<1>0. Serve \in Procs /\ Run \in Procs
  BY DEF Procs
<1>1. CASE Poll
  <2> DEFINE q == Oldest(Waiting)
  <2>1. q \in Requests /\ q \in Waiting
    <3>1. Waiting \in SUBSET Requests /\ Waiting # {}
      BY <1>1 DEF Poll, Waiting
    <3> QED  BY <3>1, OldestIsOne
  <2>2. /\ UNCHANGED <<line, owner, file, spec, seen, current>>
        /\ server' = [server EXCEPT ![q].state = "claimed"] /\ pc[Serve] = "up"
    BY <1>1 DEF Poll, OnServer, directory
  <2>3. \A k \in Requests : /\ server'[k].shown = server[k].shown
                            /\ server'[k].state = "drafted" => server[k].state = "drafted"
                            /\ server'[k].note = server[k].note
    BY <2>1, <2>2 DEF TypeOK
  <2>4. \A k \in Requests : task'[k] = "review" => task[k] = "review"
    BY <1>1 DEF Poll, Set, TypeOK
  <2>5. \/ UNCHANGED <<pc, on>>
        \/ /\ \/ pc' = Set(pc, Serve, IF server[q].note THEN "noting" ELSE "begin")
              \/ pc' = Set(pc, Serve, "unrecorded")
           /\ on' = Set(on, Serve, q)
    BY <1>1 DEF Poll
  <2>6. server[q].note => Kin(owner, line[q])
    BY <2>1 DEF OneKin
  <2>7. \A p \in Procs : AtOwn(p)' => (AtOwn(p) /\ on'[p] = on[p]) \/ Kin(owner, line[on'[p]])
    BY <1>0, <2>2, <2>5, <2>6 DEF AtOwn, Set, TypeOK
  <2>8. \A p \in current' : p \in current /\ on'[p] = on[p] /\ seen'[p] = seen[p]
    BY <1>0, <2>2, <2>5 DEF Set, TypeOK
  <2> QED  BY <2>2, <2>3, <2>4, <2>7, <2>8 DEF Keeps, Reviewed
<1>2. CASE TakeNote
  <2>1. /\ UNCHANGED <<line, owner, file, server, task, on, seen>>
        /\ pc' = Set(pc, Serve, "begin")
        /\ (spec' = NoArtifact /\ current' = {}) \/ UNCHANGED <<spec, current>>
    BY <1>2 DEF TakeNote
  <2>2. \A p \in Procs : AtOwn(p)' => AtOwn(p) /\ on'[p] = on[p]
    BY <2>1 DEF AtOwn, Set, TypeOK
  <2> QED  BY <2>1, <2>2 DEF Keeps, Reviewed, NoArtifact
<1>3. CASE Push
  <2>1. /\ UNCHANGED <<line, owner, file, spec, task>> /\ Goes(Serve, "up")
        /\ pc[Serve] = "pushing"
    BY <1>3 DEF Push, TurnOver, directory
  <2>2. on[Serve] \in Requests /\ Kin(owner, line[on[Serve]])
    BY <1>0, <2>1 DEF TypeOK, OneKin
  <2>3. UNCHANGED server \/ Reported(on[Serve], "drafted", file)
    BY <1>3 DEF Push
  <2>4. file \in Lines \cup {NoLine}
    BY DEF TypeOK
  <2>5. \A q \in Requests : \/ server'[q] = server[q]
                            \/ /\ Kin(owner, line[q]) /\ server'[q].shown = file
                               /\ server'[q].note => server[q].note
    BY <2>2, <2>3, <2>4, ReportedKeeps DEF ServerStates
  <2> QED  BY <1>0, <2>1, <2>5, GoesKeeps DEF Keeps, Reviewed, AtOwn, Places
<1>4. CASE Release
  <2>1. UNCHANGED <<line, owner, file, spec, task>> /\ Goes(Serve, "up")
    BY <1>4 DEF Release, TurnOver, directory
  <2>2. on[Serve] \in Requests
    BY <1>0, <1>4 DEF Release, TypeOK
  <2>3. UNCHANGED server \/ Reported(on[Serve], "queued", NoLine)
    BY <1>4 DEF Release
  <2>4. \A q \in Requests : \/ server'[q] = server[q]
                            \/ /\ server'[q].state = "queued" /\ server'[q].shown = NoLine
                               /\ server'[q].note => server[q].note
    BY <2>2, <2>3, ReportedKeeps DEF ServerStates
  <2> QED  BY <1>0, <2>1, <2>4, GoesKeeps DEF Keeps, Reviewed, AtOwn, Places
<1>6. CASE Unrecorded
  <2>1. UNCHANGED <<line, owner, file, spec, task>> /\ Goes(Serve, "up")
    BY <1>6 DEF Unrecorded, TurnOver, directory
  <2>2. on[Serve] \in Requests
    BY <1>0, <1>6 DEF Unrecorded, TypeOK
  <2>3. UNCHANGED server \/ Reported(on[Serve], "over", NoLine)
    BY <1>6 DEF Unrecorded
  <2>4. \A q \in Requests : \/ server'[q] = server[q]
                            \/ /\ server'[q].state = "over" /\ server'[q].shown = NoLine
                               /\ server'[q].note => server[q].note
    BY <2>2, <2>3, ReportedKeeps DEF ServerStates
  <2> QED  BY <1>0, <2>1, <2>4, GoesKeeps DEF Keeps, Reviewed, AtOwn, Places
<1>5. CASE Pick
  <2>1. UNCHANGED <<line, owner, file, spec, server, task>> /\ pc[Run] = "up"
    BY <1>5 DEF Pick, directory
  <2>2. CASE Goes(Run, "down")
    BY <1>0, <2>1, <2>2, GoesKeeps DEF Keeps, Reviewed, AtOwn, Places
  <2>3. CASE ~ Goes(Run, "down")
    <3>1. /\ pc' = Set(pc, Run, "begin") /\ on' = Set(on, Run, Oldest(InState("queued")))
          /\ UNCHANGED <<seen, current>>
      BY <1>5, <2>3 DEF Pick
    <3>2. \A p \in Procs : AtOwn(p)' => AtOwn(p) /\ on'[p] = on[p]
      BY <3>1 DEF AtOwn, Set, TypeOK
    <3>3. \A p \in current' : p \in current /\ on'[p] = on[p] /\ seen'[p] = seen[p]
      BY <1>0, <2>1, <3>1 DEF Set, TypeOK
    <3> QED  BY <2>1, <3>1, <3>2, <3>3 DEF Keeps, Reviewed
  <2> QED  BY <2>2, <2>3
<1> QED  BY <1>1, <1>2, <1>3, <1>4, <1>5, <1>6 DEF Serving

(* What people do, time and the repository. *)
LEMMA WorldKeeps ==
  ASSUME TypeOK, OneKin,
         \/ \E q \in Requests : People(q) \/ Reclaim(q)
         \/ RecordVerb \/ Expire \/ RebaseBegins \/ RebaseEnds \/ Moved \/ Restored
  PROVE  Keeps
<1>1. UNCHANGED <<line, owner, file, pc, on, seen>>
  BY DEF People, File, Settle, SendBackThere, Add, ApproveSpec, SendBackHere, Discard,
         Reclaim, RecordVerb, Expire, RebaseBegins, RebaseEnds, Moved, Restored, directory
<1>2. \/ spec' = spec /\ current' \subseteq current
      \/ spec'.line \in {NoLine, spec.line} /\ current' = {}
  <2>1. ASSUME NEW q \in Requests, ApproveSpec(q)
        PROVE  spec'.line \in {NoLine, spec.line} /\ current' = {}
    BY <2>1 DEF ApproveSpec, TypeOK, Artifact
  <2>2. ASSUME NEW q \in Requests, SendBackHere(q)
        PROVE  spec'.line \in {NoLine, spec.line} /\ current' = {}
    BY <2>2 DEF SendBackHere, NoArtifact
  <2>3. ASSUME NEW q \in Requests, File(q) \/ Settle(q) \/ SendBackThere(q) \/ Add(q) \/ Discard(q)
        PROVE  spec' = spec /\ current' \subseteq current
    BY <2>3 DEF File, Settle, SendBackThere, Add, Discard, directory
  <2>4. ASSUME \/ \E q \in Requests : Reclaim(q)
               \/ RecordVerb \/ Expire \/ RebaseBegins \/ RebaseEnds \/ Moved \/ Restored
        PROVE  spec' = spec /\ current' \subseteq current
    BY <2>4 DEF Reclaim, RecordVerb, Expire, RebaseBegins, RebaseEnds, Moved, Restored, directory
  <2> QED  BY <2>1, <2>2, <2>3, <2>4 DEF People
<1>3. ASSUME NEW k \in Requests
      PROVE  /\ Reviewed(k)' => Reviewed(k)
             /\ server'[k].shown \in {NoLine, server[k].shown}
  <2>1. ASSUME NEW q \in Requests, File(q) \/ Settle(q)
        PROVE  /\ Reviewed(k)' => Reviewed(k)
               /\ server'[k].shown \in {NoLine, server[k].shown}
    BY <2>1 DEF File, Settle, OnServer, Reviewed, TypeOK
  <2>2. ASSUME NEW q \in Requests, SendBackThere(q)
        PROVE  /\ Reviewed(k)' => Reviewed(k)
               /\ server'[k].shown \in {NoLine, server[k].shown}
    BY <2>2 DEF SendBackThere, Reviewed, TypeOK
  <2>3. ASSUME NEW q \in Requests, Reclaim(q)
        PROVE  /\ Reviewed(k)' => Reviewed(k)
               /\ server'[k].shown \in {NoLine, server[k].shown}
    BY <2>3 DEF Reclaim, OnServer, Reviewed, TypeOK
  <2>4. ASSUME NEW q \in Requests, Add(q) \/ Discard(q) \/ ApproveSpec(q) \/ SendBackHere(q)
        PROVE  /\ Reviewed(k)' => Reviewed(k)
               /\ server'[k].shown \in {NoLine, server[k].shown}
    BY <2>4 DEF Add, Discard, ApproveSpec, SendBackHere, Set, Reviewed, TypeOK
  <2>5. ASSUME RecordVerb
        PROVE  /\ Reviewed(k)' => Reviewed(k)
               /\ server'[k].shown \in {NoLine, server[k].shown}
    <3>1. verb.to # "review"
      BY DEF TypeOK, NoVerb
    <3> QED  BY <2>5, <3>1 DEF RecordVerb, Set, Reviewed, TypeOK
  <2>6. ASSUME Expire \/ RebaseBegins \/ RebaseEnds \/ Moved \/ Restored
        PROVE  /\ Reviewed(k)' => Reviewed(k)
               /\ server'[k].shown \in {NoLine, server[k].shown}
    BY <2>6 DEF Expire, RebaseBegins, RebaseEnds, Moved, Restored, Reviewed
  <2> QED  BY <2>1, <2>2, <2>3, <2>4, <2>5, <2>6 DEF People
<1> QED  BY <1>1, <1>2, <1>3 DEF Keeps, AtOwn

(* The saving of a draft: only a process that saw what it replaces does.    *)
(* (save_to) *)
LEMMA DraftSaves ==
  ASSUME TypeOK, OneKin, SeesSpec, NEW p \in Procs, Draft(p)
  PROVE  \/ Keeps /\ spec' = spec
         \/ /\ p \in current /\ current' = {} /\ seen[p] = spec
            /\ owner' = line[on[p]] /\ (owner = NoLine \/ Kin(owner, owner'))
            /\ IF spec.status = "approved" THEN spec' = spec /\ file' = file
               ELSE /\ spec' = Drafted(p) /\ file' = spec'.line
                    /\ spec.status = "draft" => spec' = spec
                    /\ spec'.status = "draft" /\ (spec'.line = NoLine \/ Kin(spec'.line, owner'))
            /\ UNCHANGED <<line, server, task, on>>
            /\ pc' = Set(pc, p, IF spec.status = "approved" THEN "failing" ELSE "parking")
<1>1. UNCHANGED <<line, server, task>> /\ pc[p] = "drafting"
  BY DEF Draft
<1>2. CASE Goes(p, "failing") /\ UNCHANGED directory
  <2>1. Keeps
    BY <1>1, <1>2, GoesKeeps DEF Keeps, Reviewed, AtOwn, Places, directory
  <2> QED  BY <1>2, <2>1 DEF directory
<1>3. CASE ~ (Goes(p, "failing") /\ UNCHANGED directory)
  <2>1. /\ p \in current /\ current' = {} /\ owner' = line[on[p]] /\ on' = on
        /\ pc' = Set(pc, p, IF seen[p].status = "approved" THEN "failing" ELSE "parking")
        /\ IF seen[p].status = "approved" THEN spec' = seen[p] /\ UNCHANGED file
           ELSE spec' = Drafted(p) /\ file' = spec'.line
    BY <1>3 DEF Draft, SaveRefused
  <2>2. seen[p] = spec /\ (owner = NoLine \/ <<owner, line[on[p]]>> \in Alike)
    BY <2>1 DEF SeesSpec
  <2>6. on[p] \in Requests
    BY <1>1 DEF TypeOK
  <2>7. owner = NoLine \/ Kin(owner, owner')
    BY <2>1, <2>2, <2>6, KinEquivalence DEF OneKin
  <2>3. spec.status # "approved" => Drafted(p).status = "draft"
    BY <2>2 DEF Drafted
  <2>4. spec.status = "draft" => Drafted(p) = spec
    BY <2>2 DEF Drafted
  <2>5. Drafted(p).line = NoLine \/ Kin(Drafted(p).line, owner')
    <3>1. CASE Drafted(p).line = line[on[p]]
      BY <2>1, <2>6, <3>1, KinEquivalence
    <3>2. CASE Drafted(p).line = spec.line
      <4>1. Kin(spec.line, owner) => owner # NoLine
        BY KinEquivalence, DaemonConstants
      <4> QED  BY <2>7, <3>2, <4>1, KinEquivalence DEF OneKin
    <3> QED  BY <2>2, <3>1, <3>2 DEF Drafted
  <2> QED  BY <1>1, <2>1, <2>2, <2>3, <2>4, <2>5, <2>7
<1> QED  BY <1>2, <1>3

(* A saved draft is the directory's owner's, and put up by its own process. *)
LEMMA DraftStep ==
  ASSUME TypeOK, OneKin, SeesSpec, OwnSpec, NEW p \in Procs, Draft(p)
  PROVE  OneKin' /\ SeesSpec' /\ OwnSpec'
<1>1. CASE Keeps
  BY <1>1, KeepsIsEnough
<1>2. CASE ~ Keeps
  <2>1. /\ current' = {} /\ UNCHANGED <<line, server, task, on>>
        /\ owner' = line[on[p]] /\ (owner = NoLine \/ Kin(owner, owner'))
        /\ spec.status = "approved" => spec' = spec /\ file' = file
        /\ spec.status # "approved" =>
             file' = spec'.line /\ (spec'.line = NoLine \/ Kin(spec'.line, owner'))
        /\ pc' = Set(pc, p, IF spec.status = "approved" THEN "failing" ELSE "parking")
        /\ p \in current
    BY <1>2, DraftSaves
  <2>0. \A x : Kin(x, owner) => Kin(x, owner')
    BY <2>1, KinEquivalence, DaemonConstants
  <2>7. \A x : Kin(owner, x) => Kin(owner', x)
    BY <2>1, KinEquivalence, DaemonConstants
  <2>8. on[p] \in Requests
    BY <2>1 DEF TypeOK
  <2>2. /\ file' = NoLine \/ Kin(file', owner')
        /\ spec'.line = NoLine \/ Kin(spec'.line, owner')
    BY <2>0, <2>1 DEF OneKin
  <2>3. ASSUME NEW q \in Requests, Reviewed(q) PROVE Kin(owner', line[q])
    BY <2>3, <2>7 DEF OneKin, Reviewed
  <2>4. ASSUME NEW k \in Procs, AtOwn(k)' PROVE Kin(owner', line[on'[k]])
    <3>1. CASE k = p
      BY <2>1, <2>8, <3>1, KinEquivalence
    <3>2. CASE k # p
      <4>1. AtOwn(k)
        BY <2>1, <2>4, <3>2 DEF AtOwn, Set, TypeOK
      <4> QED  BY <2>1, <2>7, <4>1 DEF OneKin, AtOwn
    <3> QED  BY <3>1, <3>2
  <2>9. \A x, y : Linked({line'[q] : q \in Requests}, x, y) <=> Kin(x, y)
    BY <2>1 DEF Kin
  <2>5. OneKin'
    <3>1. owner' \in {line'[q] : q \in Requests} \cup {NoLine}
      BY <2>1, <2>8
    <3>2. file' = NoLine \/ Kin(file, owner)'
      BY <2>2, <2>9 DEF Kin
    <3>3. spec'.line = NoLine \/ Kin(spec.line, owner)'
      BY <2>2, <2>9 DEF Kin
    <3>4. \A q \in Requests : Reviewed(q)' => Kin(owner, line[q])'
      BY <2>1, <2>3, <2>9 DEF Kin, Reviewed
    <3>5. \A k \in Procs : AtOwn(k)' => Kin(owner, line[on[k]])'
      BY <2>1, <2>4, <2>9 DEF Kin
    <3> QED  BY <3>1, <3>2, <3>3, <3>4, <3>5 DEF OneKin, Reviewed, AtOwn
  <2> QED  BY <2>1, <2>5 DEF SeesSpec, OwnSpec, Kin
<1> QED  BY <1>1, <1>2

------------------------------------------------------------------------------
(* Theorems *)

(* Every step of the daemon and of all around it keeps the parts, which are *)
(* inductive together.                                                      *)
THEOREM Invariance == Spec => []IInv
<1>1. Init => IInv
  BY TypeInit DEF Init, IInv, OneKin, SeesSpec, OwnSpec, NoArtifact
<1>2. ASSUME IInv, [Next]_vars PROVE IInv'
  <2>1. CASE UNCHANGED vars
    <3>1. TypeOK'
      BY <1>2, <2>1 DEF vars, IInv, TypeOK
    <3>2. \A x, y : Linked({line'[q] : q \in Requests}, x, y) <=> Kin(x, y)
      BY <2>1 DEF vars, Kin
    <3>3. OneKin'
      BY <1>2, <2>1, <3>2 DEF vars, IInv, OneKin, Kin
    <3>4. SeesSpec' /\ OwnSpec'
      BY <1>2, <2>1, <3>2 DEF vars, IInv, SeesSpec, OwnSpec, Kin
    <3> QED  BY <3>1, <3>3, <3>4 DEF IInv
  <2>2. CASE Next
    <3>1. TypeOK'
      BY <1>2, <2>2, ProcessTypes, ServingTypes, WorldStepTypes DEF Next, GoesOn, IInv
    <3>2. CASE Keeps
      BY <1>2, <3>1, <3>2, KeepsIsEnough DEF IInv
    <3>3. CASE \E p \in Procs : Draft(p)
      BY <1>2, <3>1, <3>3, DraftStep DEF IInv
    <3>4. Keeps \/ \E p \in Procs : Draft(p)
      BY <1>2, <2>2, ProcessKeeps, ServingKeeps, WorldKeeps DEF Next, GoesOn, Turn, IInv
    <3> QED  BY <3>2, <3>3, <3>4
  <2> QED  BY <1>2, <2>1, <2>2
<1> QED  BY <1>1, <1>2, PTL DEF Spec

(* No reviewer is shown a specification that was written for a text which   *)
(* no chain of first lines in use, each alike to the next, links to that of *)
(* the request, however many name the directory and whoever writes it.      *)
(* (task_conflict, read_spec) *)
THEOREM OwnSpecShown == Spec => []OwnSpec
<1>1. IInv => OwnSpec
  BY DEF IInv
<1> QED  BY <1>1, Invariance, PTL

(* What a step does to the specification: it is as it was, a draft is saved *)
(* where there was none, a person approves it, or it is sent back.          *)
LEMMA SpecSteps ==
  ASSUME IInv, Next
  PROVE  \/ spec' = spec
         \/ spec.status = "none" /\ spec'.status = "draft" /\ spec'.line # NoLine
         \/ \E q \in Requests : ApproveSpec(q)
         \/ SendsBack /\ spec' = NoArtifact
<1> USE DEF IInv
<1>1. ASSUME NEW p \in Procs, Draft(p)
      PROVE  \/ spec' = spec
             \/ spec.status = "none" /\ spec'.status = "draft" /\ spec'.line # NoLine
  <2>1. spec.status \in {"none", "draft", "approved"}
    BY DEF TypeOK, Artifact
  <2>2. line[on[p]] \in Lines
    BY <1>1 DEF Draft, TypeOK
  <2>3. CASE spec' = spec
    BY <2>3
  <2>4. CASE spec' # spec
    <3>1. /\ seen[p] = spec /\ spec.status \notin {"draft", "approved"}
          /\ spec' = Drafted(p) /\ spec'.status = "draft"
      BY <1>1, <2>4, DraftSaves
    <3>2. spec'.line = line[on[p]]
      BY <3>1 DEF Drafted
    <3> QED  BY <2>1, <2>2, <3>1, <3>2, DaemonConstants
  <2> QED  BY <2>3, <2>4
<1>2. ASSUME NEW p \in Procs,
             Start(p) \/ Begin(p) \/ Adopt(p) \/ Park(p) \/ Fail(p) \/ Crash(p)
      PROVE  spec' = spec
  BY <1>2 DEF Start, Begin, Adopt, Park, Gate, Fail, Crash, directory
<1>3. ASSUME Poll \/ Unrecorded \/ Push \/ Release \/ Pick PROVE spec' = spec
  BY <1>3 DEF Poll, Unrecorded, Push, Release, Pick, directory
<1>4. ASSUME TakeNote PROVE spec' = spec \/ (SendsBack /\ spec' = NoArtifact)
  <2>1. pc[Serve] = "noting" /\ pc'[Serve] = "begin"
    BY <1>4 DEF TakeNote, Set, TypeOK, Procs
  <2>2. on[Serve] \in Requests /\ Kin(line[on[Serve]], owner)
    BY <2>1, KinEquivalence DEF TypeOK, OneKin, Procs
  <2>3. SendsBack
    BY <2>1, <2>2 DEF SendsBack
  <2>4. spec' = spec \/ spec' = NoArtifact
    BY <1>4 DEF TakeNote
  <2> QED  BY <2>3, <2>4
<1>5. ASSUME NEW q \in Requests, SendBackHere(q)
      PROVE  spec' = spec \/ (SendsBack /\ spec' = NoArtifact)
  <2>1. SendsBack
    <3>1. Kin(line[q], owner)
      BY <1>5, KinEquivalence DEF SendBackHere, OneKin
    <3> QED  BY <1>5, <3>1 DEF SendBackHere, SendsBack
  <2> QED  BY <1>5, <2>1 DEF SendBackHere
<1>6. ASSUME NEW q \in Requests,
             File(q) \/ Settle(q) \/ SendBackThere(q) \/ Add(q) \/ Discard(q) \/ Reclaim(q)
      PROVE  spec' = spec
  BY <1>6 DEF File, Settle, SendBackThere, Add, Discard, Reclaim, directory
<1>7. ASSUME RecordVerb \/ Expire \/ RebaseBegins \/ RebaseEnds \/ Moved \/ Restored PROVE spec' = spec
  BY <1>7 DEF RecordVerb, Expire, RebaseBegins, RebaseEnds, Moved, Restored, directory
<1> QED
  BY <1>1, <1>2, <1>3, <1>4, <1>5, <1>6, <1>7 DEF Next, GoesOn, Turn, Serving, People

(* The daemon itself never approves: ParkingGate has no way to, and a draft *)
(* that is restored stays a draft. (park.rs) *)
THEOREM HumansApprove == Spec => OnlyHumanApproves
<1>1. ASSUME IInv, [Next]_vars, spec'.status = "approved", spec.status # "approved"
      PROVE  \E q \in Requests : task[q] = "review" /\ verb' = [to |-> "over", on |-> q]
  <2>1. Next /\ spec' # spec
    BY <1>1 DEF vars
  <2>2. \E q \in Requests : ApproveSpec(q)
    BY <1>1, <2>1, SpecSteps DEF NoArtifact
  <2> QED  BY <2>2 DEF ApproveSpec
<1> QED  BY <1>1, Invariance, PTL DEF Spec, OnlyHumanApproves

(* The draft put up for review stays that draft until it is sent back, and  *)
(* no run replaces it or takes it away. (pending_draft, save_to) *)
THEOREM DraftIsKept == Spec => DraftKept
<1>1. ASSUME IInv, [Next]_vars, spec.status = "draft"
      PROVE  (spec'.status # "none" /\ SameSpec) \/ SendsBack
  <2>1. CASE spec' = spec
    BY <1>1, <2>1 DEF SameSpec
  <2>2. ASSUME NEW q \in Requests, ApproveSpec(q) PROVE spec'.status # "none" /\ SameSpec
    BY <1>1, <2>2 DEF ApproveSpec, SameSpec, IInv, TypeOK, Artifact
  <2> QED  BY <1>1, <2>1, <2>2, SpecSteps DEF vars
<1> QED  BY <1>1, Invariance, PTL DEF Spec, DraftKept

(* An approved specification is not overwritten by a run that loaded the    *)
(* directory before. (save_to's comparison of generations) *)
THEOREM ApprovalIsKept == Spec => SettledKept
<1>1. ASSUME IInv, [Next]_vars, spec.status = "approved"
      PROVE  (spec'.status = "approved" /\ SameSpec) \/ SendsBack
  <2>1. CASE spec' = spec
    BY <1>1, <2>1 DEF SameSpec
  <2>2. ASSUME NEW q \in Requests, ApproveSpec(q) PROVE spec'.status = "approved" /\ SameSpec
    BY <1>1, <2>2 DEF ApproveSpec, SameSpec, IInv, TypeOK, Artifact
  <2> QED  BY <1>1, <2>1, <2>2, SpecSteps DEF vars
<1> QED  BY <1>1, Invariance, PTL DEF Spec, SettledKept

------------------------------------------------------------------------------
(* Who is drafting *)

OwnedBy(p, q) == on[p] = q /\ pc[p] \in {"adopt", "drafting", "parking", "failing"}

(* A step that puts no task to drafting, and after which those at one still *)
(* are, or it is drafted no more. *)
LEMMA OwnedStep ==
  ASSUME TypeOK, DraftingIsOwned,
         \A q \in Requests : task'[q] = "drafting" => task[q] = "drafting",
         \A p \in Procs :
           \/ pc'[p] = pc[p] /\ on'[p] = on[p]
           \/ pc'[p] = "down"
           \/ pc[p] \notin {"down", "adopt", "drafting", "parking", "failing"}
           \/ on'[p] = on[p] /\ pc'[p] \in {"adopt", "drafting", "parking", "failing"} /\ pc[p] # "down"
           \/ on[p] \in Requests /\ task'[on[p]] # "drafting" /\ pc[p] # "down"
  PROVE  DraftingIsOwned'
<1>1. SUFFICES ASSUME NEW q \in Requests, task'[q] = "drafting"
               PROVE  \/ \E p \in Procs : OwnedBy(p, q)'
                      \/ \E p \in Procs : pc'[p] = "down"
  BY DEF DraftingIsOwned, InState, OwnedBy
<1>2. (\E p \in Procs : OwnedBy(p, q)) \/ \E p \in Procs : pc[p] = "down"
  BY <1>1 DEF DraftingIsOwned, InState, OwnedBy
<1>3. ASSUME NEW p \in Procs, pc[p] = "down" PROVE pc'[p] = "down"
  BY <1>3
<1>4. ASSUME NEW p \in Procs, OwnedBy(p, q) PROVE OwnedBy(p, q)' \/ pc'[p] = "down"
  BY <1>1, <1>4 DEF OwnedBy
<1> QED  BY <1>2, <1>3, <1>4

(* A process at its turn, started or killed. *)
LEMMA ProcessOwns ==
  ASSUME TypeOK, DraftingIsOwned, NEW p \in Procs, Start(p) \/ Turn(p) \/ Crash(p)
  PROVE  DraftingIsOwned'
<1>0. /\ pc \in [Procs -> Places] /\ on \in [Procs -> Requests \cup {NoRequest}]
      /\ task \in [Requests -> TaskStates]
      /\ pc[p] \notin {"down", "up"} => on[p] \in Requests
  BY DEF TypeOK
<1>1. CASE Start(p)
  <2>1. \A q \in Requests : task'[q] # "drafting"
    BY <1>1 DEF Start, Requeued
  <2> QED  BY <2>1 DEF DraftingIsOwned, InState
<1>2. CASE Crash(p)
  <2>1. pc'[p] = "down"
    BY <1>0, <1>2 DEF Crash, Goes, Set
  <2> QED  BY <2>1 DEF DraftingIsOwned
<1>3. CASE Begin(p) /\ repo = "ready"
  <2>1. /\ pc' = Set(pc, p, "adopt") /\ on' = on /\ task' = Set(task, on[p], "drafting")
        /\ on[p] \in Requests /\ pc[p] = "begin"
    BY <1>0, <1>3 DEF Begin, Goes
  <2>2. SUFFICES ASSUME NEW q \in Requests, task'[q] = "drafting"
                 PROVE  \/ \E r \in Procs : OwnedBy(r, q)'
                        \/ \E r \in Procs : pc'[r] = "down"
    BY DEF DraftingIsOwned, InState, OwnedBy
  <2>3. CASE q = on[p]
    BY <1>0, <2>1, <2>3 DEF OwnedBy, Set
  <2>4. CASE q # on[p]
    <3>1. task[q] = "drafting"
      BY <1>0, <2>1, <2>2, <2>4 DEF Set
    <3>2. (\E r \in Procs : OwnedBy(r, q)) \/ \E r \in Procs : pc[r] = "down"
      BY <3>1 DEF DraftingIsOwned, InState, OwnedBy
    <3>3. \A r \in Procs : OwnedBy(r, q) \/ pc[r] = "down" => r # p
      BY <2>1 DEF OwnedBy
    <3>4. \A r \in Procs \ {p} : pc'[r] = pc[r] /\ on'[r] = on[r]
      BY <1>0, <2>1 DEF Set
    <3> QED  BY <3>2, <3>3, <3>4 DEF OwnedBy
  <2> QED  BY <2>3, <2>4
<1>4. ASSUME Begin(p), repo # "ready" PROVE DraftingIsOwned'
  <2>1. \A q \in Requests : task'[q] = "drafting" => task[q] = "drafting"
    BY <1>0, <1>4 DEF Begin, Set
  <2>2. pc[p] = "begin" /\ \A r \in Procs \ {p} : pc'[r] = pc[r] /\ on'[r] = on[r]
    BY <1>0, <1>4 DEF Begin, Goes, Set
  <2> QED  BY <2>1, <2>2, OwnedStep
<1>5. CASE Adopt(p) \/ Draft(p)
  <2>1. task' = task /\ on' = on /\ pc[p] # "down"
    BY <1>5 DEF Adopt, Draft, Goes
  <2>2. /\ \A r \in Procs \ {p} : pc'[r] = pc[r]
        /\ pc'[p] \in {"drafting", "parking", "failing"}
    BY <1>0, <1>5 DEF Adopt, Draft, Goes, Set
  <2> QED  BY <2>1, <2>2, OwnedStep
<1>6. CASE Park(p) \/ Fail(p)
  <2>1. /\ pc[p] \in {"parking", "failing"} /\ on[p] \in Requests
        /\ task' = Set(task, on[p], "review") \/ task' = Set(task, on[p], "over")
    BY <1>0, <1>6 DEF Park, Fail
  <2>2. \A r \in Procs \ {p} : pc'[r] = pc[r] /\ on'[r] = on[r]
    BY <1>0, <1>6 DEF Park, Fail, TurnOver, Goes, Set
  <2>3. task'[on[p]] # "drafting" /\ \A q \in Requests : task'[q] = "drafting" => task[q] = "drafting"
    BY <1>0, <2>1 DEF Set
  <2> QED  BY <2>1, <2>2, <2>3, OwnedStep
<1> QED  BY <1>1, <1>2, <1>3, <1>4, <1>5, <1>6 DEF Turn

(* The other steps. *)
LEMMA OthersOwn ==
  ASSUME TypeOK, DraftingIsOwned,
         \/ Serving \/ Pick \/ RecordVerb \/ Expire \/ RebaseBegins \/ RebaseEnds \/ Moved \/ Restored
         \/ \E q \in Requests : People(q) \/ Reclaim(q)
  PROVE  DraftingIsOwned'
<1>0. /\ pc \in [Procs -> Places] /\ on \in [Procs -> Requests \cup {NoRequest}]
      /\ task \in [Requests -> TaskStates] /\ Serve \in Procs /\ Run \in Procs
  BY DEF TypeOK, Procs
<1>1. ASSUME Poll \/ Unrecorded \/ TakeNote \/ Push \/ Release \/ Pick PROVE DraftingIsOwned'
  <2>1. \A q \in Requests : task'[q] = "drafting" => task[q] = "drafting"
    BY <1>0, <1>1 DEF Poll, Unrecorded, TakeNote, Push, Release, Pick, Set
  <2>2. PICK p \in Procs : /\ pc[p] \in {"up", "unrecorded", "noting", "pushing", "release"}
                          /\ \A r \in Procs \ {p} : pc'[r] = pc[r] /\ on'[r] = on[r]
    <3>1. CASE Pick
      BY <1>0, <3>1 DEF Pick, Goes, Set
    <3>2. CASE Poll
      BY <1>0, <3>2 DEF Poll, Set
    <3>3. CASE TakeNote
      BY <1>0, <3>3 DEF TakeNote, Set
    <3>4. CASE Unrecorded \/ Push \/ Release
      BY <1>0, <3>4 DEF Unrecorded, Push, Release, TurnOver, Goes, Set
    <3> QED  BY <1>1, <3>1, <3>2, <3>3, <3>4
  <2> QED  BY <2>1, <2>2, OwnedStep
<1>2. ASSUME \/ RecordVerb \/ Expire \/ RebaseBegins \/ RebaseEnds \/ Moved \/ Restored
             \/ \E q \in Requests : People(q) \/ Reclaim(q)
      PROVE  DraftingIsOwned'
  <2>1. UNCHANGED <<pc, on>>
    BY <1>2 DEF People, File, Settle, SendBackThere, Add, ApproveSpec, SendBackHere, Discard,
                Reclaim, RecordVerb, Expire, RebaseBegins, RebaseEnds, Moved, Restored
  <2>2. verb.to # "drafting"
    BY DEF TypeOK, NoVerb
  <2>3. \A q \in Requests : task'[q] = "drafting" => task[q] = "drafting"
    BY <1>0, <1>2, <2>2
       DEF People, File, Settle, SendBackThere, Add, ApproveSpec, SendBackHere, Discard,
           Reclaim, RecordVerb, Expire, RebaseBegins, RebaseEnds, Moved, Restored, Set
  <2> QED  BY <2>1, <2>3, OwnedStep
<1> QED  BY <1>1, <1>2 DEF Serving

(* No repository is held by a draft that no process is at, but until one    *)
(* that is down is started: the half of RepoFreed that needs no fairness.   *)
(* (requeue_abandoned) *)
THEOREM DraftingIsOwnedHolds == Spec => []DraftingIsOwned
<1>1. ASSUME Init PROVE DraftingIsOwned
  BY <1>1 DEF Init, DraftingIsOwned, InState
<1>2. ASSUME TypeOK, DraftingIsOwned, [Next]_vars PROVE DraftingIsOwned'
  <2>1. CASE UNCHANGED vars
    BY <1>2, <2>1 DEF vars, DraftingIsOwned, InState
  <2>2. CASE Next
    BY <1>2, <2>2, ProcessOwns, OthersOwn DEF Next, GoesOn
  <2> QED  BY <1>2, <2>1, <2>2
<1> QED  BY <1>1, <1>2, TypeCorrect, PTL DEF Spec

------------------------------------------------------------------------------
(* The server as a work queue *)

PutUp(p) == pc[p] \in {"parking", "pushing"}

(* What is drafted is drafted for somebody's text, spec.md included, and a  *)
(* request that waits for a draft shows none. *)
Written ==
  /\ spec.status # "none" => spec.line # NoLine
  /\ \A p \in Procs : PutUp(p) => file # NoLine
  /\ \A q \in Requests : server[q].state \notin {"drafted", "over"} => server[q].shown = NoLine

(* Nobody else touches spec.md, or comes to put it up, than who drafts.     *)
LEMMA PutUpSteps ==
  ASSUME TypeOK, Next, \A p \in Procs : ~ Draft(p)
  PROVE  file' = file /\ \A p \in Procs : PutUp(p)' => PutUp(p)
<1>0. /\ pc \in [Procs -> Places] /\ Serve \in Procs /\ Run \in Procs
      /\ \A p \in Procs, place \in {"down", "up", "adopt", "failing", "release", "drafting", "begin", "noting", "unrecorded"} :
           pc' = Set(pc, p, place) => \A k \in Procs : PutUp(k)' => PutUp(k)
  BY DEF TypeOK, Procs, Set, PutUp
<1>1. ASSUME NEW p \in Procs, Start(p) \/ Begin(p) \/ Adopt(p) \/ Fail(p) \/ Crash(p)
      PROVE  file' = file /\ \A k \in Procs : PutUp(k)' => PutUp(k)
  BY <1>0, <1>1 DEF Start, Begin, Refusal, Adopt, Fail, TurnOver, Crash, Goes, directory
<1>2. ASSUME NEW p \in Procs, Park(p)
      PROVE  file' = file /\ \A k \in Procs : PutUp(k)' => PutUp(k)
  BY <1>0, <1>2 DEF Park, TurnOver, Goes, Set, PutUp
<1>3. ASSUME Serving \/ Pick PROVE file' = file /\ \A k \in Procs : PutUp(k)' => PutUp(k)
  <2>1. CASE Poll
    BY <1>0, <2>1 DEF Poll, directory, PutUp
  <2>2. CASE ~ Poll
    BY <1>0, <1>3, <2>2 DEF Serving, Unrecorded, TakeNote, Push, Release, Pick, TurnOver, Goes, directory, PutUp
  <2> QED  BY <2>1, <2>2
<1>4. ASSUME \/ RecordVerb \/ Expire \/ RebaseBegins \/ RebaseEnds \/ Moved \/ Restored
             \/ \E q \in Requests : People(q) \/ Reclaim(q)
      PROVE  file' = file /\ UNCHANGED pc
  BY <1>4 DEF People, File, Settle, SendBackThere, Add, ApproveSpec, SendBackHere, Discard,
              Reclaim, RecordVerb, Expire, RebaseBegins, RebaseEnds, Moved, Restored, directory
<1> QED  BY <1>1, <1>2, <1>3, <1>4 DEF Next, GoesOn, Turn, PutUp

(* A report is a step of the queue, or comes too late and is none.          *)
(* (push_drafted, push_failed, push_released) *)
LEMMA ReportIsWork ==
  ASSUME TypeOK, Written, NEW q \in Requests, NEW s, NEW l, Reported(q, s, l),
         \/ s = "drafted" /\ l \in Lines
         \/ s \in {"queued", "over"} /\ l = NoLine
  PROVE  UNCHANGED server \/ Work!Next
<1>1. CASE q \notin Claimed
  BY <1>1 DEF Reported
<1>2. CASE q \in Claimed
  <2>0. /\ server \in [Requests -> [state : ServerStates, note : BOOLEAN, shown : Lines \cup {NoLine}]]
        /\ server[q].state = "claimed" /\ server[q].shown = NoLine
        /\ server' = [server EXCEPT ![q] = [state |-> s, shown |-> l,
                                            note |-> server[q].note /\ s # "drafted"]]
    BY <1>2 DEF TypeOK, Written, Claimed, Reported, Set
  <2>1. CASE s = "drafted"
    <3>1. Work!Submit(q, l) /\ l \in Lines
      BY <2>0, <2>1, DaemonConstants DEF Work!Submit
    <3> QED  BY <3>1 DEF Work!Next
  <2>2. CASE s \in {"queued", "over"}
    <3>1. [state |-> s, shown |-> l, note |-> server[q].note /\ s # "drafted"]
            = [server[q] EXCEPT !.state = s]
      <4>1. l = NoLine /\ s # "drafted" /\ server[q].note \in BOOLEAN
        BY <2>0, <2>2
      <4>2. server[q] = [state |-> server[q].state, note |-> server[q].note, shown |-> NoLine]
        BY <2>0
      <4> QED  BY <4>1, <4>2
    <3>2. server' = [server EXCEPT ![q].state = s]
      BY <2>0, <3>1
    <3>3. Work!Return(q) \/ Work!Close(q)
      BY <2>0, <2>2, <3>2 DEF Work!Return, Work!Close, Work!Becomes
    <3> QED  BY <3>3 DEF Work!Next
  <2> QED  BY <2>1, <2>2
<1> QED  BY <1>1, <1>2

(* A poll claims what the queue would have claimed. (one_turn) *)
LEMMA PollIsWork ==
  ASSUME TypeOK, Poll PROVE Work!Next
<1> DEFINE q == Oldest(Waiting)
<1>1. /\ Claimed = {} /\ Waiting # {} /\ Waiting \subseteq Requests
      /\ server' = [server EXCEPT ![q].state = "claimed"]
  BY DEF Poll, OnServer, Waiting
<1>2. q \in Waiting /\ \A k \in Waiting : q <= k
  BY <1>1, OldestIsOne
<1>3. server = [i \in Requests |-> server[i]]
  BY DEF TypeOK
<1>4. Work!Holders = {}
  BY <1>1 DEF Work!Holders, Claimed
<1>5. Work!Free = server
  BY <1>3, <1>4 DEF Work!Free
<1>6. q \in Requests /\ Work!Claim(q)
  BY <1>1, <1>2, <1>5 DEF Work!Claim, Waiting
<1> QED  BY <1>6 DEF Work!Next

(* So is every step, or it leaves the server alone. *)
LEMMA QueueSteps ==
  ASSUME TypeOK, Written, Next PROVE UNCHANGED server \/ Work!Next
<1>0. Serve \in Procs /\ file \in Lines \cup {NoLine}
  BY DEF TypeOK, Procs
<1>1. ASSUME NEW p \in Procs, Start(p) \/ Begin(p) \/ Adopt(p) \/ Draft(p) \/ Park(p) \/ Crash(p)
      PROVE  UNCHANGED server
  BY <1>1 DEF Start, Begin, Adopt, Draft, Park, Crash
<1>2. ASSUME NEW p \in Procs, Fail(p) PROVE UNCHANGED server \/ Work!Next
  <2>1. UNCHANGED server \/ (on[p] \in Requests /\ Reported(on[p], "over", NoLine))
    BY <1>2 DEF Fail, TypeOK
  <2> QED  BY <2>1, ReportIsWork
<1>3. ASSUME Push PROVE UNCHANGED server \/ Work!Next
  <2>1. UNCHANGED server \/ (on[Serve] \in Requests /\ Reported(on[Serve], "drafted", file))
    BY <1>0, <1>3 DEF Push, TypeOK
  <2>2. file \in Lines
    BY <1>0, <1>3 DEF Push, Written, PutUp
  <2> QED  BY <2>1, <2>2, ReportIsWork
<1>4. ASSUME Release PROVE UNCHANGED server \/ Work!Next
  <2>1. UNCHANGED server \/ (on[Serve] \in Requests /\ Reported(on[Serve], "queued", NoLine))
    BY <1>0, <1>4 DEF Release, TypeOK
  <2> QED  BY <2>1, ReportIsWork
<1>7. ASSUME Unrecorded PROVE UNCHANGED server \/ Work!Next
  <2>1. UNCHANGED server \/ (on[Serve] \in Requests /\ Reported(on[Serve], "over", NoLine))
    BY <1>0, <1>7 DEF Unrecorded, TypeOK
  <2> QED  BY <2>1, ReportIsWork
<1>5. ASSUME TakeNote \/ Pick \/ RecordVerb \/ Expire \/ RebaseBegins \/ RebaseEnds \/ Moved \/ Restored
      PROVE  UNCHANGED server
  BY <1>5 DEF TakeNote, Pick, RecordVerb, Expire, RebaseBegins, RebaseEnds, Moved, Restored
<1>6. ASSUME NEW q \in Requests, People(q) \/ Reclaim(q) PROVE UNCHANGED server \/ Work!Next
  <2>1. CASE Add(q) \/ ApproveSpec(q) \/ SendBackHere(q) \/ Discard(q)
    BY <2>1 DEF Add, ApproveSpec, SendBackHere, Discard
  <2>2. CASE File(q)
    BY <2>2 DEF File, Unfiled, OnServer, Work!Next, Work!Offer, Work!Becomes
  <2>3. CASE Settle(q)
    BY <2>3 DEF Settle, OnServer, Work!Next, Work!Close, Work!Becomes
  <2>4. CASE SendBackThere(q)
    BY <2>4 DEF SendBackThere, Work!Next, Work!SendBack
  <2>5. CASE Reclaim(q)
    BY <2>5 DEF Reclaim, Claimed, OnServer, Work!Next, Work!Return, Work!Becomes
  <2> QED  BY <1>6, <2>1, <2>2, <2>3, <2>4, <2>5 DEF People
<1> QED  BY <1>1, <1>2, <1>3, <1>4, <1>5, <1>6, <1>7, PollIsWork DEF Next, GoesOn, Turn, Serving

(* A step of the queue shows nothing of what waits. *)
LEMMA WorkShowsNothing ==
  ASSUME TypeOK, Written, Work!Next, NEW q \in Requests, server'[q].state \notin {"drafted", "over"}
  PROVE  server'[q].shown = NoLine
<1>0. /\ server \in [Requests -> [state : ServerStates, note : BOOLEAN, shown : Lines \cup {NoLine}]]
      /\ server[q].state \notin {"drafted", "over"} => server[q].shown = NoLine
  BY DEF TypeOK, Written
<1>1. PICK i \in Requests :
        \/ Work!Offer(i) \/ Work!Return(i) \/ Work!Close(i) \/ Work!SendBack(i) \/ Work!Claim(i)
        \/ \E draft \in Lines : Work!Submit(i, draft)
  BY DEF Work!Next
<1>2. CASE Work!Offer(i) \/ Work!Return(i) \/ Work!Close(i)
  BY <1>0, <1>2 DEF Work!Offer, Work!Return, Work!Close, Work!Becomes
<1>3. CASE Work!SendBack(i)
  BY <1>0, <1>3 DEF Work!SendBack
<1>4. ASSUME NEW draft \in Lines, Work!Submit(i, draft) PROVE server'[q].shown = NoLine
  BY <1>0, <1>4 DEF Work!Submit
<1>5. CASE Work!Claim(i)
  <2>1. \A k \in Requests : /\ Work!Free[k].shown = server[k].shown
                            /\ Work!Free[k].state \in {server[k].state, "queued"}
                            /\ Work!Free[k].state = "queued" => server[k].state \in {"claimed", "queued"}
    BY <1>0 DEF Work!Free, Work!Holders
  <2>2. DOMAIN Work!Free = Requests
    BY DEF Work!Free
  <2>3. /\ server' = [Work!Free EXCEPT ![i].state = "claimed"]
        /\ Work!Free[i].state = "queued"
    BY <1>5 DEF Work!Claim
  <2>4. server'[q].shown = server[q].shown /\ server[q].state \notin {"drafted", "over"}
    BY <2>1, <2>2, <2>3
  <2> QED  BY <1>0, <2>4
<1> QED  BY <1>1, <1>2, <1>3, <1>4, <1>5

(* What is put up stays written. *)
LEMMA WrittenStep ==
  ASSUME IInv, Written, Next PROVE Written'
<1>0. TypeOK
  BY DEF IInv
<1>1. spec'.status # "none" => spec'.line # NoLine
  <2>1. ASSUME NEW q \in Requests, ApproveSpec(q) PROVE spec'.status # "none" => spec'.line # NoLine
    BY <1>0, <2>1 DEF ApproveSpec, Written, TypeOK, Artifact
  <2> QED  BY <2>1, SpecSteps DEF Written, NoArtifact
<1>2. ASSUME NEW k \in Procs, PutUp(k)' PROVE file' # NoLine
  <2>1. CASE \A p \in Procs : ~ Draft(p)
    BY <1>0, <1>2, <2>1, PutUpSteps DEF Written
  <2>2. ASSUME NEW p \in Procs, Draft(p) PROVE file' # NoLine
    <3>1. CASE file' = file /\ pc' = Set(pc, p, "failing")
      BY <1>0, <1>2, <3>1 DEF Written, PutUp, Set, TypeOK
    <3>2. CASE file' = spec'.line /\ spec'.status = "draft"
      BY <1>1, <3>2
    <3>3. CASE Goes(p, "failing") /\ UNCHANGED directory
      BY <3>1, <3>3 DEF Goes, directory
    <3>4. CASE ~ (Goes(p, "failing") /\ UNCHANGED directory)
      <4>1. /\ p \in current
            /\ pc' = Set(pc, p, IF seen[p].status = "approved" THEN "failing" ELSE "parking")
            /\ IF seen[p].status = "approved" THEN UNCHANGED file
               ELSE spec' = Drafted(p) /\ file' = spec'.line
        BY <2>2, <3>4 DEF Draft, SaveRefused
      <4>2. seen[p].status # "approved" => Drafted(p).status = "draft"
        BY DEF Drafted
      <4> QED  BY <3>1, <3>2, <4>1, <4>2
    <3> QED  BY <3>3, <3>4
  <2> QED  BY <2>1, <2>2
<1>3. ASSUME NEW q \in Requests, server'[q].state \notin {"drafted", "over"}
      PROVE  server'[q].shown = NoLine
  <2>1. CASE UNCHANGED server
    BY <1>3, <2>1 DEF Written
  <2>2. CASE Work!Next
    BY <1>0, <1>3, <2>2, WorkShowsNothing
  <2> QED  BY <1>0, <2>1, <2>2, QueueSteps
<1> QED  BY <1>1, <1>2, <1>3 DEF Written

(* The server, as the daemon's polls, its reports however late, its losses  *)
(* and its restarts leave it, goes through the steps of the work queue that *)
(* StoreOffersWork finds in the store: what this module assumes of the      *)
(* store is what that one keeps. (one_turn, push_drafted) *)
THEOREM DaemonUsesWorkQueue == Spec => ImplementsWorkQueue
<1>1. ASSUME Init PROVE Work!Init
  <2>1. server = [q \in Requests |-> [state |-> "none", note |-> FALSE, shown |-> NoLine]]
    BY <1>1 DEF Init
  <2>2. server \in [Requests -> [state : {"none", "claimed"}, note : {FALSE}, shown : {NoLine}]]
    BY <2>1
  <2> QED  BY <2>1, <2>2 DEF Work!Init, Work!Holders
<1>2. ASSUME Init PROVE Written
  BY <1>2 DEF Init, Written, PutUp, NoArtifact
<1>3. ASSUME IInv, Written, [Next]_vars PROVE Written'
  BY <1>3, WrittenStep DEF vars, Written, PutUp
<1>4. ASSUME IInv, Written, [Next]_vars PROVE [Work!Next]_server
  BY <1>4, QueueSteps DEF vars, IInv
<1> QED  BY <1>1, <1>2, <1>3, <1>4, Invariance, PTL DEF Spec, ImplementsWorkQueue, Work!Spec

=============================================================================
