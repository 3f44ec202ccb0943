------------------------------ MODULE RepoLease ------------------------------
(***************************************************************************)
(* What the claims of the intake store promise a repository, without any   *)
(* request: a lease that at most one daemon holds, that its holder (or the *)
(* person dropping the work) may end at any time, and that somebody else   *)
(* may take only when it is free or has outlived its timeout.  A lease     *)
(* whose start is unknown expires only after it has been stamped.          *)
(***************************************************************************)
EXTENDS Integers

CONSTANTS Repo, Label, NoOne, ClaimTimeout, MaxClock, ClockSteps

NoStamp == -1
Clock == 0 .. MaxClock

VARIABLES
  holder,     \* the lease of each repository
  now

vars == <<holder, now>>

NoLease == [by |-> NoOne, since |-> NoStamp, free |-> TRUE]

LeaseRecord == [ by : Label \cup {NoOne}, since : Clock \cup {NoStamp}, free : BOOLEAN ]

Unknown == [by |-> NoOne, since |-> NoStamp, free |-> FALSE]

Init ==
  /\ holder \in [Repo -> {NoLease, Unknown}]
  /\ now = 0

(* A lease looked at now: started if it never was, ended if it expired.     *)
Aged(lease) ==
  IF lease.free THEN lease
  ELSE IF lease.since = NoStamp THEN [lease EXCEPT !.since = now]
  ELSE IF now - lease.since < ClaimTimeout THEN lease
  ELSE NoLease

(* A look at some of the leases grants nothing. *)
Age(some) ==
  /\ holder' = [ p \in Repo |-> IF p \in some THEN Aged(holder[p]) ELSE holder[p] ]
  /\ UNCHANGED now

(* A look at all of them grants one that is then free. *)
Grant(repo, by) ==
  /\ Aged(holder[repo]).free
  /\ holder' = [ p \in Repo |->
                   IF p = repo THEN [by |-> by, since |-> now, free |-> FALSE]
                   ELSE Aged(holder[p]) ]
  /\ UNCHANGED now

(* Drafted, failed, handed back or discarded. *)
Drop(repo) ==
  /\ ~ holder[repo].free
  /\ holder' = [holder EXCEPT ![repo] = NoLease]
  /\ UNCHANGED now

Tick(d) ==
  /\ now + d \in Clock
  /\ now' = now + d
  /\ UNCHANGED holder

Next ==
  \/ \E some \in SUBSET Repo : Age(some)
  \/ \E p \in Repo : Drop(p) \/ \E by \in Label : Grant(p, by)
  \/ \E d \in ClockSteps : Tick(d)

Spec == Init /\ [][Next]_vars
=============================================================================
