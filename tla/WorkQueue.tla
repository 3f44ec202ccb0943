------------------------------ MODULE WorkQueue ------------------------------
(***************************************************************************)
(* What the intake server and a drafting daemon rely on in one another: of *)
(* the requests of one repository one at most is claimed, the oldest that  *)
(* waits is the next, and nothing but a claim is reported on; a draft is   *)
(* shown until it is sent back, the note of a send-back waits for the next *)
(* draft, through every claim that is handed back or times out, and what   *)
(* is closed is never offered again.                                       *)
(*                                                                         *)
(* When a claim may time out is RepoLease's matter.                        *)
(***************************************************************************)
EXTENDS Naturals

CONSTANTS
  Id,              \* requests, the oldest the smallest
  Drafts, NoDraft

VARIABLE work      \* of each request: its state, is there a note for the next
                   \* draft, and the draft that is shown

Holders == { i \in Id : work[i].state = "claimed" }

(* Nothing on offer, but for the claim an older build may have left.        *)
Init ==
  /\ work \in [Id -> [state : {"none", "claimed"}, note : {FALSE}, shown : {NoDraft}]]
  /\ \A i, k \in Holders : i = k

Becomes(i, state) == work' = [work EXCEPT ![i].state = state]

Offer(i) == work[i].state = "none" /\ Becomes(i, "queued")
Return(i) == work[i].state = "claimed" /\ Becomes(i, "queued")
Close(i) == work[i].state # "over" /\ Becomes(i, "over")

Submit(i, draft) ==
  /\ work[i].state = "claimed"
  /\ work' = [work EXCEPT ![i] = [state |-> "drafted", note |-> FALSE, shown |-> draft]]

SendBack(i) ==
  /\ work[i].state = "drafted"
  /\ work' = [work EXCEPT ![i] = [state |-> "queued", note |-> TRUE, shown |-> NoDraft]]

(* The oldest that waits is claimed, a claim that was there being returned. *)
Free == [i \in Id |-> IF i \in Holders THEN [work[i] EXCEPT !.state = "queued"] ELSE work[i]]

Claim(i) ==
  /\ Free[i].state = "queued" /\ \A k \in Id : Free[k].state = "queued" => i <= k
  /\ work' = [Free EXCEPT ![i].state = "claimed"]

Next ==
  \E i \in Id :
    \/ Offer(i) \/ Return(i) \/ Close(i) \/ SendBack(i) \/ Claim(i)
    \/ \E draft \in Drafts : Submit(i, draft)

Spec == Init /\ [][Next]_work
=============================================================================
