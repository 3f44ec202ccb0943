------------------------------ MODULE MCDaemon ------------------------------
(* The daemon with two requests that name one directory. *)
EXTENDS Daemon, TLC

(* The two texts have one first line, or that of the second continues that  *)
(* of the first, or they have nothing to do with one another.               *)
CONSTANTS l, k, m
Continues == {l, k} \X {l, k} \cup {<<m, m>>}
OneOrTwo == {(1 :> l @@ 2 :> l), (1 :> l @@ 2 :> k), (1 :> l @@ 2 :> m)}

(* Bound: a fault and a send-back in one behaviour only where the requests  *)
(* have one first line; of unrelated lines, the one or the other; neither   *)
(* where the one line continues the other, which the code treats as one     *)
(* line but for whom it records.                                            *)
FewerOfTwoLines ==
  line[1] # line[2] =>
    faults + backs <= (IF <<line[1], line[2]>> \in Alike THEN 0 ELSE 1)
=============================================================================
