---------------------------- MODULE MCIntakeStore ----------------------------
(* The intake store on small instances. *)
EXTENDS IntakeStore, TLC

Forward == {1}             \* a clock that is never set back
Jumping == {1, -1}         \* one that is

(* Repositories, labels and texts are interchangeable: no definition of the *)
(* store orders them.  (Not used where liveness is checked.)                *)
Interchangeable ==
  Permutations(Repo) \cup Permutations(Label) \cup Permutations(SpecText)
==============================================================================
