------------------------------- MODULE MCSwarm -------------------------------
(* The swarm on small boards. *)
EXTENDS Swarm, TLC

CONSTANTS t1, t2

Tests == {t1, t2}

(* The third subtask is matched by no test. *)
Owned == (1 :> {t1}) @@ (2 :> {t2}) @@ (3 :> {}) @@ (4 :> {})

Task(id, deps) == [id |-> id, deps |-> deps]
Row(a, b, c) == (1 :> a) @@ (2 :> b) @@ (3 :> c)

Independent == Row(Task(3, {}), Task(2, {}), Task(1, {}))
Chain       == Row(Task(2, {1}), Task(1, {}), Task(3, {2}))
FanIn       == Row(Task(1, {}), Task(2, {}), Task(3, {1, 2}))
FanOut      == Row(Task(1, {}), Task(2, {1}), Task(3, {1}))
Cyclic      == Row(Task(1, {2}), Task(2, {1}), Task(3, {}))
Dangling    == Row(Task(1, {}), Task(2, {4}), Task(3, {2}))

TellingBoards == {Independent, Chain, FanIn, FanOut, Cyclic, Dangling}

(* A model answered with one id for two subtasks. *)
DuplicateBoards == {Row(Task(1, {}), Task(1, {}), Task(2, {}))}

Setting(verify, frozen, workers, retries, review) ==
  [ verify |-> verify, frozen |-> frozen, workers |-> workers, retries |-> retries,
    review |-> review, restores |-> TRUE ]

(* A workspace with files a rejected change cannot be taken back from.      *)
Lossy(setting) == [setting EXCEPT !.restores = FALSE]

(* No gate, a gate without retries, free-text and staged runs with every    *)
(* kind of review, two of them in a workspace that is not all text.         *)
AllConfigs ==
  { Setting(FALSE, {}, 2, 1, "retry"), Setting(TRUE, {}, 2, 0, "gate"),
    Setting(TRUE, Tests, 1, 0, "retry"), Setting(TRUE, {t1}, 0, 1, "report"),
    Lossy(Setting(TRUE, Tests, 2, 1, "retry")), Lossy(Setting(TRUE, {}, 2, 1, "gate")) }
  \cup { Setting(TRUE, frozen, 2, 2, review) :
            frozen \in {{}, Tests}, review \in {"off", "gate", "retry"} }

OneConfig == { Setting(TRUE, Tests, 2, 1, "retry") }
PlainConfig == { Setting(TRUE, Tests, 2, 1, "off") }

(* Behaviours in which the suite always builds. *)
Builds == suite # Broken
===============================================================================
