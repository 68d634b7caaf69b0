---------------------------- MODULE MCSpawnPool ----------------------------
(* Instances of SpawnPool for TLC. *)
EXTENDS SpawnPool

CONSTANTS r1, r2, r3, a1, a2, b1, b2

\* Two chains of nested spawns, as many as there are workers, and a third root
\* whose child is not awaited.
ForkJoinKids ==
  [t \in Task |-> CASE t = r1 -> {a1} [] t = a1 -> {b1}
                    [] t = r2 -> {a2} [] t = r3 -> {b2} [] OTHER -> {}]
ForkJoinAwaits == [t \in Task |-> IF t = r3 THEN {} ELSE ForkJoinKids[t]]

\* A child that is not awaited and that spawns in turn.
DetachedKids == [t \in Task |-> CASE t = r1 -> {a1} [] t = a1 -> {b1} [] OTHER -> {}]
DetachedAwaits == [t \in Task |-> {}]
=============================================================================
