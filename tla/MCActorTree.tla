---------------------------- MODULE MCActorTree ----------------------------
(* Instances of ActorTree for TLC. *)
EXTENDS ActorTree, TLC

\* Ids and plain threads are interchangeable: no property names one of them.
Symmetry == Permutations(Actor) \cup Permutations(Outside)
=============================================================================
