-------------------------- MODULE MCSerializerWalk --------------------------
(* Instances of SerializerWalk for TLC. *)
EXTENDS SerializerWalk

\* Two containers that contain each other, and one of them also the third.
CyclicGraph == [i \in Index |-> IF i = 1 THEN {2} ELSE IF i = 2 THEN {1, 3} ELSE {}]
=============================================================================
