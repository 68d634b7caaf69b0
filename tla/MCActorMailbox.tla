--------------------------- MODULE MCActorMailbox ---------------------------
(* Instances of ActorMailbox for TLC. *)
EXTENDS ActorMailbox, TLC
=============================================================================
