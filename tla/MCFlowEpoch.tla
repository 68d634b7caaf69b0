---------------------------- MODULE MCFlowEpoch ----------------------------
(* Instances of FlowEpoch for TLC. *)
EXTENDS FlowEpoch, TLC
=============================================================================
