----------------------------- MODULE MCRefCount -----------------------------
(* Instances of RefCount for TLC. *)
EXTENDS RefCount, TLC

\* Threads are interchangeable: no property names one of them.
Symmetry == Permutations(Thread)
=============================================================================
