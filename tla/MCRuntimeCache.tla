--------------------------- MODULE MCRuntimeCache ---------------------------
(* Small instances of RuntimeCache for TLC. *)
EXTENDS RuntimeCache

=============================================================================
