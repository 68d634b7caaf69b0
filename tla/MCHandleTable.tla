--------------------------- MODULE MCHandleTable ---------------------------
(* The instance of HandleTable for TLC. *)
EXTENDS HandleTable
=============================================================================
