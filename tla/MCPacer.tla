------------------------------ MODULE MCPacer -------------------------------
(* The paced sender for TLC. *)
EXTENDS Pacer
=============================================================================
