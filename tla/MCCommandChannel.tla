-------------------------- MODULE MCCommandChannel --------------------------
(* The command channel for TLC. *)
EXTENDS CommandChannel
=============================================================================
