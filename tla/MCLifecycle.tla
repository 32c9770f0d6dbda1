---------------------------- MODULE MCLifecycle ----------------------------
(* The threads of a transport for TLC; the constants are set by the cfg. *)
EXTENDS Lifecycle
=============================================================================
