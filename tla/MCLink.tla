------------------------------- MODULE MCLink -------------------------------
(* The link for TLC: one side connects. *)
EXTENDS Link
=============================================================================
