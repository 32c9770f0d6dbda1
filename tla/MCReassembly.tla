---------------------------- MODULE MCReassembly ----------------------------
(* The reassembler for TLC; the constants are set by Reassembly.cfg. *)
EXTENDS Reassembly
=============================================================================
