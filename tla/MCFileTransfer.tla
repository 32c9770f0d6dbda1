--------------------------- MODULE MCFileTransfer ---------------------------
(* File transfer for TLC: a file of two chunks and one of too many. *)
EXTENDS FileTransfer, TLC

CONSTANTS small, large

Counts == (small :> 2) @@ (large :> 3)
=============================================================================
