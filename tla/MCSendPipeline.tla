--------------------------- MODULE MCSendPipeline ---------------------------
(* The sending pipeline for TLC; the constants are set by Send.cfg and        *)
(* Send_moved.cfg.                                                            *)
EXTENDS SendPipeline
=============================================================================
