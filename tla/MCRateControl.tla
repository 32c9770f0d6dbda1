--------------------------- MODULE MCRateControl ----------------------------
(* The rate control for TLC; the constants are set by Rate.cfg. *)
EXTENDS RateControl
=============================================================================
