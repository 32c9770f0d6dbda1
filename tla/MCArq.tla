------------------------------- MODULE MCArq --------------------------------
(* Retransmission for TLC. *)
EXTENDS Arq

\* Four packets, so that two gaps can be lost at once.  The third may be of an
\* unreliable channel: it then reveals the second as a gap to be skipped, and
\* is itself a gap the sender has no entry for.
FourPackets == [s \in 1..4 |-> IF s = 3 THEN Channels ELSE Reliable]
=============================================================================
