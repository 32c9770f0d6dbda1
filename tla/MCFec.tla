------------------------------- MODULE MCFec -------------------------------
(***************************************************************************)
(* Forward error correction for TLC: messages of one to four fragments of  *)
(* which any may be lost, and one of 24, of which the seventh and the last *)
(* have the same coefficient in every third parity fragment.               *)
(***************************************************************************)
EXTENDS Fec

SmallPayloads == {<<7>>, <<200, 0>>, <<1, 142, 255>>, <<9, 0, 255, 77>>}
LongPayload   == [i \in 1..24 |-> (11 * i) % 256]
SomePayloads  == SmallPayloads \cup {LongPayload}

SomeLosses == [n \in 1..4 |-> SUBSET (1..n)] @@ (24 :> {{7}, {7, 8}, {7, 24}})

\* Two data fragments lost use two parity fragments.
FewArrived == [n \in 1..4 |-> n] @@ (24 :> 2)
=============================================================================
