--------------------------- MODULE OrderedChannel ---------------------------
(***************************************************************************)
(* What the command channel promises: commands, numbered in the order they *)
(* were sent, come out in that order and at most once.  Commands may be    *)
(* missing, and several may come out in one step.                          *)
(***************************************************************************)
EXTENDS Naturals, Sequences

VARIABLES sent,       \* how many commands were sent
          delivered   \* the commands that came out, in order

Increasing(s) == \A i, j \in 1..Len(s) : i < j => s[i] < s[j]

Init == sent = 0 /\ delivered = <<>>

Send == sent' = sent + 1 /\ UNCHANGED delivered

Deliver ==
    /\ Len(delivered') > Len(delivered)
    /\ \A i \in 1..Len(delivered) : delivered'[i] = delivered[i]
    /\ \A i \in 1..Len(delivered') : delivered'[i] \in 1..sent
    /\ Increasing(delivered')
    /\ UNCHANGED sent

Next == Send \/ Deliver

Spec == Init /\ [][Next]_<<sent, delivered>>
=============================================================================
