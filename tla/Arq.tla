--------------------------------- MODULE Arq ---------------------------------
(***************************************************************************)
(* One direction of the gap-driven retransmission of Tight: the sender of  *)
(* data packets (send_data_packet, Report::handle, handle_ack), the        *)
(* receiver's gap tracking (Reassembler::handle_data) and its periodic     *)
(* report (Report::build_payload), over a network that loses, duplicates   *)
(* and reorders datagrams.                                                 *)
(*                                                                         *)
(* Time is counted in report intervals: a gap's age is the number of       *)
(* reports built since it was noticed, and the two time limits of the      *)
(* report builder are in that unit.  One (kMaxRetries + 2 intervals) is    *)
(* fixed; the other (3.5 RTT) follows the peer's heartbeats, so every      *)
(* report may use another value, below or above the first.  Payloads are   *)
(* abstracted away: a data packet is its sequence number, whose channel is *)
(* recorded in chan.                                                       *)
(***************************************************************************)
EXTENDS Integers, FiniteSets

CONSTANTS
    Channels,        \* the logical channels in use
    Reliable,        \* those with channel_reliable set (same config at both ends)
    NoChannel,       \* "no channel recorded"
    PeerRetransmit,  \* m_peer_retransmit: the handshake advertised retransmission
    MaxRetries,      \* kMaxRetries
    LossThresholds,  \* what 3.5 RTT can be, in report intervals
    GiveUp,          \* (kMaxRetries + 2) report intervals, in report intervals
    LostCap,         \* how many lost sequence numbers one report carries (256)
    MissingCap,      \* hard limit of m_missing_seqs (4096)
    MaxSeq,          \* bound: data packets sent
    Traffic,         \* bound: the channels each data packet may be sent on
    MaxControl,      \* bound: ackable control packets sent
    MaxReports,      \* bound: reports in flight, one more is lost at once
    AgeCap,          \* bound: a gap's age is not counted beyond it
    MaxFaults        \* bound: datagrams lost or duplicated by the network

ASSUME ArqAssumption ==
    /\ Reliable \subseteq Channels
    /\ NoChannel \notin Channels
    /\ PeerRetransmit \in BOOLEAN
    /\ MaxSeq \in Nat \ {0} /\ Traffic \in [1..MaxSeq -> SUBSET Channels]
    /\ MaxRetries \in Nat /\ LossThresholds \subseteq Nat /\ GiveUp \in Nat
    /\ AgeCap \in Nat /\ \A x \in LossThresholds \cup {GiveUp} : x < AgeCap
    /\ LostCap \in Nat /\ MissingCap \in Nat /\ MaxReports \in Nat
    /\ MaxControl \in 0..MaxSeq /\ MaxFaults \in Nat

Seqs == 1..MaxSeq

VARIABLES
    \* sender's Peer
    seqOut,          \* m_sequence_out
    ctlOut,          \* m_control_seq_out
    pend,            \* m_pending: what the entry of each key holds
    retries,         \* m_pending[.].m_retries
    filling,         \* key whose m_bytes send_data_packet has yet to fill in, or 0
    chan,            \* the channel each data packet was sent on
    \* network
    dataNet,         \* data packets in flight
    ctlNet,          \* control packets whose Ack may still come back
    reportNet,       \* reports in flight
    faults,          \* datagrams lost or duplicated so far
    \* receiver's Peer
    nextExpected,    \* m_next_expected_seq; 0 until m_seq_initialized
    recvSeqs,        \* m_recv_seqs
    missing,         \* keys of m_missing_seqs
    age,             \* reports built since each missing number was noticed
    gapChannel,      \* m_missing_channel
    \* history, for the properties only
    base,            \* the first data number seen, 0 before it
    received,        \* data numbers that have arrived
    reported,        \* numbers some report has carried as lost
    omitted,         \* gaps a report acknowledges without carrying them as lost
    skipped,         \* gaps dropped as belonging to an unreliable channel
    abandoned,       \* gaps dropped by the give-up limit or the hard limit
    exhausted,       \* packets dropped after MaxRetries retransmissions
    pruned,          \* packets dropped because an ack covered or named them
    sends            \* transmissions of each data packet

senderVars   == <<seqOut, ctlOut, pend, retries, filling, chan>>
receiverVars == <<nextExpected, recvSeqs, missing, age, gapChannel>>
netVars      == <<dataNet, ctlNet, reportNet, faults>>
historyVars  == <<base, received, reported, omitted, skipped, abandoned, exhausted, pruned,
                  sends>>
vars         == <<senderVars, receiverVars, netVars, historyVars>>

Report == [ack : 0..MaxSeq, lost : SUBSET Seqs]

Init ==
    /\ seqOut = 1 /\ ctlOut = 1 /\ filling = 0
    /\ pend = [s \in Seqs |-> "none"]
    /\ retries = [s \in Seqs |-> 0]
    /\ chan = [s \in Seqs |-> NoChannel]
    /\ dataNet = {} /\ ctlNet = {} /\ reportNet = {} /\ faults = 0
    /\ nextExpected = 0 /\ recvSeqs = {} /\ missing = {}
    /\ age = [s \in Seqs |-> 0]
    /\ gapChannel = [s \in Seqs |-> NoChannel]
    /\ base = 0 /\ received = {} /\ reported = {} /\ omitted = {} /\ skipped = {}
    /\ abandoned = {} /\ exhausted = {} /\ pruned = {}
    /\ sends = [s \in Seqs |-> 0]

-----------------------------------------------------------------------------
(* The network: a datagram that is taken may leave a duplicate behind, and *)
(* any datagram may be lost.  Both are charged to faults.                  *)

Take(net, m, rest) ==
    \/ rest = net \ {m} /\ UNCHANGED faults
    \/ rest = net /\ faults < MaxFaults /\ faults' = faults + 1

Lose ==
    /\ faults < MaxFaults
    /\ faults' = faults + 1
    /\ \/ \E s \in dataNet : dataNet' = dataNet \ {s} /\ UNCHANGED <<ctlNet, reportNet>>
       \/ \E c \in ctlNet : ctlNet' = ctlNet \ {c} /\ UNCHANGED <<dataNet, reportNet>>
       \/ \E r \in reportNet : reportNet' = reportNet \ {r} /\ UNCHANGED <<dataNet, ctlNet>>
    /\ UNCHANGED <<senderVars, receiverVars, historyVars>>

-----------------------------------------------------------------------------
(* Sender *)

\* send_data_packet up to send_raw: number the packet, keep a retransmission
\* entry when the channel is reliable, hand the datagram to the wire.  The link
\* is up by then, so a Handshake or HandshakeAck has been numbered before.
SendData(ch) ==
    LET keep == ch \in Reliable /\ PeerRetransmit IN
    /\ seqOut <= MaxSeq
    /\ ctlOut > 1
    /\ ch \in Traffic[seqOut]
    /\ filling = 0
    /\ seqOut' = seqOut + 1
    /\ chan' = [chan EXCEPT ![seqOut] = ch]
    /\ pend' = IF keep THEN [pend EXCEPT ![seqOut] = "data"] ELSE pend
    /\ filling' = IF keep THEN seqOut ELSE 0
    /\ dataNet' = dataNet \cup {seqOut}
    /\ sends' = [sends EXCEPT ![seqOut] = 1]
    /\ UNCHANGED <<ctlOut, retries, ctlNet, reportNet, faults, receiverVars, base,
                   received, reported, omitted, skipped, abandoned, exhausted, pruned>>

\* The end of send_data_packet: it takes the lock again and fills m_bytes in
\* with operator[], which makes an empty entry when the key is gone by now.
FinishSend ==
    /\ filling # 0
    /\ filling' = 0
    /\ pend' = [pend EXCEPT ![filling] = IF @ = "none" THEN "blank" ELSE @]
    /\ UNCHANGED <<seqOut, ctlOut, retries, chan, netVars, receiverVars, historyVars>>

\* send_control of an ackable packet: its own counter, the same m_pending.
SendControl ==
    /\ ctlOut <= MaxControl
    /\ ctlOut' = ctlOut + 1
    /\ pend' = [pend EXCEPT ![ctlOut] = "control"]
    /\ ctlNet' = ctlNet \cup {ctlOut}
    /\ UNCHANGED <<seqOut, retries, filling, chan, dataNet, reportNet, faults,
                   receiverVars, historyVars>>

\* handle_ack: the Ack of control number c erases whatever m_pending holds at c.
HandleAck(c) ==
    /\ c \in ctlNet
    /\ Take(ctlNet, c, ctlNet')
    /\ pend' = [pend EXCEPT ![c] = "none"]
    /\ retries' = [retries EXCEPT ![c] = 0]
    /\ pruned' = IF pend[c] = "data" THEN pruned \cup {c} ELSE pruned
    /\ UNCHANGED <<seqOut, ctlOut, filling, chan, dataNet, reportNet, receiverVars, base,
                   received, reported, omitted, skipped, abandoned, exhausted, sends>>

\* Mutant: the ack taken as the next expected number.
Covered_OffByOne(r)  == {s \in Seqs : s <= r.ack + 1 /\ s \notin r.lost}

\* The sender's reading of report r.
Covered(r)   == {s \in Seqs : s <= r.ack /\ s \notin r.lost}
Resent(r)    == {s \in r.lost : pend[s] # "none" /\ retries[s] < MaxRetries}
Exhausted(r) == {s \in Seqs \ Covered(r) : pend[s] # "none" /\ retries[s] >= MaxRetries}

\* Report::handle: drop what the report acknowledges and what has used up its
\* retransmissions, retransmit what it calls lost.
HandleReport(r) ==
    LET gone    == Covered(r) \cup Exhausted(r)
        again   == Resent(r)
        dataOf(S) == {s \in S : pend[s] = "data"}
    IN
    /\ r \in reportNet
    /\ Take(reportNet, r, reportNet')
    /\ pend' = [s \in Seqs |-> IF s \in gone THEN "none" ELSE pend[s]]
    /\ retries' = [s \in Seqs |-> IF s \in gone THEN 0
                                  ELSE IF s \in again THEN retries[s] + 1 ELSE retries[s]]
    /\ dataNet' = dataNet \cup dataOf(again)
    /\ ctlNet' = ctlNet \cup {s \in again : pend[s] = "control"}
    /\ sends' = [s \in Seqs |-> IF s \in dataOf(again) THEN sends[s] + 1 ELSE sends[s]]
    /\ pruned' = pruned \cup dataOf(Covered(r))
    /\ exhausted' = exhausted \cup dataOf(Exhausted(r))
    /\ UNCHANGED <<seqOut, ctlOut, filling, chan, receiverVars, base, received, reported,
                   omitted, skipped, abandoned>>

-----------------------------------------------------------------------------
(* Receiver *)

\* Mutant: the cursor steps before it looks.
Advance_StepFirst(n, S) ==
    CHOOSE m \in (n + 1)..(MaxSeq + 2) : m - 1 \notin S /\ \A k \in n..(m - 2) : k \in S

\* The cursor's loop "while recv_seqs holds it, erase it and step": from n to
\* the first number outside S.
Advance(n, S) ==
    CHOOSE m \in n..(MaxSeq + 1) : m \notin S /\ \A k \in n..(m - 1) : k \in S

\* Forgetting the gaps in S.
DropGaps(S) ==
    /\ missing' = missing \ S
    /\ age' = [s \in Seqs |-> IF s \in S THEN 0 ELSE age[s]]
    /\ gapChannel' = [s \in Seqs |-> IF s \in S THEN NoChannel ELSE gapChannel[s]]

Arrive(s) ==
    /\ s \in dataNet
    /\ Take(dataNet, s, dataNet')
    /\ received' = received \cup {s}
    /\ UNCHANGED <<ctlNet, reportNet, senderVars, reported, omitted, skipped, abandoned,
                   exhausted, pruned, sends>>

\* The number is taken into recv_seqs and the cursor moves over what it can.
Absorb(s) ==
    LET held == recvSeqs \cup {s}
        next == Advance(nextExpected, held)
    IN  /\ nextExpected' = next
        /\ recvSeqs' = held \ (nextExpected..(next - 1))

\* First data packet: it sets the cursor; earlier numbers are never gaps.
ArriveFirst(s) ==
    /\ nextExpected = 0
    /\ Arrive(s)
    /\ nextExpected' = s + 1
    /\ base' = s
    /\ UNCHANGED <<recvSeqs, missing, age, gapChannel>>

\* Mutant: the gap at the cursor itself is left out.
Gaps_OffByOne(s) == ((nextExpected + 1)..(s - 1)) \ recvSeqs

\* The numbers that the arrival of s reveals as missing.
Gaps(s) == (nextExpected..(s - 1)) \ recvSeqs

\* At or beyond the cursor: every number jumped over becomes a gap, of the
\* channel of the packet that revealed it.
ArriveAhead(s) ==
    /\ nextExpected # 0 /\ s >= nextExpected
    /\ Arrive(s)
    /\ missing' = missing \cup Gaps(s)
    /\ gapChannel' = [g \in Seqs |-> IF g \in Gaps(s) THEN chan[s] ELSE gapChannel[g]]
    /\ Absorb(s)
    /\ UNCHANGED <<age, base>>

\* Behind the cursor (late, or a retransmission): no longer a gap.
ArriveBehind(s) ==
    /\ nextExpected # 0 /\ s < nextExpected
    /\ Arrive(s)
    /\ DropGaps({s})
    /\ Absorb(s)
    /\ UNCHANGED base

Smallest(S, n) == {x \in S : Cardinality({y \in S : y <= x}) <= n}
Largest(S, n)  == {x \in S : Cardinality({y \in S : y >= x}) <= n}

ReliableGap(g) == gapChannel[g] \in Reliable /\ PeerRetransmit
AgeNow(g)      == IF age[g] < AgeCap THEN age[g] + 1 ELSE age[g]
Unreliables    == {g \in missing : ~ReliableGap(g)}

Stale          == {g \in missing \ Unreliables : AgeNow(g) > GiveUp}
Young(th)      == {g \in missing \ (Unreliables \cup Stale) : AgeNow(g) <= th}
Lost(th)       == missing \ (Unreliables \cup Stale \cup Young(th))
Listed(th)     == Smallest(Lost(th), LostCap)
Kept           == Largest(missing \ (Unreliables \cup Stale), MissingCap)


\* What skip_gap moves the cursor over.
Passable(th) == recvSeqs \cup Unreliables \cup Lost(th)

\* Report::build_payload, with th for 3.5 RTT.  Its pass over the gaps in
\* ascending order moves the cursor over every gap it skips and every number
\* received behind one, that is, to the first number that is neither.  A gap
\* given up is erased without being skipped.
SendReport(th) ==
    LET next   == IF nextExpected = 0 THEN 0 ELSE Advance(nextExpected, Passable(th))
        report == [ack |-> IF next = 0 THEN 0 ELSE next - 1, lost |-> Listed(th)]
    IN
    /\ nextExpected' = next
    /\ recvSeqs' = recvSeqs \ (nextExpected..(next - 1))
    /\ missing' = Kept
    /\ age' = [g \in Seqs |-> IF g \in Kept THEN AgeNow(g) ELSE 0]
    /\ gapChannel' = [g \in Seqs |-> IF g \in Kept THEN gapChannel[g] ELSE NoChannel]
    /\ reportNet' = IF Cardinality(reportNet) < MaxReports THEN reportNet \cup {report}
                                                          ELSE reportNet
    /\ reported' = reported \cup Listed(th)
    /\ omitted' = omitted \cup (Lost(th) \ Listed(th)) \cup {g \in Young(th) : g < nextExpected}
    /\ skipped' = skipped \cup Unreliables
    /\ abandoned' = abandoned \cup (missing \ (Unreliables \cup Kept))
    /\ UNCHANGED <<senderVars, dataNet, ctlNet, faults, base, received, exhausted, pruned,
                   sends>>

-----------------------------------------------------------------------------
Next ==
    \/ \E ch \in Channels : SendData(ch)
    \/ FinishSend
    \/ SendControl
    \/ \E c \in ctlNet : HandleAck(c)
    \/ \E r \in reportNet : HandleReport(r)
    \/ \E s \in dataNet : ArriveFirst(s) \/ ArriveAhead(s) \/ ArriveBehind(s)
    \/ \E th \in LossThresholds : SendReport(th)
    \/ Lose

Spec == Init /\ [][Next]_vars

(* What the code's loops give: the reactor builds reports forever, and the    *)
(* receiver takes in what the network has not lost.                           *)
Fairness ==
    /\ WF_vars(\E th \in LossThresholds : SendReport(th))
    /\ WF_vars(\E s \in dataNet : ArriveFirst(s) \/ ArriveAhead(s) \/ ArriveBehind(s))

FairSpec == Spec /\ Fairness

-----------------------------------------------------------------------------
(* Properties *)

\* Every variable keeps its type: the cursor, the gaps and the retry counts stay
\* within the numbers send_data_packet assigns and kMaxRetries.
TypeOK ==
    /\ seqOut \in 1..(MaxSeq + 1) /\ ctlOut \in 1..(MaxSeq + 1) /\ filling \in 0..MaxSeq
    /\ pend \in [Seqs -> {"none", "data", "control", "blank"}]
    /\ retries \in [Seqs -> 0..MaxRetries]
    /\ chan \in [Seqs -> Channels \cup {NoChannel}]
    /\ dataNet \subseteq Seqs /\ ctlNet \subseteq Seqs /\ reportNet \subseteq Report
    /\ faults \in 0..MaxFaults
    /\ nextExpected \in 0..(MaxSeq + 1) /\ recvSeqs \subseteq Seqs /\ missing \subseteq Seqs
    /\ age \in [Seqs -> 0..AgeCap]
    /\ gapChannel \in [Seqs -> Channels \cup {NoChannel}]
    /\ base \in 0..MaxSeq /\ received \subseteq Seqs /\ reported \subseteq Seqs
    /\ omitted \subseteq Seqs /\ skipped \subseteq Seqs /\ abandoned \subseteq Seqs /\ exhausted \subseteq Seqs
    /\ pruned \subseteq Seqs /\ sends \in [Seqs -> Nat]

(* A gap that is settled: the packet came, or the receiver stopped waiting. *)
Settled(s) == s \in received \cup skipped \cup abandoned

(* The ack cursor (m_next_expected_seq) never passes a number silently: from *)
(* the first number seen on, everything below it arrived, was carried as lost *)
(* by a report, was dropped as a gap of an unreliable channel, or fell off a   *)
(* lost list that was full.  Steps of arrivals in any order and of the report *)
(* builder move the cursor.                                                   *)
CursorAccounted ==
    base # 0 => \A s \in base..(nextExpected - 1) :
                    s \in received \cup reported \cup skipped \cup omitted

(* No gap is forgotten: a number between the cursor and a number already      *)
(* received is itself received, tracked in m_missing_seqs, or was given up.   *)
GapsTracked ==
    base # 0 => \A r \in received : \A s \in nextExpected..r :
                    s \in recvSeqs \cup missing \cup skipped \cup abandoned

(* Any report in flight, however old, covers with its ack only settled        *)
(* packets: what it acknowledges and does not list as lost has arrived or has *)
(* been given up.  This is what lets Report::handle prune on ack alone.  Two  *)
(* things break it in the code, and the omitted numbers are exactly theirs:   *)
(* the list is cut at 256 after the cursor has passed what it held, and a     *)
(* passed gap leaves the list again when the RTT, and with it the threshold,  *)
(* has risen since.                                                           *)
ReportTruthful ==
    \A r \in reportNet : \A s \in base..r.ack :
        (base # 0 /\ s \notin r.lost) => Settled(s) \/ s \in omitted

(* The receiver's bookkeeping as a whole (Reassembler::handle and the report   *)
(* builder): nothing is passed silently, no gap is forgotten, no report lies   *)
(* but about an omitted number.                                                *)
CursorSafe == CursorAccounted /\ GapsTracked /\ ReportTruthful

(* The sender's retransmission buffer is only emptied of packets that are      *)
(* settled (or older than the receiver's first packet, or omitted), but for   *)
(* the numbers that an ackable control packet has had as well: its entry and  *)
(* its Ack share m_pending with the data packet of the same number.           *)
PrunedOnlyWhenSettled ==
    \A s \in pruned : s < ctlOut \/ s < base \/ Settled(s) \/ s \in omitted

(* Likewise, a gap the receiver still asks for can still be served: the entry *)
(* is in m_pending, or used up its retransmissions.                           *)
NackFindsPending ==
    \A s \in missing \ (received \cup skipped \cup abandoned \cup omitted) :
        s >= ctlOut /\ chan[s] \in Reliable /\ PeerRetransmit
            => pend[s] = "data" \/ s \in exhausted

(* The sender's buffer as a whole (Report::handle, handle_ack): what may still *)
(* be asked for is held, and only what is settled is let go.                   *)
RetransmissionSafe == PrunedOnlyWhenSettled /\ NackFindsPending

(* kMaxRetries bounds the transmissions of a packet, whatever reports are     *)
(* lost, repeated or reordered.                                               *)
BoundedTransmissions == \A s \in Seqs : sends[s] <= 1 + MaxRetries

\* The received numbers the cursor has yet to reach, but for those behind a gap
\* that was abandoned before it was skipped.
Waiting == {s \in received : nextExpected <= s /\ (nextExpected..s) \cap abandoned = {}}


-----------------------------------------------------------------------------
(* The inductive invariant behind the properties above. *)

\* Nothing is recorded before the first packet, and the cursor is past it after.
Started ==
    /\ base = 0 => /\ nextExpected = 0 /\ received = {} /\ recvSeqs = {} /\ missing = {}
                   /\ \A r \in reportNet : r.ack = 0
    /\ base # 0 => base < nextExpected

\* recv_seqs holds exactly what arrived at or beyond the cursor (and possibly
\* older numbers that came twice), and never the cursor itself.
Held ==
    /\ recvSeqs \subseteq received
    /\ \A r \in received : r >= nextExpected => r \in recvSeqs
    /\ nextExpected \notin recvSeqs

\* A number the cursor has passed is settled, or is a gap still in the table,
\* which every report lists or omits.
PassedGapsKept ==
    base # 0 => \A s \in base..(nextExpected - 1) : Settled(s) \/ s \in missing

(* The receiver's whole bookkeeping, as an inductive invariant: arrivals in   *)
(* any order and reports at any time keep the cursor, recv_seqs, the gap      *)
(* table and the reports in flight consistent with what really arrived.       *)
CursorInv ==
    /\ Started /\ Held /\ PassedGapsKept
    /\ CursorAccounted /\ GapsTracked /\ ReportTruthful

\* A live entry has been transmitted once more than it has been retried.
BudgetInv ==
    /\ BoundedTransmissions
    /\ \A s \in Seqs : pend[s] = "data" => sends[s] <= 1 + retries[s]

\* Beyond the numbers control packets have used: every reliable packet is still
\* held, or left the buffer as settled or exhausted.
BufferInv ==
    /\ \A c \in ctlNet : c < ctlOut
    /\ \A s \in Seqs : pend[s] = "control" => s < ctlOut
    /\ PrunedOnlyWhenSettled
    /\ \A s \in missing : base # 0 /\ s >= base
    /\ \A s \in Seqs : s >= ctlOut /\ chan[s] \in Reliable /\ PeerRetransmit
                            => pend[s] = "data" \/ s \in pruned \cup exhausted
=============================================================================
