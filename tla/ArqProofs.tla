------------------------------ MODULE ArqProofs ------------------------------
(***************************************************************************)
(* Theorems about Arq, for every choice of channels, limits and bounds.    *)
(***************************************************************************)
EXTENDS Arq, FiniteSetTheorems, WellFoundedInduction, TLAPS

\* Membership in the numbers a cursor move from n to m passes.
LEMMA Passed ==
    /\ \A n, m, k \in Nat : k \in n..(m - 1) <=> n <= k /\ k < m
    /\ \A n, m \in Nat : \A k \in n..(m - 1) : k \in Nat /\ n <= k /\ k < m
OBVIOUS

\* The cursor loop of handle_data and of skip_gap stops, at the first number
\* outside the set it walks over.
LEMMA AdvanceStops ==
    ASSUME NEW n \in 1..(MaxSeq + 1), NEW S, MaxSeq + 1 \notin S
    PROVE  /\ Advance(n, S) \in n..(MaxSeq + 1)
           /\ Advance(n, S) \notin S
           /\ \A k \in n..(Advance(n, S) - 1) : k \in S
<1>. DEFINE T == {m \in n..(MaxSeq + 1) : m \notin S}
            P(m) == m \notin S /\ \A k \in n..(m - 1) : k \in S
<1>0. MaxSeq \in Nat
    BY ArqAssumption
<1>1. T \subseteq Nat /\ T # {}
    BY <1>0
<1>2. PICK x \in T : \A y \in T : ~(<<y, x>> \in OpToRel(<, Nat))
    BY <1>1, NatLessThanWellFounded, WFMin
<1>3. \A y \in T : ~(y < x)
    BY <1>1, <1>2 DEF OpToRel
<1>4. x \in n..(MaxSeq + 1) /\ P(x)
    BY <1>0, <1>3
<1>5. \E m \in n..(MaxSeq + 1) : P(m)
    BY <1>4
<1>. HIDE DEF P
<1>6. (CHOOSE m \in n..(MaxSeq + 1) : P(m)) \in n..(MaxSeq + 1)
      /\ P(CHOOSE m \in n..(MaxSeq + 1) : P(m))
    BY <1>5
<1>7. Advance(n, S) = CHOOSE m \in n..(MaxSeq + 1) : P(m)
    BY DEF Advance, P
<1>. QED
    BY <1>6, <1>7 DEF P

-----------------------------------------------------------------------------
\* The receiver's two ways of moving the cursor stay within its type.
LEMMA AbsorbType ==
    ASSUME TypeOK, NEW s \in Seqs, nextExpected # 0, Absorb(s)
    PROVE  /\ nextExpected' \in nextExpected..(MaxSeq + 1)
           /\ recvSeqs' \subseteq Seqs
           /\ \A k \in nextExpected..(nextExpected' - 1) : k \in recvSeqs \cup {s}
           /\ nextExpected' \notin recvSeqs \cup {s}
           /\ recvSeqs' = (recvSeqs \cup {s}) \ (nextExpected..(nextExpected' - 1))
<1>1. /\ nextExpected \in 1..(MaxSeq + 1) /\ recvSeqs \cup {s} \subseteq Seqs
      /\ MaxSeq + 1 \notin recvSeqs \cup {s}
    BY ArqAssumption DEF TypeOK, Seqs
<1>. QED
    BY <1>1, AdvanceStops DEF Absorb

LEMMA ReportCursor ==
    ASSUME TypeOK, NEW th \in LossThresholds, SendReport(th)
    PROVE  /\ Unreliables \subseteq missing /\ Lost(th) \subseteq missing
           /\ Kept \subseteq missing /\ Listed(th) \subseteq Lost(th) /\ missing \subseteq Seqs
           /\ nextExpected = 0 => nextExpected' = 0
           /\ nextExpected # 0 =>
                /\ nextExpected' \in nextExpected..(MaxSeq + 1)
                /\ \A k \in nextExpected..(nextExpected' - 1) :
                        k \in recvSeqs \cup Unreliables \cup Lost(th)
                /\ nextExpected' \notin recvSeqs \cup Unreliables \cup Lost(th)
<1>1. /\ Unreliables \subseteq missing /\ Lost(th) \subseteq missing
      /\ Kept \subseteq missing /\ Listed(th) \subseteq Lost(th) /\ missing \subseteq Seqs
    BY DEF Unreliables, Lost, Kept, Listed, Smallest, Largest, TypeOK
<1>2. MaxSeq + 1 \notin recvSeqs \cup Unreliables \cup Lost(th)
    BY <1>1, ArqAssumption DEF TypeOK, Seqs
<1>3. nextExpected # 0 => nextExpected \in 1..(MaxSeq + 1)
    BY ArqAssumption DEF TypeOK
<1>4. nextExpected' = IF nextExpected = 0 THEN 0
                      ELSE Advance(nextExpected, recvSeqs \cup Unreliables \cup Lost(th))
    BY DEF SendReport, Passable
<1>. QED
    BY <1>1, <1>2, <1>3, <1>4, AdvanceStops

LEMMA AgeType == ASSUME TypeOK, NEW g \in Seqs PROVE AgeNow(g) \in 0..AgeCap
<1>. QED
    BY ArqAssumption DEF AgeNow, TypeOK

LEMMA TakeType ==
    ASSUME TypeOK, NEW net, NEW m, NEW rest, Take(net, m, rest)
    PROVE  rest \subseteq net /\ faults' \in 0..MaxFaults
<1>. QED
    BY ArqAssumption DEF Take, TypeOK

LEMMA TypeStep == ASSUME TypeOK, [Next]_vars PROVE TypeOK'
<1>. USE ArqAssumption
<1>1. ASSUME NEW ch \in Channels, SendData(ch) PROVE TypeOK'
    <2>1. seqOut \in Seqs /\ seqOut' \in 1..(MaxSeq + 1) /\ filling' \in 0..MaxSeq
        BY <1>1 DEF SendData, TypeOK, Seqs
    <2>2. pend' \in [Seqs -> {"none", "data", "control", "blank"}]
        BY <1>1, <2>1 DEF SendData, TypeOK
    <2>3. chan' \in [Seqs -> Channels \cup {NoChannel}] /\ sends' \in [Seqs -> Nat]
        BY <1>1, <2>1 DEF SendData, TypeOK
    <2>4. dataNet' \subseteq Seqs
        BY <1>1, <2>1 DEF SendData, TypeOK
    <2>. QED
        BY <1>1, <2>1, <2>2, <2>3, <2>4 DEF SendData, TypeOK, receiverVars
<1>2. CASE FinishSend
    <2>1. filling \in Seqs /\ filling' \in 0..MaxSeq
        BY <1>2 DEF FinishSend, TypeOK, Seqs
    <2>2. pend' \in [Seqs -> {"none", "data", "control", "blank"}]
        BY <1>2, <2>1 DEF FinishSend, TypeOK
    <2>. QED
        BY <1>2, <2>1, <2>2 DEF FinishSend, TypeOK, receiverVars, netVars, historyVars
<1>3. CASE SendControl
    <2>1. ctlOut \in Seqs /\ ctlOut' \in 1..(MaxSeq + 1)
        BY <1>3 DEF SendControl, TypeOK, Seqs
    <2>2. pend' \in [Seqs -> {"none", "data", "control", "blank"}] /\ ctlNet' \subseteq Seqs
        BY <1>3, <2>1 DEF SendControl, TypeOK
    <2>. QED
        BY <1>3, <2>1, <2>2 DEF SendControl, TypeOK, receiverVars, historyVars
<1>4. ASSUME NEW c \in ctlNet, HandleAck(c) PROVE TypeOK'
    <2>1. ctlNet' \subseteq ctlNet /\ faults' \in 0..MaxFaults
        BY <1>4, TakeType DEF HandleAck
    <2>2. pend' \in [Seqs -> {"none", "data", "control", "blank"}]
          /\ retries' \in [Seqs -> 0..MaxRetries]
        BY <1>4 DEF HandleAck, TypeOK
    <2>3. pruned' \subseteq Seqs
        BY <1>4 DEF HandleAck, TypeOK
    <2>. QED
        BY <1>4, <2>1, <2>2, <2>3 DEF HandleAck, TypeOK, receiverVars
<1>5. ASSUME NEW r \in reportNet, HandleReport(r) PROVE TypeOK'
    <2>1. reportNet' \subseteq reportNet /\ faults' \in 0..MaxFaults
        BY <1>5, TakeType DEF HandleReport
    <2>2. r.lost \subseteq Seqs
        BY DEF TypeOK, Report
    <2>3. retries' \in [Seqs -> 0..MaxRetries]
        BY <1>5, <2>2 DEF HandleReport, TypeOK, Resent
    <2>4. dataNet' \subseteq Seqs /\ ctlNet' \subseteq Seqs
        BY <1>5, <2>2 DEF HandleReport, TypeOK, Resent
    <2>5. pend' \in [Seqs -> {"none", "data", "control", "blank"}]
          /\ sends' \in [Seqs -> Nat]
        BY <1>5 DEF HandleReport, TypeOK
    <2>6. pruned' \subseteq Seqs /\ exhausted' \subseteq Seqs
        BY <1>5 DEF HandleReport, TypeOK, Covered, Exhausted
    <2>. QED
        BY <1>5, <2>1, <2>3, <2>4, <2>5, <2>6 DEF HandleReport, TypeOK, receiverVars
<1>6. ASSUME NEW s \in dataNet, ArriveFirst(s) PROVE TypeOK'
    <2>1. dataNet' \subseteq dataNet /\ faults' \in 0..MaxFaults
        BY <1>6, TakeType DEF ArriveFirst, Arrive
    <2>2. nextExpected' \in 0..(MaxSeq + 1) /\ base' \in 0..MaxSeq /\ received' \subseteq Seqs
        BY <1>6 DEF ArriveFirst, Arrive, TypeOK, Seqs
    <2>. QED
        BY <1>6, <2>1, <2>2 DEF ArriveFirst, Arrive, TypeOK, senderVars
<1>7. ASSUME NEW s \in dataNet, ArriveAhead(s) PROVE TypeOK'
    <2>1. dataNet' \subseteq dataNet /\ faults' \in 0..MaxFaults
        BY <1>7, TakeType DEF ArriveAhead, Arrive
    <2>2. nextExpected' \in 0..(MaxSeq + 1) /\ recvSeqs' \subseteq Seqs
        BY <1>7, AbsorbType DEF ArriveAhead, TypeOK
    <2>3. missing' \subseteq Seqs /\ gapChannel' \in [Seqs -> Channels \cup {NoChannel}]
        BY <1>7 DEF ArriveAhead, Gaps, TypeOK, Seqs
    <2>. QED
        BY <1>7, <2>1, <2>2, <2>3 DEF ArriveAhead, Arrive, TypeOK, senderVars
<1>8. ASSUME NEW s \in dataNet, ArriveBehind(s) PROVE TypeOK'
    <2>1. dataNet' \subseteq dataNet /\ faults' \in 0..MaxFaults
        BY <1>8, TakeType DEF ArriveBehind, Arrive
    <2>2. nextExpected' \in 0..(MaxSeq + 1) /\ recvSeqs' \subseteq Seqs
        BY <1>8, AbsorbType DEF ArriveBehind, TypeOK
    <2>3. /\ missing' \subseteq Seqs /\ gapChannel' \in [Seqs -> Channels \cup {NoChannel}]
          /\ age' \in [Seqs -> 0..AgeCap]
        BY <1>8 DEF ArriveBehind, DropGaps, TypeOK
    <2>. QED
        BY <1>8, <2>1, <2>2, <2>3 DEF ArriveBehind, Arrive, TypeOK, senderVars
<1>9. ASSUME NEW th \in LossThresholds, SendReport(th) PROVE TypeOK'
    <2>1. nextExpected' \in 0..(MaxSeq + 1)
        <3>1. nextExpected \in Nat /\ MaxSeq \in Nat
            BY DEF TypeOK
        <3>2. nextExpected' = 0 \/ nextExpected' \in nextExpected..(MaxSeq + 1)
            BY <1>9, ReportCursor
        <3>. QED
            BY <3>1, <3>2
    <2>2. missing' \subseteq Seqs /\ reported' \subseteq Seqs /\ skipped' \subseteq Seqs
          /\ abandoned' \subseteq Seqs /\ recvSeqs' \subseteq Seqs
        BY <1>9, ReportCursor DEF SendReport, TypeOK
    <2>2a. omitted' \subseteq Seqs
        <3>1. Lost(th) \subseteq Seqs /\ Young(th) \subseteq Seqs
            BY <1>9, ReportCursor DEF Young
        <3>. QED
            BY <1>9, <3>1 DEF SendReport, TypeOK
    <2>3. age' \in [Seqs -> 0..AgeCap]
        BY <1>9, AgeType DEF SendReport
    <2>4. gapChannel' \in [Seqs -> Channels \cup {NoChannel}]
        BY <1>9 DEF SendReport, TypeOK
    <2>5. reportNet' \subseteq Report
        <3>1. Listed(th) \in SUBSET Seqs
            BY <1>9, ReportCursor
        <3>2. (IF nextExpected' = 0 THEN 0 ELSE nextExpected' - 1) \in 0..MaxSeq
            <4>1. \A n \in 0..(MaxSeq + 1) : (IF n = 0 THEN 0 ELSE n - 1) \in 0..MaxSeq
                OBVIOUS
            <4>. QED
                BY <2>1, <4>1
        <3>3. reportNet' \subseteq reportNet \cup {[ack |-> IF nextExpected' = 0 THEN 0 ELSE nextExpected' - 1, lost |-> Listed(th)]}
            BY <1>9 DEF SendReport
        <3>4. [ack |-> IF nextExpected' = 0 THEN 0 ELSE nextExpected' - 1, lost |-> Listed(th)] \in Report
            BY <3>1, <3>2 DEF Report
        <3>. QED
            BY <3>3, <3>4 DEF TypeOK
    <2>. QED
        BY <1>9, <2>1, <2>2, <2>2a, <2>3, <2>4, <2>5 DEF SendReport, TypeOK, senderVars
<1>10. CASE Lose
    BY <1>10 DEF Lose, TypeOK, senderVars, receiverVars, historyVars
<1>11. CASE UNCHANGED vars
    BY <1>11 DEF vars, TypeOK, senderVars, receiverVars, historyVars, netVars
<1>. QED
    BY <1>1, <1>2, <1>3, <1>4, <1>5, <1>6, <1>7, <1>8, <1>9, <1>10, <1>11 DEF Next

\* Every variable keeps its type: in particular the cursor, the retry counters
\* and the gap table stay within the limits of the code.
THEOREM TypeCorrect == Spec => []TypeOK
<1>1. Init => TypeOK
    BY ArqAssumption DEF Init, TypeOK, Seqs
<1>2. TypeOK /\ [Next]_vars => TypeOK'
    BY TypeStep
<1>. QED
    BY <1>1, <1>2, PTL DEF Spec

-----------------------------------------------------------------------------
\* Steps of the sender and of the network leave the receiver alone.
LEMMA SenderSteps ==
    ASSUME CursorInv, reportNet' \subseteq reportNet, UNCHANGED receiverVars,
           UNCHANGED <<base, received, reported, omitted, skipped, abandoned>>
    PROVE  CursorInv'
<1>. USE DEF CursorInv, receiverVars
<1>1. Started'
    BY DEF Started
<1>2. Held'
    BY DEF Held
<1>3. PassedGapsKept'
    BY DEF PassedGapsKept, Settled
<1>4. CursorAccounted' /\ GapsTracked'
    BY DEF CursorAccounted, GapsTracked
<1>5. ReportTruthful'
    BY DEF ReportTruthful, Settled
<1>. QED
    BY <1>1, <1>2, <1>3, <1>4, <1>5

LEMMA FirstStep ==
    ASSUME TypeOK, CursorInv, NEW s \in dataNet, ArriveFirst(s)
    PROVE  CursorInv'
<1>1. /\ s \in Nat \ {0} /\ base = 0 /\ received = {} /\ recvSeqs = {} /\ missing = {}
      /\ \A r \in reportNet : r.ack = 0
    BY ArqAssumption DEF CursorInv, Started, ArriveFirst, TypeOK, Seqs
<1>2. /\ nextExpected' = s + 1 /\ base' = s /\ received' = {s} /\ recvSeqs' = {}
      /\ missing' = {} /\ reportNet' = reportNet
    BY <1>1 DEF ArriveFirst, Arrive
<1>. USE <1>1, <1>2
<1>3. Started' /\ Held'
    BY DEF Started, Held
<1>4. PassedGapsKept' /\ CursorAccounted'
    BY DEF PassedGapsKept, CursorAccounted, Settled
<1>5. GapsTracked'
    BY DEF GapsTracked
<1>6. ReportTruthful'
    BY DEF ReportTruthful
<1>. QED
    BY <1>3, <1>4, <1>5, <1>6 DEF CursorInv

\* What the two later kinds of arrival have in common.
LEMMA AbsorbStep ==
    ASSUME TypeOK, CursorInv, NEW s \in dataNet, nextExpected # 0, Arrive(s), Absorb(s),
           UNCHANGED base, missing \ {s} \subseteq missing',
           \A g \in nextExpected..(s - 1) : g \in recvSeqs \cup missing'
    PROVE  CursorInv'
<1>. USE ArqAssumption
<1>1. s \in Seqs /\ base \in Seqs /\ base < nextExpected /\ nextExpected \in Nat
    BY DEF TypeOK, CursorInv, Started, Seqs
<1>2. /\ received' = received \cup {s} /\ base' = base /\ reportNet' = reportNet
      /\ reported' = reported /\ omitted' = omitted /\ skipped' = skipped
      /\ abandoned' = abandoned
    BY DEF Arrive
<1>3. /\ nextExpected' \in nextExpected..(MaxSeq + 1)
      /\ \A k \in nextExpected..(nextExpected' - 1) : k \in recvSeqs \cup {s}
      /\ nextExpected' \notin recvSeqs \cup {s}
      /\ recvSeqs' = (recvSeqs \cup {s}) \ (nextExpected..(nextExpected' - 1))
    BY <1>1, AbsorbType
<1>3a. /\ nextExpected' \in Nat /\ nextExpected <= nextExpected' /\ nextExpected' <= MaxSeq + 1
       /\ base \in Nat /\ MaxSeq \in Nat
    BY <1>1, <1>3 DEF Seqs
<1>4. Started'
    BY <1>1, <1>2, <1>3 DEF CursorInv, Started, Seqs
<1>5. Held'
    <2>1. recvSeqs' \subseteq received'
        BY <1>2, <1>3 DEF CursorInv, Held
    <2>2. \A r \in received' : r >= nextExpected' => r \in recvSeqs'
        <3>. SUFFICES ASSUME NEW r \in received', r >= nextExpected'
                      PROVE  r \in recvSeqs'
            OBVIOUS
        <3>1. r \in Nat /\ r >= nextExpected
            BY <1>1, <1>2, <1>3a DEF TypeOK, Seqs
        <3>2. r \in recvSeqs \cup {s}
            BY <3>1, <1>2 DEF CursorInv, Held
        <3>3. r \notin nextExpected..(nextExpected' - 1)
            <4>1. ~(r < nextExpected')
                BY <3>1, <1>3a
            <4>. QED
                BY <4>1, <3>1, <1>1, <1>3a, Passed
        <3>. QED
            BY <3>2, <3>3, <1>3
    <2>3. nextExpected' \notin recvSeqs'
        BY <1>3
    <2>. QED
        BY <2>1, <2>2, <2>3 DEF Held
<1>6. \A k \in nextExpected..(nextExpected' - 1) : k \in received'
    BY <1>2, <1>3 DEF CursorInv, Held
<1>7. CursorAccounted'
    <2>. SUFFICES ASSUME NEW k \in base..(nextExpected' - 1)
                  PROVE  k \in (received \cup reported \cup skipped \cup omitted)'
        BY <1>2 DEF CursorAccounted
    <2>0. k \in Nat /\ base <= k /\ k < nextExpected'
        BY <1>3a, Passed
    <2>1. CASE k < nextExpected
        BY <2>1, <1>1, <1>2, <1>3 DEF CursorInv, CursorAccounted, Seqs
    <2>2. CASE k >= nextExpected
        <3>1. k \in nextExpected..(nextExpected' - 1)
            BY <2>0, <2>2, <1>1, <1>3a, Passed
        <3>. QED
            BY <3>1, <1>6
    <2>. QED
        BY <2>1, <2>2, <1>1, <1>3a
<1>8. PassedGapsKept'
    <2>. SUFFICES ASSUME NEW k \in base..(nextExpected' - 1)
                  PROVE  Settled(k)' \/ k \in missing'
        BY <1>2 DEF PassedGapsKept
    <2>0. k \in Nat /\ base <= k /\ k < nextExpected'
        BY <1>3a, Passed
    <2>1. CASE k < nextExpected /\ k # s
        <3>1. k \in base..(nextExpected - 1)
            BY <2>0, <2>1, <1>1, <1>3a
        <3>2. Settled(k) \/ k \in missing
            BY <3>1, <1>1 DEF CursorInv, PassedGapsKept, Seqs
        <3>. QED
            BY <2>1, <3>2, <1>2 DEF Settled
    <2>2. CASE k = s
        BY <2>2, <1>2 DEF Settled
    <2>3. CASE k >= nextExpected
        <3>1. k \in nextExpected..(nextExpected' - 1)
            BY <2>0, <2>3, <1>1, <1>3a, Passed
        <3>. QED
            BY <3>1, <1>6 DEF Settled
    <2>. QED
        BY <2>1, <2>2, <2>3, <1>1, <1>3a
<1>9. GapsTracked'
    <2>. SUFFICES ASSUME NEW r \in received', NEW k \in nextExpected'..r
                  PROVE  k \in (recvSeqs \cup missing \cup skipped \cup abandoned)'
        BY DEF GapsTracked
    <2>0. r \in Seqs /\ k \in Seqs /\ k >= nextExpected /\ k >= nextExpected'
        <3>1. r \in Seqs
            BY <1>1, <1>2 DEF TypeOK
        <3>2. \A n, m, j \in Nat : \A i \in m..j : n <= m => i \in Nat /\ i >= n /\ i >= m /\ i <= j
            OBVIOUS
        <3>3. k \in Nat /\ k >= nextExpected /\ k >= nextExpected' /\ k <= r
            BY <3>1, <3>2, <1>1, <1>3a DEF Seqs
        <3>. QED
            BY <3>1, <3>3, <1>1 DEF Seqs
    <2>1. k \in recvSeqs \cup {s} => k \in recvSeqs'
        <3>1. k \in Nat /\ ~(k < nextExpected')
            BY <2>0, <1>3a DEF Seqs
        <3>2. k \notin nextExpected..(nextExpected' - 1)
            BY <3>1, <1>1, <1>3a, Passed
        <3>. QED
            BY <3>2, <1>3
    <2>2. CASE r = s
        BY <2>0, <2>1, <2>2, <1>1 DEF Seqs
    <2>3. CASE r \in received
        <3>1. k \in recvSeqs \cup missing \cup skipped \cup abandoned
            BY <2>0, <2>3, <1>1 DEF CursorInv, GapsTracked, Seqs
        <3>. QED
            BY <3>1, <2>1, <2>0, <1>2
    <2>. QED
        BY <2>2, <2>3, <1>2
<1>10. ReportTruthful'
    BY <1>2 DEF CursorInv, ReportTruthful, Settled
<1>. QED
    BY <1>4, <1>5, <1>7, <1>8, <1>9, <1>10 DEF CursorInv

LEMMA AheadStep ==
    ASSUME TypeOK, CursorInv, NEW s \in dataNet, ArriveAhead(s)
    PROVE  CursorInv'
<1>. DEFINE gaps == Gaps(s)
<1>1. s \in Nat /\ nextExpected \in Nat
    BY ArqAssumption DEF TypeOK, Seqs
<1>2. /\ nextExpected # 0 /\ Arrive(s) /\ Absorb(s) /\ UNCHANGED base
      /\ missing' = missing \cup gaps
    BY DEF ArriveAhead
<1>4. \A g \in nextExpected..(s - 1) : g \in recvSeqs \cup missing'
    BY <1>2 DEF Gaps
<1>5. missing \ {s} \subseteq missing'
    BY <1>2
<1>. QED
    BY <1>2, <1>4, <1>5, AbsorbStep

LEMMA BehindStep ==
    ASSUME TypeOK, CursorInv, NEW s \in dataNet, ArriveBehind(s)
    PROVE  CursorInv'
<1>1. s \in Nat /\ nextExpected \in Nat
    BY ArqAssumption DEF TypeOK, Seqs
<1>2. /\ nextExpected # 0 /\ s < nextExpected /\ Arrive(s) /\ Absorb(s) /\ UNCHANGED base
      /\ missing' = missing \ {s}
    BY DEF ArriveBehind, DropGaps
<1>4. \A g \in nextExpected..(s - 1) : g \in recvSeqs \cup missing'
    BY <1>1, <1>2
<1>. QED
    BY <1>2, <1>4, AbsorbStep

\* The report builder: what it passes is settled, listed or omitted, what it drops from
\* the gap table is recorded as skipped or abandoned.
LEMMA ReportStep ==
    ASSUME TypeOK, CursorInv, NEW th \in LossThresholds, SendReport(th)
    PROVE  CursorInv'
<1>. USE ArqAssumption
<1>0. /\ received' = received /\ base' = base
      /\ recvSeqs' = recvSeqs \ (nextExpected..(nextExpected' - 1))
      /\ missing' = Kept
      /\ reportNet' \subseteq reportNet \cup {[ack |-> IF nextExpected' = 0 THEN 0 ELSE nextExpected' - 1, lost |-> Listed(th)]}
      /\ reported' = reported \cup Listed(th)
      /\ omitted' = omitted \cup (Lost(th) \ Listed(th)) \cup {g \in Young(th) : g < nextExpected}
      /\ skipped' = skipped \cup Unreliables
      /\ abandoned' = abandoned \cup (missing \ (Unreliables \cup Kept))
    BY DEF SendReport
<1>1. /\ Unreliables \subseteq missing /\ Lost(th) \subseteq missing
      /\ Kept \subseteq missing /\ missing \subseteq Seqs
    BY ReportCursor
<1>3. \A g \in Seqs : Settled(g) => Settled(g)'
    BY <1>0 DEF Settled
<1>4. CASE base = 0
    <2>1. /\ nextExpected = 0 /\ received = {} /\ recvSeqs = {} /\ missing = {}
          /\ \A r \in reportNet : r.ack = 0
        BY <1>4 DEF CursorInv, Started
    <2>2. nextExpected' = 0 /\ recvSeqs' = {} /\ missing' = {} /\ base' = 0 /\ received' = {}
        BY <2>1, <1>0, <1>1, <1>4, ReportCursor
    <2>3. \A r \in reportNet' : r.ack = 0
        BY <2>1, <2>2, <1>0
    <2>. QED
        BY <2>2, <2>3 DEF CursorInv, Started, Held, PassedGapsKept, CursorAccounted,
                          GapsTracked, ReportTruthful
<1>5. CASE base # 0
    <2>1. base \in Nat \ {0} /\ nextExpected \in Nat \ {0} /\ base < nextExpected /\ MaxSeq \in Nat
        BY <1>5 DEF CursorInv, Started, TypeOK
    <2>2. /\ nextExpected' \in nextExpected..(MaxSeq + 1)
          /\ \A k \in nextExpected..(nextExpected' - 1) : k \in recvSeqs \cup Unreliables \cup Lost(th)
          /\ nextExpected' \notin recvSeqs \cup Unreliables \cup Lost(th)
        BY <2>1, ReportCursor
    <2>3. nextExpected' \in Nat /\ nextExpected <= nextExpected' /\ nextExpected' <= MaxSeq + 1
        BY <2>1, <2>2
    \* a gap is skipped, still in the table, or abandoned
    <2>4. \A k \in missing : Settled(k)' \/ k \in missing'
        BY <1>0 DEF Settled
    <2>5. \A k \in nextExpected..(nextExpected' - 1) : k \in received' \cup skipped' \cup Lost(th)
        BY <2>2, <1>0 DEF CursorInv, Held
    <2>6. \A k \in base..(nextExpected' - 1) :
             /\ k \in Nat /\ base <= k /\ k < nextExpected'
             /\ k \in base..(nextExpected - 1) \/ k \in nextExpected..(nextExpected' - 1)
        <3>. SUFFICES ASSUME NEW k \in base..(nextExpected' - 1)
                      PROVE  /\ k \in Nat /\ base <= k /\ k < nextExpected'
                             /\ k \in base..(nextExpected - 1) \/ k \in nextExpected..(nextExpected' - 1)
            OBVIOUS
        <3>1. k \in Nat /\ base <= k /\ k < nextExpected'
            BY <2>1, <2>3, Passed
        <3>2. k < nextExpected \/ nextExpected <= k
            BY <3>1, <2>1
        <3>. QED
            BY <3>1, <3>2, <2>1, <2>3, Passed
    <2>7. Started'
        BY <1>0, <1>5, <2>1, <2>3 DEF Started
    <2>8. Held'
        <3>1. \A r \in received' : r >= nextExpected' => r \in recvSeqs'
            <4>. SUFFICES ASSUME NEW r \in received, r >= nextExpected'
                          PROVE  r \in recvSeqs'
                BY <1>0
            <4>1. r \in Nat /\ r >= nextExpected /\ ~(r < nextExpected')
                BY <2>1, <2>3 DEF TypeOK, Seqs
            <4>2. r \notin nextExpected..(nextExpected' - 1)
                BY <4>1, <2>1, <2>3, Passed
            <4>. QED
                BY <4>1, <4>2, <1>0 DEF CursorInv, Held
        <3>. QED
            BY <3>1, <1>0, <2>2 DEF CursorInv, Held
    <2>9. CursorAccounted'
        <3>1. \A k \in base..(nextExpected' - 1) : k \in (received \cup reported \cup skipped \cup omitted)'
            BY <1>0, <1>5, <2>5, <2>6 DEF CursorInv, CursorAccounted
        <3>. QED
            BY <3>1, <1>0 DEF CursorAccounted
    <2>10. PassedGapsKept'
        <3>. SUFFICES ASSUME NEW k \in base..(nextExpected' - 1)
                      PROVE  Settled(k)' \/ k \in missing'
            BY <1>0 DEF PassedGapsKept
        <3>1. CASE k \in nextExpected..(nextExpected' - 1)
            BY <3>1, <1>1, <2>4, <2>5 DEF Settled
        <3>2. CASE k \in base..(nextExpected - 1)
            <4>1. Settled(k) \/ k \in missing
                BY <3>2, <1>5 DEF CursorInv, PassedGapsKept
            <4>. QED
                BY <4>1, <2>4, <1>0 DEF Settled
        <3>. QED
            BY <3>1, <3>2, <2>6
    <2>11. GapsTracked'
        <3>. SUFFICES ASSUME NEW r \in received, NEW k \in nextExpected'..r
                      PROVE  k \in (recvSeqs \cup missing \cup skipped \cup abandoned)'
            BY <1>0 DEF GapsTracked
        <3>1. r \in Nat /\ k \in Nat /\ k >= nextExpected /\ ~(k < nextExpected') /\ k <= r
            BY <2>1, <2>3 DEF TypeOK, Seqs
        <3>2. k \in recvSeqs \cup missing \cup skipped \cup abandoned
            BY <3>1, <2>1, <1>5 DEF CursorInv, GapsTracked
        <3>3. k \notin nextExpected..(nextExpected' - 1)
            BY <3>1, <2>1, <2>3, Passed
        <3>. QED
            BY <3>2, <3>3, <1>0
    <2>12. ReportTruthful'
        <3>. SUFFICES ASSUME NEW r \in reportNet', NEW k \in base..r.ack, k \notin r.lost
                      PROVE  Settled(k)' \/ k \in omitted'
            BY <1>0 DEF ReportTruthful
        <3>1. CASE r \in reportNet
            BY <3>1, <1>0, <1>5 DEF CursorInv, ReportTruthful, Settled
        <3>2. CASE r = [ack |-> IF nextExpected' = 0 THEN 0 ELSE nextExpected' - 1, lost |-> Listed(th)]
            <4>1. r.ack = nextExpected' - 1 /\ r.lost = Listed(th)
                <5>1. nextExpected' # 0
                    BY <2>1, <2>3
                <5>. QED
                    BY <3>2, <5>1
            <4>2. k \in base..(nextExpected' - 1) /\ k \notin Listed(th)
                BY <4>1
            <4>3. k \in Lost(th) => k \in omitted'
                BY <4>2, <1>0
            <4>4. CASE k \in nextExpected..(nextExpected' - 1)
                BY <4>3, <4>4, <2>5 DEF Settled
            <4>5. CASE k \in base..(nextExpected - 1)
                \* a passed gap that is not settled is lost again, young or abandoned
                <5>1. Settled(k) \/ k \in missing
                    BY <4>5, <1>5 DEF CursorInv, PassedGapsKept
                <5>2. k < nextExpected
                    BY <4>5, <2>1, Passed
                <5>3. k \in Young(th) => k \in omitted'
                    BY <5>2, <1>0
                <5>4. k \in Unreliables \cup Stale => Settled(k)'
                    <6>1. k \in Stale => k \in missing \ (Unreliables \cup Kept)
                        BY DEF Stale, Kept, Largest
                    <6>. QED
                        BY <6>1, <1>0 DEF Settled
                <5>5. k \in missing => k \in Unreliables \cup Stale \cup Young(th) \cup Lost(th)
                    BY DEF Lost
                <5>. QED
                    BY <5>1, <5>3, <5>4, <5>5, <4>3, <1>0 DEF Settled
            <4>. QED
                BY <4>2, <4>4, <4>5, <2>6
        <3>. QED
            BY <3>1, <3>2, <1>0
    <2>. QED
        BY <2>7, <2>8, <2>9, <2>10, <2>11, <2>12 DEF CursorInv
<1>. QED
    BY <1>4, <1>5

LEMMA CursorStep ==
    ASSUME TypeOK, CursorInv, [Next]_vars
    PROVE  CursorInv'
<1>1. ASSUME NEW ch \in Channels, SendData(ch) PROVE CursorInv'
    BY <1>1, SenderSteps DEF SendData
<1>2. CASE FinishSend
    BY <1>2, SenderSteps DEF FinishSend, netVars, historyVars
<1>3. CASE SendControl
    BY <1>3, SenderSteps DEF SendControl, historyVars
<1>4. ASSUME NEW c \in ctlNet, HandleAck(c) PROVE CursorInv'
    BY <1>4, SenderSteps DEF HandleAck
<1>5. ASSUME NEW r \in reportNet, HandleReport(r) PROVE CursorInv'
    <2>1. reportNet' \subseteq reportNet
        BY <1>5, TakeType DEF HandleReport
    <2>2. UNCHANGED receiverVars /\ UNCHANGED <<base, received, reported, omitted, skipped, abandoned>>
        BY <1>5 DEF HandleReport
    <2>. QED
        BY <2>1, <2>2, SenderSteps
<1>6. ASSUME NEW s \in dataNet, ArriveFirst(s) \/ ArriveAhead(s) \/ ArriveBehind(s)
      PROVE  CursorInv'
    BY <1>6, FirstStep, AheadStep, BehindStep
<1>7. ASSUME NEW th \in LossThresholds, SendReport(th) PROVE CursorInv'
    BY <1>7, ReportStep
<1>8. CASE Lose
    <2>1. reportNet' \subseteq reportNet
        BY <1>8 DEF Lose
    <2>2. UNCHANGED receiverVars /\ UNCHANGED <<base, received, reported, omitted, skipped, abandoned>>
        BY <1>8 DEF Lose, historyVars
    <2>. QED
        BY <2>1, <2>2, SenderSteps
<1>9. CASE UNCHANGED vars
    BY <1>9, SenderSteps DEF vars, netVars, historyVars
<1>. QED
    BY <1>1, <1>2, <1>3, <1>4, <1>5, <1>6, <1>7, <1>8, <1>9 DEF Next

\* The receiver's bookkeeping is right for any number of packets, any channels,
\* any room in a report, any course of the RTT and any faults of the network:
\* the cursor passes nothing silently, no gap is forgotten, and every report in
\* flight tells the truth of all but the omitted numbers.
THEOREM CursorCorrect == Spec => []CursorInv
<1>1. Init => CursorInv
    BY DEF Init, CursorInv, Started, Held, PassedGapsKept, CursorAccounted, GapsTracked,
           ReportTruthful
<1>2. TypeOK /\ CursorInv /\ [Next]_vars => CursorInv'
    BY CursorStep
<1>. QED
    BY <1>1, <1>2, TypeCorrect, PTL DEF Spec

\* The cursor passes no number silently, no gap below a received number is
\* forgotten, and no report in flight lies but about a number that fell off a
\* full list or that a longer RTT took off it again.
THEOREM CursorSound == Spec => []CursorSafe
<1>1. CursorInv => CursorSafe
    BY DEF CursorInv, CursorSafe
<1>. QED
    BY <1>1, CursorCorrect, PTL

\* Any report in flight acknowledges only packets that arrived or were given up,
\* the omitted ones excepted.
THEOREM ReportsTruthful == Spec => []ReportTruthful
<1>1. CursorInv => ReportTruthful
    BY DEF CursorInv
<1>. QED
    BY <1>1, CursorCorrect, PTL

-----------------------------------------------------------------------------
LEMMA BudgetStep == ASSUME TypeOK, BudgetInv, [Next]_vars PROVE BudgetInv'
<1>. USE ArqAssumption DEF BudgetInv, BoundedTransmissions
<1>1. ASSUME NEW ch \in Channels, SendData(ch) PROVE BudgetInv'
    <2>1. seqOut \in Seqs
        BY <1>1 DEF SendData, TypeOK, Seqs
    <2>2. \A s \in Seqs : sends'[s] = IF s = seqOut THEN 1 ELSE sends[s]
        BY <1>1, <2>1 DEF SendData, TypeOK
    <2>3. \A s \in Seqs : s # seqOut => pend'[s] = pend[s]
        BY <1>1, <2>1 DEF SendData, TypeOK
    <2>4. retries' = retries /\ retries \in [Seqs -> Nat] /\ MaxRetries \in Nat
        BY <1>1 DEF SendData, TypeOK
    <2>. QED
        BY <2>2, <2>3, <2>4
<1>2. CASE FinishSend
    <2>1. filling \in Seqs
        BY <1>2 DEF FinishSend, TypeOK, Seqs
    <2>2. \A s \in Seqs : pend'[s] = "data" => pend[s] = "data"
        BY <1>2, <2>1 DEF FinishSend, TypeOK
    <2>. QED
        BY <1>2, <2>2 DEF FinishSend, historyVars
<1>3. CASE SendControl
    <2>1. \A s \in Seqs : pend'[s] = "data" => pend[s] = "data"
        BY <1>3 DEF SendControl, TypeOK
    <2>. QED
        BY <1>3, <2>1 DEF SendControl, historyVars
<1>4. ASSUME NEW c \in ctlNet, HandleAck(c) PROVE BudgetInv'
    <2>1. \A s \in Seqs : pend'[s] = "data" => pend[s] = "data" /\ retries'[s] = retries[s]
        BY <1>4 DEF HandleAck, TypeOK
    <2>. QED
        BY <1>4, <2>1 DEF HandleAck
<1>5. ASSUME NEW r \in reportNet, HandleReport(r) PROVE BudgetInv'
    <2>. SUFFICES ASSUME NEW s \in Seqs
                  PROVE  /\ sends'[s] <= 1 + MaxRetries
                         /\ pend'[s] = "data" => sends'[s] <= 1 + retries'[s]
        OBVIOUS
    <2>. DEFINE gone == Covered(r) \cup Exhausted(r)
                again == s \in Resent(r)
    <2>1. pend'[s] = IF s \in gone THEN "none" ELSE pend[s]
        BY <1>5 DEF HandleReport
    <2>2. retries'[s] = IF s \in gone THEN 0 ELSE IF again THEN retries[s] + 1 ELSE retries[s]
        BY <1>5 DEF HandleReport
    <2>3. sends'[s] = IF again /\ pend[s] = "data" THEN sends[s] + 1 ELSE sends[s]
        BY <1>5 DEF HandleReport
    <2>4. again => retries[s] < MaxRetries /\ s \notin gone
        BY DEF Resent, Covered, Exhausted, TypeOK
    <2>5. sends[s] \in Nat /\ retries[s] \in Nat /\ MaxRetries \in Nat
        BY DEF TypeOK
    <2>6. sends[s] <= 1 + MaxRetries /\ (pend[s] = "data" => sends[s] <= 1 + retries[s])
        OBVIOUS
    <2>. HIDE DEF gone, again
    <2>7. CASE again /\ pend[s] = "data"
        BY <2>1, <2>2, <2>3, <2>4, <2>5, <2>6, <2>7
    <2>8. CASE ~(again /\ pend[s] = "data")
        BY <2>1, <2>2, <2>3, <2>4, <2>5, <2>6, <2>8
    <2>. QED
        BY <2>7, <2>8
<1>6. ASSUME UNCHANGED <<pend, retries, sends>> PROVE BudgetInv'
    BY <1>6
<1>7. ASSUME NEW s \in dataNet, ArriveFirst(s) \/ ArriveAhead(s) \/ ArriveBehind(s)
      PROVE  BudgetInv'
    BY <1>6, <1>7 DEF ArriveFirst, ArriveAhead, ArriveBehind, Arrive, senderVars
<1>8. ASSUME NEW th \in LossThresholds, SendReport(th) PROVE BudgetInv'
    BY <1>6, <1>8 DEF SendReport, senderVars
<1>9. CASE Lose
    BY <1>6, <1>9 DEF Lose, senderVars, historyVars
<1>10. CASE UNCHANGED vars
    BY <1>6, <1>10 DEF vars, senderVars, historyVars
<1>. QED
    BY <1>1, <1>2, <1>3, <1>4, <1>5, <1>7, <1>8, <1>9, <1>10 DEF Next

\* No packet is ever transmitted more than 1 + kMaxRetries times, whatever
\* reports are lost, repeated or reordered and whatever shares m_pending.
THEOREM TransmissionsBounded == Spec => []BoundedTransmissions
<1>1. Init => BudgetInv
    BY ArqAssumption DEF Init, BudgetInv, BoundedTransmissions
<1>2. TypeOK /\ BudgetInv /\ [Next]_vars => BudgetInv'
    BY BudgetStep
<1>3. BudgetInv => BoundedTransmissions
    BY DEF BudgetInv
<1>. QED
    BY <1>1, <1>2, <1>3, TypeCorrect, PTL DEF Spec

-----------------------------------------------------------------------------
LEMMA BufferStep ==
    ASSUME TypeOK, CursorInv, BufferInv, [Next]_vars
    PROVE  BufferInv'
<1>. USE ArqAssumption
<1>0. CASE SendControl
    <2>1. ctlOut \in Seqs /\ ctlOut' = ctlOut + 1 /\ ctlOut \in Nat
        BY <1>0 DEF SendControl, TypeOK, Seqs
    <2>2. UNCHANGED <<missing, base, chan, pruned, exhausted, received, skipped, abandoned, omitted>>
        BY <1>0 DEF SendControl, receiverVars, historyVars
    <2>3. \A s \in Seqs : s \in Nat /\ (s # ctlOut => pend'[s] = pend[s])
        BY <1>0, <2>1 DEF SendControl, TypeOK, Seqs
    <2>4. \A c \in ctlNet' : c < ctlOut'
        <3>1. ctlNet' = ctlNet \cup {ctlOut} /\ ctlNet \subseteq Nat
            BY <1>0 DEF SendControl, TypeOK, Seqs
        <3>. QED
            BY <3>1, <2>1 DEF BufferInv
    <2>5. PrunedOnlyWhenSettled'
        <3>1. \A s \in pruned : s \in Nat /\ (s < ctlOut => s < ctlOut')
            BY <2>1 DEF TypeOK, Seqs
        <3>. QED
            BY <2>2, <3>1 DEF BufferInv, PrunedOnlyWhenSettled, Settled
    <2>6. \A s \in Seqs : pend'[s] = "control" => s < ctlOut'
        BY <2>1, <2>3 DEF BufferInv
    <2>7. \A s \in Seqs : s >= ctlOut' /\ chan'[s] \in Reliable /\ PeerRetransmit
                            => pend'[s] = "data" \/ s \in pruned' \cup exhausted'
        BY <2>1, <2>2, <2>3 DEF BufferInv
    <2>. QED
        BY <2>2, <2>4, <2>5, <2>6, <2>7 DEF BufferInv
<1>1. ASSUME NEW ch \in Channels, SendData(ch) PROVE BufferInv'
    <2>1. seqOut \in Seqs
        BY <1>1 DEF SendData, TypeOK, Seqs
    <2>2. \A s \in Seqs : /\ s # seqOut => pend'[s] = pend[s] /\ chan'[s] = chan[s]
                          /\ s = seqOut => chan'[s] = ch
                          /\ s = seqOut /\ ch \in Reliable /\ PeerRetransmit => pend'[s] = "data"
                          /\ pend'[s] # pend[s] => pend'[s] = "data"
        BY <1>1, <2>1 DEF SendData, TypeOK
    <2>3. /\ ctlOut' = ctlOut /\ ctlNet' = ctlNet /\ UNCHANGED <<pruned, exhausted, base, received, skipped, abandoned, omitted>>
          /\ missing' = missing
        BY <1>1 DEF SendData, receiverVars
    <2>4. PrunedOnlyWhenSettled'
        BY <2>3 DEF BufferInv, PrunedOnlyWhenSettled, Settled
    <2>. QED
        BY <2>2, <2>3, <2>4 DEF BufferInv
<1>2. CASE FinishSend
    <2>1. filling \in Seqs
        BY <1>2 DEF FinishSend, TypeOK, Seqs
    <2>2. \A s \in Seqs : pend'[s] = pend[s] \/ (pend[s] = "none" /\ pend'[s] = "blank")
        BY <1>2, <2>1 DEF FinishSend, TypeOK
    <2>3. UNCHANGED <<ctlOut, ctlNet, chan, pruned, exhausted, base, received, skipped, abandoned, omitted, missing>>
        BY <1>2 DEF FinishSend, receiverVars, netVars, historyVars
    <2>. QED
        BY <2>2, <2>3 DEF BufferInv, PrunedOnlyWhenSettled, Settled
<1>3. ASSUME NEW c \in ctlNet, HandleAck(c) PROVE BufferInv'
    <2>1. c < ctlOut /\ c \in Nat /\ ctlOut \in Nat
        BY DEF BufferInv, TypeOK, Seqs
    <2>2. /\ UNCHANGED <<ctlOut, missing, base, chan, exhausted, received, skipped, abandoned, omitted>>
          /\ pruned \subseteq pruned' /\ pruned' \subseteq pruned \cup {c}
        BY <1>3 DEF HandleAck, receiverVars
    <2>3. \A s \in Seqs : s \in Nat /\ (s # c => pend'[s] = pend[s]) /\ (s = c => pend'[s] = "none")
        BY <1>3 DEF HandleAck, TypeOK, Seqs
    <2>4. ctlNet' \subseteq ctlNet
        BY <1>3, TakeType DEF HandleAck
    <2>5. PrunedOnlyWhenSettled'
        BY <2>1, <2>2 DEF BufferInv, PrunedOnlyWhenSettled, Settled
    <2>6. \A s \in Seqs : s >= ctlOut' /\ chan'[s] \in Reliable /\ PeerRetransmit
                            => pend'[s] = "data" \/ s \in pruned' \cup exhausted'
        BY <2>1, <2>2, <2>3 DEF BufferInv
    <2>. QED
        BY <2>1, <2>2, <2>3, <2>4, <2>5, <2>6 DEF BufferInv
<1>4. ASSUME NEW r \in reportNet, HandleReport(r) PROVE BufferInv'
    <2>1. /\ pend' = [s \in Seqs |-> IF s \in Covered(r) \cup Exhausted(r) THEN "none" ELSE pend[s]]
          /\ ctlNet' = ctlNet \cup {s \in Resent(r) : pend[s] = "control"}
          /\ pruned' = pruned \cup {s \in Covered(r) : pend[s] = "data"}
          /\ exhausted' = exhausted \cup {s \in Exhausted(r) : pend[s] = "data"}
          /\ UNCHANGED <<ctlOut, chan, base, received, skipped, abandoned, omitted, missing>>
        BY <1>4 DEF HandleReport, receiverVars
    <2>2. Resent(r) \subseteq Seqs
        BY DEF Resent, TypeOK, Report
    <2>3. (\A c \in ctlNet' : c < ctlOut') /\ \A s \in Seqs : pend'[s] = "control" => s < ctlOut'
        BY <2>1, <2>2 DEF BufferInv
    <2>4. PrunedOnlyWhenSettled'
        <3>. SUFFICES ASSUME NEW s \in Covered(r) PROVE s < base \/ Settled(s) \/ s \in omitted
            BY <2>1 DEF BufferInv, PrunedOnlyWhenSettled, Settled
        <3>1. s \in Nat \ {0} /\ s <= r.ack /\ s \notin r.lost /\ r.ack \in Nat /\ base \in Nat
            BY DEF Covered, Seqs, TypeOK, Report
        <3>2. base # 0
            BY <3>1 DEF CursorInv, Started
        <3>3. s < base \/ s \in base..r.ack
            BY <3>1
        <3>. QED
            BY <3>1, <3>2, <3>3 DEF CursorInv, ReportTruthful
    <2>5. \A s \in Seqs : pend[s] = "data" => pend'[s] = "data" \/ s \in pruned' \cup exhausted'
        BY <2>1
    <2>. QED
        BY <2>1, <2>3, <2>4, <2>5 DEF BufferInv
<1>5. ASSUME UNCHANGED <<ctlOut, pend, ctlNet, chan, pruned, exhausted>>,
             received \subseteq received', skipped \subseteq skipped', abandoned \subseteq abandoned',
             omitted \subseteq omitted', base' = base \/ (base = 0 /\ base' \in Nat),
             \A s \in missing' : base' # 0 /\ s >= base'
      PROVE  BufferInv'
    <2>1. \A s \in Seqs : Settled(s) => Settled(s)'
        BY <1>5 DEF Settled
    <2>2. \A s \in pruned : s \in Nat
        BY DEF TypeOK, Seqs
    <2>3. PrunedOnlyWhenSettled'
        BY <1>5, <2>1, <2>2 DEF BufferInv, PrunedOnlyWhenSettled, TypeOK, Seqs
    <2>. QED
        BY <1>5, <2>3 DEF BufferInv
<1>6. ASSUME NEW s \in dataNet, ArriveFirst(s) PROVE BufferInv'
    <2>1. base = 0 /\ missing = {}
        BY <1>6 DEF ArriveFirst, CursorInv, Started, TypeOK
    <2>. QED
        BY <1>5, <1>6, <2>1 DEF ArriveFirst, Arrive, senderVars, TypeOK, Seqs
<1>7. ASSUME NEW s \in dataNet, ArriveAhead(s) PROVE BufferInv'
    <2>1. base # 0 /\ base < nextExpected /\ base \in Nat /\ nextExpected \in Nat /\ s \in Nat
        BY <1>7 DEF ArriveAhead, CursorInv, Started, TypeOK, Seqs
    <2>2. missing' = missing \cup ((nextExpected..(s - 1)) \ recvSeqs) /\ base' = base
        BY <1>7 DEF ArriveAhead, Gaps
    <2>3. \A g \in missing' : base' # 0 /\ g >= base'
        BY <2>1, <2>2 DEF BufferInv
    <2>. QED
        BY <1>5, <1>7, <2>2, <2>3 DEF ArriveAhead, Arrive, senderVars
<1>8. ASSUME NEW s \in dataNet, ArriveBehind(s) PROVE BufferInv'
    <2>1. missing' \subseteq missing /\ base' = base
        BY <1>8 DEF ArriveBehind, DropGaps
    <2>2. \A g \in missing' : base' # 0 /\ g >= base'
        BY <2>1 DEF BufferInv
    <2>. QED
        BY <1>5, <1>8, <2>1, <2>2 DEF ArriveBehind, Arrive, senderVars
<1>9. ASSUME NEW th \in LossThresholds, SendReport(th) PROVE BufferInv'
    <2>1. missing' \subseteq missing /\ base' = base
        BY <1>9, ReportCursor DEF SendReport
    <2>2. \A g \in missing' : base' # 0 /\ g >= base'
        BY <2>1 DEF BufferInv
    <2>. QED
        BY <1>5, <1>9, <2>1, <2>2 DEF SendReport, senderVars
<1>10. CASE Lose
    <2>1. UNCHANGED <<ctlOut, pend, chan, pruned, exhausted, received, skipped, abandoned, omitted, base, missing>>
        BY <1>10 DEF Lose, senderVars, receiverVars, historyVars
    <2>2. \A c \in ctlNet' : c < ctlOut
        BY <1>10 DEF Lose, BufferInv
    <2>. QED
        BY <2>1, <2>2 DEF BufferInv, PrunedOnlyWhenSettled, Settled
<1>11. CASE UNCHANGED vars
    BY <1>11 DEF vars, senderVars, receiverVars, netVars, historyVars, BufferInv,
                 PrunedOnlyWhenSettled, Settled
<1>. QED
    BY <1>0, <1>1, <1>2, <1>3, <1>4, <1>6, <1>7, <1>8, <1>9, <1>10, <1>11 DEF Next

\* End to end, for every number beyond those ackable control packets have used
\* in the shared m_pending: the sender forgets a reliable packet only once it
\* arrived, was given up or omitted or used up its retransmissions, and a gap
\* still asked for can still be served.
THEOREM RetransmissionCorrect == Spec => []RetransmissionSafe
<1>1. Init => BufferInv
    BY ArqAssumption DEF Init, BufferInv, PrunedOnlyWhenSettled
<1>2. TypeOK /\ CursorInv /\ BufferInv /\ [Next]_vars => BufferInv'
    BY BufferStep
<1>3. TypeOK /\ BufferInv => RetransmissionSafe
    <2>. SUFFICES ASSUME TypeOK, BufferInv, NEW s \in missing, s \notin received, s >= ctlOut,
                         chan[s] \in Reliable, PeerRetransmit,
                         s \notin skipped \cup abandoned \cup omitted
                  PROVE  pend[s] = "data" \/ s \in exhausted
        BY DEF BufferInv, RetransmissionSafe, NackFindsPending
    <2>1. s \in Seqs /\ s \in Nat /\ base \in Nat /\ s >= base /\ ctlOut \in Nat
        BY DEF TypeOK, BufferInv, Seqs
    <2>2. s \notin pruned
        BY <2>1 DEF BufferInv, PrunedOnlyWhenSettled, Settled
    <2>. QED
        BY <2>1, <2>2 DEF BufferInv
<1>. QED
    BY <1>1, <1>2, <1>3, TypeCorrect, CursorCorrect, PTL DEF Spec

=============================================================================
