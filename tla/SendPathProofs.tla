--------------------------- MODULE SendPathProofs ---------------------------
(***************************************************************************)
(* Theorems about the way out: SendPipeline, from send() to the encoder,   *)
(* and Pacer, from the outbound queue to the socket, each for every set of *)
(* priorities, media, rates, costs, limits and bounds.                     *)
(*                                                                         *)
(* The pipeline's six places - two queues by priority, the encode queue,   *)
(* the hands of two threads and what was encoded - are seen as one family  *)
(* of lines (Line).  Its inductive invariant PipelineInv says that an id   *)
(* stands once in all the lines (Once), and which message may stand behind *)
(* which (Order).                                                          *)
(***************************************************************************)
EXTENDS Pacer, SendPipeline, FiniteSetTheorems, WellFoundedInduction, TLAPS

(* Pacer *)

\* What pop_front leaves of the outbound queue.
LEMMA PopType ==
    ASSUME TypeOK, Popping
    PROVE  /\ Head(queue) \in Channels /\ Tail(queue) \in Seq(Channels)
           /\ Len(Tail(queue)) <= QueueCap
<1>1. queue \in Seq(Channels) /\ queue # <<>> /\ Len(queue) <= QueueCap /\ QueueCap \in Nat
    BY PacerAssumption DEF TypeOK, Popping
<1>2. Head(queue) \in Channels /\ Tail(queue) \in Seq(Channels) /\ Len(Tail(queue)) = Len(queue) - 1
      /\ Len(queue) \in Nat
    BY <1>1
<1>. QED
    BY <1>1, <1>2

\* refill_token_bucket only lowers the tokens to a capacity that is no debt.
LEMMA RefilledFacts ==
    ASSUME TypeOK
    PROVE  Refilled \in Int /\ (Refilled >= token \/ Refilled >= 0)
<1>1. rate \in Nat \ {0} /\ token \in Int /\ Burst \in Nat
    BY PacerAssumption DEF TypeOK
<1>. QED
    BY <1>1 DEF Refilled, Smaller, Larger

LEMMA TypeStep == ASSUME TypeOK, [Next]_vars PROVE TypeOK'
<1>. USE PacerAssumption
<1>0. /\ Len(queue) \in Nat /\ queue \in Seq(Channels) /\ Len(queue) <= QueueCap
      /\ <<>> \in Seq(Channels) /\ Len(<<>>) = 0
      /\ drain \in Nat /\ Larger(drain - 1, 0) \in Nat
    BY DEF TypeOK, Larger
<1>1. ASSUME NEW ch \in Channels, SendRaw(ch) PROVE TypeOK'
    <2>1. queue' \in Seq(Channels) /\ Len(queue') <= QueueCap
        BY <1>0, <1>1 DEF SendRaw
    <2>. QED
        BY <1>1, <2>1 DEF SendRaw, TypeOK, histVars
<1>2. CASE SendRawAudio
    BY <1>2 DEF SendRawAudio, TypeOK, histVars
<1>3. ASSUME NEW r \in Rates, SetRate(r) PROVE TypeOK'
    BY <1>3 DEF SetRate, TypeOK, histVars
<1>4. CASE FastEvac
    BY <1>0, <1>4 DEF FastEvac, TypeOK, histVars
<1>5. CASE Settle
    <2>1. token' \in Int
        BY <1>5, RefilledFacts DEF Settle
    <2>2. limited' \in BOOLEAN
        BY <1>5 DEF Settle
    <2>3. loanDrain' \in BOOLEAN /\ reported' \in BOOLEAN
        BY <1>5 DEF Settle
    <2>4. drain' \in Nat /\ pushed' \in 0..PerBeat
        BY <1>0, <1>5 DEF Settle
    <2>5. evacReset' \in BOOLEAN /\ audio' \in BOOLEAN
        BY <1>5 DEF Settle
    <2>. QED
        BY <1>5, <2>1, <2>2, <2>3, <2>4, <2>5 DEF Settle, TypeOK, histVars
<1>6. CASE DropVideo
    BY <1>6, PopType DEF DropVideo, TypeOK, histVars
<1>7. CASE SendVideo
    BY <1>7, PopType DEF SendVideo, VideoTurn, TypeOK, histVars
<1>8. CASE Exhaust
    <2>1. lastCall' \in {"none", "exhausted", "recovered"} /\ repeated' \in BOOLEAN /\ reported' \in BOOLEAN
        BY <1>8 DEF Exhaust, TellExhausted, Notify, TypeOK
    <2>. QED
        BY <1>0, <1>8, <2>1 DEF Exhaust, TypeOK
<1>9. CASE SendStrict
    BY <1>9, PopType DEF SendStrict, StrictTurn, TypeOK, histVars
<1>10. CASE HoldStrict
    BY <1>10, PopType DEF HoldStrict, StrictTurn, TypeOK, histVars
<1>11. CASE QueueDone
    BY <1>11 DEF QueueDone, TypeOK, histVars
<1>12. CASE EndBeat
    BY <1>12 DEF EndBeat, Notify, TypeOK
<1>13. CASE LiteBeat
    <2>1. token' \in Int
        BY <1>13, RefilledFacts DEF LiteBeat
    <2>2. drain' \in Nat /\ pushed' \in 0..PerBeat
        BY <1>0, <1>13 DEF LiteBeat
    <2>3. audio' \in BOOLEAN
        BY <1>13 DEF LiteBeat
    <2>. QED
        BY <1>13, <2>1, <2>2, <2>3 DEF LiteBeat, TypeOK, histVars
<1>14. CASE LiteTake
    <2>1. Head(queue) \in Channels /\ Tail(queue) \in Seq(Channels) /\ Len(Tail(queue)) <= QueueCap
        BY <1>0, <1>14 DEF LiteTake
    <2>. QED
        BY <1>14, <2>1 DEF LiteTake, TypeOK, histVars
<1>15. CASE LiteWait
    BY <1>15 DEF LiteWait, LiteLimited, TypeOK, histVars
<1>16. CASE LiteDone
    BY <1>16 DEF LiteDone, TypeOK, histVars
<1>17. ASSUME NEW idle \in BOOLEAN, LiteSend(idle) PROVE TypeOK'
    BY <1>17 DEF LiteSend, TypeOK, histVars
<1>18. CASE UNCHANGED vars
    BY <1>18 DEF vars, histVars, TypeOK
<1>. QED
    BY <1>1, <1>2, <1>3, <1>4, <1>5, <1>6, <1>7, <1>8, <1>9, <1>10, <1>11, <1>12, <1>13,
       <1>14, <1>15, <1>16, <1>17, <1>18 DEF Next, Sender

\* Every variable keeps its type, and the outbound queue its limit (send_raw).
THEOREM TypeCorrect == Spec => []TypeOK
<1>1. Init => TypeOK
    <2>1. <<>> \in Seq(Channels) /\ Len(<<>>) = 0 /\ 0 <= QueueCap /\ 0 \in 0..PerBeat /\ 0 \in 0..MaxEvacs
        BY PacerAssumption
    <2>2. ASSUME Init PROVE TypeOK
        <3>1. queue \in Seq(Channels) /\ Len(queue) <= QueueCap
            BY <2>1, <2>2 DEF Init
        <3>2. lite \in BOOLEAN /\ loanDrain \in BOOLEAN /\ reported \in BOOLEAN /\ evacReset \in BOOLEAN
            BY <2>2 DEF Init
        <3>3. audio \in BOOLEAN /\ limited \in BOOLEAN /\ repeated \in BOOLEAN
            BY <2>2 DEF Init
        <3>4. token \in Int /\ rate \in Rates /\ drain \in Nat /\ pushed \in 0..PerBeat /\ evacs \in 0..MaxEvacs
            BY <2>1, <2>2 DEF Init
        <3>5. /\ pending \in Channels \cup {"none"} /\ pc \in {"top", "send", "end"}
              /\ lastCall \in {"none", "exhausted", "recovered"}
            BY <2>2 DEF Init
        <3>. QED
            BY <3>1, <3>2, <3>3, <3>4, <3>5 DEF TypeOK
    <2>. QED
        BY <2>2
<1>2. TypeOK /\ [Next]_vars => TypeOK'
    BY TypeStep
<1>. QED
    BY <1>1, <1>2, PTL DEF Spec

-----------------------------------------------------------------------------
\* A loan is never negative.
LEMMA LoanNat == \A r \in Rates : r * LoanBeats \in Nat
<1>1. \A m, n \in Nat : m * n \in Nat
    OBVIOUS
<1>. QED
    BY <1>1, PacerAssumption

\* Whatever refills or repays the bucket keeps the debt bounded.
LEMMA DebtKept ==
    ASSUME TypeOK, DebtBounded, UNCHANGED lite, token' \in Int,
           lite \/ token' >= token \/ token' >= 0
    PROVE  DebtBounded'
<1>. SUFFICES ASSUME ~lite PROVE \E r \in Rates : token' >= -(r * LoanBeats)
    BY DEF DebtBounded
<1>1. PICK r \in Rates : token >= -(r * LoanBeats)
    BY DEF DebtBounded
<1>2. r * LoanBeats \in Nat /\ token \in Int
    BY LoanNat DEF TypeOK
<1>3. token' >= -(r * LoanBeats)
    BY <1>1, <1>2
<1>. QED
    BY <1>3

LEMMA DebtStep == ASSUME TypeOK, DebtBounded, [Next]_vars PROVE DebtBounded'
<1>. USE PacerAssumption
<1>1. token \in Int /\ lite \in BOOLEAN
    BY DEF TypeOK
<1>2. CASE SendVideo
    <2>1. token' = token - Cost /\ token' >= -(rate * LoanBeats) /\ rate \in Rates
        BY <1>2 DEF SendVideo, Affordable, LoanLimit, TypeOK
    <2>. QED
        BY <2>1 DEF DebtBounded
<1>3. CASE SendStrict
    <2>1. token' \in Int /\ token' >= 0 /\ UNCHANGED lite
        BY <1>1, <1>3 DEF SendStrict
    <2>. QED
        BY <2>1, DebtKept
<1>4. CASE Settle
    <2>1. token' \in Int /\ (token' >= token \/ token' >= 0) /\ UNCHANGED lite
        BY <1>4, RefilledFacts DEF Settle
    <2>. QED
        BY <2>1, DebtKept
<1>5. CASE LiteBeat \/ \E idle \in BOOLEAN : LiteSend(idle)
    BY <1>5 DEF LiteBeat, LiteSend, DebtBounded
<1>6. CASE UNCHANGED <<lite, token>>
    BY <1>6 DEF DebtBounded
<1>. QED
    BY <1>2, <1>3, <1>4, <1>5, <1>6
    DEF Next, Sender, vars, SendRaw, SendRawAudio, SetRate, FastEvac, DropVideo, Exhaust, HoldStrict,
        QueueDone, EndBeat, LiteTake, LiteWait, LiteDone

\* The debt of sender_loop stays within the largest loan any of the rates
\* grants, however set_rate moves the rate between two bursts sent on credit.
THEOREM DebtWithinLoan == Spec => []DebtBounded
<1>1. Init => DebtBounded
    <2>. SUFFICES ASSUME Init PROVE \E r \in Rates : token >= -(r * LoanBeats)
        BY DEF DebtBounded
    <2>1. token = 0 /\ rate \in Rates
        BY DEF Init
    <2>. QED
        BY <2>1, LoanNat
<1>2. TypeOK /\ DebtBounded /\ [Next]_vars => DebtBounded'
    BY DebtStep
<1>. QED
    BY <1>1, <1>2, TypeCorrect, PTL DEF Spec

-----------------------------------------------------------------------------
\* The loan drain and its mark go together, and unless an evacuation has reset
\* the debt, the last call tells which of the two states video is in.
LoanInv ==
    /\ loanDrain = reported
    /\ loanDrain => lastCall = "exhausted"
    /\ evacs = 0 => /\ ~evacReset /\ ~repeated
                    /\ lastCall = "exhausted" => loanDrain

LEMMA LoanStep == ASSUME TypeOK, LoanInv, [Next]_vars PROVE LoanInv'
<1>. USE DEF LoanInv
<1>1. evacs \in Nat
    BY PacerAssumption DEF TypeOK
<1>2. CASE Settle
    BY <1>2 DEF Settle, histVars
<1>3. CASE Exhaust
    BY <1>3 DEF Exhaust, TellExhausted, Notify, VideoTurn
<1>4. CASE EndBeat
    <2>1. CASE Recovering
        <3>1. lastCall = "exhausted" /\ lastCall' = "recovered" /\ repeated' = (repeated \/ lastCall = "recovered")
              /\ ~loanDrain' /\ ~reported' /\ UNCHANGED <<evacs, evacReset>>
            BY <1>4, <2>1 DEF EndBeat, Recovering, Notify
        <3>2. evacs = 0 => ~repeated'
            BY <3>1
        <3>3. loanDrain' = reported'
            BY <1>4, <2>1 DEF EndBeat
        <3>. QED
            BY <3>1, <3>2, <3>3
    <2>2. CASE ~Recovering
        BY <1>4, <2>2 DEF EndBeat
    <2>. QED
        BY <2>1, <2>2
<1>5. CASE FastEvac
    BY <1>1, <1>5 DEF FastEvac, histVars
<1>6. CASE UNCHANGED <<loanDrain, reported, lastCall, evacs, evacReset, repeated>>
    BY <1>6
<1>. QED
    BY <1>2, <1>3, <1>4, <1>5, <1>6
    DEF Next, Sender, vars, histVars, SendRaw, SendRawAudio, SetRate, DropVideo, SendVideo, SendStrict,
        HoldStrict, QueueDone, LiteBeat, LiteTake, LiteWait, LiteDone, LiteSend

\* What notify_loan_exhausted tells the application is true: one call for each
\* exhaustion and each recovery while no evacuation resets the debt, and never a
\* drain that was not announced.
THEOREM LoanToldTruly == Spec => []CallsTruthful
<1>1. Init => LoanInv
    BY DEF Init, LoanInv
<1>2. TypeOK /\ LoanInv /\ [Next]_vars => LoanInv'
    BY LoanStep
<1>3. LoanInv => CallsTruthful
    BY DEF LoanInv, CallsTruthful, CallsAlternate, DrainWasAnnounced
<1>. QED
    BY <1>1, <1>2, <1>3, TypeCorrect, PTL DEF Spec

-----------------------------------------------------------------------------
(* SendPipeline: its operators *)

\* A set of numbers that is not empty has a least one.
LEMMA LeastNumber ==
    ASSUME NEW S \in SUBSET Nat, S # {}
    PROVE  \E x \in S : \A y \in S : x <= y
<1>1. PICK x \in S : \A y \in S : ~(<<y, x>> \in OpToRel(<, Nat))
    BY NatLessThanWellFounded, WFMin
<1>2. \A y \in S : ~(y < x)
    BY <1>1 DEF OpToRel
<1>. QED
    BY <1>2

LEMMA PrioritiesFinite == IsFiniteSet(Priorities)
<1>1. IntMin \in Int /\ IntMax \in Int
    BY SMT DEF IntMin, IntMax
<1>2. IsFiniteSet(Int32)
    BY <1>1, FS_Interval DEF Int32
<1>. QED
    BY <1>2, FS_Subset, PipelineAssumption

\* <<p, i>> is a position of q if q[p] has an i-th message.
LEMMA PositionsAre ==
    ASSUME NEW q, NEW p, NEW i
    PROVE  <<p, i>> \in Positions(q) <=> p \in Priorities /\ i \in 1..Len(q[p])
BY DEF Positions

LEMMA PositionsFinite ==
    ASSUME NEW q \in [Priorities -> Seq(Message)]
    PROVE  IsFiniteSet(Positions(q)) /\ Size(q) \in Nat
<1>. DEFINE row(p) == {p} \X (1..Len(q[p]))
            rows   == {row(p) : p \in Priorities}
<1>1. \A p \in Priorities : IsFiniteSet(row(p))
    <2>. SUFFICES ASSUME NEW p \in Priorities PROVE IsFiniteSet(row(p))
        OBVIOUS
    <2>1. Len(q[p]) \in Nat
        OBVIOUS
    <2>2. IsFiniteSet(1..Len(q[p]))
        BY <2>1, FS_Interval
    <2>3. IsFiniteSet({p})
        BY FS_Singleton
    <2>. QED
        BY <2>2, <2>3, FS_Product
<1>2. IsFiniteSet(rows)
    <2>1. [p \in Priorities |-> row(p)] \in Surjection(Priorities, rows)
        BY DEF Surjection
    <2>. QED
        BY <2>1, PrioritiesFinite, FS_Surjection
<1>3. \A R \in rows : IsFiniteSet(R)
    BY <1>1
<1>4. IsFiniteSet(Positions(q))
    BY <1>2, <1>3, FS_UNION DEF Positions
<1>. QED
    BY <1>4, FS_CardinalityType DEF Size

\* emplace_back makes a queue longer by one.
LEMMA SizeOfAppend ==
    ASSUME NEW q \in [Priorities -> Seq(Message)], NEW r \in [Priorities -> Seq(Message)],
           NEW p \in Priorities, NEW m \in Message,
           r[p] = Append(q[p], m), \A s \in Priorities \ {p} : r[s] = q[s]
    PROVE  Size(r) = Size(q) + 1
<1>1. Len(q[p]) \in Nat /\ Len(r[p]) = Len(q[p]) + 1
    OBVIOUS
<1>2. Positions(r) = Positions(q) \cup {<<p, Len(q[p]) + 1>>}
    BY <1>1 DEF Positions
<1>3. <<p, Len(q[p]) + 1>> \notin Positions(q)
    BY <1>1, PositionsAre
<1>4. IsFiniteSet(Positions(q))
    BY PositionsFinite
<1>5. Cardinality(Positions(q) \cup {<<p, Len(q[p]) + 1>>}) = Cardinality(Positions(q)) + 1
    BY <1>3, <1>4, FS_AddElement
<1>. QED
    BY <1>2, <1>5 DEF Size

LEMMA SizeOfPart ==
    ASSUME NEW q \in [Priorities -> Seq(Message)], NEW r \in [Priorities -> Seq(Message)],
           \A p \in Priorities : r[p] = q[p] \/ r[p] = <<>>
    PROVE  Size(r) <= Size(q)
<1>1. Positions(r) \subseteq Positions(q)
    BY DEF Positions
<1>. QED
    BY <1>1, PositionsFinite, FS_Subset DEF Size

LEMMA SizeOfEmpty == Empty \in [Priorities -> Seq(Message)] /\ Size(Empty) = 0
<1>1. Empty \in [Priorities -> Seq(Message)] /\ \A p \in Priorities : Len(Empty[p]) = 0
    BY DEF Empty
<1>2. Positions(Empty) = {}
    BY <1>1 DEF Positions
<1>. QED
    BY <1>1, <1>2, FS_EmptySet DEF Size

LEMMA HeadAndTail ==
    ASSUME NEW s \in Seq(Message), s # <<>>
    PROVE  /\ Head(s) \in Message /\ Head(s) = s[1] /\ Tail(s) \in Seq(Message)
           /\ Len(s) \in Nat /\ Len(s) >= 1 /\ Len(Tail(s)) = Len(s) - 1
           /\ \A i \in 1..Len(Tail(s)) : Tail(s)[i] = s[i + 1] /\ i + 1 \in 1..Len(s)
OBVIOUS

LEMMA AtTheEnd ==
    ASSUME NEW s \in Seq(Message), NEW m \in Message
    PROVE  /\ Append(s, m) \in Seq(Message) /\ Len(Append(s, m)) = Len(s) + 1 /\ Len(s) \in Nat
           /\ \A i \in 1..Len(s) : Append(s, m)[i] = s[i]
           /\ Append(s, m)[Len(s) + 1] = m
OBVIOUS

LEMMA Single ==
    ASSUME NEW m \in Message
    PROVE  <<m>> \in Seq(Message) /\ Len(<<m>>) = 1 /\ Len(<<m>>) <= 1 /\ <<m>>[1] = m
OBVIOUS

\* What try_push and the requeueing change of a message is not its id.
LEMMA Altered ==
    ASSUME NEW m \in Message
    PROVE  /\ [m EXCEPT !.whole = FALSE] \in Message /\ [m EXCEPT !.whole = FALSE].id = m.id
           /\ [m EXCEPT !.pri = 0] \in Message /\ [m EXCEPT !.pri = 0].id = m.id
           /\ [m EXCEPT !.pri = 0].pri = 0
BY PipelineAssumption DEF Message

\* The reversed walk over the map: there is a highest priority with messages.
LEMMA TopFacts ==
    ASSUME local \in [Priorities -> Seq(Message)], local # Empty
    PROVE  /\ Top \in Priorities /\ local[Top] # <<>>
           /\ \A q \in Priorities : q > Top => local[q] = <<>>
<1>. DEFINE S == {IntMax - p : p \in {r \in Priorities : local[r] # <<>>}}
<1>1. IntMin \in Int /\ IntMax \in Int
    BY SMT DEF IntMin, IntMax
<1>2. \A p \in Priorities : p \in Int /\ IntMax - p \in Nat
    BY <1>1, PipelineAssumption DEF Int32
<1>3. S \in SUBSET Nat
    BY <1>2
<1>4. S # {}
    BY DEF Empty
<1>5. PICK x \in S : \A y \in S : x <= y
    BY <1>3, <1>4, LeastNumber
<1>6. PICK p \in Priorities : local[p] # <<>> /\ x = IntMax - p
    OBVIOUS
<1>7. ASSUME NEW q \in Priorities, q > p PROVE local[q] = <<>>
    <2>1. SUFFICES ASSUME local[q] # <<>> PROVE FALSE
        OBVIOUS
    <2>2. IntMax - q \in S
        BY <2>1
    <2>3. x <= IntMax - q
        BY <2>2, <1>5
    <2>. QED
        BY <2>3, <1>1, <1>2, <1>6, <1>7
<1>8. \E r \in Priorities : local[r] # <<>> /\ \A q \in Priorities : q > r => local[q] = <<>>
    BY <1>6, <1>7
<1>. QED
    BY <1>8 DEF Top

-----------------------------------------------------------------------------
(* Types and limits *)

LEMMA RequeueType ==
    ASSUME PipelineTypeOK, NEW m \in Message, Requeue(m)
    PROVE  /\ sendQ' \in [Priorities -> Seq(Message)] /\ Size(sendQ') <= QueueLimit
           /\ dropped' \subseteq Ids /\ requeued' \subseteq Ids
<1>1. m.pri \in Priorities /\ m.id \in Ids
    BY DEF Message
<1>2. CASE Room
    <2>1. sendQ' = [sendQ EXCEPT ![m.pri] = Append(sendQ[m.pri], m)]
        BY <1>2 DEF Requeue
    <2>. sendQ \in [Priorities -> Seq(Message)]
        BY DEF PipelineTypeOK
    <2>2. /\ sendQ' \in [Priorities -> Seq(Message)] /\ sendQ'[m.pri] = Append(sendQ[m.pri], m)
          /\ \A s \in Priorities \ {m.pri} : sendQ'[s] = sendQ[s]
        BY <1>1, <2>1
    <2>5. Size(sendQ') = Size(sendQ) + 1
        BY <1>1, <2>2, SizeOfAppend
    <2>3. Size(sendQ) \in Nat /\ Len(encQ) \in Nat
        BY PositionsFinite DEF PipelineTypeOK
    <2>4. Size(sendQ') <= QueueLimit
        BY <1>2, <2>3, <2>5, PipelineAssumption DEF Room
    <2>. QED
        BY <1>1, <1>2, <2>2, <2>4 DEF Requeue, PutBack, PipelineTypeOK
<1>3. CASE ~Room
    BY <1>1, <1>3 DEF Requeue, Drop, PipelineTypeOK
<1>. QED
    BY <1>2, <1>3

\* Room is asked for by the thread that then fills the queue, so the limits hold.
LEMMA PipelineTypeStep == ASSUME PipelineTypeOK, [PipelineNext]_pipelineVars PROVE PipelineTypeOK'
<1>. USE PipelineAssumption
<1>0. /\ sendQ \in [Priorities -> Seq(Message)] /\ local \in [Priorities -> Seq(Message)]
      /\ encQ \in Seq(Message) /\ Len(encQ) \in Nat /\ Size(sendQ) \in Nat
    BY PositionsFinite DEF PipelineTypeOK
<1>1. ASSUME NEW p \in Priorities, NEW c \in Media, SendMessage(p, c) PROVE PipelineTypeOK'
    <2>. DEFINE m == [id |-> accepted + 1, pri |-> p, ch |-> c, whole |-> TRUE]
    <2>1. accepted' \in 0..MaxMsgs /\ accepted + 1 \in Ids
        BY <1>1 DEF SendMessage, PipelineTypeOK, Ids
    <2>2. m \in Message
        BY <2>1 DEF Message
    <2>3. sendQ' = [sendQ EXCEPT ![p] = Append(sendQ[p], m)]
        BY <1>1 DEF SendMessage
    <2>. HIDE DEF m
    <2>4. /\ sendQ' \in [Priorities -> Seq(Message)] /\ sendQ'[p] = Append(sendQ[p], m)
          /\ \A s \in Priorities \ {p} : sendQ'[s] = sendQ[s]
        BY <1>0, <2>2, <2>3
    <2>5. Size(sendQ') = Size(sendQ) + 1
        BY <1>0, <2>2, <2>4, SizeOfAppend
    <2>6. Size(sendQ') <= QueueLimit
        BY <1>0, <1>1, <2>5 DEF SendMessage, Room
    <2>. QED
        BY <1>1, <2>1, <2>4, <2>6
        DEF SendMessage, PipelineTypeOK, envVars, clearVars, reactorVars
<1>2. CASE DrainChannel
    BY <1>2 DEF DrainChannel, PipelineTypeOK, clearVars, reactorVars
<1>3. CASE DrainOver
    BY <1>3 DEF DrainOver, PipelineTypeOK, clearVars, reactorVars
<1>4. CASE Flap
    BY <1>4 DEF Flap, PipelineTypeOK, clearVars, reactorVars
<1>5. CASE ClearOutbound
    <2>1. /\ sendQ' \in [Priorities -> Seq(Message)]
          /\ \A p \in Priorities : sendQ'[p] = sendQ[p] \/ sendQ'[p] = <<>>
        BY <1>0, <1>5 DEF ClearOutbound
    <2>2. Size(sendQ') <= Size(sendQ) /\ Size(sendQ') \in Nat
        BY <1>0, <2>1, SizeOfPart, PositionsFinite
    <2>3. Size(sendQ') <= QueueLimit
        BY <1>0, <2>2 DEF PipelineTypeOK
    <2>4. \A p \in Priorities : \A i \in 1..Len(sendQ[p]) : sendQ[p][i].id \in Ids
        <3>1. \A p \in Priorities : \A i \in 1..Len(sendQ[p]) : sendQ[p][i] \in Message
            BY <1>0
        <3>. QED
            BY <3>1 DEF Message
    <2>5. dropped' \subseteq Ids
        BY <1>5, <2>4 DEF ClearOutbound, PipelineTypeOK, IdsOf, Elements
    <2>. QED
        <3>1. clears' \in 0..MaxClears /\ clearing' \in {"no", "poll", "push"}
            BY <1>5 DEF ClearOutbound, PipelineTypeOK
        <3>2. /\ envVars' = envVars /\ reactorVars' = reactorVars
              /\ kept' = kept /\ encQ' = encQ /\ accepted' = accepted /\ encoded' = encoded
              /\ requeued' = requeued
            BY <1>5 DEF ClearOutbound
        <3>. QED
            BY <2>1, <2>3, <2>5, <3>1, <3>2 DEF PipelineTypeOK, envVars, reactorVars
<1>6. CASE ClearPoll
    <2>1. Head(encQ) \in Message /\ Tail(encQ) \in Seq(Message) /\ Len(Tail(encQ)) <= EncodeCap
        BY <1>0, <1>6, HeadAndTail DEF ClearPoll, PipelineTypeOK
    <2>2. Head(encQ).id \in Ids
        BY <2>1 DEF Message
    <2>3. kept' \in Seq(Message)
        <3>1. kept \in Seq(Message)
            BY DEF PipelineTypeOK
        <3>2. Append(kept, Head(encQ)) \in Seq(Message)
            BY <2>1, <3>1, AtTheEnd
        <3>. QED
            BY <1>6, <3>1, <3>2 DEF ClearPoll
    <2>4. dropped' \subseteq Ids /\ requeued' \subseteq Ids
        BY <1>6, <2>2 DEF ClearPoll, Drop, PipelineTypeOK
    <2>. QED
        BY <1>6, <2>1, <2>2, <2>3, <2>4 DEF ClearPoll, PipelineTypeOK, envVars, reactorVars
<1>7. CASE ClearEmptied
    BY <1>7 DEF ClearEmptied, PipelineTypeOK, envVars, reactorVars
<1>8. CASE ClearPush
    <2>1. Head(kept) \in Message /\ Tail(kept) \in Seq(Message)
        BY <1>8, HeadAndTail DEF ClearPush, PipelineTypeOK
    <2>2. Head(kept).id \in Ids
        BY <2>1 DEF Message
    <2>3. encQ' \in Seq(Message) /\ Len(encQ') <= EncodeCap
        <3>1. encQ' = encQ \/ (Len(encQ) < EncodeCap /\ encQ' = Append(encQ, Head(kept)))
            BY <1>8 DEF ClearPush, Fits
        <3>2. Append(encQ, Head(kept)) \in Seq(Message) /\ Len(Append(encQ, Head(kept))) = Len(encQ) + 1
            BY <1>0, <2>1, AtTheEnd
        <3>3. Len(encQ) <= EncodeCap
            BY DEF PipelineTypeOK
        <3>4. CASE encQ' = encQ
            BY <1>0, <3>3, <3>4
        <3>5. CASE Len(encQ) < EncodeCap /\ encQ' = Append(encQ, Head(kept))
            <4>1. EncodeCap \in Nat
                OBVIOUS
            <4>2. Len(encQ) + 1 <= EncodeCap
                BY <1>0, <3>5, <4>1
            <4>. QED
                BY <3>2, <3>5, <4>2, Zenon
        <3>. QED
            BY <3>1, <3>4, <3>5
    <2>4. dropped' \subseteq Ids /\ requeued' \subseteq Ids
        BY <1>8, <2>2 DEF ClearPush, PutBack, Drop, PipelineTypeOK
    <2>. QED
        BY <1>8, <2>1, <2>3, <2>4 DEF ClearPush, PipelineTypeOK, envVars, reactorVars
<1>9. CASE SwapQueue
    <2>1. sendQ' = Empty /\ local' = sendQ /\ busy' = TRUE
        BY <1>9 DEF SwapQueue, Swapped
    <2>2. UNCHANGED <<envVars, clearVars, refused, encQ, accepted, encoded, dropped, requeued>>
        BY <1>9 DEF SwapQueue
    <2>3. sendQ' \in [Priorities -> Seq(Message)] /\ Size(sendQ') <= QueueLimit
        BY <2>1, SizeOfEmpty
    <2>. QED
        BY <1>0, <2>1, <2>2, <2>3 DEF PipelineTypeOK, envVars, clearVars
<1>10. CASE ProcessOne
    <2>. DEFINE m == Head(local[Top])
    <2>1. Top \in Priorities /\ local[Top] # <<>>
        BY <1>0, <1>10, TopFacts DEF ProcessOne
    <2>2. m \in Message /\ Tail(local[Top]) \in Seq(Message) /\ m.id \in Ids
        BY <1>0, <2>1, HeadAndTail DEF Message
    <2>3. local' \in [Priorities -> Seq(Message)]
        BY <1>0, <1>10, <2>1, <2>2 DEF ProcessOne
    <2>4. /\ sendQ' \in [Priorities -> Seq(Message)] /\ Size(sendQ') <= QueueLimit
          /\ dropped' \subseteq Ids /\ requeued' \subseteq Ids
        <3>1. CASE Drop(m) /\ UNCHANGED <<sendQ, encQ, refused>>
            BY <2>2, <3>1 DEF Drop, PipelineTypeOK
        <3>2. CASE Requeue(m)
            BY <2>2, <3>2, RequeueType
        <3>3. CASE UNCHANGED <<sendQ, dropped, requeued>>
            BY <3>3 DEF PipelineTypeOK
        <3>. QED
            BY <1>10, <3>1, <3>2, <3>3 DEF ProcessOne
    <2>5. encQ' \in Seq(Message) /\ Len(encQ') <= EncodeCap
        <3>1. encQ' = encQ \/ (Len(encQ) < EncodeCap /\ encQ' = Append(encQ, m))
            BY <1>10 DEF ProcessOne, Fits
        <3>2. Append(encQ, m) \in Seq(Message) /\ Len(Append(encQ, m)) = Len(encQ) + 1
            BY <1>0, <2>2, AtTheEnd
        <3>3. Len(encQ) <= EncodeCap
            BY DEF PipelineTypeOK
        <3>4. CASE encQ' = encQ
            BY <1>0, <3>3, <3>4
        <3>5. CASE Len(encQ) < EncodeCap /\ encQ' = Append(encQ, m)
            <4>1. EncodeCap \in Nat
                OBVIOUS
            <4>2. Len(encQ) + 1 <= EncodeCap
                BY <1>0, <3>5, <4>1
            <4>. QED
                BY <3>2, <3>5, <4>2, Zenon
        <3>. QED
            BY <3>1, <3>4, <3>5
    <2>6. refused' \in Seq(Message) /\ Len(refused') <= 1
        <3>1. refused = <<>> /\ (refused' = refused \/ refused' = <<[m EXCEPT !.whole = FALSE]>>)
            BY <1>10 DEF ProcessOne, Requeue
        <3>2. [m EXCEPT !.whole = FALSE] \in Message
            BY <2>2, Altered
        <3>3. <<[m EXCEPT !.whole = FALSE]>> \in Seq(Message) /\ Len(<<[m EXCEPT !.whole = FALSE]>>) <= 1
            BY <3>2, Single
        <3>4. <<>> \in Seq(Message) /\ Len(<<>>) <= 1
            OBVIOUS
        <3>. QED
            BY <3>1, <3>3, <3>4, Zenon
    <2>. QED
        BY <1>10, <2>3, <2>4, <2>5, <2>6 DEF ProcessOne, PipelineTypeOK, envVars, clearVars
<1>11. CASE ProcessRefused
    <2>1. Head(refused) \in Message
        BY <1>11, HeadAndTail DEF ProcessRefused, PipelineTypeOK
    <2>2. /\ sendQ' \in [Priorities -> Seq(Message)] /\ Size(sendQ') <= QueueLimit
          /\ dropped' \subseteq Ids /\ requeued' \subseteq Ids
        BY <1>11, <2>1, Altered, RequeueType DEF ProcessRefused
    <2>. QED
        <3>1. refused' \in Seq(Message) /\ Len(refused') <= 1
            BY <1>11 DEF ProcessRefused
        <3>2. UNCHANGED <<envVars, clearVars, local, busy, encQ, accepted, encoded>>
            BY <1>11 DEF ProcessRefused
        <3>. QED
            BY <2>2, <3>1, <3>2 DEF PipelineTypeOK, envVars, clearVars
<1>12. CASE ProcessDone
    BY <1>12 DEF ProcessDone, PipelineTypeOK, envVars, clearVars
<1>13. CASE Encode
    <2>1. Head(encQ) \in Message /\ Tail(encQ) \in Seq(Message) /\ Len(Tail(encQ)) <= EncodeCap
        BY <1>0, <1>13, HeadAndTail DEF Encode, PipelineTypeOK
    <2>2. Head(encQ).id \in Ids
        BY <2>1 DEF Message
    <2>3. encoded' \in Seq(Message)
        <3>1. encoded \in Seq(Message)
            BY DEF PipelineTypeOK
        <3>2. Append(encoded, Head(encQ)) \in Seq(Message)
            BY <2>1, <3>1, AtTheEnd
        <3>. QED
            BY <1>13, <3>1, <3>2 DEF Encode
    <2>. QED
        BY <1>13, <2>1, <2>2, <2>3 DEF Encode, Drop, PipelineTypeOK, envVars, clearVars, reactorVars
<1>14. CASE UNCHANGED pipelineVars
    BY <1>14 DEF pipelineVars, envVars, clearVars, reactorVars, PipelineTypeOK
<1>. QED
    BY <1>1, <1>2, <1>3, <1>4, <1>5, <1>6, <1>7, <1>8, <1>9, <1>10, <1>11, <1>12, <1>13, <1>14
    DEF PipelineNext, Clearer, Reactor

LEMMA PipelineTypeStarts == PipelineInit => PipelineTypeOK
BY PipelineAssumption, SizeOfEmpty DEF PipelineInit, PipelineTypeOK

\* The queues keep their types and their limits.
THEOREM PipelineTypeCorrect == PipelineSpec => []PipelineTypeOK
BY PipelineTypeStarts, PipelineTypeStep, PTL DEF PipelineSpec

-----------------------------------------------------------------------------
(* Every message in one place *)

\* Where an accepted message can be: one line for each queue.
Places == ({"send", "local"} \X Priorities)
            \cup {<<"refused", 0>>, <<"encode", 0>>, <<"kept", 0>>, <<"encoded", 0>>}

LineOf(sq, lq, rf, eq, kp, en) ==
    [w \in Places |->
        CASE w[1] = "send"    -> sq[w[2]]
          [] w[1] = "local"   -> lq[w[2]]
          [] w[1] = "refused" -> rf
          [] w[1] = "encode"  -> eq
          [] w[1] = "kept"    -> kp
          [] w[1] = "encoded" -> en]

Line == LineOf(sendQ, local, refused, encQ, kept, encoded)

\* No id is in the lines f twice, and those in them and in D are the first n.
Once(f, D, n) ==
    /\ \A v, w \in Places : \A i \in 1..Len(f[v]), j \in 1..Len(f[w]) :
            f[v][i].id = f[w][j].id => v = w /\ i = j
    /\ \A w \in Places : \A i \in 1..Len(f[w]) : f[w][i].id \in (1..n) \ D
    /\ D \subseteq 1..n
    /\ \A k \in (1..n) \ D : \E w \in Places : \E i \in 1..Len(f[w]) : f[w][i].id = k

Lines == [Places -> Seq(Message)]

LEMMA OnceSame ==
    ASSUME NEW f, NEW D, NEW n, Once(f, D, n), NEW v \in Places, NEW w \in Places,
           NEW i \in 1..Len(f[v]), NEW j \in 1..Len(f[w]), f[v][i].id = f[w][j].id
    PROVE  v = w /\ i = j
BY DEF Once

LEMMA OnceId ==
    ASSUME NEW f, NEW D, NEW n, Once(f, D, n), NEW w \in Places, NEW i \in 1..Len(f[w])
    PROVE  f[w][i].id \in (1..n) \ D
BY DEF Once

\* The first message of v goes to the end of w.
LEMMA MoveOnce ==
    ASSUME NEW f \in Lines, NEW g \in Lines, NEW D, NEW n \in Nat, Once(f, D, n),
           NEW v \in Places, NEW w \in Places, v # w, f[v] # <<>>,
           NEW m \in Message, m.id = Head(f[v]).id,
           g[v] = Tail(f[v]), g[w] = Append(f[w], m), \A u \in Places \ {v, w} : g[u] = f[u]
    PROVE  Once(g, D, n)
<1>1. f[v] \in Seq(Message) /\ f[w] \in Seq(Message)
    BY DEF Lines
<1>2. /\ Len(f[v]) \in Nat /\ Len(f[v]) >= 1 /\ Len(g[v]) = Len(f[v]) - 1
      /\ f[v][1].id = m.id
      /\ \A i \in 1..Len(g[v]) : g[v][i] = f[v][i + 1] /\ i + 1 \in 1..Len(f[v])
    BY <1>1, HeadAndTail
<1>3. /\ Len(f[w]) \in Nat /\ Len(g[w]) = Len(f[w]) + 1
      /\ \A i \in 1..Len(f[w]) : g[w][i] = f[w][i]
      /\ g[w][Len(f[w]) + 1] = m
    BY <1>1, AtTheEnd
<1>. DEFINE was(u, i) == IF u = v \/ (u = w /\ i = Len(f[w]) + 1) THEN v ELSE u
            at(u, i)  == IF u = v THEN i + 1 ELSE IF u = w /\ i = Len(f[w]) + 1 THEN 1 ELSE i
<1>4. ASSUME NEW u \in Places, NEW i \in 1..Len(g[u])
      PROVE  was(u, i) \in Places /\ at(u, i) \in 1..Len(f[was(u, i)])
             /\ g[u][i].id = f[was(u, i)][at(u, i)].id
    <2>1. CASE u = v
        BY <1>2, <1>4, <2>1
    <2>2. CASE u = w /\ i = Len(f[w]) + 1
        BY <1>2, <1>3, <1>4, <2>2
    <2>3. CASE u = w /\ i # Len(f[w]) + 1
        BY <1>3, <1>4, <2>3
    <2>4. CASE u # v /\ u # w
        BY <1>4, <2>4
    <2>. QED
        BY <2>1, <2>2, <2>3, <2>4
<1>5. ASSUME NEW u \in Places, NEW x \in Places, NEW i \in 1..Len(g[u]), NEW j \in 1..Len(g[x]),
             was(u, i) = was(x, j), at(u, i) = at(x, j)
      PROVE  u = x /\ i = j
    BY <1>2, <1>3, <1>5
<1>6. ASSUME NEW u \in Places, NEW x \in Places, NEW i \in 1..Len(g[u]), NEW j \in 1..Len(g[x]),
             g[u][i].id = g[x][j].id
      PROVE  u = x /\ i = j
    <2>. HIDE DEF was, at
    <2>1. PICK a, b : a = was(u, i) /\ b = at(u, i)
        OBVIOUS
    <2>2. PICK c, d : c = was(x, j) /\ d = at(x, j)
        OBVIOUS
    <2>3. a \in Places /\ b \in 1..Len(f[a]) /\ g[u][i].id = f[a][b].id
        BY <1>4, <2>1
    <2>4. c \in Places /\ d \in 1..Len(f[c]) /\ g[x][j].id = f[c][d].id
        BY <1>4, <2>2
    <2>5. a = c /\ b = d
        <3>1. f[a][b].id = f[c][d].id
            BY <1>6, <2>3, <2>4
        <3>. QED
            BY <2>3, <2>4, <3>1, OnceSame
    <2>6. was(u, i) = was(x, j) /\ at(u, i) = at(x, j)
        BY <2>1, <2>2, <2>5
    <2>. QED
        BY <1>5, <2>6
<1>7. ASSUME NEW u \in Places, NEW i \in 1..Len(g[u]) PROVE g[u][i].id \in (1..n) \ D
    <2>. HIDE DEF was, at
    <2>1. PICK a, b : a = was(u, i) /\ b = at(u, i)
        OBVIOUS
    <2>2. a \in Places /\ b \in 1..Len(f[a]) /\ g[u][i].id = f[a][b].id
        BY <1>4, <2>1
    <2>. QED
        BY <2>2, OnceId
<1>8. ASSUME NEW k \in (1..n) \ D PROVE \E u \in Places : \E i \in 1..Len(g[u]) : g[u][i].id = k
    <2>0. PICK u \in Places : \E i \in 1..Len(f[u]) : f[u][i].id = k
        BY DEF Once
    <2>1. PICK i \in 1..Len(f[u]) : f[u][i].id = k
        BY <2>0
    <2>2. CASE u = v /\ i = 1
        <3>1. Len(f[w]) + 1 \in 1..Len(g[w]) /\ g[w][Len(f[w]) + 1].id = k
            BY <1>2, <1>3, <2>1, <2>2
        <3>. QED
            BY <3>1
    <2>3. CASE u = v /\ i # 1
        <3>1. i - 1 \in 1..Len(g[v]) /\ (i - 1) + 1 = i
            BY <1>2, <2>3
        <3>2. g[v][i - 1].id = k
            BY <1>2, <2>1, <2>3, <3>1
        <3>. QED
            BY <3>1, <3>2
    <2>4. CASE u = w
        <3>1. i \in 1..Len(g[w]) /\ g[w][i].id = k
            BY <1>3, <2>1, <2>4
        <3>. QED
            BY <3>1
    <2>5. CASE u # v /\ u # w
        BY <2>1, <2>5
    <2>. QED
        BY <2>2, <2>3, <2>4, <2>5
<1>9. D \subseteq 1..n
    BY DEF Once
<1>. QED
    BY <1>6, <1>7, <1>8, <1>9 DEF Once

\* The first message of v is thrown away.
LEMMA DropOnce ==
    ASSUME NEW f \in Lines, NEW g \in Lines, NEW D, NEW n \in Nat, Once(f, D, n),
           NEW v \in Places, f[v] # <<>>,
           g[v] = Tail(f[v]), \A u \in Places \ {v} : g[u] = f[u]
    PROVE  Once(g, D \cup {Head(f[v]).id}, n)
<1>1. f[v] \in Seq(Message)
    BY DEF Lines
<1>2. /\ Len(f[v]) \in Nat /\ Len(f[v]) >= 1 /\ Len(g[v]) = Len(f[v]) - 1
      /\ Head(f[v]) = f[v][1]
      /\ \A i \in 1..Len(g[v]) : g[v][i] = f[v][i + 1] /\ i + 1 \in 1..Len(f[v])
    BY <1>1, HeadAndTail
<1>. DEFINE at(u, i) == IF u = v THEN i + 1 ELSE i
<1>4. ASSUME NEW u \in Places, NEW i \in 1..Len(g[u])
      PROVE  at(u, i) \in 1..Len(f[u]) /\ g[u][i] = f[u][at(u, i)] /\ (u = v => at(u, i) # 1)
    <2>1. CASE u = v
        <3>1. i \in 1..Len(g[v])
            BY <1>4, <2>1, Zenon
        <3>3. i + 1 # 1
            BY <1>2, <3>1
        <3>2. g[v][i] = f[v][i + 1] /\ i + 1 \in 1..Len(f[v])
            BY <1>2, <3>1
        <3>. QED
            BY <2>1, <3>3, <3>2
    <2>2. CASE u # v
        BY <1>4, <2>2
    <2>. QED
        BY <2>1, <2>2
<1>5. ASSUME NEW u \in Places, NEW x \in Places, NEW i \in 1..Len(g[u]), NEW j \in 1..Len(g[x]),
             g[u][i].id = g[x][j].id
      PROVE  u = x /\ i = j
    <2>1. u = x /\ at(u, i) = at(x, j)
        <3>. HIDE DEF at
        <3>1. at(u, i) \in 1..Len(f[u]) /\ at(x, j) \in 1..Len(f[x])
              /\ f[u][at(u, i)].id = f[x][at(x, j)].id
            BY <1>4, <1>5
        <3>. QED
            BY <3>1, OnceSame
    <2>. QED
        BY <2>1
<1>6. ASSUME NEW u \in Places, NEW i \in 1..Len(g[u])
      PROVE  g[u][i].id \in (1..n) \ (D \cup {Head(f[v]).id})
    <2>. HIDE DEF at
    <2>1. 1 \in 1..Len(f[v])
        BY <1>2
    <2>2. f[u][at(u, i)].id # f[v][1].id
        <3>1. at(u, i) \in 1..Len(f[u]) /\ (u = v => at(u, i) # 1)
            BY <1>4
        <3>2. ASSUME f[u][at(u, i)].id = f[v][1].id PROVE u = v /\ at(u, i) = 1
            BY <2>1, <3>1, <3>2, OnceSame
        <3>. QED
            BY <3>1, <3>2
    <2>3. g[u][i] = f[u][at(u, i)] /\ at(u, i) \in 1..Len(f[u])
        BY <1>4
    <2>4. f[u][at(u, i)].id \in (1..n) \ D
        BY <2>3, OnceId
    <2>. QED
        BY <1>2, <2>2, <2>3, <2>4
<1>7. ASSUME NEW k \in (1..n) \ (D \cup {Head(f[v]).id})
      PROVE  \E u \in Places : \E i \in 1..Len(g[u]) : g[u][i].id = k
    <2>0. PICK u \in Places : \E i \in 1..Len(f[u]) : f[u][i].id = k
        BY DEF Once
    <2>1. PICK i \in 1..Len(f[u]) : f[u][i].id = k
        BY <2>0
    <2>2. CASE u = v
        <3>1. i - 1 \in 1..Len(g[v]) /\ (i - 1) + 1 = i
            BY <1>2, <1>7, <2>1, <2>2
        <3>2. g[v][i - 1].id = k
            BY <1>2, <2>1, <2>2, <3>1
        <3>. QED
            BY <3>1, <3>2
    <2>3. CASE u # v
        BY <2>1, <2>3
    <2>. QED
        BY <2>2, <2>3
<1>9. D \subseteq 1..n
    BY DEF Once
<1>8. D \cup {Head(f[v]).id} \subseteq 1..n
    <2>1. f[v][1].id \in 1..n
        BY <1>2, OnceId
    <2>. QED
        BY <1>2, <1>9, <2>1
<1>. QED
    BY <1>5, <1>6, <1>7, <1>8 DEF Once

\* A new message is put at the end of w.
LEMMA AddOnce ==
    ASSUME NEW f \in Lines, NEW g \in Lines, NEW D, NEW n \in Nat, Once(f, D, n),
           NEW w \in Places, NEW m \in Message, m.id = n + 1,
           g[w] = Append(f[w], m), \A u \in Places \ {w} : g[u] = f[u]
    PROVE  Once(g, D, n + 1)
<1>1. f[w] \in Seq(Message)
    BY DEF Lines
<1>2. /\ Len(f[w]) \in Nat /\ Len(g[w]) = Len(f[w]) + 1
      /\ \A i \in 1..Len(f[w]) : g[w][i] = f[w][i]
      /\ g[w][Len(f[w]) + 1] = m
    BY <1>1, AtTheEnd
<1>3. ASSUME NEW u \in Places, NEW i \in 1..Len(g[u])
      PROVE  \/ i \in 1..Len(f[u]) /\ g[u][i] = f[u][i] /\ f[u][i].id \in (1..n) \ D
             \/ u = w /\ i = Len(f[w]) + 1 /\ g[u][i].id = n + 1
    <2>1. CASE u # w
        BY <1>3, <2>1, OnceId
    <2>2. CASE u = w /\ i = Len(f[w]) + 1
        BY <1>2, <2>2
    <2>3. CASE u = w /\ i # Len(f[w]) + 1
        <3>1. i \in 1..Len(g[w])
            BY <1>3, <2>3, Zenon
        <3>2. i \in 1..Len(f[w])
            BY <1>2, <2>3, <3>1
        <3>3. g[w][i] = f[w][i] /\ f[w][i].id \in (1..n) \ D
            BY <1>2, <3>2, OnceId
        <3>. QED
            BY <2>3, <3>2, <3>3
    <2>. QED
        BY <2>1, <2>2, <2>3
<1>4. ASSUME NEW u \in Places, NEW x \in Places, NEW i \in 1..Len(g[u]), NEW j \in 1..Len(g[x]),
             g[u][i].id = g[x][j].id
      PROVE  u = x /\ i = j
    <2>1. CASE i \in 1..Len(f[u]) /\ g[u][i] = f[u][i] /\ f[u][i].id \in (1..n) \ D
        <3>1. j \in 1..Len(f[x]) /\ g[x][j] = f[x][j]
            BY <1>3, <1>4, <2>1
        <3>. QED
            BY <1>4, <2>1, <3>1, OnceSame
    <2>2. CASE u = w /\ i = Len(f[w]) + 1 /\ g[u][i].id = n + 1
        BY <1>3, <1>4, <2>2
    <2>. QED
        BY <1>3, <2>1, <2>2
<1>5. D \subseteq 1..n
    BY DEF Once
<1>6. ASSUME NEW u \in Places, NEW i \in 1..Len(g[u]) PROVE g[u][i].id \in (1..(n + 1)) \ D
    <2>1. n + 1 \notin D /\ n + 1 \in 1..(n + 1)
        BY <1>5
    <2>. QED
        BY <1>3, <2>1
<1>7. ASSUME NEW k \in (1..(n + 1)) \ D
      PROVE  \E u \in Places : \E i \in 1..Len(g[u]) : g[u][i].id = k
    <2>1. CASE k = n + 1
        <3>1. Len(f[w]) + 1 \in 1..Len(g[w]) /\ g[w][Len(f[w]) + 1].id = k
            BY <1>2, <2>1
        <3>. QED
            BY <3>1
    <2>2. CASE k # n + 1
        <3>1. k \in (1..n) \ D
            BY <2>2
        <3>0. PICK u \in Places : \E i \in 1..Len(f[u]) : f[u][i].id = k
            BY <3>1 DEF Once
        <3>2. PICK i \in 1..Len(f[u]) : f[u][i].id = k
            BY <3>0
        <3>3. i \in 1..Len(g[u]) /\ g[u][i].id = k
            <4>1. CASE u = w
                <5>1. i \in 1..Len(f[w]) /\ f[w][i].id = k
                    BY <3>2, <4>1, Zenon
                <5>2. i \in 1..Len(g[w]) /\ g[w][i].id = k
                    BY <1>2, <5>1
                <5>. QED
                    BY <4>1, <5>2
            <4>2. CASE u # w
                BY <3>2, <4>2
            <4>. QED
                BY <4>1, <4>2
        <3>. QED
            BY <3>3
    <2>. QED
        BY <2>1, <2>2
<1>8. D \subseteq 1..(n + 1)
    BY <1>5
<1>. QED
    BY <1>4, <1>6, <1>7, <1>8 DEF Once

\* E is D with the ids of the lines C.
With(E, D, f, C) ==
    \A x : x \in E <=> x \in D \/ \E u \in C : \E i \in 1..Len(f[u]) : f[u][i].id = x

\* The lines of C are thrown away.
LEMMA ClearOnce ==
    ASSUME NEW f \in Lines, NEW g \in Lines, NEW D, NEW E, NEW n \in Nat, Once(f, D, n),
           NEW C \in SUBSET Places,
           \A u \in C : g[u] = <<>>, \A u \in Places \ C : g[u] = f[u],
           With(E, D, f, C)
    PROVE  Once(g, E, n)
<1>. USE DEF With
<1>1. ASSUME NEW u \in Places, NEW i \in 1..Len(g[u])
      PROVE  u \notin C /\ i \in 1..Len(f[u]) /\ g[u][i] = f[u][i]
    BY <1>1
<1>2. ASSUME NEW u \in Places, NEW x \in Places, NEW i \in 1..Len(g[u]), NEW j \in 1..Len(g[x]),
             g[u][i].id = g[x][j].id
      PROVE  u = x /\ i = j
    <2>1. i \in 1..Len(f[u]) /\ j \in 1..Len(f[x]) /\ f[u][i].id = f[x][j].id
        BY <1>1, <1>2
    <2>. QED
        BY <2>1, OnceSame
<1>3. ASSUME NEW u \in Places, NEW i \in 1..Len(g[u]) PROVE g[u][i].id \in (1..n) \ E
    <2>1. u \notin C /\ i \in 1..Len(f[u]) /\ g[u][i] = f[u][i]
        BY <1>1
    <2>2. f[u][i].id \in (1..n) \ D
        BY <2>1, OnceId
    <2>3. ASSUME NEW x \in C, NEW j \in 1..Len(f[x]), f[x][j].id = f[u][i].id PROVE FALSE
        BY <2>1, <2>3, OnceSame
    <2>. QED
        BY <2>1, <2>2, <2>3
<1>4. ASSUME NEW x \in E PROVE x \in 1..n
    <2>1. CASE x \in D
        BY <2>1 DEF Once
    <2>2. CASE \E u \in C : \E i \in 1..Len(f[u]) : f[u][i].id = x
        BY <2>2, OnceId
    <2>. QED
        BY <2>1, <2>2
<1>5. ASSUME NEW x \in (1..n) \ E PROVE \E u \in Places : \E i \in 1..Len(g[u]) : g[u][i].id = x
    <2>1. PICK u \in Places : \E i \in 1..Len(f[u]) : f[u][i].id = x
        BY <1>5 DEF Once
    <2>2. u \notin C
        BY <1>5, <2>1
    <2>. QED
        BY <2>1, <2>2
<1>. QED
    BY <1>2, <1>3, <1>4, <1>5 DEF Once

\* Lines change places.
LEMMA SwapOnce ==
    ASSUME NEW f \in Lines, NEW g \in Lines, NEW D, NEW n \in Nat, Once(f, D, n),
           NEW h \in [Places -> Places],
           \A u \in Places : g[u] = <<>> \/ g[u] = f[h[u]],
           \A u, x \in Places : g[u] # <<>> /\ g[x] # <<>> /\ h[u] = h[x] => u = x,
           \A x \in Places : f[x] = <<>> \/ \E u \in Places : g[u] = f[x]
    PROVE  Once(g, D, n)
<1>1. ASSUME NEW u \in Places, NEW i \in 1..Len(g[u]) PROVE g[u] # <<>> /\ g[u] = f[h[u]]
    BY <1>1
<1>2. ASSUME NEW u \in Places, NEW x \in Places, NEW i \in 1..Len(g[u]), NEW j \in 1..Len(g[x]),
             g[u][i].id = g[x][j].id
      PROVE  u = x /\ i = j
    <2>1. /\ g[u] # <<>> /\ g[x] # <<>> /\ i \in 1..Len(f[h[u]]) /\ j \in 1..Len(f[h[x]])
          /\ f[h[u]][i].id = f[h[x]][j].id
        BY <1>1, <1>2
    <2>2. h[u] = h[x] /\ i = j
        BY <2>1, OnceSame
    <2>. QED
        BY <2>1, <2>2
<1>3. ASSUME NEW u \in Places, NEW i \in 1..Len(g[u]) PROVE g[u][i].id \in (1..n) \ D
    <2>1. i \in 1..Len(f[h[u]]) /\ g[u][i] = f[h[u]][i]
        BY <1>1, <1>3
    <2>. QED
        BY <2>1, OnceId
<1>4. ASSUME NEW x \in (1..n) \ D PROVE \E u \in Places : \E i \in 1..Len(g[u]) : g[u][i].id = x
    <2>1. PICK w \in Places : \E i \in 1..Len(f[w]) : f[w][i].id = x
        BY <1>4 DEF Once
    <2>2. PICK i \in 1..Len(f[w]) : f[w][i].id = x
        BY <2>1
    <2>3. f[w] # <<>>
        BY <2>2
    <2>4. PICK u \in Places : g[u] = f[w]
        BY <2>3
    <2>. QED
        BY <2>2, <2>4
<1>5. D \subseteq 1..n
    BY DEF Once
<1>. QED
    BY <1>2, <1>3, <1>4, <1>5 DEF Once

LEMMA PlacesAre ==
    ASSUME NEW w \in Places
    PROVE  \/ \E p \in Priorities : w = <<"send", p>>
           \/ \E p \in Priorities : w = <<"local", p>>
           \/ w = <<"refused", 0>> \/ w = <<"encode", 0>> \/ w = <<"kept", 0>>
           \/ w = <<"encoded", 0>>
BY DEF Places

LineIs(f, sq, lq, rf, eq, kp, en) ==
    /\ f \in Lines
    /\ \A p \in Priorities : <<"send", p>> \in Places /\ f[<<"send", p>>] = sq[p]
    /\ \A p \in Priorities : <<"local", p>> \in Places /\ f[<<"local", p>>] = lq[p]
    /\ <<"refused", 0>> \in Places /\ f[<<"refused", 0>>] = rf
    /\ <<"encode", 0>> \in Places /\ f[<<"encode", 0>>] = eq
    /\ <<"kept", 0>> \in Places /\ f[<<"kept", 0>>] = kp
    /\ <<"encoded", 0>> \in Places /\ f[<<"encoded", 0>>] = en

\* The lines are the queues.
LEMMA LineFacts ==
    ASSUME NEW sq \in [Priorities -> Seq(Message)], NEW lq \in [Priorities -> Seq(Message)],
           NEW rf \in Seq(Message), NEW eq \in Seq(Message), NEW kp \in Seq(Message),
           NEW en \in Seq(Message)
    PROVE  LineIs(LineOf(sq, lq, rf, eq, kp, en), sq, lq, rf, eq, kp, en)
<1>. DEFINE f == LineOf(sq, lq, rf, eq, kp, en)
<1>1. \A p \in Priorities : <<"send", p>> \in Places /\ f[<<"send", p>>] = sq[p]
    BY DEF Places, LineOf
<1>2. \A p \in Priorities : <<"local", p>> \in Places /\ f[<<"local", p>>] = lq[p]
    BY DEF Places, LineOf
<1>3. /\ <<"refused", 0>> \in Places /\ f[<<"refused", 0>>] = rf
      /\ <<"encode", 0>> \in Places /\ f[<<"encode", 0>>] = eq
      /\ <<"kept", 0>> \in Places /\ f[<<"kept", 0>>] = kp
      /\ <<"encoded", 0>> \in Places /\ f[<<"encoded", 0>>] = en
    BY DEF Places, LineOf
<1>4. \A w \in Places : f[w] \in Seq(Message)
    <2>. SUFFICES ASSUME NEW w \in Places PROVE f[w] \in Seq(Message)
        OBVIOUS
    <2>1. CASE \E p \in Priorities : w = <<"send", p>>
        BY <1>1, <2>1
    <2>2. CASE \E p \in Priorities : w = <<"local", p>>
        BY <1>2, <2>2
    <2>3. CASE w \in {<<"refused", 0>>, <<"encode", 0>>, <<"kept", 0>>, <<"encoded", 0>>}
        BY <1>3, <2>3
    <2>. QED
        BY <2>1, <2>2, <2>3, PlacesAre
<1>. DEFINE line(w) == CASE w[1] = "send"    -> sq[w[2]]
                         [] w[1] = "local"   -> lq[w[2]]
                         [] w[1] = "refused" -> rf
                         [] w[1] = "encode"  -> eq
                         [] w[1] = "kept"    -> kp
                         [] w[1] = "encoded" -> en
<1>5. f = [w \in Places |-> line(w)]
    BY DEF LineOf
<1>. HIDE DEF line
<1>. QED
    BY <1>1, <1>2, <1>3, <1>4, <1>5 DEF Lines, LineIs

LEMMA LineNow ==
    ASSUME PipelineTypeOK
    PROVE  /\ Line \in Lines
           /\ \A p \in Priorities : <<"send", p>> \in Places /\ Line[<<"send", p>>] = sendQ[p]
           /\ \A p \in Priorities : <<"local", p>> \in Places /\ Line[<<"local", p>>] = local[p]
           /\ <<"refused", 0>> \in Places /\ Line[<<"refused", 0>>] = refused
           /\ <<"encode", 0>> \in Places /\ Line[<<"encode", 0>>] = encQ
           /\ <<"kept", 0>> \in Places /\ Line[<<"kept", 0>>] = kept
           /\ <<"encoded", 0>> \in Places /\ Line[<<"encoded", 0>>] = encoded
<1>1. /\ sendQ \in [Priorities -> Seq(Message)] /\ local \in [Priorities -> Seq(Message)]
      /\ refused \in Seq(Message) /\ encQ \in Seq(Message) /\ kept \in Seq(Message)
      /\ encoded \in Seq(Message)
    BY DEF PipelineTypeOK
<1>2. Line = LineOf(sendQ, local, refused, encQ, kept, encoded)
    BY DEF Line
<1>3. LineIs(Line, sendQ, local, refused, encQ, kept, encoded)
    BY <1>1, <1>2, LineFacts
<1>. QED
    BY <1>3 DEF LineIs

LEMMA LineThen ==
    ASSUME PipelineTypeOK'
    PROVE  /\ Line' \in Lines
           /\ \A p \in Priorities : Line'[<<"send", p>>] = sendQ'[p]
           /\ \A p \in Priorities : Line'[<<"local", p>>] = local'[p]
           /\ Line'[<<"refused", 0>>] = refused' /\ Line'[<<"encode", 0>>] = encQ'
           /\ Line'[<<"kept", 0>>] = kept' /\ Line'[<<"encoded", 0>>] = encoded'
<1>1. /\ sendQ' \in [Priorities -> Seq(Message)] /\ local' \in [Priorities -> Seq(Message)]
      /\ refused' \in Seq(Message) /\ encQ' \in Seq(Message) /\ kept' \in Seq(Message)
      /\ encoded' \in Seq(Message)
    BY DEF PipelineTypeOK
<1>2. Line' = LineOf(sendQ', local', refused', encQ', kept', encoded')
    BY DEF Line
<1>3. LineIs(Line', sendQ', local', refused', encQ', kept', encoded')
    BY <1>1, <1>2, LineFacts
<1>. QED
    BY <1>3 DEF LineIs

\* A line is as it was if its queue is.
LEMMA Elsewhere ==
    ASSUME PipelineTypeOK, PipelineTypeOK', NEW u \in Places,
           \A p \in Priorities : u = <<"send", p>> => sendQ'[p] = sendQ[p],
           \A p \in Priorities : u = <<"local", p>> => local'[p] = local[p],
           u = <<"refused", 0>> => refused' = refused,
           u = <<"encode", 0>> => encQ' = encQ,
           u = <<"kept", 0>> => kept' = kept,
           u = <<"encoded", 0>> => encoded' = encoded
    PROVE  Line'[u] = Line[u]
<1>1. CASE \E p \in Priorities : u = <<"send", p>>
    BY <1>1, LineNow, LineThen
<1>2. CASE \E p \in Priorities : u = <<"local", p>>
    BY <1>2, LineNow, LineThen
<1>3. CASE u \in {<<"refused", 0>>, <<"encode", 0>>, <<"kept", 0>>, <<"encoded", 0>>}
    BY <1>3, LineNow, LineThen
<1>. QED
    BY <1>1, <1>2, <1>3, PlacesAre

PartsOnce == Once(Line, dropped, accepted)

\* The first message of one line goes to the end of another.
LEMMA MoveStep ==
    ASSUME PipelineTypeOK, PipelineTypeOK', PartsOnce, accepted' = accepted, dropped' = dropped,
           NEW v \in Places, NEW w \in Places, v # w, Line[v] # <<>>,
           NEW m \in Message, m.id = Head(Line[v]).id,
           Line'[v] = Tail(Line[v]), Line'[w] = Append(Line[w], m),
           \A u \in Places \ {v, w} : Line'[u] = Line[u]
    PROVE  PartsOnce'
<1>1. Line \in Lines /\ Line' \in Lines /\ Once(Line, dropped, accepted)
    BY LineNow, LineThen DEF PartsOnce
<1>2. accepted \in Nat
    BY PipelineAssumption DEF PipelineTypeOK
<1>3. PICK f, g : f = Line /\ g = Line'
    OBVIOUS
<1>4. Once(g, dropped, accepted)
    BY <1>1, <1>2, <1>3, MoveOnce
<1>. QED
    BY <1>3, <1>4 DEF PartsOnce

\* The first message of a line is thrown away.
LEMMA DropStep ==
    ASSUME PipelineTypeOK, PipelineTypeOK', PartsOnce, accepted' = accepted,
           NEW v \in Places, Line[v] # <<>>, NEW m, m.id = Head(Line[v]).id,
           dropped' = dropped \cup {m.id}, Line'[v] = Tail(Line[v]),
           \A u \in Places \ {v} : Line'[u] = Line[u]
    PROVE  PartsOnce'
<1>1. Line \in Lines /\ Line' \in Lines /\ Once(Line, dropped, accepted)
    BY LineNow, LineThen DEF PartsOnce
<1>2. accepted \in Nat
    BY PipelineAssumption DEF PipelineTypeOK
<1>3. PICK f, g : f = Line /\ g = Line'
    OBVIOUS
<1>4. Once(g, dropped \cup {Head(f[v]).id}, accepted)
    BY <1>1, <1>2, <1>3, DropOnce
<1>. QED
    BY <1>3, <1>4 DEF PartsOnce

\* A message taken from the line v is put into the send queue or thrown away.
LEMMA RequeueOnce ==
    ASSUME PipelineTypeOK, PipelineTypeOK', PartsOnce, NEW m \in Message, Requeue(m),
           accepted' = accepted, NEW v \in Places, \A p \in Priorities : v # <<"send", p>>,
           Line[v] # <<>>, Head(Line[v]).id = m.id, Line'[v] = Tail(Line[v]),
           \A u \in Places \ {v} : Line'[u] = Line[u] \/ \E p \in Priorities : u = <<"send", p>>
    PROVE  PartsOnce'
<1>0. m.pri \in Priorities /\ Line \in Lines /\ Line' \in Lines /\ accepted \in Nat
    <2>1. m.pri \in Priorities
        BY DEF Message
    <2>2. accepted \in Nat
        BY PipelineAssumption DEF PipelineTypeOK
    <2>. QED
        BY <2>1, <2>2, LineNow, LineThen
<1>1. CASE Room
    <2>. DEFINE w == <<"send", m.pri>>
    <2>1. w \in Places /\ w # v /\ Line[w] = sendQ[m.pri] /\ Line'[w] = sendQ'[m.pri]
        BY <1>0, LineNow, LineThen
    <2>2. sendQ' = [sendQ EXCEPT ![m.pri] = Append(sendQ[m.pri], m)] /\ dropped' = dropped
        BY <1>1 DEF Requeue, PutBack
    <2>3. Line'[w] = Append(Line[w], m)
        BY <1>0, <2>1, <2>2 DEF PipelineTypeOK
    <2>4. ASSUME NEW u \in Places \ {v, w} PROVE Line'[u] = Line[u]
        <3>1. CASE \E p \in Priorities : u = <<"send", p>>
            <4>1. PICK p \in Priorities : u = <<"send", p>>
                BY <3>1
            <4>2. p # m.pri
                BY <2>4, <4>1
            <4>3. sendQ'[p] = sendQ[p]
                BY <2>2, <4>2 DEF PipelineTypeOK
            <4>. QED
                BY <4>1, <4>3, LineNow, LineThen
        <3>. QED
            BY <3>1
    <2>. HIDE DEF w
    <2>. QED
        BY <2>1, <2>2, <2>3, <2>4, MoveStep
<1>2. CASE ~Room
    <2>1. dropped' = dropped \cup {m.id} /\ sendQ' = sendQ
        BY <1>2 DEF Requeue, Drop
    <2>2. ASSUME NEW u \in Places \ {v} PROVE Line'[u] = Line[u]
        BY <2>1, LineNow, LineThen
    <2>. QED
        BY <2>1, <2>2, DropStep
<1>. QED
    BY <1>1, <1>2

\* No step of any thread loses or doubles a message: it goes from one line to the
\* next, or is dropped.
LEMMA OnceStep ==
    ASSUME PipelineTypeOK, PipelineTypeOK', PartsOnce, ~busy => local = Empty,
           [PipelineNext]_pipelineVars
    PROVE  PartsOnce'
<1>. USE PipelineAssumption
<1>0. /\ Line \in Lines /\ Line' \in Lines /\ accepted \in Nat
      /\ sendQ \in [Priorities -> Seq(Message)] /\ local \in [Priorities -> Seq(Message)]
      /\ refused \in Seq(Message) /\ encQ \in Seq(Message) /\ kept \in Seq(Message)
      /\ encoded \in Seq(Message)
    <2>1. accepted \in Nat
        BY DEF PipelineTypeOK
    <2>. QED
        BY <2>1, LineNow, LineThen DEF PipelineTypeOK
<1>1. ASSUME NEW p \in Priorities, NEW c \in Media, SendMessage(p, c) PROVE PartsOnce'
    <2>. DEFINE m == [id |-> accepted + 1, pri |-> p, ch |-> c, whole |-> TRUE]
                w == <<"send", p>>
    <2>1. accepted + 1 \in Ids
        BY <1>1 DEF SendMessage, PipelineTypeOK, Ids
    <2>2. m \in Message /\ m.id = accepted + 1
        BY <2>1 DEF Message
    <2>3. sendQ' = [sendQ EXCEPT ![p] = Append(sendQ[p], m)]
        BY <1>1 DEF SendMessage
    <2>. HIDE DEF m
    <2>4. w \in Places /\ Line'[w] = Append(Line[w], m)
        <3>1. sendQ'[p] = Append(sendQ[p], m)
            BY <1>0, <2>3
        <3>2. w \in Places /\ Line[w] = sendQ[p] /\ Line'[w] = sendQ'[p]
            BY LineNow, LineThen
        <3>. QED
            BY <3>1, <3>2
    <2>5. ASSUME NEW u \in Places \ {w} PROVE Line'[u] = Line[u]
        <3>1. \A q \in Priorities : u = <<"send", q>> => sendQ'[q] = sendQ[q]
            BY <1>0, <2>3, <2>5
        <3>2. local' = local /\ refused' = refused /\ encQ' = encQ /\ kept' = kept /\ encoded' = encoded
            BY <1>1 DEF SendMessage, clearVars, reactorVars
        <3>. QED
            BY <3>1, <3>2, Elsewhere
    <2>. HIDE DEF w
    <2>6. Once(Line', dropped, accepted + 1)
        BY <1>0, <2>2, <2>4, <2>5, AddOnce DEF PartsOnce
    <2>. QED
        BY <1>1, <2>6 DEF PartsOnce, SendMessage
<1>2. CASE UNCHANGED <<sendQ, local, refused, encQ, kept, encoded, dropped, accepted>>
    BY <1>2 DEF PartsOnce, Line
<1>3. CASE ClearOutbound
    <2>. DEFINE C == {<<"send", p>> : p \in {q \in Priorities : q < 1}}
    <2>1. C \in SUBSET Places
        BY LineNow
    <2>2. ASSUME NEW u \in C PROVE Line'[u] = <<>>
        BY <1>3, LineThen DEF ClearOutbound
    <2>3. ASSUME NEW u \in Places \ C PROVE Line'[u] = Line[u]
        <3>1. \A q \in Priorities : u = <<"send", q>> => sendQ'[q] = sendQ[q]
            BY <1>3, <2>3 DEF ClearOutbound
        <3>2. local' = local /\ refused' = refused /\ encQ' = encQ /\ kept' = kept /\ encoded' = encoded
            BY <1>3 DEF ClearOutbound, reactorVars
        <3>. QED
            BY <2>3, <3>1, <3>2, Elsewhere
    <2>4. ASSUME NEW x
          PROVE  x \in dropped' <=>
                    x \in dropped \/ \E u \in C : \E i \in 1..Len(Line[u]) : Line[u][i].id = x
        <3>1. x \in dropped' <=> \/ x \in dropped
                                \/ \E q \in Priorities : q < 1 /\ \E i \in 1..Len(sendQ[q]) : sendQ[q][i].id = x
            BY <1>3 DEF ClearOutbound, IdsOf, Elements
        <3>2. \A q \in Priorities : Line[<<"send", q>>] = sendQ[q]
            BY LineNow
        <3>3. ASSUME NEW q \in Priorities, q < 1, NEW i \in 1..Len(sendQ[q]), sendQ[q][i].id = x
              PROVE  \E u \in C : \E k \in 1..Len(Line[u]) : Line[u][k].id = x
            <4>1. <<"send", q>> \in C
                BY <3>3
            <4>2. i \in 1..Len(Line[<<"send", q>>]) /\ Line[<<"send", q>>][i].id = x
                BY <3>2, <3>3
            <4>. HIDE DEF C
            <4>. QED
                BY <4>1, <4>2
        <3>4. ASSUME NEW u \in C, NEW i \in 1..Len(Line[u]), Line[u][i].id = x
              PROVE  \E q \in Priorities : q < 1 /\ \E k \in 1..Len(sendQ[q]) : sendQ[q][k].id = x
            <4>1. PICK q \in Priorities : q < 1 /\ u = <<"send", q>>
                OBVIOUS
            <4>2. i \in 1..Len(sendQ[q]) /\ sendQ[q][i].id = x
                BY <3>2, <3>4, <4>1
            <4>. QED
                BY <4>1, <4>2
        <3>. HIDE DEF C
        <3>. QED
            BY <3>1, <3>3, <3>4
    <2>5. accepted' = accepted
        BY <1>3 DEF ClearOutbound
    <2>. HIDE DEF C
    <2>6. PICK f, g, D, S : f = Line /\ g = Line' /\ D = dropped' /\ S = C
        OBVIOUS
    <2>7. Once(f, dropped, accepted)
        BY <2>6 DEF PartsOnce
    <2>8. /\ \A u \in S : g[u] = <<>>
          /\ \A u \in Places \ S : g[u] = f[u]
          /\ With(D, dropped, f, S)
        BY <2>2, <2>3, <2>4, <2>6 DEF With
    <2>9. Once(g, D, accepted)
        <3>1. S \in SUBSET Places /\ f \in Lines /\ g \in Lines /\ accepted \in Nat
            BY <1>0, <2>1, <2>6
        <3>. QED
            BY <2>7, <2>8, <3>1, ClearOnce, Zenon
    <2>. QED
        BY <2>5, <2>6, <2>9 DEF PartsOnce
<1>4. CASE ClearPoll
    <2>. DEFINE m == Head(encQ)
                v == <<"encode", 0>>
                w == <<"kept", 0>>
    <2>1. /\ v \in Places /\ w \in Places /\ v # w /\ Line[v] = encQ /\ Line'[v] = encQ'
          /\ Line[w] = kept /\ Line'[w] = kept'
        BY LineNow, LineThen
    <2>2. /\ encQ # <<>> /\ encQ' = Tail(encQ) /\ sendQ' = sendQ /\ local' = local
          /\ refused' = refused /\ encoded' = encoded /\ accepted' = accepted
        BY <1>4 DEF ClearPoll, reactorVars
    <2>3. m \in Message
        BY <1>0, <2>2, HeadAndTail
    <2>4. CASE kept' = Append(kept, m) /\ dropped' = dropped
        <3>1. ASSUME NEW u \in Places \ {v, w} PROVE Line'[u] = Line[u]
            BY <2>2, <3>1, Elsewhere
        <3>2. Line[v] # <<>> /\ m.id = Head(Line[v]).id /\ Line'[v] = Tail(Line[v])
              /\ Line'[w] = Append(Line[w], m)
            BY <2>1, <2>2, <2>4
        <3>3. v \in Places /\ w \in Places /\ v # w /\ accepted' = accepted /\ dropped' = dropped
            BY <2>1, <2>2, <2>4
        <3>. HIDE DEF v, w, m
        <3>. QED
            BY <2>3, <3>1, <3>2, <3>3, MoveStep
    <2>5. CASE kept' = kept /\ dropped' = dropped \cup {m.id}
        <3>1. ASSUME NEW u \in Places \ {v} PROVE Line'[u] = Line[u]
            BY <2>2, <2>5, <3>1, Elsewhere
        <3>2. Line[v] # <<>> /\ m.id = Head(Line[v]).id /\ Line'[v] = Tail(Line[v])
            BY <2>1, <2>2
        <3>. HIDE DEF v, w, m
        <3>. QED
            BY <2>1, <2>2, <2>5, <3>1, <3>2, DropStep
    <2>. QED
        BY <1>4, <2>4, <2>5 DEF ClearPoll, Drop
<1>5. CASE ClearPush
    <2>. DEFINE m == Head(kept)
                v == <<"kept", 0>>
                w == <<"encode", 0>>
    <2>1. /\ v \in Places /\ w \in Places /\ v # w /\ Line[v] = kept /\ Line'[v] = kept'
          /\ Line[w] = encQ /\ Line'[w] = encQ'
        BY LineNow, LineThen
    <2>2. /\ kept # <<>> /\ kept' = Tail(kept) /\ sendQ' = sendQ /\ local' = local
          /\ refused' = refused /\ encoded' = encoded /\ accepted' = accepted
        BY <1>5 DEF ClearPush, reactorVars
    <2>3. m \in Message
        BY <1>0, <2>2, HeadAndTail
    <2>4. CASE encQ' = Append(encQ, m) /\ dropped' = dropped
        <3>1. ASSUME NEW u \in Places \ {v, w} PROVE Line'[u] = Line[u]
            BY <2>2, <3>1, Elsewhere
        <3>2. Line[v] # <<>> /\ m.id = Head(Line[v]).id /\ Line'[v] = Tail(Line[v])
              /\ Line'[w] = Append(Line[w], m)
            BY <2>1, <2>2, <2>4
        <3>3. v \in Places /\ w \in Places /\ v # w /\ accepted' = accepted /\ dropped' = dropped
            BY <2>1, <2>2, <2>4
        <3>. HIDE DEF v, w, m
        <3>. QED
            BY <2>3, <3>1, <3>2, <3>3, MoveStep
    <2>5. CASE encQ' = encQ /\ dropped' = dropped \cup {m.id}
        <3>1. ASSUME NEW u \in Places \ {v} PROVE Line'[u] = Line[u]
            BY <2>2, <2>5, <3>1, Elsewhere
        <3>2. Line[v] # <<>> /\ m.id = Head(Line[v]).id /\ Line'[v] = Tail(Line[v])
            BY <2>1, <2>2
        <3>. HIDE DEF v, w, m
        <3>. QED
            BY <2>1, <2>2, <2>5, <3>1, <3>2, DropStep
    <2>. QED
        BY <1>5, <2>4, <2>5 DEF ClearPush, Drop, PutBack
<1>6. CASE SwapQueue
    <2>. DEFINE h == [w \in Places |-> IF w[1] = "local" THEN <<"send", w[2]>> ELSE w]
    <2>1. /\ local = Empty /\ sendQ' = Empty /\ local' = sendQ /\ refused' = refused
          /\ encQ' = encQ /\ kept' = kept /\ encoded' = encoded /\ dropped' = dropped
          /\ accepted' = accepted
        BY <1>6 DEF SwapQueue, Swapped, clearVars
    <2>2. /\ \A p \in Priorities : h[<<"local", p>>] = <<"send", p>> /\ h[<<"send", p>>] = <<"send", p>>
          /\ \A w \in {<<"refused", 0>>, <<"encode", 0>>, <<"kept", 0>>, <<"encoded", 0>>} : h[w] = w
        BY LineNow
    <2>3. h \in [Places -> Places]
        BY DEF Places
    <2>4. \A p \in Priorities : Line'[<<"send", p>>] = <<>> /\ Line[<<"local", p>>] = <<>>
                                /\ Line'[<<"local", p>>] = Line[<<"send", p>>]
        BY <2>1, LineNow, LineThen DEF Empty
    <2>5. \A w \in {<<"refused", 0>>, <<"encode", 0>>, <<"kept", 0>>, <<"encoded", 0>>} : Line'[w] = Line[w]
        BY <2>1, LineNow, LineThen
    <2>. HIDE DEF h
    <2>6. ASSUME NEW u \in Places PROVE Line'[u] = <<>> \/ Line'[u] = Line[h[u]]
        <3>1. CASE \E p \in Priorities : u = <<"send", p>>
            BY <2>4, <3>1
        <3>2. CASE \E p \in Priorities : u = <<"local", p>>
            BY <2>2, <2>4, <3>2
        <3>3. CASE u \in {<<"refused", 0>>, <<"encode", 0>>, <<"kept", 0>>, <<"encoded", 0>>}
            BY <2>2, <2>5, <3>3
        <3>. QED
            BY <3>1, <3>2, <3>3, PlacesAre
    <2>7. ASSUME NEW u \in Places, NEW x \in Places, Line'[u] # <<>>, Line'[x] # <<>>, h[u] = h[x]
          PROVE  u = x
        <3>1. \A p \in Priorities : u # <<"send", p>> /\ x # <<"send", p>>
            BY <2>4, <2>7
        <3>2. CASE \E p \in Priorities : u = <<"local", p>>
            <4>1. PICK p \in Priorities : u = <<"local", p>>
                BY <3>2
            <4>2. h[u] = <<"send", p>>
                BY <2>2, <4>1
            <4>3. PICK q \in Priorities : x = <<"local", q>>
                <5>1. h[x] = <<"send", p>> /\ x # <<"send", p>>
                    BY <2>7, <3>1, <4>2
                <5>2. x \notin {<<"refused", 0>>, <<"encode", 0>>, <<"kept", 0>>, <<"encoded", 0>>}
                    BY <2>2, <5>1
                <5>. QED
                    BY <2>7, <3>1, <5>2, PlacesAre
            <4>4. h[x] = <<"send", q>>
                BY <2>2, <4>3
            <4>. QED
                BY <2>7, <4>1, <4>2, <4>3, <4>4
        <3>3. CASE u \in {<<"refused", 0>>, <<"encode", 0>>, <<"kept", 0>>, <<"encoded", 0>>}
            <4>1. h[u] = u
                BY <2>2, <3>3
            <4>2. CASE \E p \in Priorities : x = <<"local", p>>
                <5>1. PICK p \in Priorities : x = <<"local", p>>
                    BY <4>2
                <5>2. u = <<"send", p>>
                    BY <2>2, <2>7, <4>1, <5>1
                <5>. QED
                    BY <3>1, <5>2
            <4>3. CASE x \in {<<"refused", 0>>, <<"encode", 0>>, <<"kept", 0>>, <<"encoded", 0>>}
                BY <2>2, <2>7, <4>1, <4>3
            <4>. QED
                BY <3>1, <4>2, <4>3, PlacesAre
        <3>. QED
            BY <3>1, <3>2, <3>3, PlacesAre
    <2>8. ASSUME NEW x \in Places PROVE Line[x] = <<>> \/ \E u \in Places : Line'[u] = Line[x]
        <3>1. CASE \E p \in Priorities : x = <<"send", p>>
            BY <2>4, <3>1, LineNow
        <3>2. CASE \E p \in Priorities : x = <<"local", p>>
            BY <2>4, <3>2
        <3>3. CASE x \in {<<"refused", 0>>, <<"encode", 0>>, <<"kept", 0>>, <<"encoded", 0>>}
            BY <2>5, <2>8, <3>3
        <3>. QED
            BY <3>1, <3>2, <3>3, PlacesAre
    <2>9. PICK f, g, k : f = Line /\ g = Line' /\ k = h
        OBVIOUS
    <2>10. Once(f, dropped, accepted)
        BY <2>9 DEF PartsOnce
    <2>11. /\ \A u \in Places : g[u] = <<>> \/ g[u] = f[k[u]]
           /\ \A u, x \in Places : g[u] # <<>> /\ g[x] # <<>> /\ k[u] = k[x] => u = x
           /\ \A x \in Places : f[x] = <<>> \/ \E u \in Places : g[u] = f[x]
        BY <2>6, <2>7, <2>8, <2>9
    <2>12. Once(g, dropped, accepted)
        <3>1. f \in Lines /\ g \in Lines /\ k \in [Places -> Places] /\ accepted \in Nat
            BY <1>0, <2>3, <2>9
        <3>. QED
            BY <2>10, <2>11, <3>1, SwapOnce, Zenon
    <2>. QED
        BY <2>1, <2>9, <2>12 DEF PartsOnce
<1>7. CASE ProcessOne
    <2>. DEFINE m == Head(local[Top])
                v == <<"local", Top>>
    <2>1. Top \in Priorities /\ local[Top] # <<>>
        BY <1>0, <1>7, TopFacts DEF ProcessOne
    <2>2. /\ local' = [local EXCEPT ![Top] = Tail(local[Top])] /\ kept' = kept
          /\ encoded' = encoded /\ accepted' = accepted /\ refused = <<>>
        BY <1>7 DEF ProcessOne, clearVars
    <2>3. m \in Message
        BY <1>0, <2>1, HeadAndTail
    <2>4. v \in Places /\ Line[v] = local[Top] /\ Line'[v] = Tail(local[Top])
        BY <1>0, <2>1, <2>2, LineNow, LineThen
    <2>5. ASSUME NEW u \in Places \ {v}
          PROVE  \A p \in Priorities : u = <<"local", p>> => local'[p] = local[p]
        BY <1>0, <2>2, <2>5
    <2>6. CASE Drop(m) /\ UNCHANGED <<sendQ, encQ, refused>>
        <3>1. ASSUME NEW u \in Places \ {v} PROVE Line'[u] = Line[u]
            BY <2>2, <2>5, <2>6, <3>1, Elsewhere
        <3>2. Line[v] # <<>> /\ m = Head(Line[v]) /\ Line'[v] = Tail(Line[v])
            BY <2>1, <2>4
        <3>. HIDE DEF v, m
        <3>. QED
            BY <2>2, <2>4, <2>6, <3>1, <3>2, DropStep DEF Drop
    <2>7. CASE Requeue(m) /\ UNCHANGED <<encQ, refused>>
        <3>1. ASSUME NEW u \in Places \ {v}
              PROVE  Line'[u] = Line[u] \/ \E p \in Priorities : u = <<"send", p>>
            BY <2>2, <2>5, <2>7, <3>1, Elsewhere
        <3>2. Line[v] # <<>> /\ m = Head(Line[v]) /\ Line'[v] = Tail(Line[v])
              /\ \A p \in Priorities : v # <<"send", p>>
            BY <2>1, <2>4
        <3>. HIDE DEF v, m
        <3>. QED
            BY <2>2, <2>3, <2>4, <2>7, <3>1, <3>2, RequeueOnce
    <2>8. CASE encQ' = Append(encQ, m) /\ UNCHANGED <<sendQ, dropped, requeued, refused>>
        <3>. DEFINE w == <<"encode", 0>>
        <3>1. w \in Places /\ v # w /\ Line'[w] = Append(Line[w], m)
            BY <2>8, LineNow, LineThen
        <3>2. ASSUME NEW u \in Places \ {v, w} PROVE Line'[u] = Line[u]
            BY <2>2, <2>5, <2>8, <3>2, Elsewhere
        <3>3. Line[v] # <<>> /\ m = Head(Line[v]) /\ Line'[v] = Tail(Line[v])
            BY <2>1, <2>4
        <3>. HIDE DEF v, w, m
        <3>4. m.id = Head(Line[v]).id /\ accepted' = accepted /\ dropped' = dropped
            BY <2>2, <2>8, <3>3
        <3>. QED
            BY <2>3, <2>4, <3>1, <3>2, <3>3, <3>4, MoveStep
    <2>9. CASE refused' = <<[m EXCEPT !.whole = FALSE]>> /\ UNCHANGED <<sendQ, encQ, dropped, requeued>>
        <3>. DEFINE w == <<"refused", 0>>
        <3>1. PICK o \in Message : o = [m EXCEPT !.whole = FALSE] /\ o.id = m.id
            BY <2>3, Altered
        <3>2. refused' = Append(refused, o)
            <4>1. refused' = <<o>>
                BY <2>9, <3>1
            <4>. QED
                BY <2>2, <4>1
        <3>3. w \in Places /\ v # w /\ Line'[w] = Append(Line[w], o)
            BY <3>2, LineNow, LineThen
        <3>4. ASSUME NEW u \in Places \ {v, w} PROVE Line'[u] = Line[u]
            BY <2>2, <2>5, <2>9, <3>4, Elsewhere
        <3>5. Line[v] # <<>> /\ o.id = Head(Line[v]).id /\ Line'[v] = Tail(Line[v])
            BY <2>1, <2>4, <3>1
        <3>. HIDE DEF v, w, m
        <3>6. accepted' = accepted /\ dropped' = dropped
            BY <2>2, <2>9
        <3>7. o.id = Head(Line[v]).id /\ v \in Places
            BY <2>4, <3>5
        <3>. QED
            BY <3>3, <3>4, <3>5, <3>6, <3>7, MoveStep
    <2>. QED
        BY <1>7, <2>6, <2>7, <2>8, <2>9 DEF ProcessOne
<1>8. CASE ProcessRefused
    <2>. DEFINE v == <<"refused", 0>>
    <2>1. /\ refused # <<>> /\ refused' = <<>> /\ local' = local /\ encQ' = encQ /\ kept' = kept
          /\ encoded' = encoded /\ accepted' = accepted
        BY <1>8 DEF ProcessRefused, clearVars
    <2>2. PICK o \in Message : o = [Head(refused) EXCEPT !.pri = 0] /\ o.id = Head(refused).id
        BY <1>0, <2>1, HeadAndTail, Altered
    <2>3. Requeue(o)
        BY <1>8, <2>2 DEF ProcessRefused
    <2>4. Tail(refused) = <<>>
        BY <1>0, <2>1 DEF PipelineTypeOK
    <2>5. /\ v \in Places /\ Line[v] # <<>> /\ Head(Line[v]).id = o.id /\ Line'[v] = Tail(Line[v])
          /\ \A p \in Priorities : v # <<"send", p>>
        BY <2>1, <2>2, <2>4, LineNow, LineThen
    <2>6. ASSUME NEW u \in Places \ {v}
          PROVE  Line'[u] = Line[u] \/ \E p \in Priorities : u = <<"send", p>>
        BY <2>1, <2>6, Elsewhere
    <2>. HIDE DEF v
    <2>. QED
        BY <2>1, <2>2, <2>3, <2>5, <2>6, RequeueOnce
<1>9. CASE Encode
    <2>. DEFINE m == Head(encQ)
                v == <<"encode", 0>>
                w == <<"encoded", 0>>
    <2>1. /\ v \in Places /\ w \in Places /\ v # w /\ Line[v] = encQ /\ Line'[v] = encQ'
          /\ Line[w] = encoded /\ Line'[w] = encoded'
        BY LineNow, LineThen
    <2>2. /\ encQ # <<>> /\ encQ' = Tail(encQ) /\ sendQ' = sendQ /\ local' = local
          /\ refused' = refused /\ kept' = kept /\ accepted' = accepted
        BY <1>9 DEF Encode, reactorVars, clearVars
    <2>3. m \in Message
        BY <1>0, <2>2, HeadAndTail
    <2>4. CASE encoded' = Append(encoded, m) /\ dropped' = dropped
        <3>1. ASSUME NEW u \in Places \ {v, w} PROVE Line'[u] = Line[u]
            BY <2>2, <3>1, Elsewhere
        <3>2. Line[v] # <<>> /\ m.id = Head(Line[v]).id /\ Line'[v] = Tail(Line[v])
              /\ Line'[w] = Append(Line[w], m)
            BY <2>1, <2>2, <2>4
        <3>3. v \in Places /\ w \in Places /\ v # w /\ accepted' = accepted /\ dropped' = dropped
            BY <2>1, <2>2, <2>4
        <3>. HIDE DEF v, w, m
        <3>. QED
            BY <2>3, <3>1, <3>2, <3>3, MoveStep
    <2>5. CASE encoded' = encoded /\ dropped' = dropped \cup {m.id}
        <3>1. ASSUME NEW u \in Places \ {v} PROVE Line'[u] = Line[u]
            BY <2>2, <2>5, <3>1, Elsewhere
        <3>2. Line[v] # <<>> /\ m.id = Head(Line[v]).id /\ Line'[v] = Tail(Line[v])
            BY <2>1, <2>2
        <3>. HIDE DEF v, w, m
        <3>. QED
            BY <2>1, <2>2, <2>5, <3>1, <3>2, DropStep
    <2>. QED
        BY <1>9, <2>4, <2>5 DEF Encode, Drop
<1>10. CASE DrainChannel \/ DrainOver \/ Flap \/ ClearEmptied \/ ProcessDone \/ UNCHANGED pipelineVars
    BY <1>2, <1>10 DEF DrainChannel, DrainOver, Flap, ClearEmptied, ProcessDone, pipelineVars,
        clearVars, reactorVars
<1>. QED
    BY <1>1, <1>3, <1>4, <1>5, <1>6, <1>7, <1>8, <1>9, <1>10 DEF PipelineNext, Clearer, Reactor

-----------------------------------------------------------------------------
(* The order of the messages *)

\* b may be encoded after a: if b is the older, it has the lower priority or was
\* put back.
After(a, b, R) == b.id < a.id => b.pri < a.pri \/ b.id \in R

InOrder(s, R) == \A i, j \in 1..Len(s) : i < j => After(s[i], s[j], R)

\* In each row of q the messages stand by age, those put back apart.
ByAge(q, R) == \A p \in Priorities : \A i, j \in 1..Len(q[p]) :
                    i < j => q[p][i].id < q[p][j].id \/ q[p][j].id \in R

RowsAre(q) == \A p \in Priorities : \A m \in Elements(q[p]) : m.pri = p

\* What has passed process_send_queue.
Passed(eq, kp, en) == Elements(en) \cup Elements(eq) \cup Elements(kp)

\* Every message stands behind those it may follow: what has passed before the
\* batch, both before the queue, where only the age counts.
Order(sq, lq, eq, kp, en, R) ==
    /\ InOrder(en, R) /\ InOrder(eq, R)
    /\ \A a \in Elements(en), b \in Elements(eq) : After(a, b, R)
    /\ \A a \in Passed(eq, kp, en), b \in Waiting(lq) : After(a, b, R)
    /\ \A a \in Passed(eq, kp, en) \cup Waiting(lq), b \in Waiting(sq) : a.id < b.id \/ b.id \in R
    /\ ByAge(sq, R) /\ ByAge(lq, R) /\ RowsAre(sq) /\ RowsAre(lq)

Rows == [Priorities -> Seq(Message)]

LEMMA MessageNumbers == ASSUME NEW m \in Message PROVE m.id \in Int /\ m.pri \in Int /\ m.pri \in Priorities
<1>1. IntMin \in Int /\ IntMax \in Int
    BY SMT DEF IntMin, IntMax
<1>2. m.id \in Ids /\ m.pri \in Priorities
    BY DEF Message
<1>3. Ids \subseteq Int /\ Priorities \subseteq Int
    BY <1>1, PipelineAssumption DEF Ids, Int32
<1>. QED
    BY <1>2, <1>3

LEMMA ElementsType == ASSUME NEW s \in Seq(Message) PROVE Elements(s) \subseteq Message
BY DEF Elements

LEMMA ElementsTail ==
    ASSUME NEW s \in Seq(Message), s # <<>>
    PROVE  Head(s) \in Elements(s) /\ Elements(Tail(s)) \subseteq Elements(s)
<1>1. 1 \in 1..Len(s) /\ Head(s) = s[1]
    BY HeadAndTail
<1>. QED
    BY <1>1, HeadAndTail DEF Elements

LEMMA ElementsAppend ==
    ASSUME NEW s \in Seq(Message), NEW m \in Message
    PROVE  Elements(Append(s, m)) = Elements(s) \cup {m}
<1>1. ASSUME NEW x \in Elements(Append(s, m)) PROVE x \in Elements(s) \cup {m}
    BY AtTheEnd DEF Elements
<1>2. ASSUME NEW x \in Elements(s) PROVE x \in Elements(Append(s, m))
    BY AtTheEnd DEF Elements
<1>3. m \in Elements(Append(s, m))
    <2>1. Len(s) + 1 \in 1..Len(Append(s, m)) /\ Append(s, m)[Len(s) + 1] = m
        BY AtTheEnd
    <2>. QED
        BY <2>1 DEF Elements
<1>. QED
    BY <1>1, <1>2, <1>3

LEMMA WaitingType == ASSUME NEW q \in Rows PROVE Waiting(q) \subseteq Message
BY ElementsType DEF Waiting, Rows

LEMMA WaitingAppend ==
    ASSUME NEW q \in Rows, NEW r \in Rows, NEW p \in Priorities, NEW m \in Message,
           r[p] = Append(q[p], m), \A s \in Priorities \ {p} : r[s] = q[s]
    PROVE  Waiting(r) = Waiting(q) \cup {m}
<1>1. q[p] \in Seq(Message)
    BY DEF Rows
<1>2. Elements(r[p]) = Elements(q[p]) \cup {m}
    BY <1>1, ElementsAppend
<1>. QED
    BY <1>2 DEF Waiting

LEMMA WaitingPart ==
    ASSUME NEW q, NEW r, \A p \in Priorities : Elements(r[p]) \subseteq Elements(q[p])
    PROVE  Waiting(r) \subseteq Waiting(q)
BY DEF Waiting

LEMMA InOrderTail ==
    ASSUME NEW s \in Seq(Message), s # <<>>, NEW R, InOrder(s, R)
    PROVE  InOrder(Tail(s), R) /\ \A b \in Elements(Tail(s)) : After(Head(s), b, R)
<1>1. /\ Len(s) \in Nat /\ Len(s) >= 1 /\ Len(Tail(s)) = Len(s) - 1 /\ Head(s) = s[1]
      /\ \A i \in 1..Len(Tail(s)) : Tail(s)[i] = s[i + 1] /\ i + 1 \in 1..Len(s)
    BY HeadAndTail
<1>2. ASSUME NEW i \in 1..Len(Tail(s)), NEW j \in 1..Len(Tail(s)), i < j
      PROVE  After(Tail(s)[i], Tail(s)[j], R)
    <2>1. i + 1 < j + 1
        BY <1>2
    <2>2. i + 1 \in 1..Len(s) /\ j + 1 \in 1..Len(s)
        BY <1>1
    <2>3. After(s[i + 1], s[j + 1], R)
        BY <2>1, <2>2 DEF InOrder
    <2>. QED
        BY <1>1, <2>3
<1>3. ASSUME NEW j \in 1..Len(Tail(s)) PROVE After(Head(s), Tail(s)[j], R)
    <2>1. 1 \in 1..Len(s) /\ j + 1 \in 1..Len(s) /\ 1 < j + 1
        BY <1>1
    <2>2. After(s[1], s[j + 1], R)
        BY <2>1 DEF InOrder
    <2>. QED
        BY <1>1, <2>2
<1>. QED
    BY <1>2, <1>3 DEF InOrder, Elements

LEMMA InOrderAppend ==
    ASSUME NEW s \in Seq(Message), NEW m \in Message, NEW R, InOrder(s, R),
           \A a \in Elements(s) : After(a, m, R)
    PROVE  InOrder(Append(s, m), R)
<1>1. /\ Len(Append(s, m)) = Len(s) + 1 /\ Len(s) \in Nat
      /\ \A i \in 1..Len(s) : Append(s, m)[i] = s[i]
      /\ Append(s, m)[Len(s) + 1] = m
    BY AtTheEnd
<1>2. ASSUME NEW i \in 1..Len(Append(s, m)), NEW j \in 1..Len(Append(s, m)), i < j
      PROVE  After(Append(s, m)[i], Append(s, m)[j], R)
    <2>1. i \in 1..Len(s) /\ Append(s, m)[i] = s[i]
        BY <1>1, <1>2
    <2>2. CASE j = Len(s) + 1
        <3>1. s[i] \in Elements(s)
            BY <2>1 DEF Elements
        <3>. QED
            BY <1>1, <2>1, <2>2, <3>1
    <2>3. CASE j # Len(s) + 1
        <3>1. j \in 1..Len(s) /\ Append(s, m)[j] = s[j]
            BY <1>1, <1>2, <2>3
        <3>. QED
            BY <1>2, <2>1, <3>1 DEF InOrder
    <2>. QED
        BY <2>2, <2>3
<1>. QED
    BY <1>2 DEF InOrder

\* To have been put back excuses more.
LEMMA OrderMore ==
    ASSUME NEW sq, NEW lq, NEW eq, NEW kp, NEW en, NEW R, NEW Q, R \subseteq Q,
           Order(sq, lq, eq, kp, en, R)
    PROVE  Order(sq, lq, eq, kp, en, Q)
<1>1. ASSUME NEW a, NEW b, After(a, b, R) PROVE After(a, b, Q)
    BY <1>1 DEF After
<1>2. /\ InOrder(en, Q) /\ InOrder(eq, Q)
      /\ \A a \in Elements(en), b \in Elements(eq) : After(a, b, Q)
      /\ \A a \in Passed(eq, kp, en), b \in Waiting(lq) : After(a, b, Q)
    BY <1>1 DEF Order, InOrder
<1>3. ByAge(sq, Q) /\ ByAge(lq, Q)
    BY DEF Order, ByAge
<1>4. \A a \in Passed(eq, kp, en) \cup Waiting(lq), b \in Waiting(sq) : a.id < b.id \/ b.id \in Q
    BY DEF Order
<1>. QED
    BY <1>2, <1>3, <1>4 DEF Order

\* A message joins the send queue: it is the youngest or was put back.
LEMMA OrderJoin ==
    ASSUME NEW sq \in Rows, NEW lq, NEW eq, NEW kp, NEW en, NEW R, Order(sq, lq, eq, kp, en, R),
           NEW r \in Rows, NEW p \in Priorities, NEW m \in Message, m.pri = p,
           r[p] = Append(sq[p], m), \A s \in Priorities \ {p} : r[s] = sq[s],
           \A a \in Passed(eq, kp, en) \cup Waiting(lq) \cup Waiting(sq) : a.id < m.id \/ m.id \in R
    PROVE  Order(r, lq, eq, kp, en, R)
<1>1. Waiting(r) = Waiting(sq) \cup {m}
    BY WaitingAppend
<1>2. \A a \in Passed(eq, kp, en) \cup Waiting(lq), b \in Waiting(r) : a.id < b.id \/ b.id \in R
    BY <1>1 DEF Order
<1>3. sq[p] \in Seq(Message)
    BY DEF Rows
<1>4. Elements(r[p]) = Elements(sq[p]) \cup {m}
    BY <1>3, ElementsAppend
<1>5. RowsAre(r)
    <2>1. RowsAre(sq)
        BY DEF Order
    <2>2. ASSUME NEW s \in Priorities, NEW x \in Elements(r[s]) PROVE x.pri = s
        <3>1. CASE s = p
            BY <1>4, <2>1, <2>2, <3>1 DEF RowsAre
        <3>2. CASE s # p
            BY <2>1, <2>2, <3>2 DEF RowsAre
        <3>. QED
            BY <3>1, <3>2
    <2>. QED
        BY <2>2 DEF RowsAre
<1>6. ByAge(r, R)
    <2>1. ByAge(sq, R)
        BY DEF Order
    <2>2. /\ Len(r[p]) = Len(sq[p]) + 1 /\ Len(sq[p]) \in Nat
          /\ \A i \in 1..Len(sq[p]) : r[p][i] = sq[p][i]
          /\ r[p][Len(sq[p]) + 1] = m
        BY <1>3, AtTheEnd
    <2>3. \A i \in 1..Len(sq[p]) : sq[p][i].id < m.id \/ m.id \in R
        BY DEF Waiting, Elements
    <2>4. ASSUME NEW s \in Priorities, NEW i \in 1..Len(r[s]), NEW j \in 1..Len(r[s]), i < j
          PROVE  r[s][i].id < r[s][j].id \/ r[s][j].id \in R
        <3>1. CASE s # p
            BY <2>1, <2>4, <3>1 DEF ByAge
        <3>2. CASE s = p /\ j = Len(sq[p]) + 1
            <4>1. i \in 1..Len(sq[p])
                BY <2>2, <2>4, <3>2
            <4>. QED
                BY <2>2, <2>3, <3>2, <4>1
        <3>3. CASE s = p /\ j # Len(sq[p]) + 1
            <4>1. i \in 1..Len(sq[p]) /\ j \in 1..Len(sq[p])
                BY <2>2, <2>4, <3>3
            <4>2. sq[p][i].id < sq[p][j].id \/ sq[p][j].id \in R
                BY <2>1, <2>4, <4>1 DEF ByAge
            <4>. QED
                BY <2>2, <3>3, <4>1, <4>2
        <3>. QED
            BY <3>1, <3>2, <3>3
    <2>. QED
        BY <2>4 DEF ByAge
<1>. QED
    BY <1>2, <1>5, <1>6 DEF Order

\* Rows of the send queue are thrown away.
LEMMA OrderCleared ==
    ASSUME NEW sq \in Rows, NEW lq, NEW eq, NEW kp, NEW en, NEW R, Order(sq, lq, eq, kp, en, R),
           NEW r \in Rows, \A p \in Priorities : r[p] = sq[p] \/ r[p] = <<>>
    PROVE  Order(r, lq, eq, kp, en, R)
<1>1. \A p \in Priorities : Elements(r[p]) \subseteq Elements(sq[p])
    BY DEF Elements
<1>2. Waiting(r) \subseteq Waiting(sq)
    BY <1>1, WaitingPart
<1>3. RowsAre(r)
    BY <1>1 DEF RowsAre, Order
<1>4. ByAge(r, R)
    BY DEF ByAge, Order
<1>. QED
    BY <1>2, <1>3, <1>4 DEF Order

\* The first message leaves the encode queue: it is encoded, set aside or dropped.
LEMMA OrderPolled ==
    ASSUME NEW sq, NEW lq, NEW eq \in Seq(Message), NEW kp \in Seq(Message),
           NEW en \in Seq(Message), NEW R, Order(sq, lq, eq, kp, en, R), eq # <<>>,
           NEW k, NEW e,
           \/ k = kp /\ e = en
           \/ k = Append(kp, Head(eq)) /\ e = en
           \/ k = kp /\ e = Append(en, Head(eq))
    PROVE  Order(sq, lq, Tail(eq), k, e, R)
<1>1. Head(eq) \in Message /\ Head(eq) \in Elements(eq) /\ Elements(Tail(eq)) \subseteq Elements(eq)
    BY HeadAndTail, ElementsTail
<1>2. Elements(k) \subseteq Elements(kp) \cup {Head(eq)} /\ Elements(e) \subseteq Elements(en) \cup {Head(eq)}
    BY <1>1, ElementsAppend
<1>3. Passed(Tail(eq), k, e) \subseteq Passed(eq, kp, en)
    BY <1>1, <1>2 DEF Passed
<1>4. InOrder(eq, R) /\ InOrder(en, R)
    BY DEF Order
<1>5. InOrder(Tail(eq), R) /\ \A b \in Elements(Tail(eq)) : After(Head(eq), b, R)
    BY <1>4, InOrderTail
<1>6. \A a \in Elements(en) : After(a, Head(eq), R)
    BY <1>1 DEF Order
<1>7. InOrder(e, R)
    BY <1>1, <1>4, <1>6, InOrderAppend
<1>8. \A a \in Elements(e), b \in Elements(Tail(eq)) : After(a, b, R)
    BY <1>1, <1>2, <1>5 DEF Order
<1>. QED
    BY <1>3, <1>5, <1>7, <1>8 DEF Order

\* clear_outbound pushes a message it kept, or loses it.
LEMMA OrderPushed ==
    ASSUME NEW sq, NEW lq, NEW eq \in Seq(Message), NEW kp \in Seq(Message), NEW en, NEW R,
           Order(sq, lq, eq, kp, en, R), kp # <<>>, NEW e,
           e = eq \/ (e = Append(eq, Head(kp)) /\ Head(kp).id \in R)
    PROVE  Order(sq, lq, e, Tail(kp), en, R)
<1>1. Head(kp) \in Message /\ Head(kp) \in Elements(kp) /\ Elements(Tail(kp)) \subseteq Elements(kp)
    BY HeadAndTail, ElementsTail
<1>2. CASE e = eq
    <2>1. Passed(eq, Tail(kp), en) \subseteq Passed(eq, kp, en)
        BY <1>1 DEF Passed
    <2>. QED
        BY <1>2, <2>1 DEF Order
<1>3. CASE e = Append(eq, Head(kp)) /\ Head(kp).id \in R
    <2>1. Elements(e) = Elements(eq) \cup {Head(kp)}
        BY <1>1, <1>3, ElementsAppend
    <2>2. Passed(e, Tail(kp), en) \subseteq Passed(eq, kp, en)
        BY <1>1, <2>1 DEF Passed
    <2>3. \A a : After(a, Head(kp), R)
        BY <1>3 DEF After
    <2>4. InOrder(eq, R)
        BY DEF Order
    <2>5. InOrder(e, R)
        BY <1>1, <1>3, <2>3, <2>4, InOrderAppend
    <2>6. \A a \in Elements(en), b \in Elements(e) : After(a, b, R)
        BY <2>1, <2>3 DEF Order
    <2>. QED
        BY <2>2, <2>5, <2>6 DEF Order
<1>. QED
    BY <1>2, <1>3

\* The queue becomes the batch.
LEMMA OrderSwapped ==
    ASSUME NEW sq \in Rows, NEW eq \in Seq(Message), NEW kp \in Seq(Message),
           NEW en \in Seq(Message), NEW R, Order(sq, Empty, eq, kp, en, R)
    PROVE  Order(Empty, sq, eq, kp, en, R)
<1>1. Waiting(Empty) = {}
    BY DEF Waiting, Empty, Elements
<1>2. Passed(eq, kp, en) \subseteq Message /\ Waiting(sq) \subseteq Message
    BY ElementsType, WaitingType DEF Passed
<1>3. \A a \in Message : a.id \in Int
    BY MessageNumbers
<1>4. \A a \in Passed(eq, kp, en), b \in Waiting(sq) : After(a, b, R)
    BY <1>2, <1>3 DEF Order, After
<1>5. ByAge(Empty, R) /\ RowsAre(Empty)
    BY DEF Order
<1>. QED
    BY <1>1, <1>4, <1>5 DEF Order

\* The first message of the highest row leaves the batch, for the encode queue or
\* for somewhere else.
LEMMA OrderTaken ==
    ASSUME NEW sq \in Rows, NEW lq \in Rows, NEW eq \in Seq(Message), NEW kp \in Seq(Message),
           NEW en \in Seq(Message), NEW R, Order(sq, lq, eq, kp, en, R),
           NEW t \in Priorities, lq[t] # <<>>, \A q \in Priorities : q > t => lq[q] = <<>>,
           NEW r \in Rows, r[t] = Tail(lq[t]), \A s \in Priorities \ {t} : r[s] = lq[s],
           NEW e, e = eq \/ e = Append(eq, Head(lq[t]))
    PROVE  Order(sq, r, e, kp, en, R)
<1>. DEFINE m == Head(lq[t])
<1>1. lq[t] \in Seq(Message)
    BY DEF Rows
<1>2. m \in Message /\ m \in Elements(lq[t]) /\ Elements(Tail(lq[t])) \subseteq Elements(lq[t])
    BY <1>1, HeadAndTail, ElementsTail
<1>3. \A p \in Priorities : Elements(r[p]) \subseteq Elements(lq[p])
    BY <1>2
<1>4. Waiting(r) \subseteq Waiting(lq) /\ m \in Waiting(lq)
    BY <1>2, <1>3, WaitingPart DEF Waiting
<1>5. RowsAre(r)
    BY <1>3 DEF Order, RowsAre
<1>6. /\ Len(lq[t]) \in Nat /\ Len(lq[t]) >= 1 /\ Len(r[t]) = Len(lq[t]) - 1 /\ m = lq[t][1]
      /\ \A i \in 1..Len(r[t]) : r[t][i] = lq[t][i + 1] /\ i + 1 \in 1..Len(lq[t])
    BY <1>1, HeadAndTail
<1>7. ByAge(lq, R)
    BY DEF Order
<1>8. ByAge(r, R)
    <2>1. ASSUME NEW s \in Priorities, NEW i \in 1..Len(r[s]), NEW j \in 1..Len(r[s]), i < j
          PROVE  r[s][i].id < r[s][j].id \/ r[s][j].id \in R
        <3>1. CASE s # t
            BY <1>7, <2>1, <3>1 DEF ByAge
        <3>2. CASE s = t
            <4>1. /\ i + 1 \in 1..Len(lq[t]) /\ j + 1 \in 1..Len(lq[t]) /\ i + 1 < j + 1
                  /\ r[t][i] = lq[t][i + 1] /\ r[t][j] = lq[t][j + 1]
                <5>1. i \in 1..Len(r[t]) /\ j \in 1..Len(r[t])
                    BY <2>1, <3>2, Zenon
                <5>2. i + 1 < j + 1
                    BY <2>1
                <5>. QED
                    BY <1>6, <5>1, <5>2
            <4>2. lq[t][i + 1].id < lq[t][j + 1].id \/ lq[t][j + 1].id \in R
                BY <1>7, <4>1 DEF ByAge
            <4>. QED
                BY <3>2, <4>1, <4>2
        <3>. QED
            BY <3>1, <3>2
    <2>. QED
        BY <2>1 DEF ByAge
<1>9. ASSUME NEW b \in Waiting(r) PROVE After(m, b, R)
    <2>1. PICK p \in Priorities : b \in Elements(r[p])
        BY DEF Waiting
    <2>2. r[p] # <<>>
        BY <2>1 DEF Elements
    <2>3. CASE p = t
        <3>1. PICK j \in 1..Len(r[t]) : b = r[t][j]
            BY <2>1, <2>3 DEF Elements
        <3>2. 1 \in 1..Len(lq[t]) /\ j + 1 \in 1..Len(lq[t]) /\ 1 < j + 1 /\ b = lq[t][j + 1]
            BY <1>6, <3>1
        <3>3. m.id < b.id \/ b.id \in R
            BY <1>6, <1>7, <3>2 DEF ByAge
        <3>4. m.id \in Int /\ b.id \in Int
            BY <1>2, <1>4, <1>9, WaitingType, MessageNumbers
        <3>. QED
            BY <3>3, <3>4 DEF After
    <2>4. CASE p # t
        <3>1. lq[p] # <<>> /\ b \in Elements(lq[p])
            BY <2>1, <2>2, <2>4
        <3>2. b.pri = p /\ m.pri = t
            BY <1>2, <3>1 DEF Order, RowsAre
        <3>3. p \in Int /\ t \in Int
            BY <1>2, <1>4, <1>9, <3>2, WaitingType, MessageNumbers
        <3>4. p < t
            BY <2>4, <3>1, <3>3
        <3>. QED
            BY <3>2, <3>4 DEF After
    <2>. QED
        BY <2>3, <2>4
<1>10. CASE e = eq
    BY <1>4, <1>5, <1>8, <1>10 DEF Order
<1>11. CASE e = Append(eq, m)
    <2>1. Elements(e) = Elements(eq) \cup {m}
        BY <1>2, <1>11, ElementsAppend
    <2>2. Passed(e, kp, en) = Passed(eq, kp, en) \cup {m}
        BY <2>1 DEF Passed
    <2>3. Elements(eq) \subseteq Passed(eq, kp, en) /\ Elements(en) \subseteq Passed(eq, kp, en)
        BY DEF Passed
    <2>. HIDE DEF m
    <2>4. \A a \in Passed(eq, kp, en) : After(a, m, R)
        BY <1>4 DEF Order
    <2>5. InOrder(eq, R)
        BY DEF Order
    <2>6. InOrder(e, R)
        BY <1>2, <1>11, <2>3, <2>4, <2>5, InOrderAppend
    <2>7. \A a \in Elements(en), b \in Elements(e) : After(a, b, R)
        BY <2>1, <2>3, <2>4 DEF Order
    <2>8. \A a \in Passed(e, kp, en), b \in Waiting(r) : After(a, b, R)
        BY <1>4, <1>9, <2>2 DEF Order
    <2>9. \A a \in Passed(e, kp, en) \cup Waiting(r), b \in Waiting(sq) : a.id < b.id \/ b.id \in R
        BY <1>4, <2>2 DEF Order
    <2>. QED
        BY <1>5, <1>8, <2>6, <2>7, <2>8, <2>9 DEF Order
<1>. QED
    BY <1>10, <1>11

\* Who waits or has passed has an id that was given out.
LEMMA IdsGiven ==
    ASSUME PipelineTypeOK, PartsOnce
    PROVE  \A a \in Passed(encQ, kept, encoded) \cup Waiting(local) \cup Waiting(sendQ) :
                a.id \in 1..accepted
<1>1. ASSUME NEW w \in Places, NEW a \in Elements(Line[w]) PROVE a.id \in 1..accepted
    BY OnceId DEF PartsOnce, Elements
<1>2. ASSUME NEW a \in Passed(encQ, kept, encoded) PROVE a.id \in 1..accepted
    <2>1. PICK w \in Places : a \in Elements(Line[w])
        BY LineNow DEF Passed
    <2>. QED
        BY <1>1, <2>1
<1>3. ASSUME NEW a \in Waiting(local) \cup Waiting(sendQ) PROVE a.id \in 1..accepted
    <2>1. PICK p \in Priorities : a \in Elements(local[p]) \/ a \in Elements(sendQ[p])
        BY DEF Waiting
    <2>2. PICK w \in Places : a \in Elements(Line[w])
        BY <2>1, LineNow
    <2>. QED
        BY <1>1, <2>2
<1>. QED
    BY <1>2, <1>3

\* What is put back into the send queue is excused from then on.
LEMMA RequeueOrder ==
    ASSUME PipelineTypeOK, PipelineTypeOK', NEW m \in Message, Requeue(m),
           NEW lq, NEW eq, NEW kp, NEW en, Order(sendQ, lq, eq, kp, en, requeued)
    PROVE  Order(sendQ', lq, eq, kp, en, requeued')
<1>0. sendQ \in Rows /\ sendQ' \in Rows /\ m.pri \in Priorities
    BY MessageNumbers DEF PipelineTypeOK, Rows
<1>1. CASE Room
    <2>1. sendQ' = [sendQ EXCEPT ![m.pri] = Append(sendQ[m.pri], m)] /\ requeued' = requeued \cup {m.id}
        BY <1>1 DEF Requeue, PutBack
    <2>2. /\ sendQ'[m.pri] = Append(sendQ[m.pri], m)
          /\ \A s \in Priorities \ {m.pri} : sendQ'[s] = sendQ[s]
        BY <1>0, <2>1 DEF Rows
    <2>3. PICK q, r, Q : q = sendQ /\ r = sendQ' /\ Q = requeued'
        OBVIOUS
    <2>4. Order(q, lq, eq, kp, en, Q)
        <3>1. requeued \subseteq Q /\ Order(q, lq, eq, kp, en, requeued)
            BY <2>1, <2>3
        <3>. QED
            BY <3>1, OrderMore
    <2>5. m.id \in Q
        BY <2>1, <2>3
    <2>6. /\ q \in Rows /\ r \in Rows /\ r[m.pri] = Append(q[m.pri], m)
          /\ \A s \in Priorities \ {m.pri} : r[s] = q[s]
        BY <1>0, <2>2, <2>3
    <2>7. Order(r, lq, eq, kp, en, Q)
        BY <1>0, <2>4, <2>5, <2>6, OrderJoin
    <2>. QED
        BY <2>3, <2>7
<1>2. CASE ~Room
    BY <1>2 DEF Requeue, Drop
<1>. QED
    BY <1>1, <1>2

\* The order of the model's own queues; between two calls of process_send_queue
\* there is no batch.
PartsInOrder ==
    /\ Order(sendQ, local, encQ, kept, encoded, requeued)
    /\ ~busy => local = Empty

\* No step puts a message before one it has to follow.
LEMMA OrderStep ==
    ASSUME PipelineTypeOK, PipelineTypeOK', PartsOnce, PartsInOrder, [PipelineNext]_pipelineVars
    PROVE  PartsInOrder'
<1>0. /\ sendQ \in Rows /\ sendQ' \in Rows /\ local \in Rows /\ local' \in Rows
      /\ encQ \in Seq(Message) /\ kept \in Seq(Message) /\ encoded \in Seq(Message)
    BY DEF PipelineTypeOK, Rows
<1>. DEFINE Now == Order(sendQ, local, encQ, kept, encoded, requeued)
<1>00. Now
    BY DEF PartsInOrder
<1>. HIDE DEF Now
<1>1. ASSUME NEW p \in Priorities, NEW c \in Media, SendMessage(p, c) PROVE PartsInOrder'
    <2>. DEFINE m == [id |-> accepted + 1, pri |-> p, ch |-> c, whole |-> TRUE]
    <2>1. accepted \in Nat /\ accepted + 1 \in Ids
        BY <1>1, PipelineAssumption DEF SendMessage, PipelineTypeOK, Ids
    <2>2. m \in Message /\ m.id = accepted + 1 /\ m.pri = p
        BY <2>1 DEF Message
    <2>3. sendQ' = [sendQ EXCEPT ![p] = Append(sendQ[p], m)]
        BY <1>1 DEF SendMessage
    <2>. HIDE DEF m
    <2>4. sendQ'[p] = Append(sendQ[p], m) /\ \A s \in Priorities \ {p} : sendQ'[s] = sendQ[s]
        BY <1>0, <2>3 DEF Rows
    <2>5. \A a \in Passed(encQ, kept, encoded) \cup Waiting(local) \cup Waiting(sendQ) : a.id < m.id
        BY <2>1, <2>2, IdsGiven
    <2>6. PICK r : r = sendQ'
        OBVIOUS
    <2>7. Order(r, local, encQ, kept, encoded, requeued)
        BY <1>0, <1>00, <2>2, <2>4, <2>5, <2>6, OrderJoin DEF Now
    <2>8. /\ local' = local /\ encQ' = encQ /\ kept' = kept /\ encoded' = encoded
          /\ requeued' = requeued /\ busy' = busy
        BY <1>1 DEF SendMessage, clearVars, reactorVars
    <2>. QED
        BY <2>6, <2>7, <2>8 DEF PartsInOrder
<1>2. CASE UNCHANGED <<sendQ, local, encQ, kept, encoded, requeued, busy>>
    BY <1>2 DEF PartsInOrder
<1>3. CASE ClearOutbound
    <2>1. \A p \in Priorities : sendQ'[p] = sendQ[p] \/ sendQ'[p] = <<>>
        BY <1>3 DEF ClearOutbound
    <2>2. PICK r : r = sendQ'
        OBVIOUS
    <2>3. Order(r, local, encQ, kept, encoded, requeued)
        BY <1>0, <1>00, <2>1, <2>2, OrderCleared DEF Now
    <2>4. /\ local' = local /\ encQ' = encQ /\ kept' = kept /\ encoded' = encoded
          /\ requeued' = requeued /\ busy' = busy
        BY <1>3 DEF ClearOutbound, reactorVars
    <2>. QED
        BY <2>2, <2>3, <2>4 DEF PartsInOrder
<1>4. CASE ClearPoll
    <2>1. /\ encQ # <<>> /\ encQ' = Tail(encQ) /\ sendQ' = sendQ /\ local' = local
          /\ encoded' = encoded /\ requeued' = requeued /\ busy' = busy
        BY <1>4 DEF ClearPoll, Drop, reactorVars
    <2>2. kept' = kept \/ kept' = Append(kept, Head(encQ))
        BY <1>4 DEF ClearPoll
    <2>3. PICK k : k = kept'
        OBVIOUS
    <2>4. Order(sendQ, local, Tail(encQ), k, encoded, requeued)
        BY <1>0, <1>00, <2>1, <2>2, <2>3, OrderPolled DEF Now
    <2>. QED
        BY <2>1, <2>3, <2>4 DEF PartsInOrder
<1>5. CASE ClearPush
    <2>1. /\ kept # <<>> /\ kept' = Tail(kept) /\ sendQ' = sendQ /\ local' = local
          /\ encoded' = encoded /\ busy' = busy
        BY <1>5 DEF ClearPush, reactorVars
    <2>2. \/ encQ' = encQ /\ requeued' = requeued
          \/ encQ' = Append(encQ, Head(kept)) /\ requeued' = requeued \cup {Head(kept).id}
        BY <1>5 DEF ClearPush, PutBack, Drop
    <2>3. PICK e, Q : e = encQ' /\ Q = requeued'
        OBVIOUS
    <2>4. requeued \subseteq Q
        BY <2>2, <2>3
    <2>5. Order(sendQ, local, encQ, kept, encoded, Q)
        BY <1>00, <2>4, OrderMore DEF Now
    <2>6. e = encQ \/ (e = Append(encQ, Head(kept)) /\ Head(kept).id \in Q)
        BY <2>2, <2>3
    <2>7. Order(sendQ, local, e, Tail(kept), encoded, Q)
        BY <1>0, <2>1, <2>5, <2>6, OrderPushed
    <2>. QED
        BY <2>1, <2>3, <2>7 DEF PartsInOrder
<1>6. CASE SwapQueue
    <2>1. /\ local = Empty /\ sendQ' = Empty /\ local' = sendQ /\ encQ' = encQ /\ kept' = kept
          /\ encoded' = encoded /\ requeued' = requeued /\ busy' = TRUE
        BY <1>6 DEF SwapQueue, Swapped, clearVars, PartsInOrder
    <2>2. Order(sendQ, Empty, encQ, kept, encoded, requeued)
        BY <1>00, <2>1 DEF Now
    <2>3. Order(Empty, sendQ, encQ, kept, encoded, requeued)
        BY <1>0, <2>2, OrderSwapped
    <2>. QED
        BY <2>1, <2>3 DEF PartsInOrder
<1>7. CASE ProcessOne
    <2>1. /\ Top \in Priorities /\ local[Top] # <<>>
          /\ \A q \in Priorities : q > Top => local[q] = <<>>
        BY <1>0, <1>7, TopFacts DEF ProcessOne, Rows
    <2>2. /\ local' = [local EXCEPT ![Top] = Tail(local[Top])] /\ kept' = kept
          /\ encoded' = encoded /\ busy' = busy /\ busy
        BY <1>7 DEF ProcessOne, clearVars
    <2>3. local'[Top] = Tail(local[Top]) /\ \A s \in Priorities \ {Top} : local'[s] = local[s]
        BY <1>0, <2>1, <2>2 DEF Rows
    <2>4. PICK t, r : t = Top /\ r = local'
        OBVIOUS
    <2>5. /\ t \in Priorities /\ local[t] # <<>> /\ r \in Rows /\ r[t] = Tail(local[t])
          /\ \A s \in Priorities \ {t} : r[s] = local[s]
          /\ \A q \in Priorities : q > t => local[q] = <<>>
        BY <1>0, <2>1, <2>3, <2>4
    <2>6. ASSUME NEW e, e = encQ \/ e = Append(encQ, Head(local[t]))
          PROVE  Order(sendQ, r, e, kept, encoded, requeued)
        BY <1>0, <1>00, <2>5, <2>6, OrderTaken DEF Now
    <2>7. Head(local[t]) \in Message
        <3>1. local[t] \in Seq(Message)
            BY <1>0, <2>5 DEF Rows
        <3>. QED
            BY <2>5, <3>1, HeadAndTail
    <2>8. CASE Requeue(Head(local[Top])) /\ encQ' = encQ
        <3>1. Order(sendQ, r, encQ, kept, encoded, requeued)
            BY <2>6
        <3>2. Requeue(Head(local[t]))
            BY <2>4, <2>8
        <3>3. Order(sendQ', r, encQ, kept, encoded, requeued')
            BY <2>7, <3>1, <3>2, RequeueOrder
        <3>. QED
            BY <2>2, <2>4, <2>8, <3>3 DEF PartsInOrder
    <2>9. CASE /\ sendQ' = sendQ /\ requeued' = requeued
               /\ encQ' = encQ \/ encQ' = Append(encQ, Head(local[Top]))
        <3>1. PICK e : e = encQ'
            OBVIOUS
        <3>2. Order(sendQ, r, e, kept, encoded, requeued)
            BY <2>4, <2>6, <2>9, <3>1
        <3>. QED
            BY <2>2, <2>4, <2>9, <3>1, <3>2 DEF PartsInOrder
    <2>. QED
        BY <1>7, <2>8, <2>9 DEF ProcessOne, Drop
<1>8. CASE ProcessRefused
    <2>1. /\ refused # <<>> /\ local' = local /\ encQ' = encQ /\ kept' = kept
          /\ encoded' = encoded /\ busy' = busy
        BY <1>8 DEF ProcessRefused, clearVars
    <2>2. PICK o \in Message : o = [Head(refused) EXCEPT !.pri = 0]
        BY <2>1, HeadAndTail, Altered DEF PipelineTypeOK
    <2>3. Requeue(o)
        BY <1>8, <2>2 DEF ProcessRefused
    <2>4. Order(sendQ', local, encQ, kept, encoded, requeued')
        BY <1>00, <2>3, RequeueOrder DEF Now
    <2>. QED
        BY <2>1, <2>4 DEF PartsInOrder
<1>9. CASE ProcessDone
    <2>1. /\ local = Empty /\ local' = local
          /\ UNCHANGED <<sendQ, encQ, kept, encoded, requeued>>
        BY <1>9 DEF ProcessDone, clearVars
    <2>. QED
        BY <1>00, <2>1 DEF PartsInOrder, Now
<1>10. CASE Encode
    <2>1. /\ encQ # <<>> /\ encQ' = Tail(encQ) /\ sendQ' = sendQ /\ local' = local
          /\ kept' = kept /\ requeued' = requeued /\ busy' = busy
        BY <1>10 DEF Encode, Drop, clearVars, reactorVars
    <2>2. encoded' = encoded \/ encoded' = Append(encoded, Head(encQ))
        BY <1>10 DEF Encode
    <2>3. PICK e : e = encoded'
        OBVIOUS
    <2>4. Order(sendQ, local, Tail(encQ), kept, e, requeued)
        BY <1>0, <1>00, <2>1, <2>2, <2>3, OrderPolled DEF Now
    <2>. QED
        BY <2>1, <2>3, <2>4 DEF PartsInOrder
<1>11. CASE DrainChannel \/ DrainOver \/ Flap \/ ClearEmptied \/ UNCHANGED pipelineVars
    BY <1>2, <1>11 DEF DrainChannel, DrainOver, Flap, ClearEmptied, pipelineVars, clearVars,
        reactorVars
<1>. QED
    BY <1>1, <1>3, <1>4, <1>5, <1>6, <1>7, <1>8, <1>9, <1>10, <1>11
    DEF PipelineNext, Clearer, Reactor

-----------------------------------------------------------------------------
(* The queues are one *)

LEMMA CountInterval ==
    ASSUME NEW n \in Nat
    PROVE  IsFiniteSet(1..n) /\ Cardinality(1..n) = n
<1>1. IsFiniteSet(1..n) /\ Cardinality(1..n) = IF 1 > n THEN 0 ELSE n - 1 + 1
    <2>1. 1 \in Int /\ n \in Int
        OBVIOUS
    <2>. QED
        BY <2>1, FS_Interval, Zenon
<1>2. (IF 1 > n THEN 0 ELSE n - 1 + 1) = n
    OBVIOUS
<1>. QED
    BY <1>1, <1>2

\* A sequence without a repeated id holds as many ids as it is long.
LEMMA CountIds ==
    ASSUME NEW s \in Seq(Message), \A i, j \in 1..Len(s) : s[i].id = s[j].id => i = j
    PROVE  IsFiniteSet(IdsOf(Elements(s))) /\ Cardinality(IdsOf(Elements(s))) = Len(s)
<1>. DEFINE f == [i \in 1..Len(s) |-> s[i].id]
            T == IdsOf(Elements(s))
<1>1. Len(s) \in Nat
    OBVIOUS
<1>2. IsFiniteSet(1..Len(s)) /\ Cardinality(1..Len(s)) = Len(s)
    BY <1>1, CountInterval
<1>3. T = {s[i].id : i \in 1..Len(s)}
    BY DEF IdsOf, Elements
<1>4. f \in Bijection(1..Len(s), T)
    BY <1>3 DEF Bijection, Injection, Surjection, IsInjective
<1>. QED
    BY <1>2, <1>4, FS_Bijection DEF ExistsBijection

\* So do the rows of a queue.
LEMMA CountRows ==
    ASSUME NEW q \in Rows,
           \A p, r \in Priorities : \A i \in 1..Len(q[p]), j \in 1..Len(q[r]) :
                q[p][i].id = q[r][j].id => p = r /\ i = j
    PROVE  IsFiniteSet(IdsOf(Waiting(q))) /\ Cardinality(IdsOf(Waiting(q))) = Size(q)
<1>. DEFINE f == [x \in Positions(q) |-> q[x[1]][x[2]].id]
            T == IdsOf(Waiting(q))
<1>1. IsFiniteSet(Positions(q))
    BY PositionsFinite DEF Rows
<1>2. ASSUME NEW x \in Positions(q)
      PROVE  \E p \in Priorities : \E i \in 1..Len(q[p]) : x = <<p, i>> /\ f[x] = q[p][i].id
    BY <1>2 DEF Positions
<1>3. ASSUME NEW p \in Priorities, NEW i \in 1..Len(q[p])
      PROVE  <<p, i>> \in Positions(q) /\ f[<<p, i>>] = q[p][i].id
    BY <1>3, PositionsAre
<1>4. \A k : k \in T <=> \E p \in Priorities : \E i \in 1..Len(q[p]) : q[p][i].id = k
    BY DEF IdsOf, Waiting, Elements
<1>5. f \in [Positions(q) -> T]
    <2>1. \A x \in Positions(q) : f[x] \in T
        <3>. HIDE DEF f, T
        <3>. QED
            BY <1>2, <1>4
    <2>. QED
        BY <2>1
<1>6. \A k \in T : \E x \in Positions(q) : f[x] = k
    <2>. HIDE DEF f, T
    <2>. SUFFICES ASSUME NEW k \in T PROVE \E x \in Positions(q) : f[x] = k
        OBVIOUS
    <2>1. PICK p \in Priorities : \E i \in 1..Len(q[p]) : q[p][i].id = k
        BY <1>4
    <2>2. PICK i \in 1..Len(q[p]) : q[p][i].id = k
        BY <2>1
    <2>3. <<p, i>> \in Positions(q) /\ f[<<p, i>>] = k
        BY <1>3, <2>2
    <2>. QED
        BY <2>3
<1>7. \A x, y \in Positions(q) : f[x] = f[y] => x = y
    <2>. HIDE DEF f, T
    <2>. QED
        BY <1>2
<1>8. f \in Bijection(Positions(q), T)
    <2>. DOMAIN f = Positions(q)
        OBVIOUS
    <2>. HIDE DEF f, T
    <2>. QED
        BY <1>5, <1>6, <1>7 DEF Bijection, Injection, Surjection, IsInjective
<1>. QED
    BY <1>1, <1>8, FS_Bijection DEF ExistsBijection, Size

LEMMA CountApart ==
    ASSUME NEW S, NEW T, IsFiniteSet(S), IsFiniteSet(T), S \cap T = {}
    PROVE  /\ IsFiniteSet(S \cup T)
           /\ Cardinality(S \cup T) = Cardinality(S) + Cardinality(T)
           /\ Cardinality(S) \in Nat /\ Cardinality(T) \in Nat
<1>1. Cardinality(S) \in Nat /\ Cardinality(T) \in Nat
    BY FS_CardinalityType
<1>2. Cardinality(S \cap T) = 0
    BY FS_EmptySet
<1>3. /\ IsFiniteSet(S \cup T)
      /\ Cardinality(S \cup T) = Cardinality(S) + Cardinality(T) - Cardinality(S \cap T)
    BY FS_Union, Zenon
<1>. QED
    BY <1>1, <1>2, <1>3

\* The message k is in the line w.
At(k, w) == w \in Places /\ \E i \in 1..Len(Line[w]) : Line[w][i].id = k

LEMMA AtOne ==
    ASSUME PartsOnce
    PROVE  /\ \A k, v, w : At(k, v) /\ At(k, w) => v = w
           /\ \A k, w : At(k, w) => k \in (1..accepted) \ dropped
           /\ \A k \in (1..accepted) \ dropped : \E w : At(k, w)
BY DEF At, PartsOnce, Once

LEMMA AtIs ==
    ASSUME PipelineTypeOK, NEW k
    PROVE  /\ k \in IdsOf(Waiting(sendQ)) <=> \E p \in Priorities : At(k, <<"send", p>>)
           /\ k \in IdsOf(Waiting(local)) <=> \E p \in Priorities : At(k, <<"local", p>>)
           /\ k \in IdsOf(Elements(refused)) <=> At(k, <<"refused", 0>>)
           /\ k \in IdsOf(Elements(encQ)) <=> At(k, <<"encode", 0>>)
           /\ k \in IdsOf(Elements(kept)) <=> At(k, <<"kept", 0>>)
           /\ k \in IdsOf(Elements(encoded)) <=> At(k, <<"encoded", 0>>)
<1>1. ASSUME NEW s PROVE k \in IdsOf(Elements(s)) <=> \E i \in 1..Len(s) : s[i].id = k
    BY DEF IdsOf, Elements
<1>2. ASSUME NEW q PROVE k \in IdsOf(Waiting(q)) <=> \E p \in Priorities : k \in IdsOf(Elements(q[p]))
    BY DEF IdsOf, Waiting
<1>3. ASSUME NEW p \in Priorities
      PROVE  /\ k \in IdsOf(Elements(sendQ[p])) <=> At(k, <<"send", p>>)
             /\ k \in IdsOf(Elements(local[p])) <=> At(k, <<"local", p>>)
    BY <1>1, LineNow DEF At
<1>4. /\ k \in IdsOf(Elements(refused)) <=> At(k, <<"refused", 0>>)
      /\ k \in IdsOf(Elements(encQ)) <=> At(k, <<"encode", 0>>)
      /\ k \in IdsOf(Elements(kept)) <=> At(k, <<"kept", 0>>)
      /\ k \in IdsOf(Elements(encoded)) <=> At(k, <<"encoded", 0>>)
    BY <1>1, LineNow DEF At
<1>. QED
    BY <1>2, <1>3, <1>4

\* From the lines to the property: the ids of the six places and the dropped ones
\* are disjoint sets, as large as the places are long.
LEMMA OnceIsEachOnce == ASSUME PipelineTypeOK, PartsOnce PROVE EachMessageOnce
<1>. DEFINE A == IdsOf(Waiting(sendQ))
            B == IdsOf(Waiting(local))
            C == IdsOf(Elements(refused))
            D == IdsOf(Elements(encQ))
            E == IdsOf(Elements(kept))
            F == IdsOf(Elements(encoded))
<1>0. /\ sendQ \in Rows /\ local \in Rows /\ refused \in Seq(Message) /\ encQ \in Seq(Message)
      /\ kept \in Seq(Message) /\ encoded \in Seq(Message) /\ dropped \subseteq Ids
    BY DEF PipelineTypeOK, Rows
<1>1. \A v, w \in Places : \A i \in 1..Len(Line[v]), j \in 1..Len(Line[w]) :
            Line[v][i].id = Line[w][j].id => v = w /\ i = j
    BY DEF PartsOnce, Once
<1>2. IsFiniteSet(A) /\ Cardinality(A) = Size(sendQ)
    <2>1. ASSUME NEW p \in Priorities, NEW r \in Priorities, NEW i \in 1..Len(sendQ[p]),
                 NEW j \in 1..Len(sendQ[r]), sendQ[p][i].id = sendQ[r][j].id
          PROVE  p = r /\ i = j
        <3>1. PICK u, w : u = <<"send", p>> /\ w = <<"send", r>>
            OBVIOUS
        <3>2. u \in Places /\ w \in Places /\ Line[u] = sendQ[p] /\ Line[w] = sendQ[r]
            BY <3>1, LineNow
        <3>3. u = w /\ i = j
            BY <1>1, <2>1, <3>2
        <3>. QED
            BY <3>1, <3>3
    <2>. QED
        BY <1>0, <2>1, CountRows
<1>3. IsFiniteSet(B) /\ Cardinality(B) = Size(local)
    <2>1. ASSUME NEW p \in Priorities, NEW r \in Priorities, NEW i \in 1..Len(local[p]),
                 NEW j \in 1..Len(local[r]), local[p][i].id = local[r][j].id
          PROVE  p = r /\ i = j
        <3>1. PICK u, w : u = <<"local", p>> /\ w = <<"local", r>>
            OBVIOUS
        <3>2. u \in Places /\ w \in Places /\ Line[u] = local[p] /\ Line[w] = local[r]
            BY <3>1, LineNow
        <3>3. u = w /\ i = j
            BY <1>1, <2>1, <3>2
        <3>. QED
            BY <3>1, <3>3
    <2>. QED
        BY <1>0, <2>1, CountRows
<1>4. \A w \in Places : \A i, j \in 1..Len(Line[w]) : Line[w][i].id = Line[w][j].id => i = j
    BY <1>1
<1>5. /\ \A i, j \in 1..Len(refused) : refused[i].id = refused[j].id => i = j
      /\ \A i, j \in 1..Len(encQ) : encQ[i].id = encQ[j].id => i = j
      /\ \A i, j \in 1..Len(kept) : kept[i].id = kept[j].id => i = j
      /\ \A i, j \in 1..Len(encoded) : encoded[i].id = encoded[j].id => i = j
    BY <1>4, LineNow
<1>6. /\ IsFiniteSet(C) /\ Cardinality(C) = Len(refused)
      /\ IsFiniteSet(D) /\ Cardinality(D) = Len(encQ)
      /\ IsFiniteSet(E) /\ Cardinality(E) = Len(kept)
      /\ IsFiniteSet(F) /\ Cardinality(F) = Len(encoded)
    BY <1>0, <1>5, CountIds
<1>7. /\ A \cap B = {} /\ (A \cup B) \cap C = {} /\ (A \cup B \cup C) \cap D = {}
      /\ (A \cup B \cup C \cup D) \cap E = {} /\ (A \cup B \cup C \cup D \cup E) \cap F = {}
      /\ (A \cup B \cup C \cup D \cup E \cup F) \cap dropped = {}
    <2>1. ASSUME NEW k PROVE /\ k \in A => k \notin B \cup C \cup D \cup E \cup F \cup dropped
                             /\ k \in B => k \notin C \cup D \cup E \cup F \cup dropped
                             /\ k \in C => k \notin D \cup E \cup F \cup dropped
                             /\ k \in D => k \notin E \cup F \cup dropped
                             /\ k \in E => k \notin F \cup dropped
                             /\ k \in F => k \notin dropped
        BY AtIs, AtOne
    <2>. HIDE DEF A, B, C, D, E, F
    <2>. QED
        BY <2>1
<1>8. A \cup B \cup C \cup D \cup E \cup F \cup dropped = 1..accepted
    <2>1. ASSUME NEW k \in A \cup B \cup C \cup D \cup E \cup F PROVE k \in 1..accepted
        BY AtIs, AtOne
    <2>2. ASSUME NEW k \in (1..accepted) \ dropped PROVE k \in A \cup B \cup C \cup D \cup E \cup F
        <3>1. PICK w : At(k, w)
            BY AtOne
        <3>2. w \in Places
            BY <3>1 DEF At
        <3>. QED
            BY <3>1, <3>2, AtIs, PlacesAre
    <2>3. dropped \subseteq 1..accepted
        BY DEF PartsOnce, Once
    <2>. HIDE DEF A, B, C, D, E, F
    <2>. QED
        BY <2>1, <2>2, <2>3
<1>9. IsFiniteSet(dropped)
    <2>1. IsFiniteSet(Ids)
        BY PipelineAssumption, FS_Interval DEF Ids
    <2>. QED
        BY <1>0, <2>1, FS_Subset
<1>10. accepted \in Nat /\ Cardinality(1..accepted) = accepted
    <2>1. accepted \in Nat
        BY PipelineAssumption DEF PipelineTypeOK
    <2>. QED
        BY <2>1, CountInterval
<1>11. IdsOf(Waiting(sendQ) \cup Waiting(local) \cup Elements(refused) \cup Elements(encQ)
                \cup Elements(kept) \cup Elements(encoded)) = A \cup B \cup C \cup D \cup E \cup F
    BY DEF IdsOf
<1>. HIDE DEF A, B, C, D, E, F
<1>12. PICK B2, C2, D2, E2, F2 :
            B2 = A \cup B /\ C2 = B2 \cup C /\ D2 = C2 \cup D /\ E2 = D2 \cup E /\ F2 = E2 \cup F
    OBVIOUS
<1>13. /\ A \cap B = {} /\ B2 \cap C = {} /\ C2 \cap D = {} /\ D2 \cap E = {} /\ E2 \cap F = {}
       /\ F2 \cap dropped = {} /\ F2 = A \cup B \cup C \cup D \cup E \cup F
    BY <1>7, <1>12
<1>14. IsFiniteSet(B2) /\ Cardinality(B2) = Cardinality(A) + Cardinality(B)
    BY <1>2, <1>3, <1>12, <1>13, CountApart
<1>15. IsFiniteSet(C2) /\ Cardinality(C2) = Cardinality(B2) + Cardinality(C)
    BY <1>6, <1>12, <1>13, <1>14, CountApart
<1>16. IsFiniteSet(D2) /\ Cardinality(D2) = Cardinality(C2) + Cardinality(D)
    BY <1>6, <1>12, <1>13, <1>15, CountApart
<1>17. IsFiniteSet(E2) /\ Cardinality(E2) = Cardinality(D2) + Cardinality(E)
    BY <1>6, <1>12, <1>13, <1>16, CountApart
<1>18. IsFiniteSet(F2) /\ Cardinality(F2) = Cardinality(E2) + Cardinality(F)
    BY <1>6, <1>12, <1>13, <1>17, CountApart
<1>19. Cardinality(F2 \cup dropped) = Cardinality(F2) + Cardinality(dropped)
    BY <1>9, <1>13, <1>18, CountApart
<1>20. Cardinality(F2 \cup dropped)
            = Size(sendQ) + Size(local) + Len(refused) + Len(encQ) + Len(kept) + Len(encoded)
                + Cardinality(dropped)
    BY <1>2, <1>3, <1>6, <1>14, <1>15, <1>16, <1>17, <1>18, <1>19
<1>. QED
    BY <1>8, <1>10, <1>11, <1>13, <1>20 DEF EachMessageOnce

\* The inductive invariant.
PipelineInv == PipelineTypeOK /\ PartsOnce /\ PartsInOrder

LEMMA PipelineStarts == ASSUME PipelineInit PROVE PipelineInv
<1>1. PipelineTypeOK
    BY PipelineTypeStarts
<1>2. \A w \in Places : Line[w] = <<>>
    <2>1. /\ \A p \in Priorities : sendQ[p] = <<>> /\ local[p] = <<>>
          /\ refused = <<>> /\ encQ = <<>> /\ kept = <<>> /\ encoded = <<>>
        BY DEF PipelineInit, Empty
    <2>. QED
        BY <1>1, <2>1, LineNow, PlacesAre
<1>3. PartsOnce
    <2>1. \A w \in Places : Len(Line[w]) = 0
        BY <1>2
    <2>2. accepted = 0 /\ dropped = {}
        BY DEF PipelineInit
    <2>. QED
        BY <2>1, <2>2 DEF PartsOnce, Once
<1>4. PartsInOrder
    <2>1. /\ sendQ = Empty /\ local = Empty /\ encQ = <<>> /\ kept = <<>> /\ encoded = <<>>
        BY DEF PipelineInit
    <2>2. Elements(<<>>) = {} /\ InOrder(<<>>, requeued)
        BY DEF Elements, InOrder
    <2>3. \A p \in Priorities : Empty[p] = <<>>
        BY DEF Empty
    <2>4. Waiting(Empty) = {} /\ RowsAre(Empty)
        BY <2>2, <2>3 DEF Waiting, RowsAre
    <2>5. ByAge(Empty, requeued)
        BY <2>3 DEF ByAge
    <2>. QED
        BY <2>1, <2>2, <2>4, <2>5 DEF PartsInOrder, Order, Passed
<1>. QED
    BY <1>1, <1>3, <1>4 DEF PipelineInv

\* To the application the queues are one priority queue, whatever the threads
\* and clear_outbound do in between: no accepted message is lost or doubled, and
\* none is encoded before an older one of its priority that was not put back.
THEOREM PipelineIsOneQueue == PipelineSpec => []QueuesAreOne
<1>1. PipelineInit => PipelineInv
    BY PipelineStarts
<1>2. PipelineInv /\ [PipelineNext]_pipelineVars => PipelineInv'
    <2>. SUFFICES ASSUME PipelineInv, [PipelineNext]_pipelineVars PROVE PipelineInv'
        OBVIOUS
    <2>1. PipelineTypeOK'
        BY PipelineTypeStep DEF PipelineInv
    <2>2. ~busy => local = Empty
        BY DEF PipelineInv, PartsInOrder
    <2>3. PartsOnce'
        BY <2>1, <2>2, OnceStep DEF PipelineInv
    <2>4. PartsInOrder'
        BY <2>1, OrderStep DEF PipelineInv
    <2>. QED
        BY <2>1, <2>3, <2>4 DEF PipelineInv
<1>3. PipelineInv => QueuesAreOne
    <2>. SUFFICES ASSUME PipelineInv PROVE QueuesAreOne
        OBVIOUS
    <2>1. EachMessageOnce
        BY OnceIsEachOnce DEF PipelineInv
    <2>2. SentInOrder
        BY DEF PipelineInv, PartsInOrder, Order, InOrder, After, SentInOrder
    <2>. QED
        BY <2>1, <2>2 DEF QueuesAreOne
<1>. QED
    BY <1>1, <1>2, <1>3, PTL DEF PipelineSpec
=============================================================================
