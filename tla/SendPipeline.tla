---------------------------- MODULE SendPipeline ----------------------------
(***************************************************************************)
(* The way of a message from send() to the encoder: send_message on the    *)
(* application's threads, process_send_queue on the reactor, encode_loop   *)
(* on the encode thread (drain_encode on the reactor in lite mode), and    *)
(* clear_outbound_impl and drain_channel, which throw queued video away.   *)
(* One peer, whose link state the environment changes, and one caller of   *)
(* clear_outbound at a time.                                               *)
(*                                                                         *)
(* m_send_queue and m_encode_queue have a lock each, taken for one access: *)
(* clear_outbound_impl polls and pushes one task at a time while the two   *)
(* threads go on, and process_send_queue lets go of the encode queue       *)
(* before it puts a refused task back.                                     *)
(***************************************************************************)
EXTENDS Integers, Sequences, FiniteSets

CONSTANTS
    Priorities,   \* priorities the application uses
    Media,        \* channels it sends on: a subset of {"video", "audio"}
    QueueLimit,   \* queue_limit
    EncodeCap,    \* encode_queue_limit
    MaxMsgs,      \* bound: messages accepted
    MaxFlaps,     \* bound: changes of the link state
    MaxClears,    \* bound: calls of clear_outbound
    MaxDrains     \* bound: calls of drain_channel

\* A priority is an int.
IntMin == -2147483647 - 1
IntMax == 2147483647
Int32  == IntMin..IntMax

ASSUME PipelineAssumption ==
    /\ Priorities \subseteq Int32 /\ 0 \in Priorities
    /\ Media \subseteq {"video", "audio"}
    /\ QueueLimit \in Nat \ {0} /\ EncodeCap \in Nat \ {0} /\ MaxMsgs \in Nat
    /\ MaxFlaps \in Nat /\ MaxClears \in Nat /\ MaxDrains \in Nat

Ids     == 1..MaxMsgs
Message == [id : Ids, pri : Priorities, ch : Media, whole : BOOLEAN]

VARIABLES
    link,       \* state of the peer: "Handshake", "Live" or "Closed"
    sendQ,      \* m_send_queue: a sequence of messages per priority
    local,      \* the batch process_send_queue has swapped out
    refused,    \* the task of the batch that try_push has just refused
    busy,       \* the reactor is in process_send_queue
    encQ,       \* m_encode_queue
    clearing,   \* where clear_outbound_impl is: "no", "poll" or "push"
    kept,       \* its keep_audio
    draining,   \* now < m_drain_until_ms[0]
    flaps, clears, drains,
    \* history, for the properties only
    accepted,   \* messages for which send() returned true
    encoded,    \* messages handed to the fragmenter, in order
    dropped,    \* messages thrown away
    requeued    \* messages that were put back into a queue

envVars      == <<link, draining, flaps, drains>>
clearVars    == <<clearing, kept, clears>>
reactorVars  == <<local, refused, busy>>
pipelineVars == <<envVars, clearVars, reactorVars, sendQ, encQ, accepted, encoded, dropped,
                  requeued>>

Empty == [p \in Priorities |-> <<>>]

Elements(q) == {q[i] : i \in 1..Len(q)}
IdsOf(S)    == {m.id : m \in S}

\* The sum of the deques' sizes.
Positions(q) == UNION {{p} \X (1..Len(q[p])) : p \in Priorities}
Size(q)      == Cardinality(Positions(q))
Waiting(q)   == UNION {Elements(q[p]) : p \in Priorities}

PipelineInit ==
    /\ link = "Handshake" /\ draining = FALSE /\ flaps = 0 /\ drains = 0
    /\ clearing = "no" /\ kept = <<>> /\ clears = 0
    /\ sendQ = Empty /\ local = Empty /\ refused = <<>> /\ busy = FALSE /\ encQ = <<>>
    /\ accepted = 0 /\ encoded = <<>> /\ dropped = {} /\ requeued = {}

-----------------------------------------------------------------------------
(* The application *)

Room == Size(sendQ) + Len(encQ) < QueueLimit

\* send_message that returns true; a refusal (no room here or in the outbound
\* queue, too long, not running) changes nothing.
SendMessage(p, c) ==
    /\ accepted < MaxMsgs /\ Room
    /\ accepted' = accepted + 1
    /\ sendQ' = [sendQ EXCEPT ![p] =
            Append(@, [id |-> accepted + 1, pri |-> p, ch |-> c, whole |-> TRUE])]
    /\ UNCHANGED <<envVars, clearVars, reactorVars, encQ, encoded, dropped, requeued>>

DrainChannel ==
    /\ ~draining /\ drains < MaxDrains
    /\ drains' = drains + 1 /\ draining' = TRUE
    /\ UNCHANGED <<link, flaps, clearVars, reactorVars, sendQ, encQ, accepted, encoded, dropped,
                   requeued>>

DrainOver ==
    /\ draining /\ draining' = FALSE
    /\ UNCHANGED <<link, flaps, drains, clearVars, reactorVars, sendQ, encQ, accepted, encoded,
                   dropped, requeued>>

Flap ==
    /\ flaps < MaxFlaps
    /\ flaps' = flaps + 1
    /\ \E s \in {"Handshake", "Live", "Closed"} \ {link} : link' = s
    /\ UNCHANGED <<draining, drains, clearVars, reactorVars, sendQ, encQ, accepted, encoded,
                   dropped, requeued>>

-----------------------------------------------------------------------------
(* What becomes of one message *)

Drop(m) == dropped' = dropped \cup {m.id} /\ UNCHANGED requeued

PutBack(m) == requeued' = requeued \cup {m.id} /\ UNCHANGED dropped

\* Back into the send queue, if there is room.
Requeue(m) ==
    IF Room
    THEN sendQ' = [sendQ EXCEPT ![m.pri] = Append(@, m)] /\ PutBack(m)
    ELSE Drop(m) /\ UNCHANGED sendQ

\* Mutants: a message for a closed link waits as well; the encode queue is
\* filled without regard to its capacity.
Waits_Closed == link # "Live"
Fits_Always  == TRUE

Waits == link = "Handshake"
Fits  == Len(encQ) < EncodeCap

Drained(m) == draining /\ m.ch = "video"

-----------------------------------------------------------------------------
(* clear_outbound_impl: the send queue below priority 1, then all of the     *)
(* encode queue, whose audio is pushed back when the queue was found empty.  *)

ClearOutbound ==
    LET gone == {p \in Priorities : p < 1} IN
    /\ clearing = "no" /\ clears < MaxClears
    /\ clears' = clears + 1 /\ clearing' = "poll"
    /\ sendQ' = [p \in Priorities |-> IF p \in gone THEN <<>> ELSE sendQ[p]]
    /\ dropped' = dropped \cup IdsOf(UNION {Elements(sendQ[p]) : p \in gone})
    /\ UNCHANGED <<envVars, kept, reactorVars, encQ, accepted, encoded, requeued>>

ClearPoll ==
    LET m == Head(encQ) IN
    /\ clearing = "poll" /\ encQ # <<>>
    /\ encQ' = Tail(encQ)
    /\ IF m.ch = "audio"
       THEN kept' = Append(kept, m) /\ UNCHANGED <<dropped, requeued>>
       ELSE Drop(m) /\ UNCHANGED kept
    /\ UNCHANGED <<envVars, clearing, clears, reactorVars, sendQ, accepted, encoded>>

\* poll finds the queue empty.
ClearEmptied ==
    /\ clearing = "poll" /\ encQ = <<>>
    /\ clearing' = IF kept = <<>> THEN "no" ELSE "push"
    /\ UNCHANGED <<envVars, kept, clears, reactorVars, sendQ, encQ, accepted, encoded, dropped,
                   requeued>>

ClearPush ==
    LET m == Head(kept) IN
    /\ clearing = "push" /\ kept # <<>>
    /\ kept' = Tail(kept)
    /\ clearing' = IF kept' = <<>> THEN "no" ELSE "push"
    /\ IF Fits
       THEN encQ' = Append(encQ, m) /\ PutBack(m)
       ELSE Drop(m) /\ UNCHANGED encQ
    /\ UNCHANGED <<envVars, clears, reactorVars, sendQ, accepted, encoded>>

-----------------------------------------------------------------------------
(* The reactor: process_send_queue *)

\* Mutant: the queue is copied, not swapped out.
Swapped_Copied == UNCHANGED sendQ

Swapped == sendQ' = Empty

SwapQueue ==
    /\ ~busy /\ sendQ # Empty
    /\ busy' = TRUE
    /\ local' = sendQ
    /\ Swapped
    /\ UNCHANGED <<envVars, clearVars, refused, encQ, accepted, encoded, dropped, requeued>>

\* The highest priority that has messages.
Top == CHOOSE p \in Priorities :
            local[p] # <<>> /\ \A q \in Priorities : q > p => local[q] = <<>>

\* try_push takes its argument by value: after a refusal the payload is gone.
ProcessOne ==
    LET m == Head(local[Top]) IN
    /\ busy /\ local # Empty /\ refused = <<>>
    /\ local' = [local EXCEPT ![Top] = Tail(@)]
    /\ \/ /\ Drained(m) \/ (~Waits /\ link = "Closed")
          /\ Drop(m) /\ UNCHANGED <<sendQ, encQ, refused>>
       \/ /\ ~Drained(m) /\ Waits
          /\ Requeue(m) /\ UNCHANGED <<encQ, refused>>
       \/ /\ ~Drained(m) /\ link = "Live" /\ Fits
          /\ encQ' = Append(encQ, m) /\ UNCHANGED <<sendQ, dropped, requeued, refused>>
       \/ /\ ~Drained(m) /\ link = "Live" /\ ~Fits
          /\ refused' = <<[m EXCEPT !.whole = FALSE]>>
          /\ UNCHANGED <<sendQ, encQ, dropped, requeued>>
    /\ UNCHANGED <<envVars, clearVars, busy, accepted, encoded>>

\* What was refused is put back at priority 0.
ProcessRefused ==
    /\ refused # <<>>
    /\ refused' = <<>>
    /\ Requeue([Head(refused) EXCEPT !.pri = 0])
    /\ UNCHANGED <<envVars, clearVars, local, busy, encQ, accepted, encoded>>

ProcessDone ==
    /\ busy /\ local = Empty /\ refused = <<>>
    /\ busy' = FALSE
    /\ UNCHANGED <<envVars, clearVars, local, refused, sendQ, encQ, accepted, encoded, dropped,
                   requeued>>

-----------------------------------------------------------------------------
(* The encode thread *)

Encode ==
    LET m == Head(encQ) IN
    /\ encQ # <<>>
    /\ encQ' = Tail(encQ)
    /\ IF Drained(m)
       THEN Drop(m) /\ UNCHANGED encoded
       ELSE encoded' = Append(encoded, m) /\ UNCHANGED <<dropped, requeued>>
    /\ UNCHANGED <<envVars, clearVars, reactorVars, sendQ, accepted>>

Reactor == SwapQueue \/ ProcessOne \/ ProcessRefused \/ ProcessDone
Clearer == ClearPoll \/ ClearEmptied \/ ClearPush

PipelineNext ==
    \/ \E p \in Priorities, c \in Media : SendMessage(p, c)
    \/ DrainChannel \/ DrainOver \/ Flap
    \/ ClearOutbound \/ Clearer
    \/ Reactor \/ Encode

PipelineSpec == PipelineInit /\ [][PipelineNext]_pipelineVars

(* The threads run, a call of clear_outbound that was begun goes on, and a   *)
(* drain, which lasts a tenth of a second, ends.                             *)
FairPipeline ==
    /\ PipelineSpec
    /\ WF_pipelineVars(Reactor) /\ WF_pipelineVars(Encode) /\ WF_pipelineVars(Clearer)
    /\ WF_pipelineVars(DrainOver)

-----------------------------------------------------------------------------
(* Properties *)

\* Every variable keeps its type, and each queue keeps within its limit, though
\* the room is checked by one thread and used up by another.
PipelineTypeOK ==
    /\ link \in {"Handshake", "Live", "Closed"} /\ draining \in BOOLEAN
    /\ flaps \in 0..MaxFlaps /\ clears \in 0..MaxClears /\ drains \in 0..MaxDrains
    /\ sendQ \in [Priorities -> Seq(Message)] /\ local \in [Priorities -> Seq(Message)]
    /\ refused \in Seq(Message) /\ Len(refused) <= 1 /\ busy \in BOOLEAN
    /\ encQ \in Seq(Message) /\ kept \in Seq(Message) /\ clearing \in {"no", "poll", "push"}
    /\ accepted \in 0..MaxMsgs /\ encoded \in Seq(Message)
    /\ dropped \subseteq Ids /\ requeued \subseteq Ids
    /\ Size(sendQ) <= QueueLimit /\ Len(encQ) <= EncodeCap

\* Every accepted message is in exactly one place: it waits in one queue or in
\* the hands of one thread, was encoded once, or was dropped; the swap, the
\* requeueing and the clearing neither lose nor double one.
EachMessageOnce ==
    /\ IdsOf(Waiting(sendQ) \cup Waiting(local) \cup Elements(refused) \cup Elements(encQ)
                \cup Elements(kept) \cup Elements(encoded)) \cup dropped = 1..accepted
    /\ Size(sendQ) + Size(local) + Len(refused) + Len(encQ) + Len(kept) + Len(encoded)
            + Cardinality(dropped) = accepted

\* A message is overtaken only by one of a higher priority, although the queue
\* is swapped out in batches while the application goes on filling it. (One that
\* was put back, by process_send_queue for the handshake or for want of room in
\* the encode queue or by clear_outbound, may be overtaken by any other.)
SentInOrder ==
    \A i, j \in 1..Len(encoded) :
        (i < j /\ encoded[j].id < encoded[i].id)
            => encoded[j].pri < encoded[i].pri \/ encoded[j].id \in requeued

\* The queues are one priority queue to the application.
QueuesAreOne == EachMessageOnce /\ SentInOrder

\* An accepted message does not wait for ever, unless the handshake does: it is
\* encoded or dropped.
AcceptedLeaves ==
    \A i \in Ids : (<>[](link # "Handshake")) =>
        ((i <= accepted) ~> (i \in IdsOf(Elements(encoded)) \cup dropped))

-----------------------------------------------------------------------------
(* What the documents say and the code does not keep. *)

\* api_reference.md: send() puts the message itself on its way: what is encoded
\* is what was accepted.
PayloadKept == \A m \in Elements(encoded) : m.whole
=============================================================================
