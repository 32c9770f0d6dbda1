-------------------------------- MODULE Pacer --------------------------------
(***************************************************************************)
(* The paced sender: the token bucket with its loan for video, one         *)
(* heartbeat of sender_loop at a time, and drain_sender, which stands in   *)
(* for it in lite mode.  The estimator's rate, the threads that fill the   *)
(* outbound queue and the fast evacuation of video_capacity_bps are the    *)
(* environment.                                                            *)
(*                                                                         *)
(* Tokens are integers; every datagram costs Cost.  Time is counted in     *)
(* heartbeats.  "strict" stands for every channel but audio and video:     *)
(* file, data and the control packets of channel 7.                        *)
(***************************************************************************)
EXTENDS Integers, Sequences

CONSTANTS
    Rates,         \* estimator rates, in tokens per heartbeat
    Cost,          \* tokens of one datagram
    Burst,         \* four MTUs: the bucket's least capacity
    LoanBeats,     \* loan_seconds, in heartbeats
    QueueCap,      \* outbound_queue_limit
    Deep,          \* queue length that counts as local back-pressure (32)
    Shallow,       \* queue length up to which the application may count as idle (8)
    DrainBeats,    \* kEvacDrainMs, in heartbeats
    PerBeat,       \* bound: datagrams queued during one heartbeat
    MaxOverdraft,  \* bound: tokens spent in lite mode while the application is idle
    MaxEvacs       \* bound: fast evacuations

ASSUME PacerAssumption ==
    /\ Rates \subseteq Nat \ {0} /\ Rates # {}
    /\ Cost \in Nat \ {0} /\ Burst \in Nat /\ Burst >= Cost
    /\ LoanBeats \in Nat /\ QueueCap \in Nat \ {0} /\ Deep \in Nat /\ Shallow \in Nat
    /\ DrainBeats \in Nat /\ PerBeat \in Nat /\ MaxOverdraft \in Nat /\ MaxEvacs \in Nat

Channels == {"video", "strict"}

VARIABLES
    lite,        \* lite mode: drain_sender on the reactor instead of sender_loop
    token,       \* m_token_bucket
    rate,        \* bytes_per_second of the estimator
    queue,       \* m_outbound_queue: the channel of each datagram
    audio,       \* m_audio_queue is not empty
    loanDrain,   \* m_loan_drain
    reported,    \* m_loan_exhausted_reported
    evacReset,   \* m_evac_reset_token
    drain,       \* heartbeats until m_drain_until_ms[0]
    limited,     \* m_pacer_limited
    pending,     \* m_lite_pending: its channel, or "none"
    pc,          \* where in its heartbeat the sender is
    pushed,      \* datagrams queued since the heartbeat began
    evacs,
    \* history, for the properties only
    lastCall,    \* last call of the loan callback
    repeated     \* the callback was called twice with the same value

histVars == <<lastCall, repeated>>
vars     == <<lite, token, rate, queue, audio, loanDrain, reported, evacReset, drain, limited,
              pending, pc, pushed, evacs, histVars>>

Init ==
    /\ lite \in BOOLEAN /\ token = 0 /\ rate \in Rates /\ queue = <<>> /\ audio = FALSE
    /\ loanDrain = FALSE /\ reported = FALSE /\ evacReset = FALSE /\ drain = 0
    /\ limited = FALSE /\ pending = "none" /\ pc = "top" /\ pushed = 0 /\ evacs = 0
    /\ lastCall = "none" /\ repeated = FALSE

Larger(a, b)  == IF a >= b THEN a ELSE b
Smaller(a, b) == IF a <= b THEN a ELSE b

Refilled_Paused == IF loanDrain THEN token ELSE Smaller(token + rate, Larger(Burst, 2 * rate))

\* refill_token_bucket over one heartbeat; 0.02 s of the rate are two of them.
Refilled  == Smaller(token + rate, Larger(Burst, 2 * rate))
LoanLimit == rate * LoanBeats

\* notify_loan_exhausted
Notify(call) ==
    /\ lastCall' = call
    /\ repeated' = (repeated \/ lastCall = call)

-----------------------------------------------------------------------------
(* Environment *)

\* Mutant: the queue takes every datagram.
SendRaw_NoLimit(ch) ==
    /\ pushed < PerBeat
    /\ pushed' = pushed + 1
    /\ queue' = Append(queue, ch)
    /\ UNCHANGED <<lite, token, rate, audio, loanDrain, reported, evacReset, drain, limited, pending,
                   pc, evacs, histVars>>

\* send_raw: a full queue drops the datagram.
SendRaw(ch) ==
    /\ pushed < PerBeat
    /\ pushed' = pushed + 1
    /\ queue' = IF Len(queue) < QueueCap THEN Append(queue, ch) ELSE queue
    /\ UNCHANGED <<lite, token, rate, audio, loanDrain, reported, evacReset, drain, limited, pending,
                   pc, evacs, histVars>>

SendRawAudio ==
    /\ audio' = TRUE
    /\ UNCHANGED <<lite, token, rate, queue, loanDrain, reported, evacReset, drain, limited, pending,
                   pc, pushed, evacs, histVars>>

SetRate(r) ==
    /\ rate' = r
    /\ UNCHANGED <<lite, token, queue, audio, loanDrain, reported, evacReset, drain, limited, pending,
                   pc, pushed, evacs, histVars>>

\* The fast evacuation: clear_outbound_impl, video drained, token reset asked for.
FastEvac ==
    /\ evacs < MaxEvacs
    /\ evacs' = evacs + 1
    /\ queue' = <<>>
    /\ drain' = DrainBeats
    /\ evacReset' = TRUE
    /\ UNCHANGED <<lite, token, rate, audio, loanDrain, reported, limited, pending, pc, pushed,
                   histVars>>

-----------------------------------------------------------------------------
(* sender_loop *)

\* The top of a heartbeat: refill, take a requested reset, note whether the
\* sender is the bottleneck, send all audio.
Settle ==
    LET t == IF evacReset THEN 0 ELSE Refilled IN
    /\ ~lite /\ pc = "top"
    /\ pc' = "send"
    /\ token' = t
    /\ loanDrain' = (loanDrain /\ ~evacReset)
    /\ reported' = (reported /\ ~evacReset)
    /\ evacReset' = FALSE
    /\ limited' = (t < 0 \/ Len(queue) >= Deep)
    /\ audio' = FALSE
    /\ drain' = Larger(drain - 1, 0)
    /\ pushed' = 0
    /\ UNCHANGED <<lite, rate, queue, pending, evacs, histVars>>

Popping == ~lite /\ pc = "send" /\ queue # <<>>

\* Video that is not to be sent: the channel is drained, or the loan is used up.
DropVideo ==
    /\ Popping /\ Head(queue) = "video"
    /\ drain > 0 \/ loanDrain
    /\ queue' = Tail(queue)
    /\ UNCHANGED <<lite, token, rate, audio, loanDrain, reported, evacReset, drain, limited, pending,
                   pc, pushed, evacs, histVars>>

VideoTurn == Popping /\ Head(queue) = "video" /\ drain = 0 /\ ~loanDrain

\* Mutant: the loan is checked before the cost is taken off.
Affordable_BeforeCost == token >= -LoanLimit

Affordable == token - Cost >= -LoanLimit

SendVideo ==
    /\ VideoTurn /\ Affordable
    /\ token' = token - Cost
    /\ queue' = Tail(queue)
    /\ UNCHANGED <<lite, rate, audio, loanDrain, reported, evacReset, drain, limited, pending, pc,
                   pushed, evacs, histVars>>

\* Once per exhaustion.
TellExhausted ==
    /\ reported' = TRUE
    /\ IF reported THEN UNCHANGED <<lastCall, repeated>> ELSE Notify("exhausted")

\* The loan is used up: everything queued is thrown away and video is drained.
Exhaust ==
    /\ VideoTurn /\ ~Affordable
    /\ queue' = <<>>
    /\ loanDrain' = TRUE
    /\ TellExhausted
    /\ pc' = "end"
    /\ UNCHANGED <<lite, token, rate, audio, evacReset, drain, limited, pending, pushed, evacs>>

StrictTurn == Popping /\ Head(queue) = "strict"

SendStrict ==
    /\ StrictTurn /\ token >= Cost
    /\ token' = token - Cost
    /\ queue' = Tail(queue)
    /\ UNCHANGED <<lite, rate, audio, loanDrain, reported, evacReset, drain, limited, pending, pc,
                   pushed, evacs, histVars>>

\* Too few tokens: the loop ends, and the datagram it has taken out is gone.
HoldStrict ==
    /\ StrictTurn /\ token < Cost
    /\ queue' = Tail(queue)
    /\ limited' = TRUE
    /\ pc' = "end"
    /\ UNCHANGED <<lite, token, rate, audio, loanDrain, reported, evacReset, drain, pending, pushed,
                   evacs, histVars>>

QueueDone ==
    /\ ~lite /\ pc = "send" /\ queue = <<>>
    /\ pc' = "end"
    /\ UNCHANGED <<lite, token, rate, queue, audio, loanDrain, reported, evacReset, drain, limited,
                   pending, pushed, evacs, histVars>>

\* Mutant: any heartbeat that ends without a debt counts as a recovery.
Recovering_Always == token >= 0

Recovering == loanDrain /\ token >= 0

\* The end of a heartbeat: a debt that is paid off lets video pass again.
EndBeat ==
    /\ ~lite /\ pc = "end"
    /\ pc' = "top"
    /\ \/ /\ Recovering
          /\ loanDrain' = FALSE /\ reported' = FALSE
          /\ Notify("recovered")
       \/ /\ ~Recovering
          /\ UNCHANGED <<loanDrain, reported, lastCall, repeated>>
    /\ UNCHANGED <<lite, token, rate, queue, audio, evacReset, drain, limited, pending, pushed,
                   evacs>>

-----------------------------------------------------------------------------
(* drain_sender *)

\* Time passes between two calls.
LiteBeat ==
    /\ lite /\ pc = "top"
    /\ pc' = "send"
    /\ audio' = FALSE
    /\ drain' = Larger(drain - 1, 0)
    /\ token' = Refilled
    /\ pushed' = 0
    /\ UNCHANGED <<lite, rate, queue, loanDrain, reported, evacReset, limited, pending, evacs, histVars>>

\* The slot is filled from the queue; a drained channel's datagrams are dropped.
LiteTake ==
    /\ lite /\ pc = "send" /\ pending = "none" /\ queue # <<>>
    /\ queue' = Tail(queue)
    /\ pending' = IF Head(queue) = "video" /\ drain > 0 THEN "none" ELSE Head(queue)
    /\ UNCHANGED <<lite, token, rate, audio, loanDrain, reported, evacReset, drain, limited, pc,
                   pushed, evacs, histVars>>

\* app_limited: a short queue and no recent send by the application.
LiteSend(idle) ==
    /\ lite /\ pc = "send" /\ pending # "none"
    /\ idle => Len(queue) <= Shallow
    /\ token >= Cost \/ (idle /\ token - Cost >= -MaxOverdraft)
    /\ token' = token - Cost
    /\ pending' = "none"
    /\ UNCHANGED <<lite, rate, queue, audio, loanDrain, reported, evacReset, drain, limited, pc,
                   pushed, evacs, histVars>>

LiteLimited == limited \/ Len(queue) >= Deep

\* Too few tokens: the datagram stays in the slot until the next call.
LiteWait ==
    /\ lite /\ pc = "send" /\ pending # "none" /\ token < Cost
    /\ limited' = LiteLimited
    /\ pc' = "top"
    /\ UNCHANGED <<lite, token, rate, queue, audio, loanDrain, reported, evacReset, drain, pending,
                   pushed, evacs, histVars>>

LiteDone ==
    /\ lite /\ pc = "send" /\ pending = "none" /\ queue = <<>>
    /\ pc' = "top"
    /\ UNCHANGED <<lite, token, rate, queue, audio, loanDrain, reported, evacReset, drain, limited,
                   pending, pushed, evacs, histVars>>

-----------------------------------------------------------------------------
Sender ==
    \/ Settle \/ DropVideo \/ SendVideo \/ Exhaust \/ SendStrict \/ HoldStrict
    \/ QueueDone \/ EndBeat
    \/ LiteBeat \/ LiteTake \/ LiteWait \/ LiteDone
    \/ \E idle \in BOOLEAN : LiteSend(idle)

Next ==
    \/ \E ch \in Channels : SendRaw(ch)
    \/ SendRawAudio
    \/ \E r \in Rates : SetRate(r)
    \/ FastEvac
    \/ Sender

Spec == Init /\ [][Next]_vars

(* The sender thread keeps running its heartbeats.                            *)
FairSpec == Spec /\ WF_vars(Sender)

-----------------------------------------------------------------------------
(* Properties *)

(* Every variable keeps its type, and the queue its limit (send_raw).          *)
TypeOK ==
    /\ Len(queue) <= QueueCap
    /\ lite \in BOOLEAN /\ token \in Int /\ rate \in Rates /\ queue \in Seq(Channels) /\ audio \in BOOLEAN
    /\ loanDrain \in BOOLEAN /\ reported \in BOOLEAN /\ evacReset \in BOOLEAN
    /\ drain \in Nat /\ pushed \in 0..PerBeat /\ limited \in BOOLEAN /\ pending \in Channels \cup {"none"}
    /\ pc \in {"top", "send", "end"} /\ evacs \in 0..MaxEvacs
    /\ lastCall \in {"none", "exhausted", "recovered"}
    /\ repeated \in BOOLEAN

(* The debt stays within the largest loan there can be, however the rate moves *)
(* between the bursts that were sent on credit.                                *)
DebtBounded == ~lite => \E r \in Rates : token >= -(r * LoanBeats)

(* The application knows why its video is dropped: while the loan drain is on, *)
(* the last call it got said exhausted, and it is marked as told.              *)
DrainWasAnnounced == loanDrain => reported /\ lastCall = "exhausted"

(* transport.cpp: the loan callback is called once for each exhaustion and     *)
(* once for each recovery, as long as no evacuation resets the debt.           *)
CallsAlternate == evacs = 0 => ~repeated

(* What the application hears of the loan is true: both of the above.         *)
CallsTruthful == CallsAlternate /\ DrainWasAnnounced

(* The drain ends: the debt is repaid by the refills, and strict channels       *)
(* cannot take the tokens that repay it.                                       *)
DrainEnds == loanDrain ~> ~loanDrain

(* Lite mode: the datagram in the slot is sent sooner or later; the bucket can  *)
(* always grow to its cost.                                                    *)
SlotEmpties == (pending # "none") ~> (pending = "none")

(* Nothing waits for tokens for ever, in either mode.                          *)
TokensSuffice == DrainEnds /\ SlotEmpties
=============================================================================
