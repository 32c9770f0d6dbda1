--------------------------- MODULE LifecycleProofs ---------------------------
(***************************************************************************)
(* What Lifecycle guarantees, for any set of messages and any number of    *)
(* calls and callbacks.  Types, and the conditions under which messages    *)
(* get lost, hold for any set of callers that call whatever they like at   *)
(* the same time; that every role is served holds for calls that are made  *)
(* one after the other.                                                    *)
(***************************************************************************)
EXTENDS Lifecycle, Integers, TLAPS

Ops   == {"none", "start", "start2", "stop", "down", "up"}
Steps == {"idle", "run", "spawn", "byes", "close", "join", "lock", "peers", "lite", "halt",
          "flush", "reset", "revive"}
Calls == [op : Ops, step : Steps, plan : Seq(Threads)]
Ups   == {"none", "alive", "exited"}
Ats   == {"off", "top", "peers", "walk", "offline", "process", "receive", "file", "encode",
          "load", "send"}

(***************************************************************************)
(* The parts of the type invariant; CallType is not in TypeOK, and the     *)
(* threads' part needs it.                                                 *)
(***************************************************************************)

CallType == call \in [Callers -> Calls]

ThreadType ==
    /\ up \in [Threads -> Ups] /\ at \in [Threads -> Ats]
    /\ \A t \in Threads : (up[t] = "alive") <=> (at[t] # "off")

FlagType ==
    /\ running \in BOOLEAN /\ working \in BOOLEAN /\ lite \in BOOLEAN
    /\ socket \in BOOLEAN /\ closed \in BOOLEAN

HolderType == holder \in [Locks -> Callers \cup Threads \cup {Nobody}]

CountType == calls \in 0..MaxCalls /\ events \in 0..MaxEvents

PipeType ==
    /\ todo \subseteq Msgs /\ encq \subseteq Msgs /\ outq \subseteq Msgs
    /\ slot \in Msgs \cup {NoMsg} /\ sent \subseteq Msgs /\ discarded \subseteq Msgs
    /\ dropped \subseteq Msgs /\ starved \subseteq Msgs

TypeInv ==
    /\ profile \in Profiles
    /\ CallType /\ ThreadType /\ FlagType /\ HolderType /\ CountType /\ PipeType

(* It is the type invariant of the model and the type of the calls. *)
LEMMA TypeInvIsType ==
    TypeInv => TypeOK
BY Zenon DEF TypeInv, TypeOK, ThreadType, FlagType, HolderType, CountType, PipeType, Ups, Ats

(***************************************************************************)
(* What a step does to a call, in one form for all of them.                *)
(***************************************************************************)

(* A call goes on to its next step, with the plan it has or a new one, and the *)
(* other callers' calls are left alone.                                        *)
LEMMA CallForms ==
    ASSUME CallType, NEW c \in Callers, NEW s \in Steps, NEW q \in Seq(Threads)
    PROVE  /\ Continue(c, s) =>
                call' = [call EXCEPT ![c] = [op |-> call[c].op, step |-> s, plan |-> call[c].plan]]
           /\ Plan(c, s, q) =>
                call' = [call EXCEPT ![c] = [op |-> call[c].op, step |-> s, plan |-> q]]
           /\ call' = [call EXCEPT ![c].plan = Tail(@)] =>
                call' = [call EXCEPT ![c] = [op |-> call[c].op, step |-> call[c].step,
                                             plan |-> Tail(call[c].plan)]]
<1>1. call[c] \in Calls
  BY DEF CallType
<1> QED
  BY <1>1 DEF CallType, Calls, Continue, Plan

(* The plans the calls are given. *)
LEMMA Plans ==
    /\ <<>> \in Seq(Threads) /\ <<"cap", "reactor">> \in Seq(Threads)
    /\ <<"receiver", "encode", "sender">> \in Seq(Threads)
    /\ <<"cap", "reactor", "receiver", "encode", "sender">> \in Seq(Threads)
    /\ StartWorkers \in Seq(Threads)
    /\ Revived \in Seq(Threads)
<1>1. \A t \in Threads : IfJoined(t) \in Seq(Threads)
  BY DEF IfJoined
<1>2. Revived \in Seq(Threads)
  BY <1>1 DEF Revived, Threads, Workers
<1>3. StartWorkers \in Seq(Threads)
  <2>1. StartWorkers \in {<<"receiver", "encode", "sender">>, <<"receiver">>, <<>>}
    BY Zenon DEF StartWorkers
  <2>2. <<"receiver", "encode", "sender">> \in Seq(Threads)
    BY DEF Threads, Workers
  <2>3. <<"receiver">> \in Seq(Threads) /\ <<>> \in Seq(Threads)
    BY DEF Threads, Workers
  <2> QED
    BY <2>1, <2>2, <2>3, Zenon
<1> QED
  BY <1>2, <1>3 DEF Threads, Workers
(* Every step of a caller leaves a call that is well formed. *)
LEMMA CallStep ==
    ASSUME CallType, ThreadType, [Next]_vars
    PROVE  CallType'
<1>1. ASSUME NEW c \in Callers, NEW op \in Ops, NEW s \in Steps, Begin(c, op, s)
      PROVE  CallType'
  BY <1>1, Plans DEF Begin, CallType, Calls
<1>2. ASSUME NEW c \in Callers, NEW s \in Steps, Continue(c, s)
      PROVE  CallType'
  <2>1. call' = [call EXCEPT ![c] = [op |-> call[c].op, step |-> s, plan |-> call[c].plan]]
    BY <1>2, CallForms, Plans
  <2>2. [op |-> call[c].op, step |-> s, plan |-> call[c].plan] \in Calls
    BY DEF CallType, Calls
  <2> QED
    BY <2>1, <2>2 DEF CallType
<1>3. ASSUME NEW c \in Callers, NEW s \in Steps, NEW q \in Seq(Threads), Plan(c, s, q)
      PROVE  CallType'
  <2>1. call' = [call EXCEPT ![c] = [op |-> call[c].op, step |-> s, plan |-> q]]
    BY <1>3, CallForms
  <2>2. [op |-> call[c].op, step |-> s, plan |-> q] \in Calls
    BY DEF CallType, Calls
  <2> QED
    BY <2>1, <2>2 DEF CallType
<1>4. ASSUME NEW c \in Callers, Return(c)
      PROVE  CallType'
  BY <1>4, Plans DEF CallType, Calls, Return, Idle, Ops, Steps
<1>5. ASSUME NEW c \in Callers, Spawn(c) \/ Join(c)
      PROVE  CallType'
  <2>1. call[c].plan \in Seq(Threads) /\ call[c].plan # <<>>
    BY <1>5 DEF Spawn, Join, CallType, Calls
  <2>2. Tail(call[c].plan) \in Seq(Threads)
    BY <2>1
  <2>3. call' = [call EXCEPT ![c].plan = Tail(@)]
    BY <1>5 DEF Spawn, Join
  <2> QED
    BY <2>2, <2>3 DEF CallType, Calls
<1>6. ASSUME NEW c \in Callers, StartMode(c)
      PROVE  CallType'
  BY <1>6, Plans DEF StartMode, CallType, Calls, Ops, Steps
<1>7. ASSUME NEW c \in Callers, Start(c) \/ Stop(c) \/ SetLiteMode(c)
      PROVE  CallType'
  BY <1>1, <1>7 DEF Start, Stop, SetLiteMode, Ops, Steps
<1>8. ASSUME NEW c \in Callers, SwitchLock(c) \/ SwitchPeers(c) \/ DownLite(c) \/ UpFlush(c) \/ UpReset(c)
      PROVE  CallType'
  <2>1. \E s \in Steps : Continue(c, s)
    BY <1>8 DEF SwitchLock, SwitchPeers, DownLite, UpFlush, UpReset, Steps
  <2> QED
    BY <1>2, <2>1
<1>9. ASSUME NEW c \in Callers, StartRun(c) \/ StopClose(c) \/ DownHalt(c) \/ UpRevive(c)
      PROVE  CallType'
  <2>1. \E s \in Steps, q \in Seq(Threads) : Plan(c, s, q)
    <3>1. CASE StartRun(c)
      BY <3>1, Plans DEF StartRun, Steps
    <3>2. CASE StopClose(c)
      BY <3>2, Plans DEF StopClose, Steps
    <3>3. CASE DownHalt(c)
      BY <3>3, Plans DEF DownHalt, Steps
    <3>4. CASE UpRevive(c)
      <4>1. PICK q \in Seq(Threads) : Plan(c, "spawn", q)
        BY <3>4, Plans DEF UpRevive
      <4> QED
        BY <4>1 DEF Steps
    <3> QED
      BY <1>9, <3>1, <3>2, <3>3, <3>4
  <2> QED
    BY <1>3, <2>1
<1>10. ASSUME NEW c \in Callers, StartDone(c) \/ StopDone(c) \/ SwitchSame(c) \/ DownDone(c) \/ UpDone(c)
       PROVE  CallType'
  BY <1>4, <1>10 DEF StartDone, StopDone, SwitchSame, DownDone, UpDone
<1>11. ASSUME NEW c \in Callers, StopFlags(c)
       PROVE  CallType'
  <2>1. Continue(c, "close") \/ Return(c)
    BY <1>11 DEF StopFlags
  <2> QED
    BY <1>2, <1>4, <2>1 DEF Steps
<1>12. CASE UNCHANGED call
  BY <1>12 DEF CallType
<1> QED
  BY <1>5, <1>6, <1>7, <1>8, <1>9, <1>10, <1>11, <1>12
  DEF Next, Proceed, Receiver, ReceiverQuits, HandleDatagram, Callback, Encoder, Encode, Sender, SenderSends, SenderLacksTokens,
      CapClosed, CapUpdate, Reactor, ReactorTop, ReactorLocks, ReactorWalks, ReactorProcesses,
      ReactorEncodes, ReactorLoads, ReactorSends, ReactorLacksTokens, vars
(***************************************************************************)
(* What a thread of the transport does to itself.                          *)
(***************************************************************************)

ThreadStep == Receiver \/ Encoder \/ Sender \/ Reactor \/ CapClosed \/ CapUpdate

Stays == UNCHANGED threads

Moves ==
    \E t \in Threads, place \in Ats \ {"off"} : at[t] # "off" /\ Goto(t, place) /\ UNCHANGED up

(* A worker leaves its loop only when the workers are told to, the reactor only *)
(* when the transport is stopped.                                               *)
Leaves ==
    \E t \in Threads :
        /\ at[t] # "off" /\ Exit(t)
        /\ t \in Workers => ~(running /\ working)
        /\ t = "reactor" => ~running

(* A thread stays where it is, goes on in its loop, or leaves it for one of these *)
(* reasons; the flags and the callers' calls are not its business.               *)
LEMMA ThreadsMove ==
    ASSUME ThreadStep
    PROVE  /\ Stays \/ Moves \/ Leaves
           /\ UNCHANGED <<flags, call, calls, past>>
<1> USE DEF Threads, Workers, Ats
<1>1. CASE Receiver
  <2>1. UNCHANGED <<flags, call, calls, past>>
    BY <1>1 DEF Receiver, ReceiverQuits, HandleDatagram, Callback
  <2>2. CASE ReceiverQuits
    BY <2>1, <2>2 DEF ReceiverQuits, Leaves, Loops
  <2>3. CASE at["receiver"] = "top" /\ HandleDatagram("receiver", "top")
    <3>1. \E place \in {"top", "file"} : Goto("receiver", place) /\ UNCHANGED up
      BY <2>3 DEF HandleDatagram
    <3> QED
      BY <2>1, <2>3, <3>1 DEF Moves
  <2>4. CASE Callback("receiver", "file", "peer", "top")
    BY <2>1, <2>4 DEF Callback, Moves
  <2> QED
    BY <1>1, <2>2, <2>3, <2>4 DEF Receiver
<1>2. CASE Encoder
  <2>1. CASE (\E m \in encq : Encode(m)) /\ UNCHANGED at
    BY <2>1 DEF Encode, Stays, threads
  <2>2. CASE ~Loops("encode") /\ Exit("encode") /\ UNCHANGED <<flags, call, calls, past>>
    BY <1>2, <2>2 DEF Encoder, Leaves, Loops
  <2> QED
    BY <1>2, <2>1, <2>2 DEF Encoder
<1>3. CASE Sender
  BY <1>3 DEF Sender, SenderSends, SenderLacksTokens, Stays, Leaves, Loops
<1>4. CASE CapClosed \/ CapUpdate
  BY <1>4 DEF CapClosed, CapUpdate, Leaves
<1>5. CASE Reactor
  <2>1. UNCHANGED <<flags, call, calls, past>>
    BY <1>5 DEF Reactor, ReactorTop, ReactorLocks, ReactorWalks, ReactorProcesses, Callback,
        HandleDatagram, ReactorEncodes, Encode, ReactorLoads, ReactorSends, ReactorLacksTokens
  <2>2. CASE ReactorTop
    BY <2>1, <2>2 DEF ReactorTop, Moves, Leaves
  <2>3. CASE ReactorLocks \/ ReactorWalks
    BY <2>1, <2>3 DEF ReactorLocks, ReactorWalks, Moves
  <2>4. CASE ReactorProcesses
    <3>1. \E place \in {"top", "receive", "encode"} : Goto("reactor", place)
      BY <2>4, Zenon DEF ReactorProcesses
    <3>2. at["reactor"] = "process" /\ UNCHANGED up
      BY <2>4 DEF ReactorProcesses
    <3> QED
      BY <2>1, <3>1, <3>2 DEF Moves
  <2>5. CASE Callback("reactor", "offline", "peers", "process")
             \/ Callback("reactor", "file", "peer", "encode")
    BY <2>1, <2>5 DEF Callback, Moves
  <2>6. CASE at["reactor"] = "receive" /\ HandleDatagram("reactor", "encode")
    <3>1. \E place \in {"encode", "file"} : Goto("reactor", place) /\ UNCHANGED up
      BY <2>6 DEF HandleDatagram
    <3> QED
      BY <2>1, <2>6, <3>1 DEF Moves
  <2>7. CASE ReactorEncodes
    BY <2>1, <2>7 DEF ReactorEncodes, Encode, Moves, Stays, threads
  <2>8. CASE ReactorLoads
    BY <2>1, <2>8 DEF ReactorLoads, Moves, Stays, threads
  <2>9. CASE ReactorSends \/ ReactorLacksTokens
    BY <2>1, <2>9 DEF ReactorSends, ReactorLacksTokens, Moves
  <2> QED
    BY <1>5, <2>2, <2>3, <2>4, <2>5, <2>6, <2>7, <2>8, <2>9 DEF Reactor
<1> QED
  BY <1>1, <1>2, <1>3, <1>4, <1>5 DEF ThreadStep

(* What a caller does to the threads: it creates one, joins one, or nothing. *)
LEMMA CallersMove ==
    ASSUME NEW c \in Callers, Start(c) \/ Stop(c) \/ SetLiteMode(c) \/ Proceed(c)
    PROVE  Spawn(c) \/ Join(c) \/ UNCHANGED threads
BY DEF Proceed, Start, Stop, SetLiteMode, StartRun, StartMode, StartDone, StopFlags, StopClose,
    StopDone, SwitchLock, SwitchSame, SwitchPeers, DownLite, DownHalt, DownDone, UpFlush,
    UpReset, UpRevive, UpDone

(* The threads' part: a thread object without a thread is nowhere in its loop. *)
LEMMA ThreadTypeStep ==
    ASSUME CallType, ThreadType, [Next]_vars
    PROVE  ThreadType'
<1>0. "alive" \in Ups /\ "exited" \in Ups /\ "none" \in Ups /\ "top" \in Ats /\ "off" \in Ats
  BY DEF Ups, Ats
<1>1. ASSUME NEW c \in Callers, call[c].plan # <<>>
      PROVE  Head(call[c].plan) \in Threads
  <2>1. call[c].plan \in Seq(Threads)
    BY DEF CallType, Calls
  <2> QED
    BY <1>1, <2>1
<1>2. ASSUME NEW c \in Callers, Spawn(c)
      PROVE  ThreadType'
  BY <1>0, <1>1, <1>2 DEF Spawn, Goto, ThreadType
<1>3. ASSUME NEW c \in Callers, Join(c)
      PROVE  ThreadType'
  BY <1>0, <1>1, <1>3 DEF Join, ThreadType
<1>4. CASE Moves
  BY <1>4 DEF Moves, Goto, ThreadType
<1>5. CASE Leaves
  BY <1>0, <1>5 DEF Leaves, Exit, Goto, ThreadType
<1>6. CASE UNCHANGED threads
  BY <1>6 DEF threads, ThreadType
<1>7. CASE ThreadStep
  BY <1>4, <1>5, <1>6, <1>7, ThreadsMove DEF Stays
<1>8. ASSUME NEW c \in Callers, Start(c) \/ Stop(c) \/ SetLiteMode(c) \/ Proceed(c)
      PROVE  ThreadType'
  BY <1>2, <1>3, <1>6, <1>8, CallersMove
<1>9. CASE UNCHANGED vars
  BY <1>6, <1>9 DEF vars
<1> QED
  BY <1>7, <1>8, <1>9 DEF Next, ThreadStep
(***************************************************************************)
(* The other parts.                                                        *)
(***************************************************************************)

(* The flags. *)
LEMMA FlagTypeStep ==
    ASSUME FlagType, [Next]_vars
    PROVE  FlagType'
<1> USE DEF FlagType
<1>1. ASSUME NEW c \in Callers, Proceed(c)
      PROVE  FlagType'
  <2>1. CASE StartRun(c) \/ StartMode(c)
    BY <2>1, Zenon DEF StartRun, StartMode
  <2>2. CASE StopFlags(c) \/ StopClose(c) \/ StopDone(c)
    BY <2>2, Zenon DEF StopFlags, StopClose, StopDone
  <2>3. CASE DownLite(c) \/ DownHalt(c) \/ UpRevive(c) \/ UpDone(c)
    BY <2>3, Zenon DEF DownLite, DownHalt, UpRevive, UpDone
  <2>4. CASE UNCHANGED flags
    BY <2>4, Zenon DEF flags
  <2> QED
    BY <1>1, <2>1, <2>2, <2>3, <2>4
    DEF Proceed, Spawn, Join, StartDone, SwitchLock, SwitchSame, SwitchPeers, DownDone,
        UpFlush, UpReset
<1>2. ASSUME NEW c \in Callers, Start(c)
      PROVE  FlagType'
  BY <1>2, Zenon DEF Start
<1>3. CASE UNCHANGED flags
  BY <1>3, Zenon DEF flags
<1>4. CASE ThreadStep
  BY <1>3, <1>4, ThreadsMove
<1> QED
  BY <1>1, <1>2, <1>3, <1>4 DEF Next, ThreadStep, Stop, SetLiteMode, vars

(* The profile, which is never changed while the transport exists. *)
LEMMA ProfileStep ==
    ASSUME profile \in Profiles, [Next]_vars
    PROVE  profile' = profile
<1>1. ASSUME NEW c \in Callers, Start(c) \/ Stop(c) \/ SetLiteMode(c) \/ Proceed(c)
      PROVE  profile' = profile
  BY <1>1 DEF Proceed, Start, Stop, SetLiteMode, StartRun, StartMode, StartDone, StopFlags,
      StopClose, StopDone, SwitchLock, SwitchSame, SwitchPeers, DownLite, DownHalt, DownDone,
      UpFlush, UpReset, UpRevive, UpDone, Spawn, Join, flags
<1>2. CASE ThreadStep
  BY <1>2, ThreadsMove DEF flags
<1> QED
  BY <1>1, <1>2 DEF Next, ThreadStep, vars, flags

(* The locks that are held across a callback or a join. *)
LEMMA HolderTypeStep ==
    ASSUME HolderType, [Next]_vars
    PROVE  HolderType'
<1> USE DEF HolderType
<1>1. ASSUME NEW l \in Locks, NEW h \in Callers \cup Threads \cup {Nobody},
             holder' = [holder EXCEPT ![l] = h]
      PROVE  HolderType'
  BY <1>1
<1>2. CASE UNCHANGED holder
  BY <1>2
<1>3. ASSUME NEW c \in Callers, Start(c) \/ Stop(c) \/ SetLiteMode(c) \/ Proceed(c)
      PROVE  HolderType'
  BY <1>1, <1>2, <1>3 DEF Proceed, Start, Stop, SetLiteMode, StartRun, StartMode, StartDone,
      StopFlags, StopClose, StopDone, SwitchLock, SwitchSame, SwitchPeers, DownLite, DownHalt,
      DownDone, UpFlush, UpReset, UpRevive, UpDone, Spawn, Join, Unlock, Locks
<1>4. CASE ThreadStep
  <2>1. CASE Receiver
    BY <1>1, <1>2, <2>1 DEF Receiver, ReceiverQuits, HandleDatagram, Callback, Release, Locks,
        Threads, Workers
  <2>2. CASE Encoder \/ Sender \/ CapClosed \/ CapUpdate
    BY <1>2, <2>2 DEF Encoder, Encode, Sender, SenderSends, SenderLacksTokens, CapClosed, CapUpdate
  <2>3. CASE Reactor
    BY <1>1, <1>2, <2>3 DEF Reactor, ReactorTop, ReactorLocks, ReactorWalks, ReactorProcesses,
        Callback, HandleDatagram, ReactorEncodes, Encode, ReactorLoads, ReactorSends,
        ReactorLacksTokens, Release, Locks, Threads, Workers
  <2> QED
    BY <1>4, <2>1, <2>2, <2>3 DEF ThreadStep
<1> QED
  BY <1>2, <1>3, <1>4 DEF Next, ThreadStep, vars

(* The two bounds. *)
LEMMA CountTypeStep ==
    ASSUME CountType, [Next]_vars
    PROVE  CountType'
<1> USE LifecycleAssumption DEF CountType
<1>1. ASSUME NEW c \in Callers, Start(c) \/ Stop(c) \/ SetLiteMode(c) \/ Proceed(c)
      PROVE  CountType'
  <2>1. UNCHANGED events /\ (UNCHANGED calls \/ (calls < MaxCalls /\ calls' = calls + 1))
    BY <1>1 DEF Proceed, Start, Stop, SetLiteMode, StartRun, StartMode, StartDone,
        StopFlags, StopClose, StopDone, SwitchLock, SwitchSame, SwitchPeers, DownLite, DownHalt,
        DownDone, UpFlush, UpReset, UpRevive, UpDone, Spawn, Join, Begin
  <2> QED
    BY <2>1
<1>2. CASE ThreadStep
  <2>1. UNCHANGED calls
    BY <1>2, ThreadsMove
  <2>2. UNCHANGED events \/ Event
    BY <1>2 DEF ThreadStep, Receiver, ReceiverQuits, HandleDatagram, Callback, Encoder, Encode,
        DropTask, FragmentAndSend, Departs, DropDatagram, ProcessSendQueue, SenderSends, SenderLacksTokens,
        Sender, CapClosed, CapUpdate, Reactor, ReactorTop, ReactorLocks, ReactorWalks,
        ReactorProcesses, ReactorEncodes, ReactorLoads, ReactorSends, ReactorLacksTokens
  <2> QED
    BY <2>1, <2>2 DEF Event
<1> QED
  BY <1>1, <1>2 DEF Next, ThreadStep, vars
(***************************************************************************)
(* The way of the messages.                                                *)
(***************************************************************************)

\* What is a reason to throw messages away: a closed queue, a closed socket that
\* some thread still uses, a sender thread that is told to leave.
MayDiscard ==
    \/ closed
    \/ ~socket /\ \E t \in Threads : up[t] = "alive"
    \/ up["sender"] = "alive" /\ ~(running /\ working)

Loses(ms) ==
    \/ Drop(ms)
    \/ up["sender"] = "alive" /\ Starve(ms)
    \/ MayDiscard /\ Discard(ms)

\* From the send queue on: some are lost, some put back, the others passed on.
Processed ==
    \E lost, back \in SUBSET todo :
        /\ lost \cap back = {} /\ todo' = back /\ dropped' = dropped \cup lost
        /\ PassOn(todo \ (lost \cup back))
        /\ UNCHANGED <<outq, slot, sent, twice, starved>>

\* From the encode queue on, by whichever thread plays the encoder.
Encoded ==
    \E m \in encq :
        /\ encq' = encq \ {m} /\ UNCHANGED <<todo, slot>>
        /\ \/ outq' = outq \cup {m} /\ UNCHANGED tally
           \/ UNCHANGED outq /\ Loses({m})

\* Out by the sender, into the reactor's slot, out of it.
Moved ==
    \/ \E m \in outq : outq' = outq \ {m} /\ Transmit(m) /\ UNCHANGED <<todo, encq, slot>>
    \/ \E m \in outq :
            slot = NoMsg /\ slot' = m /\ outq' = outq \ {m} /\ UNCHANGED <<todo, encq, tally>>
    \/ slot # NoMsg /\ slot' = NoMsg /\ Transmit(slot) /\ UNCHANGED <<todo, encq, outq>>
    \/ UNCHANGED <<pipe, tally>>

\* Lost from the outbound queue, some or all of it, and from the slot.
Abandoned ==
    \E ms \in SUBSET outq : outq' = outq \ ms /\ Loses(ms) /\ UNCHANGED <<todo, encq, slot>>

Emptied == slot # NoMsg /\ slot' = NoMsg /\ Loses({slot}) /\ UNCHANGED <<todo, encq, outq>>

Passes == Processed \/ Encoded \/ Moved \/ Abandoned \/ Emptied

(* The encoder's step, for both threads that play it. *)
LEMMA EncodePasses ==
    ASSUME NEW m, Encode(m)
    PROVE  Encoded
<1>1. m \in encq /\ encq' = encq \ {m} /\ UNCHANGED <<todo, slot>>
  BY DEF Encode
<1>2. CASE DropTask(m)
  BY <1>1, <1>2 DEF DropTask, Encoded, Loses
<1>3. CASE FragmentAndSend(m)
  BY <1>1, <1>3 DEF FragmentAndSend, Encoded, Loses, MayDiscard
<1> QED
  BY <1>2, <1>3 DEF Encode

(* A thread moves messages along, or loses some of them for a reason. *)
LEMMA ThreadsPass ==
    ASSUME ThreadStep, ThreadType
    PROVE  Passes
<1> USE DEF Passes
<1>1. CASE Receiver
  BY <1>1 DEF Receiver, ReceiverQuits, HandleDatagram, Callback, Moved
<1>2. CASE Encoder
  <2>1. CASE \E m \in encq : Encode(m)
    BY <2>1, EncodePasses
  <2>2. CASE UNCHANGED <<pipe, tally>>
    BY <2>2 DEF Moved
  <2> QED
    BY <1>2, <2>1, <2>2 DEF Encoder
<1>3. CASE Sender
  <2>1. up["sender"] = "alive" /\ "sender" \in Threads
    BY <1>3 DEF Sender, ThreadType, Threads, Workers
  <2>2. UNCHANGED <<todo, encq, slot>>
    BY <1>3 DEF Sender
  <2>3. ASSUME NEW m \in outq, Departs(m)
        PROVE  Passes
    <3>1. CASE socket
      BY <2>2, <2>3, <3>1 DEF Departs, Moved
    <3>2. CASE ~socket
      <4>1. {m} \in SUBSET outq /\ Loses({m})
        BY <2>1, <2>3, <3>2 DEF Departs, Loses, MayDiscard
      <4> QED
        BY <2>2, <2>3, <4>1 DEF Departs, Abandoned
    <3> QED
      BY <3>1, <3>2
  <2>4. ASSUME NEW m \in outq, DropDatagram(m)
        PROVE  Passes
    <3>1. {m} \in SUBSET outq /\ Loses({m})
      BY <2>4 DEF DropDatagram, Loses
    <3> QED
      BY <2>2, <2>4, <3>1 DEF DropDatagram, Abandoned
  <2>5. CASE SenderLacksTokens
    <3>1. PICK ms \in {outq} \cup {{m} : m \in outq} : outq' = outq \ ms /\ Starve(ms)
      BY <2>5 DEF SenderLacksTokens
    <3>2. ms \in SUBSET outq /\ Loses(ms)
      BY <2>1, <3>1 DEF Loses
    <3> QED
      BY <2>2, <3>1, <3>2 DEF Abandoned
  <2>6. CASE ~Loops("sender") /\ outq' = {} /\ Discard(outq)
    <3>1. outq \in SUBSET outq /\ outq' = outq \ outq /\ Loses(outq)
      BY <2>1, <2>6 DEF Loses, MayDiscard, Loops
    <3> QED
      BY <2>2, <3>1 DEF Abandoned
  <2> QED
    BY <1>3, <2>3, <2>4, <2>5, <2>6 DEF Sender, SenderSends
<1>4. CASE CapClosed \/ CapUpdate
  BY <1>4 DEF CapClosed, CapUpdate, Moved
<1>5. CASE ReactorEncodes
  <2>1. CASE \E m \in encq : Encode(m)
    BY <2>1, EncodePasses
  <2>2. CASE UNCHANGED <<pipe, tally>>
    BY <2>2 DEF Moved
  <2> QED
    BY <1>5, <2>1, <2>2 DEF ReactorEncodes
<1>6. CASE ReactorProcesses
  <2>1. ProcessSendQueue
    BY <1>6 DEF ReactorProcesses
  <2>2. CASE PassOn(todo) /\ todo' = {} /\ UNCHANGED dropped
    <3>1. {} \in SUBSET todo /\ {} \cap {} = {} /\ todo \ ({} \cup {}) = todo /\ dropped \cup {} = dropped
      OBVIOUS
    <3>2. PassOn(todo \ ({} \cup {})) /\ dropped' = dropped \cup {}
      BY <2>2, <3>1
    <3> QED
      BY <2>1, <2>2, <3>1, <3>2, Zenon DEF ProcessSendQueue, Processed
  <2>3. CASE \E lost, back \in SUBSET todo :
                /\ lost \cap back = {}
                /\ PassOn(todo \ (lost \cup back))
                /\ todo' = back /\ dropped' = dropped \cup lost
    BY <2>1, <2>3, Zenon DEF ProcessSendQueue, Processed
  <2> QED
    BY <2>1, <2>2, <2>3, Zenon DEF ProcessSendQueue
<1>7. CASE ReactorLoads
  <2>1. ASSUME NEW m \in outq, DropDatagram(m), UNCHANGED <<todo, encq, slot>>
        PROVE  Passes
    <3>1. {m} \in SUBSET outq /\ Loses({m})
      BY <2>1 DEF DropDatagram, Loses
    <3> QED
      BY <2>1, <3>1 DEF DropDatagram, Abandoned
  <2>2. CASE UNCHANGED <<pipe, tally>>
    BY <2>2 DEF Moved
  <2>3. CASE \E m \in outq : slot = NoMsg /\ slot' = m /\ outq' = outq \ {m} /\ UNCHANGED <<todo, encq, tally>>
    BY <2>3 DEF Moved
  <2> QED
    BY <1>7, <2>1, <2>2, <2>3 DEF ReactorLoads, pipe
<1>8. CASE ReactorSends
  <2>1. up["reactor"] = "alive" /\ "reactor" \in Threads
    BY <1>8 DEF ReactorSends, ThreadType, Threads
  <2>2. UNCHANGED <<todo, encq, outq>> /\ slot' = NoMsg
    BY <1>8 DEF ReactorSends
  <2>3. CASE slot = NoMsg
    BY <1>8, <2>2, <2>3 DEF ReactorSends, Moved, pipe
  <2>4. CASE slot # NoMsg /\ socket
    BY <1>8, <2>2, <2>4 DEF ReactorSends, Moved
  <2>5. CASE slot # NoMsg /\ ~socket
    <3>1. Discard({slot})
      BY <1>8, <2>5 DEF ReactorSends
    <3> QED
      BY <2>1, <2>2, <2>5, <3>1 DEF Emptied, Loses, MayDiscard
  <2> QED
    BY <2>3, <2>4, <2>5
<1>9. CASE UNCHANGED <<pipe, tally>>
  BY <1>9 DEF Moved
<1> QED
  BY <1>1, <1>2, <1>3, <1>4, <1>5, <1>6, <1>7, <1>8, <1>9
  DEF ThreadStep, Reactor, ReactorTop, ReactorLocks, ReactorWalks, Callback, HandleDatagram,
      ReactorLacksTokens

(* A caller touches messages only when it switches to full mode. *)
LEMMA CallersPass ==
    ASSUME NEW c \in Callers, Start(c) \/ Stop(c) \/ SetLiteMode(c) \/ Proceed(c)
    PROVE  UpFlush(c) \/ UpReset(c) \/ UNCHANGED <<pipe, tally>>
BY DEF Proceed, Start, Stop, SetLiteMode, StartRun, StartMode, StartDone, StopFlags, StopClose,
    StopDone, SwitchLock, SwitchSame, SwitchPeers, DownLite, DownHalt, DownDone, UpRevive,
    UpDone, Spawn, Join

(* Queues hold messages, and only messages are sent or thrown away. *)
LEMMA PipeTypeStep ==
    ASSUME PipeType, ThreadType, [Next]_vars
    PROVE  PipeType'
<1> USE LifecycleAssumption DEF PipeType
<1>1. CASE Processed
  BY <1>1 DEF Processed, PassOn
<1>2. CASE Encoded
  BY <1>2 DEF Encoded, Loses, Drop, Starve, Discard, tally
<1>3. CASE Moved
  BY <1>3 DEF Moved, Transmit, tally, pipe
<1>3a. CASE Abandoned \/ Emptied
  BY <1>3a DEF Abandoned, Emptied, Loses, Drop, Starve, Discard
<1>4. ASSUME NEW c \in Callers, UpFlush(c)
      PROVE  PipeType'
  BY <1>4 DEF UpFlush, Transmit, tally, pipe
<1>5. ASSUME NEW c \in Callers, UpReset(c)
      PROVE  PipeType'
  BY <1>5 DEF UpReset, Discard, tally, pipe
<1>6. CASE UNCHANGED <<pipe, tally>>
  BY <1>6 DEF pipe, tally
<1>7. ASSUME NEW c \in Callers, Start(c) \/ Stop(c) \/ SetLiteMode(c) \/ Proceed(c)
      PROVE  PipeType'
  BY <1>4, <1>5, <1>6, <1>7, CallersPass
<1>8. CASE ThreadStep
  BY <1>1, <1>2, <1>3, <1>3a, <1>8, ThreadsPass DEF Passes
<1> QED
  BY <1>6, <1>7, <1>8 DEF Next, ThreadStep, vars

(* The parts together are inductive. *)
LEMMA TypeInvariance ==
    Spec => []TypeInv
<1>1. Init => TypeInv
  <2> SUFFICES ASSUME Init PROVE TypeInv
    OBVIOUS
  <2>1. CallType
    BY Plans DEF Init, CallType, Calls, Idle, Ops, Steps
  <2>2. ThreadType
    BY DEF Init, ThreadType, Ups, Ats
  <2>3. FlagType
    BY Zenon DEF Init, FlagType
  <2>4. HolderType /\ CountType
    BY LifecycleAssumption DEF Init, HolderType, CountType
  <2>5. PipeType
    BY DEF Init, PipeType
  <2> QED
    BY <2>1, <2>2, <2>3, <2>4, <2>5 DEF Init, TypeInv
<1>2. TypeInv /\ [Next]_vars => TypeInv'
  BY CallStep, ThreadTypeStep, FlagTypeStep, ProfileStep, HolderTypeStep, CountTypeStep,
     PipeTypeStep DEF TypeInv
<1> QED
  BY <1>1, <1>2, PTL DEF Spec

(* Every variable keeps its type, whatever callers call at the same time. *)
THEOREM TypeCorrect ==
    Spec => []TypeOK
BY TypeInvariance, TypeInvIsType, PTL
(***************************************************************************)
(* Messages get lost only for a reason.                                    *)
(***************************************************************************)

\* What a call's step says of the past: a stop that got past the flags has
\* stopped a running transport, a switch has been counted before it does
\* anything to messages or workers, and a call that creates threads finds the
\* socket open; a sender is created in full mode or by a switch.
PastOf(r) ==
    /\ r.op = "stop" /\ r.step \in {"close", "join"} => stopped
    /\ r.op \in {"start", "start2"} => socket \/ stopped
    /\ r.op = "up" /\ r.step = "spawn" /\ r.plan # <<>> => socket \/ stopped
    /\ r.op = "start2" /\ (\E i \in 1..Len(r.plan) : r.plan[i] = "sender") => ~lite \/ switched # {}
    /\ r.op = "start" => \A i \in 1..Len(r.plan) : r.plan[i] # "sender"
    /\ r.op = "start" /\ r.step = "spawn" => running \/ stopped
    /\ r.op = "start2" /\ r.plan # <<>> => (running /\ working) \/ stopped \/ switched # {}
    /\ r.op = "up" /\ r.step \in {"reset", "revive", "spawn"} => "up" \in switched
    /\ r.op = "down" /\ r.step = "halt" => switched # {}
    /\ r.step = "spawn" => r.op \in {"start", "start2", "up"}

\* A sender thread that lives is told to leave only by stop or by a switch, and
\* there is one only in full mode or after a switch.
SenderTold ==
    up["sender"] = "alive" =>
        /\ (running /\ working) \/ stopped \/ switched # {}
        /\ ~lite \/ switched # {}

\* Threads have a socket until the transport is stopped.
SocketKept ==
    socket \/ stopped \/ (~running /\ \A t \in Threads : up[t] # "alive")

\* A message is in one place only.
OnePlace ==
    /\ ~twice
    /\ todo \cap (encq \cup outq \cup {slot} \cup sent \cup Lost) = {}
    /\ encq \cap (outq \cup {slot} \cup sent \cup Lost) = {}
    /\ outq \cap ({slot} \cup sent \cup Lost) = {}
    /\ slot \notin sent \cup Lost
    /\ sent \cap Lost = {}

\* No message is nowhere.
SomePlace == Msgs \subseteq todo \cup encq \cup outq \cup {slot} \cup sent \cup Lost

LossInv ==
    /\ closed => stopped
    /\ \A c \in Callers : PastOf(call[c])
    /\ SenderTold /\ SocketKept
    /\ discarded # {} => stopped \/ switched # {}
    /\ starved # {} => ~lite \/ switched # {}
    /\ SomePlace
    /\ "up" \notin switched => OnePlace

(* What a loss does to the tally. *)
LEMMA LosesTally ==
    ASSUME NEW ms, Loses(ms)
    PROVE  Lost' = Lost \cup ms /\ UNCHANGED <<sent, twice>>
<1>1. CASE Drop(ms)
  BY <1>1 DEF Drop, Lost
<1>2. CASE Starve(ms)
  BY <1>2 DEF Starve, Lost
<1>3. CASE Discard(ms)
  BY <1>3 DEF Discard, Lost
<1> QED
  BY <1>1, <1>2, <1>3 DEF Loses

(* Whatever the threads do with the messages, none vanishes. *)
LEMMA SomePlaceStep ==
    ASSUME SomePlace, Passes
    PROVE  SomePlace'
<1> USE DEF SomePlace
<1>1. CASE Processed
  <2>1. PICK lost \in SUBSET todo, back \in SUBSET todo :
          /\ todo' = back /\ dropped' = dropped \cup lost
          /\ PassOn(todo \ (lost \cup back))
          /\ UNCHANGED <<outq, slot, sent, twice, starved>>
    BY <1>1 DEF Processed
  <2> QED
    BY <2>1 DEF PassOn, Lost
<1>2. CASE Encoded
  <2>1. PICK m \in encq :
          /\ encq' = encq \ {m} /\ UNCHANGED <<todo, slot, sent>>
          /\ \/ outq' = outq \cup {m} /\ Lost' = Lost
             \/ outq' = outq /\ Lost' = Lost \cup {m}
    BY <1>2, LosesTally DEF Encoded, tally, Lost
  <2> QED
    BY <2>1
<1>3. CASE Moved
  <2>1. ASSUME NEW m, Transmit(m)
        PROVE  sent' = sent \cup {m} /\ Lost' = Lost
    BY <2>1 DEF Transmit, Lost
  <2>2. CASE \E m \in outq : outq' = outq \ {m} /\ Transmit(m) /\ UNCHANGED <<todo, encq, slot>>
    BY <2>1, <2>2
  <2>3. CASE \E m \in outq :
                slot = NoMsg /\ slot' = m /\ outq' = outq \ {m} /\ UNCHANGED <<todo, encq, tally>>
    BY <2>3, LifecycleAssumption DEF tally, Lost
  <2>4. CASE slot # NoMsg /\ slot' = NoMsg /\ Transmit(slot) /\ UNCHANGED <<todo, encq, outq>>
    BY <2>1, <2>4
  <2>5. CASE UNCHANGED <<pipe, tally>>
    BY <2>5 DEF pipe, tally, Lost
  <2> QED
    BY <1>3, <2>2, <2>3, <2>4, <2>5 DEF Moved
<1>4. CASE Abandoned
  BY <1>4, LosesTally DEF Abandoned
<1>5. CASE Emptied
  BY <1>5, LosesTally DEF Emptied
<1> QED
  BY <1>1, <1>2, <1>3, <1>4, <1>5 DEF Passes

(* Callers that go on leave the messages in one place, and have been counted *)
(* before they touch any.                                                    *)
LEMMA OnePlaceStep ==
    ASSUME PipeType, OnePlace, Passes
    PROVE  OnePlace'
<1> USE LifecycleAssumption DEF PipeType, OnePlace
<1>0. NoMsg \notin Lost /\ Lost \subseteq Msgs
  BY DEF Lost
<1>1. CASE Encoded
  <2>1. PICK m \in encq :
          /\ encq' = encq \ {m} /\ UNCHANGED <<todo, slot, sent, twice>>
          /\ \/ outq' = outq \cup {m} /\ Lost' = Lost
             \/ outq' = outq /\ Lost' = Lost \cup {m}
    BY <1>1, LosesTally DEF Encoded, tally, Lost
  <2> QED
    BY <2>1
<1>2. CASE Moved
  <2>2. ASSUME NEW m \in outq, outq' = outq \ {m}, Transmit(m), UNCHANGED <<todo, encq, slot>>
        PROVE  OnePlace'
    <3>1. m \notin sent /\ ~twice
      BY <2>2
    <3>2. ~twice'
      BY <2>2, <3>1, Zenon DEF Transmit
    <3>3. sent' = sent \cup {m} /\ Lost' = Lost
      BY <2>2 DEF Transmit, Lost
    <3> QED
      BY <2>2, <3>2, <3>3
  <2>3. ASSUME NEW m \in outq, slot = NoMsg, slot' = m, outq' = outq \ {m},
               UNCHANGED <<todo, encq, tally>>
        PROVE  OnePlace'
    BY <1>0, <2>3 DEF tally, Lost
  <2>4. CASE slot # NoMsg /\ slot' = NoMsg /\ Transmit(slot) /\ UNCHANGED <<todo, encq, outq>>
    <3>1. slot \notin sent /\ ~twice
      BY <2>4
    <3>2. ~twice'
      BY <2>4, <3>1, Zenon DEF Transmit
    <3>3. sent' = sent \cup {slot} /\ Lost' = Lost
      BY <2>4 DEF Transmit, Lost
    <3> QED
      BY <1>0, <2>4, <3>2, <3>3
  <2>5. CASE UNCHANGED <<pipe, tally>>
    BY <2>5 DEF pipe, tally, Lost
  <2> QED
    BY <1>2, <2>2, <2>3, <2>4, <2>5 DEF Moved
<1>3. CASE Abandoned
  BY <1>3, LosesTally DEF Abandoned
<1>4. CASE Emptied
  BY <1>0, <1>4, LosesTally DEF Emptied
<1>5. CASE Processed
  <2>1. PICK lost \in SUBSET todo, back \in SUBSET todo :
          /\ lost \cap back = {} /\ todo' = back /\ dropped' = dropped \cup lost
          /\ PassOn(todo \ (lost \cup back))
          /\ UNCHANGED <<outq, slot, sent, twice, starved>>
    BY <1>5 DEF Processed
  <2>2. \/ encq' = encq \cup (todo \ (lost \cup back)) /\ Lost' = Lost \cup lost
        \/ encq' = encq /\ Lost' = Lost \cup lost \cup (todo \ (lost \cup back))
    BY <2>1 DEF PassOn, Lost
  <2> QED
    BY <2>1, <2>2
<1> QED
  BY <1>1, <1>2, <1>3, <1>4, <1>5 DEF Passes

(* What the threads do to the messages keeps the invariant. *)
LEMMA LossThreads ==
    ASSUME TypeInv, LossInv, ThreadStep
    PROVE  LossInv'
<1> USE DEF LossInv
<1>1. UNCHANGED <<closed, socket, lite, call, running, working, stopped, switched>> /\ (Stays \/ Moves \/ Leaves)
  BY ThreadsMove DEF flags, past
<1>2. Passes
  BY ThreadsPass DEF TypeInv
<1>3. \A c \in Callers : PastOf(call[c])'
  BY <1>1 DEF PastOf
<1>4. SenderTold' /\ SocketKept'
  <2>1. \A t \in Threads : up'[t] = "alive" => up[t] = "alive"
    BY <1>1 DEF Stays, Moves, Leaves, Exit, threads, TypeInv, ThreadType
  <2> QED
    BY <1>1, <2>1 DEF SenderTold, SocketKept, Threads, Workers
<1>5. /\ discarded' # {} => discarded # {} \/ MayDiscard
      /\ starved' # {} => starved # {} \/ up["sender"] = "alive"
  <2>1. ASSUME NEW ms, Loses(ms)
        PROVE  /\ discarded' # {} => discarded # {} \/ MayDiscard
               /\ starved' # {} => starved # {} \/ up["sender"] = "alive"
    BY <2>1 DEF Loses, Drop, Starve, Discard
  <2>2. CASE Encoded
    BY <2>1, <2>2 DEF Encoded, tally
  <2>3. CASE Moved
    BY <2>3 DEF Moved, Transmit, tally
  <2>4. CASE Abandoned \/ Emptied
    BY <2>1, <2>4 DEF Abandoned, Emptied
  <2>5. CASE Processed
    BY <2>5 DEF Processed, PassOn, MayDiscard
  <2> QED
    BY <1>2, <2>2, <2>3, <2>4, <2>5 DEF Passes
<1>6. MayDiscard => stopped \/ switched # {}
  BY DEF MayDiscard, SenderTold, SocketKept
<1>7. SomePlace' /\ ("up" \notin switched => OnePlace')
  BY <1>2, OnePlaceStep, SomePlaceStep DEF TypeInv
<1>8. starved' # {} => ~lite \/ switched # {}
  BY <1>5 DEF SenderTold
<1> QED
  BY <1>1, <1>3, <1>4, <1>5, <1>6, <1>7, <1>8
\* What is past stays past, and workers are told to leave for a reason.
Onward ==
    /\ stopped => stopped'
    /\ switched \subseteq switched'
    /\ running \/ stopped => running' \/ stopped'
    /\ (running /\ working) \/ stopped \/ switched # {} =>
            (running' /\ working') \/ stopped' \/ switched' # {}
    /\ socket \/ stopped => socket' \/ stopped'
    /\ ~lite \/ switched # {} => ~lite' \/ switched' # {}

(* Every call goes onward: stop clears the flags of a running transport only, and *)
(* set_lite_mode has been counted before it halts the workers.                    *)
LEMMA CallsOnward ==
    ASSUME TypeInv, NEW c \in Callers, PastOf(call[c]),
           Start(c) \/ Stop(c) \/ SetLiteMode(c) \/ Proceed(c)
    PROVE  Onward
<1> USE DEF Onward
<1>1. CASE StopFlags(c)
  BY <1>1 DEF StopFlags
<1>2. CASE DownHalt(c)
  BY <1>2 DEF DownHalt, Step, PastOf
<1>3. CASE DownLite(c) \/ UpFlush(c)
  BY <1>3 DEF DownLite, UpFlush, flags
<1>4. CASE StartRun(c) \/ StartMode(c) \/ UpRevive(c)
  <2>1. UNCHANGED <<stopped, switched>>
    BY <1>4 DEF StartRun, StartMode, UpRevive, past
  <2>1a. UNCHANGED <<socket, lite>>
    BY <1>4 DEF StartRun, StartMode, UpRevive
  <2>2. (running => running') /\ (working => working')
    <3>1. CASE StartRun(c)
      BY <3>1 DEF StartRun
    <3>2. CASE StartMode(c)
      BY <3>2, Zenon DEF StartMode
    <3>3. CASE UpRevive(c)
      BY <3>3, Zenon DEF UpRevive
    <3> QED
      BY <1>4, <3>1, <3>2, <3>3
  <2> QED
    BY <2>1, <2>1a, <2>2
<1>5. CASE UNCHANGED <<running, working, socket, lite, stopped, switched>>
  BY <1>5
<1>6. CASE Start(c)
  BY <1>6 DEF Start, past
<1>7. CASE StopDone(c)
  BY <1>7 DEF StopDone, Step, PastOf, past
<1>8. CASE UpDone(c)
  BY <1>8 DEF UpDone, past
<1> QED
  BY <1>1, <1>2, <1>3, <1>4, <1>5, <1>6, <1>7, <1>8
  DEF Stop, SetLiteMode, Proceed, Spawn, Join, StartDone, StopClose, SwitchLock, SwitchSame,
      SwitchPeers, DownDone, UpReset, flags, past

(* The step a call goes to says nothing that is not true. *)
LEMMA NextStepTrue ==
    ASSUME TypeInv, LossInv, NEW c \in Callers,
           Start(c) \/ Stop(c) \/ SetLiteMode(c) \/ Proceed(c)
    PROVE  PastOf(call[c])'
<1>1. call \in [Callers -> Calls] /\ PastOf(call[c])
  BY DEF LossInv, TypeInv, CallType
<1>2. call[c].plan \in Seq(Threads) /\ call[c].op \in Ops /\ call[c].step \in Steps
  BY <1>1 DEF Calls
<1>3. Onward
  BY <1>1, CallsOnward
<1>4. Start(c) => PastOf(call[c])'
  BY <1>1 DEF Start, Begin, PastOf
<1>5. Stop(c) => PastOf(call[c])'
  BY <1>1 DEF Stop, Begin, PastOf
<1>6. SetLiteMode(c) => PastOf(call[c])'
  BY <1>1 DEF SetLiteMode, Begin, PastOf
<1>7. ASSUME Return(c) PROVE PastOf(call[c])'
  BY <1>1, <1>7 DEF Return, Idle, PastOf
<1>8. ASSUME NEW s \in Steps, Continue(c, s)
      PROVE  call'[c] = [op |-> call[c].op, step |-> s, plan |-> call[c].plan]
  BY <1>1, <1>8, CallForms, Plans DEF TypeInv
<1>9. ASSUME NEW s \in Steps, NEW q \in Seq(Threads), Plan(c, s, q)
      PROVE  call'[c] = [op |-> call[c].op, step |-> s, plan |-> q]
  BY <1>1, <1>9, CallForms DEF TypeInv
<1>10. ASSUME Spawn(c) \/ Join(c)
       PROVE  PastOf(call[c])'
  <2>1. call'[c] = [op |-> call[c].op, step |-> call[c].step, plan |-> Tail(call[c].plan)]
    <3>1. call' = [call EXCEPT ![c].plan = Tail(@)]
      BY <1>10 DEF Spawn, Join
    <3> QED
      BY <1>1, <3>1 DEF Calls
  <2>2. call[c].plan # <<>> /\ UNCHANGED <<running, working, socket, lite, stopped, switched>>
    BY <1>10 DEF Spawn, Join, flags, past
  <2>3. \A i \in 1..Len(Tail(call[c].plan)) : \E j \in 1..Len(call[c].plan) :
            Tail(call[c].plan)[i] = call[c].plan[j]
    BY <1>2, <2>2
  <2> QED
    BY <1>1, <2>1, <2>2, <2>3 DEF PastOf
<1>11. ASSUME StartRun(c) PROVE PastOf(call[c])'
  <2>1. call'[c] = [op |-> "start", step |-> "spawn", plan |-> <<"cap", "reactor">>]
    BY <1>9, <1>11, Plans, ZenonT(40) DEF StartRun, Step, Steps
  <2>2. socket \/ stopped
    BY <1>1, <1>11 DEF StartRun, Step, PastOf
  <2> QED
    BY <1>3, <1>11, <2>1, <2>2 DEF StartRun, Onward, PastOf
<1>12. ASSUME StartMode(c) PROVE PastOf(call[c])'
  <2>1. call'[c] = [op |-> "start2", step |-> "spawn", plan |-> StartWorkers]
    BY <1>1, <1>12 DEF StartMode
  <2>2. StartWorkers # <<>> => working'
    BY <1>12, Zenon DEF StartMode
  <2>3. running \/ stopped
    BY <1>1, <1>12 DEF StartMode, Step, PastOf
  <2>4. UNCHANGED <<running, stopped, socket, lite, switched>>
    BY <1>12 DEF StartMode
  <2>5. socket \/ stopped
    BY <1>1, <1>12 DEF StartMode, Step, PastOf
  <2>6. lite => \A i \in 1..Len(StartWorkers) : StartWorkers[i] # "sender"
    <3>1. lite => StartWorkers \in {<<"receiver">>, <<>>}
      BY Zenon DEF StartWorkers
    <3> QED
      BY <3>1
  <2> QED
    BY <2>1, <2>2, <2>3, <2>4, <2>5, <2>6 DEF PastOf
<1>13. ASSUME StopFlags(c) PROVE PastOf(call[c])'
  <2>1. CASE running
    <3>1. call'[c] = [op |-> "stop", step |-> "close", plan |-> call[c].plan]
      BY <1>8, <1>13, <2>1 DEF StopFlags, Step, Steps
    <3>2. stopped'
      BY <1>13, <2>1, Zenon DEF StopFlags
    <3> QED
      BY <3>1, <3>2 DEF PastOf
  <2>2. CASE ~running
    BY <1>7, <1>13, <2>2 DEF StopFlags
  <2> QED
    BY <2>1, <2>2
<1>14. ASSUME StopClose(c) PROVE PastOf(call[c])'
  <2>1. call'[c].op = "stop" /\ call'[c].step = "join"
    <3>1. PICK q \in Seq(Threads) : Plan(c, "join", q)
      BY <1>14, Plans DEF StopClose
    <3>2. call'[c] = [op |-> call[c].op, step |-> "join", plan |-> q]
      BY <1>9, <3>1 DEF Steps
    <3> QED
      BY <1>14, <3>2 DEF StopClose, Step
  <2>2. stopped'
    BY <1>1, <1>3, <1>14 DEF StopClose, Step, PastOf, Onward
  <2> QED
    BY <2>1, <2>2 DEF PastOf
<1>15. ASSUME SwitchLock(c) \/ SwitchPeers(c) PROVE PastOf(call[c])'
  <2>1. PICK s \in {"peers", "lite", "flush"} : Continue(c, s)
    BY <1>15 DEF SwitchLock, SwitchPeers
  <2>2. call'[c] = [op |-> call[c].op, step |-> s, plan |-> call[c].plan]
    BY <1>8, <2>1 DEF Steps
  <2>3. UNCHANGED <<running, working, socket, lite, stopped, switched>>
    BY <1>15 DEF SwitchLock, SwitchPeers, flags, past
  <2> QED
    BY <1>1, <2>1, <2>2, <2>3 DEF PastOf
<1>16. ASSUME DownLite(c) PROVE PastOf(call[c])'
  <2>1. call'[c] = [op |-> "down", step |-> "halt", plan |-> call[c].plan]
    BY <1>8, <1>16 DEF DownLite, Step, Steps
  <2>2. switched' # {}
    BY <1>16 DEF DownLite
  <2> QED
    BY <2>1, <2>2 DEF PastOf
<1>17. ASSUME DownHalt(c) PROVE PastOf(call[c])'
  <2>1. call'[c].op = "down" /\ call'[c].step = "join"
    <3>1. PICK q \in Seq(Threads) : Plan(c, "join", q)
      BY <1>17, Plans DEF DownHalt
    <3>2. call'[c] = [op |-> call[c].op, step |-> "join", plan |-> q]
      BY <1>9, <3>1 DEF Steps
    <3> QED
      BY <1>17, <3>2 DEF DownHalt, Step
  <2> QED
    BY <2>1 DEF PastOf
<1>18. ASSUME UpFlush(c) PROVE PastOf(call[c])'
  <2>1. call'[c].op = "up"
    BY <1>8, <1>18 DEF UpFlush, Step, Steps
  <2>2. call'[c].step \in {"revive", "reset"}
    BY <1>8, <1>18 DEF UpFlush, Step, Steps
  <2>3. "up" \in switched'
    BY <1>18 DEF UpFlush
  <2> QED
    BY <2>1, <2>2, <2>3 DEF PastOf
<1>19. ASSUME UpReset(c) PROVE PastOf(call[c])'
  <2>1. call'[c] = [op |-> "up", step |-> "revive", plan |-> call[c].plan]
    BY <1>8, <1>19 DEF UpReset, Step, Steps
  <2>2. "up" \in switched'
    BY <1>1, <1>19 DEF UpReset, Step, PastOf, past
  <2> QED
    BY <2>1, <2>2 DEF PastOf
<1>20. ASSUME UpRevive(c) PROVE PastOf(call[c])'
  <2>1. PICK q \in Seq(Threads) : Plan(c, "spawn", q) /\ (running \/ q = <<>>)
    BY <1>20, Plans DEF UpRevive
  <2>2. call'[c] = [op |-> "up", step |-> "spawn", plan |-> q]
    <3>1. call'[c] = [op |-> call[c].op, step |-> "spawn", plan |-> q]
      BY <1>9, <2>1 DEF Steps
    <3> QED
      BY <1>20, <3>1 DEF UpRevive, Step
  <2>3. "up" \in switched'
    BY <1>1, <1>20 DEF UpRevive, Step, PastOf
  <2>4. running => socket' \/ stopped'
    BY <1>3 DEF LossInv, SocketKept, Onward
  <2> QED
    BY <2>1, <2>2, <2>3, <2>4 DEF PastOf
<1>21. ASSUME StartDone(c) \/ StopDone(c) \/ SwitchSame(c) \/ DownDone(c) \/ UpDone(c)
       PROVE  PastOf(call[c])'
  BY <1>7, <1>21 DEF StartDone, StopDone, SwitchSame, DownDone, UpDone
<1> QED
  BY <1>4, <1>5, <1>6, <1>10, <1>11, <1>12, <1>13, <1>14, <1>15, <1>16, <1>17, <1>18, <1>19,
     <1>20, <1>21 DEF Proceed
(* What the callers do keeps the invariant. *)
LEMMA LossCallers ==
    ASSUME TypeInv, LossInv, NEW c \in Callers,
           Start(c) \/ Stop(c) \/ SetLiteMode(c) \/ Proceed(c)
    PROVE  LossInv'
<1>1. PastOf(call[c])' /\ PastOf(call[c])
  BY NextStepTrue DEF LossInv
<1>2. Onward
  BY <1>1, CallsOnward
<1>3. ASSUME NEW d \in Callers, d # c
      PROVE  PastOf(call[d])'
  <2>1. call'[d] = call[d]
    BY <1>3 DEF TypeInv, CallType, Start, Stop, SetLiteMode, Proceed, Begin, Return, Continue,
        Plan, Spawn, Join, StartRun, StartMode, StartDone, StopFlags, StopClose, StopDone,
        SwitchLock, SwitchSame, SwitchPeers, DownLite, DownHalt, DownDone, UpFlush, UpReset,
        UpRevive, UpDone
  <2>2. PastOf(call[d])
    BY DEF LossInv
  <2> QED
    BY <1>2, <2>1, <2>2 DEF Onward, PastOf
<1>4. closed' => stopped'
  <2>1. closed' => closed \/ StopClose(c)
    BY DEF Start, Stop, SetLiteMode, Proceed, Spawn, Join, StartRun, StartMode, StartDone,
        StopFlags, StopDone, SwitchLock, SwitchSame, SwitchPeers, DownLite, DownHalt, DownDone,
        UpFlush, UpReset, UpRevive, UpDone, flags
  <2>2. StopClose(c) => stopped
    BY <1>1 DEF StopClose, Step, PastOf
  <2> QED
    BY <1>2, <2>1, <2>2 DEF LossInv, Onward
<1>4a. SocketKept'
  <2>1. CASE socket \/ stopped
    BY <1>2, <2>1 DEF Onward, SocketKept
  <2>2. CASE ~socket /\ ~stopped
    <3>1. ~running /\ \A t \in Threads : up[t] # "alive"
      BY <2>2 DEF LossInv, SocketKept
    <3>2. ~Spawn(c)
      BY <1>1, <2>2 DEF Spawn, PastOf
    <3>3. \A t \in Threads : up'[t] # "alive"
      <4>1. CASE Join(c)
        BY <3>1, <4>1 DEF Join, TypeInv, ThreadType
      <4>2. CASE UNCHANGED threads
        BY <3>1, <4>2 DEF threads
      <4> QED
        BY <3>2, <4>1, <4>2, CallersMove
    <3>4. ~StartRun(c)
      BY <1>1, <2>2 DEF StartRun, Step, PastOf
    <3>5. ~running'
      BY <3>1, <3>4 DEF Start, Stop, SetLiteMode, Proceed, Spawn, Join, StartMode, StartDone,
          StopFlags, StopClose, StopDone, SwitchLock, SwitchSame, SwitchPeers, DownLite, DownHalt,
          DownDone, UpFlush, UpReset, UpRevive, UpDone, flags
    <3> QED
      BY <3>3, <3>5 DEF SocketKept
  <2> QED
    BY <2>1, <2>2
<1>5. SenderTold'
  <2>1. CASE Spawn(c)
    <3>1. CASE Head(call[c].plan) = "sender"
      <4>1. call[c].plan \in Seq(Threads) /\ call[c].plan # <<>>
        BY <2>1 DEF Spawn, TypeInv, CallType, Calls
      <4>2. 1 \in 1..Len(call[c].plan) /\ call[c].plan[1] = "sender"
        BY <3>1, <4>1
      <4>3. call[c].op \in {"start2", "up"}
        BY <1>1, <2>1, <4>2 DEF Spawn, PastOf
      <4>4. /\ (running /\ working) \/ stopped \/ switched # {}
            /\ ~lite \/ switched # {}
        BY <1>1, <2>1, <4>1, <4>2, <4>3 DEF Spawn, PastOf
      <4> QED
        BY <1>2, <4>4 DEF SenderTold, Onward
    <3>2. CASE Head(call[c].plan) # "sender"
      <4>1. up'["sender"] = up["sender"]
        BY <2>1, <3>2 DEF Spawn, TypeInv, ThreadType
      <4> QED
        BY <1>2, <4>1 DEF LossInv, SenderTold, Onward
    <3> QED
      BY <3>1, <3>2
  <2>2. CASE Join(c)
    <3>1. up'["sender"] = "alive" => up["sender"] = "alive"
      BY <2>2 DEF Join, TypeInv, ThreadType, Threads, Workers
    <3> QED
      BY <1>2, <3>1 DEF LossInv, SenderTold, Onward
  <2>3. CASE UNCHANGED threads
    BY <1>2, <2>3 DEF LossInv, SenderTold, Onward, threads
  <2> QED
    BY <2>1, <2>2, <2>3, CallersMove
<1>6. /\ discarded' # {} => stopped' \/ switched' # {}
      /\ starved' # {} => ~lite' \/ switched' # {}
      /\ "up" \notin switched' => OnePlace'
  <2>1. CASE UpFlush(c)
    BY <2>1 DEF UpFlush
  <2>2. CASE UpReset(c)
    <3>1. "up" \in switched /\ UNCHANGED switched
      BY <1>1, <2>2 DEF UpReset, Step, PastOf, past
    <3> QED
      BY <3>1
  <2>3. CASE UNCHANGED <<pipe, tally>>
    <3>1. "up" \notin switched' => "up" \notin switched
      BY <1>2 DEF Onward
    <3>2. /\ discarded # {} => stopped \/ switched # {}
          /\ starved # {} => ~lite \/ switched # {}
          /\ "up" \notin switched => OnePlace
      BY DEF LossInv
    <3>3. OnePlace' = OnePlace
      BY <2>3 DEF OnePlace, Lost, pipe, tally
    <3> QED
      BY <1>2, <2>3, <3>1, <3>2, <3>3 DEF Onward, tally
  <2> QED
    BY <2>1, <2>2, <2>3, CallersPass
<1>7. SomePlace'
  <2>0. SomePlace
    BY DEF LossInv
  <2>1. CASE UpFlush(c)
    BY <2>0, <2>1 DEF UpFlush, Transmit, SomePlace, Lost, pipe, tally
  <2>2. CASE UpReset(c)
    BY <2>0, <2>2, LifecycleAssumption DEF UpReset, Discard, SomePlace, Lost, tally
  <2>3. CASE UNCHANGED <<pipe, tally>>
    BY <2>0, <2>3 DEF SomePlace, Lost, pipe, tally
  <2> QED
    BY <2>1, <2>2, <2>3, CallersPass
<1> QED
  BY <1>1, <1>3, <1>4, <1>4a, <1>5, <1>6, <1>7 DEF LossInv

(* The invariant of the losses. *)
LEMMA LossInvariance ==
    Spec => []LossInv
<1>1. Init => LossInv
  <2> SUFFICES ASSUME Init PROVE LossInv
    OBVIOUS
  <2>1. OnePlace
    BY LifecycleAssumption DEF Init, OnePlace, Lost
  <2>2. \A c \in Callers : PastOf(call[c])
    BY DEF Init, Idle, PastOf
  <2>3. SenderTold /\ SocketKept
    BY DEF Init, SenderTold, SocketKept, Threads, Workers
  <2>4. SomePlace
    BY DEF Init, SomePlace
  <2> QED
    BY <2>1, <2>2, <2>3, <2>4 DEF Init, LossInv
<1>2. TypeInv /\ LossInv /\ [Next]_vars => LossInv'
  <2> SUFFICES ASSUME TypeInv, LossInv, [Next]_vars PROVE LossInv'
    OBVIOUS
  <2>1. CASE UNCHANGED vars
    BY <2>1 DEF vars, flags, threads, pipe, tally, past, LossInv, PastOf, SenderTold, SocketKept,
        OnePlace, SomePlace, Lost
  <2> QED
    BY <2>1, LossThreads, LossCallers DEF Next, ThreadStep
<1> QED
  BY <1>1, <1>2, TypeInvariance, PTL DEF Spec

(* No message vanishes, whatever callers call at the same time: it is thrown   *)
(* away only after a stop or a switch, lost for lack of tokens only by a sender *)
(* thread, and sent twice, or lost and still there, only when a switch to full  *)
(* mode raced the reactor.                                                      *)
THEOREM LossesExplained ==
    Spec => []LostForAReason
<1>1. LossInv => LostForAReason
  BY DEF LossInv, OnePlace, SomePlace, LostForAReason
<1> QED
  BY <1>1, LossInvariance, PTL
(***************************************************************************)
(* Every role is served, for calls made one after the other.               *)
(***************************************************************************)

Pending(q) == {q[i] : i \in 1..Len(q)}

\* Between calls: the threads of a transport that runs, by its mode, and those
\* of one that does not.
AllRun(S)  == \A t \in S : up[t] = "alive"
NoneOf(S)  == \A t \in S : up[t] = "none"
AtRest     == ~working /\ NoneOf(Threads)
Receives   == profile = "Video" /\ ~deaf

AtWork ==
    /\ up["reactor"] = "alive"
    /\ ~lite => working /\ AllRun(Workers)
    /\ lite => NoneOf({"encode", "sender"})
    /\ lite /\ Receives => working /\ up["receiver"] = "alive"
    /\ lite /\ ~Receives => up["receiver"] = "none"

Settled == (running => AtWork) /\ (~running => AtRest)

\* Threads that are there already, or still to be created or joined by the call.
Coming(r, S) == Pending(r.plan) \subseteq S /\ \A t \in S : up[t] = "alive" \/ t \in Pending(r.plan)
Going(r, S)  == Pending(r.plan) \subseteq S /\ \A t \in S : up[t] = "none" \/ t \in Pending(r.plan)

\* The workers start creates in the mode the transport is in.
Wanted == {t \in Workers : ~lite \/ (t = "receiver" /\ profile = "Video")}

\* What holds in each step of a call.
StartPhase(r) ==
    \/ r.step = "run" /\ ~running /\ AtRest
    \/ /\ r.step = "spawn" /\ running /\ ~working /\ NoneOf(Workers)
       /\ Pending(r.plan) \subseteq {"cap", "reactor"}
       /\ up["reactor"] = "alive" \/ "reactor" \in Pending(r.plan)

StartWorkersPhase(r) ==
    /\ r.step = "spawn" /\ running /\ up["reactor"] = "alive" /\ ~deaf
    /\ Wanted # {} => working
    /\ Coming(r, Wanted) /\ NoneOf(Workers \ Wanted)

StopPhase(r) ==
    \/ r.step = "byes" /\ Settled
    \/ r.step = "close" /\ ~running /\ ~working
    \/ r.step = "join" /\ ~running /\ ~working /\ Going(r, Threads)

DownPhase(r) ==
    \/ r.step \in {"lock", "peers"} /\ Settled
    \/ r.step = "lite" /\ ~lite /\ Settled
    \/ /\ r.step = "halt" /\ lite
       /\ running => up["reactor"] = "alive"
       /\ ~running => AtRest
    \/ /\ r.step = "join" /\ lite /\ ~working /\ Going(r, Workers)
       /\ running => up["reactor"] = "alive" /\ deaf
       /\ ~running => AtRest

UpPhase(r) ==
    \/ r.step \in {"lock", "peers"} /\ Settled
    \/ r.step \in {"flush", "reset", "revive"} /\ lite /\ Settled
    \/ /\ r.step = "spawn" /\ lite
       /\ running => working /\ up["reactor"] = "alive" /\ Coming(r, Workers)
       /\ ~running => AtRest /\ r.plan = <<>>

Phase(r) ==
    /\ r.op = "none"   => r.step = "idle" /\ Settled
    /\ r.op = "start"  => StartPhase(r)
    /\ r.op = "start2" => StartWorkersPhase(r)
    /\ r.op = "stop"   => StopPhase(r)
    /\ r.op = "down"   => DownPhase(r)
    /\ r.op = "up"     => UpPhase(r)

(* What is left of a plan when its first thread is dealt with, and what the plans *)
(* of stop and of the switches hold.                                              *)
LEMMA PlanParts ==
    /\ \A q \in Seq(Threads) : q # <<>> =>
            /\ Head(q) \in Threads
            /\ Pending(q) = {Head(q)} \cup Pending(Tail(q))
    /\ Pending(<<>>) = {}
    /\ Pending(<<"cap", "reactor">>) = {"cap", "reactor"}
    /\ Pending(<<"receiver", "encode", "sender">>) = Workers
    /\ Pending(<<"cap", "reactor", "receiver", "encode", "sender">>) = Threads
<1>1. ASSUME NEW q \in Seq(Threads), q # <<>>
      PROVE  Head(q) \in Threads /\ Pending(q) = {Head(q)} \cup Pending(Tail(q))
  <2>1. Len(q) \in Nat \ {0} /\ Head(q) = q[1] /\ Len(Tail(q)) = Len(q) - 1
    BY <1>1
  <2>2. \A i \in 1..Len(q) - 1 : Tail(q)[i] = q[i + 1]
    BY <1>1
  <2>3. Pending(q) \subseteq {Head(q)} \cup Pending(Tail(q))
    <3>1. ASSUME NEW i \in 1..Len(q)
          PROVE  q[i] \in {Head(q)} \cup Pending(Tail(q))
      <4>1. CASE i = 1
        BY <2>1, <4>1
      <4>2. CASE i # 1
        <5>1. i - 1 \in 1..Len(q) - 1 /\ Tail(q)[i - 1] = q[i]
          BY <2>1, <2>2, <4>2
        <5> QED
          BY <2>1, <5>1 DEF Pending
      <4> QED
        BY <4>1, <4>2
    <3> QED
      BY <3>1 DEF Pending
  <2>4. {Head(q)} \cup Pending(Tail(q)) \subseteq Pending(q)
    <3>1. Head(q) \in Pending(q)
      BY <2>1 DEF Pending
    <3>2. ASSUME NEW i \in 1..Len(Tail(q))
          PROVE  Tail(q)[i] \in Pending(q)
      <4>1. i + 1 \in 1..Len(q) /\ Tail(q)[i] = q[i + 1]
        BY <2>1, <2>2
      <4> QED
        BY <4>1 DEF Pending
    <3> QED
      BY <3>1, <3>2 DEF Pending
  <2> QED
    BY <1>1, <2>1, <2>3, <2>4
<1>2. Pending(<<>>) = {}
  BY DEF Pending
<1>3. Pending(<<"cap", "reactor">>) = {"cap", "reactor"}
  BY DEF Pending
<1>4. Pending(<<"receiver", "encode", "sender">>) = Workers
  BY DEF Pending, Workers
<1>5. Pending(<<"cap", "reactor", "receiver", "encode", "sender">>) = Threads
  BY DEF Pending, Threads, Workers
<1> QED
  BY <1>1, <1>2, <1>3, <1>4, <1>5

(* The plan of one list after another. *)
LEMMA PlansJoined ==
    ASSUME NEW a \in Seq(Threads), NEW b \in Seq(Threads)
    PROVE  a \o b \in Seq(Threads) /\ Pending(a \o b) = Pending(a) \cup Pending(b)
<1>1. /\ a \o b \in Seq(Threads) /\ Len(a \o b) = Len(a) + Len(b)
      /\ Len(a) \in Nat /\ Len(b) \in Nat
  OBVIOUS
<1>2. \A i \in 1..Len(a) + Len(b) :
        (a \o b)[i] = IF i <= Len(a) THEN a[i] ELSE b[i - Len(a)]
  OBVIOUS
<1>3. Pending(a \o b) \subseteq Pending(a) \cup Pending(b)
  <2>1. ASSUME NEW i \in 1..Len(a) + Len(b)
        PROVE  (a \o b)[i] \in Pending(a) \cup Pending(b)
    <3>1. CASE i <= Len(a)
      BY <1>1, <1>2, <3>1 DEF Pending
    <3>2. CASE ~(i <= Len(a))
      <4>1. i - Len(a) \in 1..Len(b)
        BY <1>1, <3>2
      <4> QED
        BY <1>2, <3>2, <4>1 DEF Pending
    <3> QED
      BY <3>1, <3>2
  <2> QED
    BY <1>1, <2>1 DEF Pending
<1>4. Pending(a) \subseteq Pending(a \o b)
  <2>1. ASSUME NEW i \in 1..Len(a)
        PROVE  a[i] \in Pending(a \o b)
    <3>1. i \in 1..Len(a \o b) /\ (a \o b)[i] = a[i]
      BY <1>1, <1>2
    <3> QED
      BY <3>1 DEF Pending
  <2> QED
    BY <2>1 DEF Pending
<1>5. Pending(b) \subseteq Pending(a \o b)
  <2>1. ASSUME NEW i \in 1..Len(b)
        PROVE  b[i] \in Pending(a \o b)
    <3>1. i + Len(a) \in 1..Len(a \o b) /\ (a \o b)[i + Len(a)] = b[i]
      BY <1>1, <1>2
    <3> QED
      BY <3>1 DEF Pending
  <2> QED
    BY <2>1 DEF Pending
<1> QED
  BY <1>1, <1>3, <1>4, <1>5

(* The threads start creates besides the reactor's and the callbacks' are the *)
(* ones its mode wants; a switch to full mode creates those not joined.       *)
LEMMA PlannedWorkers ==
    /\ Pending(StartWorkers) = Wanted
    /\ StartWorkers # <<>> <=> Wanted # {}
    /\ Pending(Revived) = {t \in Workers : up[t] = "none"}
<1>1. Pending(StartWorkers) = Wanted /\ (StartWorkers # <<>> <=> Wanted # {})
  <2>1. CASE ~lite
    <3>1. StartWorkers = <<"receiver", "encode", "sender">>
      BY <2>1, Zenon DEF StartWorkers
    <3>2. Wanted = Workers
      BY <2>1 DEF Wanted
    <3>3. Pending(StartWorkers) = Wanted
      BY <3>1, <3>2, PlanParts
    <3>4. StartWorkers # <<>> /\ Wanted # {}
      BY <3>1, <3>2 DEF Workers
    <3> QED
      BY <3>3, <3>4
  <2>2. CASE lite /\ profile = "Video"
    <3>1. StartWorkers = <<"receiver">>
      BY <2>2, Zenon DEF StartWorkers
    <3>2. Wanted = {"receiver"}
      BY <2>2 DEF Wanted, Workers
    <3>3. Pending(StartWorkers) = Wanted
      BY <3>1, <3>2 DEF Pending
    <3> QED
      BY <3>1, <3>2, <3>3
  <2>3. CASE lite /\ profile # "Video"
    <3>1. StartWorkers = <<>>
      BY <2>3, Zenon DEF StartWorkers
    <3>2. Wanted = {}
      BY <2>3 DEF Wanted
    <3> QED
      BY <3>1, <3>2, PlanParts
  <2> QED
    BY <2>1, <2>2, <2>3
<1>2. Pending(Revived) = {t \in Workers : up[t] = "none"}
  <2>1. ASSUME NEW t \in Threads
        PROVE  /\ IfJoined(t) \in Seq(Threads)
               /\ Pending(IfJoined(t)) = IF up[t] = "none" THEN {t} ELSE {}
    <3>1. CASE up[t] = "none"
      <4>1. IfJoined(t) = <<t>>
        BY <3>1 DEF IfJoined, Joined
      <4> QED
        BY <3>1, <4>1 DEF Pending
    <3>2. CASE up[t] # "none"
      <4>1. IfJoined(t) = <<>>
        BY <3>2 DEF IfJoined, Joined
      <4> QED
        BY <3>2, <4>1, PlanParts
    <3> QED
      BY <3>1, <3>2
  <2>2. Pending(Revived) = Pending(IfJoined("receiver")) \cup Pending(IfJoined("encode"))
                                \cup Pending(IfJoined("sender"))
    <3>1. /\ IfJoined("receiver") \in Seq(Threads) /\ IfJoined("encode") \in Seq(Threads)
          /\ IfJoined("sender") \in Seq(Threads)
      BY <2>1 DEF Threads, Workers
    <3>2. IfJoined("receiver") \o IfJoined("encode") \in Seq(Threads)
      BY <3>1, PlansJoined
    <3> QED
      BY <3>1, <3>2, PlansJoined, Zenon DEF Revived
  <2>3. /\ Pending(IfJoined("receiver")) = IF up["receiver"] = "none" THEN {"receiver"} ELSE {}
        /\ Pending(IfJoined("encode")) = IF up["encode"] = "none" THEN {"encode"} ELSE {}
        /\ Pending(IfJoined("sender")) = IF up["sender"] = "none" THEN {"sender"} ELSE {}
    BY <2>1 DEF Threads, Workers
  <2> QED
    BY <2>2, <2>3 DEF Workers
<1> QED
  BY <1>1, <1>2
(* A thread that leaves its loop disturbs no call and no transport at work: it *)
(* was told to, and by whom the phase of the call says.                        *)
LEMMA RolesThreads ==
    ASSUME TypeInv, NEW c \in Callers, Phase(call[c]), ThreadStep
    PROVE  Phase(call[c])'
<1>1. UNCHANGED <<running, working, lite, profile, deaf, call>>
  BY ThreadsMove DEF flags, past
<1>2. /\ \A t \in Threads : up[t] = "none" => up'[t] = "none"
      /\ running /\ up["reactor"] = "alive" => up'["reactor"] = "alive"
      /\ running /\ working => \A t \in Workers : up[t] = "alive" => up'[t] = "alive"
  <2>1. CASE Stays \/ Moves
    BY <2>1 DEF Stays, Moves, threads
  <2>2. CASE Leaves
    <3>1. PICK t \in Threads :
            /\ up' = [up EXCEPT ![t] = "exited"] /\ up[t] = "alive"
            /\ t \in Workers => ~(running /\ working)
            /\ t = "reactor" => ~running
      BY <2>2 DEF Leaves, Exit, TypeInv, ThreadType
    <3> QED
      BY <3>1 DEF TypeInv, ThreadType, Threads
  <2> QED
    BY <2>1, <2>2, ThreadsMove
<1>3. /\ AtRest => AtRest'
      /\ AtWork /\ running => AtWork'
      /\ NoneOf(Workers) => NoneOf(Workers)'
      /\ NoneOf(Workers \ Wanted) => NoneOf(Workers \ Wanted)'
      /\ Wanted' = Wanted
  <2>1. AtRest => AtRest'
    BY <1>1, <1>2 DEF AtRest, NoneOf
  <2>2. AtWork /\ running => AtWork'
    BY <1>1, <1>2 DEF AtWork, NoneOf, AllRun, Receives, Threads, Workers
  <2>3. Wanted' = Wanted
    BY <1>1 DEF Wanted
  <2> QED
    BY <1>2, <2>1, <2>2, <2>3 DEF NoneOf, Threads
<1>4. Settled => Settled'
  BY <1>1, <1>3 DEF Settled
<1>5. StartPhase(call[c]) => StartPhase(call[c])'
  BY <1>1, <1>2, <1>3 DEF StartPhase, Pending
<1>6. StartWorkersPhase(call[c]) => StartWorkersPhase(call[c])'
  <2>1. running /\ (Wanted # {} => working) /\ Coming(call[c], Wanted)
            => Coming(call[c], Wanted)'
    BY <1>1, <1>2, <1>3 DEF Coming, Pending, Wanted
  <2> QED
    BY <1>1, <1>2, <1>3, <2>1 DEF StartWorkersPhase
<1>7. StopPhase(call[c]) => StopPhase(call[c])'
  <2>1. Going(call[c], Threads) => Going(call[c], Threads)'
    BY <1>1, <1>2 DEF Going, Pending
  <2> QED
    BY <1>1, <1>4, <2>1 DEF StopPhase
<1>8. DownPhase(call[c]) => DownPhase(call[c])'
  <2>1. Going(call[c], Workers) => Going(call[c], Workers)'
    BY <1>1, <1>2 DEF Going, Pending, Threads
  <2> QED
    BY <1>1, <1>2, <1>3, <1>4, <2>1 DEF DownPhase
<1>9. UpPhase(call[c]) => UpPhase(call[c])'
  <2>1. running /\ working /\ Coming(call[c], Workers) => Coming(call[c], Workers)'
    BY <1>1, <1>2 DEF Coming, Pending
  <2> QED
    BY <1>1, <1>2, <1>3, <1>4, <2>1 DEF UpPhase
<1> QED
  BY <1>1, <1>4, <1>5, <1>6, <1>7, <1>8, <1>9 DEF Phase
(* What a caller's call is after a step of it. *)
LEMMA CallNow ==
    ASSUME CallType, NEW c \in Callers
    PROVE  /\ \A s \in Steps : Continue(c, s) =>
                call'[c].op = call[c].op /\ call'[c].step = s /\ call'[c].plan = call[c].plan
           /\ \A s \in Steps, q \in Seq(Threads) : Plan(c, s, q) =>
                call'[c].op = call[c].op /\ call'[c].step = s /\ call'[c].plan = q
           /\ Return(c) => call'[c].op = "none" /\ call'[c].step = "idle"
           /\ \A op \in Ops, s \in Steps : Begin(c, op, s) =>
                call'[c].op = op /\ call'[c].step = s
           /\ call' = [call EXCEPT ![c].plan = Tail(@)] =>
                /\ call'[c].op = call[c].op /\ call'[c].step = call[c].step
                /\ call'[c].plan = Tail(call[c].plan)
<1>1. call[c] \in Calls
  BY DEF CallType
<1>2. \A s \in Steps : Continue(c, s) =>
        call'[c].op = call[c].op /\ call'[c].step = s /\ call'[c].plan = call[c].plan
  BY <1>1 DEF CallType, Calls, Continue
<1>3. \A s \in Steps, q \in Seq(Threads) : Plan(c, s, q) =>
        call'[c].op = call[c].op /\ call'[c].step = s /\ call'[c].plan = q
  BY <1>1 DEF CallType, Calls, Plan
<1>4. Return(c) => call'[c].op = "none" /\ call'[c].step = "idle"
  BY DEF CallType, Return, Idle
<1>5. \A op \in Ops, s \in Steps : Begin(c, op, s) => call'[c].op = op /\ call'[c].step = s
  BY DEF CallType, Begin
<1>6. call' = [call EXCEPT ![c].plan = Tail(@)] =>
        /\ call'[c].op = call[c].op /\ call'[c].step = call[c].step
        /\ call'[c].plan = Tail(call[c].plan)
  BY <1>1 DEF CallType, Calls
<1> QED
  BY <1>2, <1>3, <1>4, <1>5, <1>6

(* Creating and joining one thread: what the call's plan promises goes on being *)
(* true, and is done when the plan is empty.                                    *)
LEMMA PlanStep ==
    ASSUME TypeInv, NEW c \in Callers, Phase(call[c]), PastOf(call[c]), Spawn(c) \/ Join(c)
    PROVE  Phase(call[c])'
<1>1. /\ call'[c].op = call[c].op /\ call'[c].step = call[c].step
      /\ call'[c].plan = Tail(call[c].plan)
      /\ call[c].plan \in Seq(Threads) /\ call[c].plan # <<>> /\ call[c].op \in Ops
      /\ UNCHANGED <<running, working, lite, profile, deaf>>
      /\ up \in [Threads -> Ups]
  <2>1. call' = [call EXCEPT ![c].plan = Tail(@)]
    BY DEF Spawn, Join
  <2>2. CallType /\ call[c] \in Calls /\ up \in [Threads -> Ups]
    BY DEF TypeInv, CallType, ThreadType
  <2>3. call[c].plan # <<>> /\ UNCHANGED <<running, working, lite, profile, deaf>>
    BY DEF Spawn, Join, flags, past
  <2> QED
    BY <2>1, <2>2, <2>3, CallNow DEF Calls
<1>2. PICK t \in Threads :
        /\ t = Head(call[c].plan) /\ Pending(call[c].plan) = {t} \cup Pending(call'[c].plan)
  BY <1>1, PlanParts
<1>3. Wanted' = Wanted
  BY <1>1 DEF Wanted
<1>4. CASE Spawn(c)
  <2>1. up' = [up EXCEPT ![t] = "alive"] /\ call[c].step = "spawn"
    BY <1>2, <1>4 DEF Spawn
  <2>2. call[c].op \in {"start", "start2", "up"}
    BY <2>1 DEF PastOf
  <2>3. CASE call[c].op = "start"
    <3>1. StartPhase(call[c])
      BY <2>3 DEF Phase
    <3>2. /\ running /\ ~working /\ NoneOf(Workers)
          /\ Pending(call[c].plan) \subseteq {"cap", "reactor"}
          /\ up["reactor"] = "alive" \/ "reactor" \in Pending(call[c].plan)
      BY <2>1, <3>1 DEF StartPhase
    <3>3. NoneOf(Workers)'
      BY <1>1, <1>2, <2>1, <3>2 DEF NoneOf, Workers, Threads
    <3>4. up'["reactor"] = "alive" \/ "reactor" \in Pending(call'[c].plan)
      BY <1>1, <1>2, <2>1, <3>2 DEF Threads
    <3>5. StartPhase(call[c])'
      BY <1>1, <1>2, <2>1, <3>2, <3>3, <3>4 DEF StartPhase
    <3> QED
      BY <1>1, <2>3, <3>5 DEF Phase
  <2>4. CASE call[c].op = "start2"
    <3>1. /\ running /\ up["reactor"] = "alive" /\ ~deaf /\ (Wanted # {} => working)
          /\ Coming(call[c], Wanted) /\ NoneOf(Workers \ Wanted)
      BY <2>4 DEF Phase, StartWorkersPhase
    <3>2. Coming(call[c], Wanted)'
      BY <1>1, <1>2, <1>3, <2>1, <3>1 DEF Coming, Wanted, Threads
    <3>3. NoneOf(Workers \ Wanted)'
      BY <1>1, <1>2, <1>3, <2>1, <3>1 DEF Coming, NoneOf, Threads
    <3>4. up'["reactor"] = "alive"
      BY <1>1, <2>1, <3>1 DEF Threads
    <3>5. StartWorkersPhase(call[c])'
      BY <1>1, <1>3, <2>1, <3>1, <3>2, <3>3, <3>4 DEF StartWorkersPhase
    <3> QED
      BY <1>1, <2>4, <3>5 DEF Phase
  <2>5. CASE call[c].op = "up"
    <3>1. /\ lite /\ running /\ working /\ up["reactor"] = "alive" /\ Coming(call[c], Workers)
      BY <1>1, <2>1, <2>5 DEF Phase, UpPhase
    <3>2. Coming(call[c], Workers)'
      BY <1>1, <1>2, <2>1, <3>1 DEF Coming, Threads
    <3>3. up'["reactor"] = "alive"
      BY <1>1, <2>1, <3>1 DEF Threads
    <3>4. UpPhase(call[c])'
      BY <1>1, <2>1, <3>1, <3>2, <3>3 DEF UpPhase
    <3> QED
      BY <1>1, <2>5, <3>4 DEF Phase
  <2> QED
    BY <2>2, <2>3, <2>4, <2>5
<1>5. CASE Join(c)
  <2>1. up' = [up EXCEPT ![t] = "none"] /\ call[c].step = "join"
    BY <1>2, <1>5 DEF Join
  <2>2. CASE call[c].op = "stop"
    <3>1. ~running /\ ~working /\ Going(call[c], Threads)
      BY <2>1, <2>2 DEF Phase, StopPhase
    <3>2. Going(call[c], Threads)'
      BY <1>1, <1>2, <2>1, <3>1 DEF Going
    <3>3. StopPhase(call[c])'
      BY <1>1, <2>1, <3>1, <3>2 DEF StopPhase
    <3> QED
      BY <1>1, <2>2, <3>3 DEF Phase
  <2>3. CASE call[c].op = "down"
    <3>1. /\ lite /\ ~working /\ Going(call[c], Workers)
          /\ running => up["reactor"] = "alive" /\ deaf
          /\ ~running => AtRest
      BY <2>1, <2>3 DEF Phase, DownPhase
    <3>2. t \in Workers
      BY <1>2, <3>1 DEF Going
    <3>3. Going(call[c], Workers)'
      BY <1>1, <1>2, <2>1, <3>1 DEF Going, Threads
    <3>4. up'["reactor"] = up["reactor"]
      BY <1>1, <2>1, <3>2 DEF Threads, Workers
    <3>5. AtRest => AtRest'
      BY <1>1, <2>1 DEF AtRest, NoneOf
    <3>6. DownPhase(call[c])'
      BY <1>1, <2>1, <3>1, <3>3, <3>4, <3>5 DEF DownPhase
    <3> QED
      BY <1>1, <2>3, <3>6 DEF Phase
  <2>4. call[c].op \notin {"none", "start", "start2", "up"}
    BY <2>1 DEF Phase, StartPhase, StartWorkersPhase, UpPhase
  <2> QED
    BY <1>1, <2>2, <2>3, <2>4 DEF Ops
<1> QED
  BY <1>4, <1>5
(* The other steps of a call: start, stop and set_lite_mode lead from one settled *)
(* state to the next, through states that say what is left to do.                 *)
LEMMA RolesCallers ==
    ASSUME TypeInv, NEW c \in Callers, Phase(call[c]), PastOf(call[c]),
           Start(c) \/ Stop(c) \/ SetLiteMode(c) \/ Proceed(c)
    PROVE  Phase(call[c])'
<1> DEFINE same == UNCHANGED <<running, working, lite, profile, deaf, up>>
<1>0. CallType /\ call[c].op \in Ops /\ call[c].plan \in Seq(Threads)
  BY DEF TypeInv, CallType, Calls
<1>1. same => (Settled => Settled') /\ (AtRest => AtRest')
  BY DEF Settled, AtWork, AtRest, AllRun, NoneOf, Receives
<1>2. call[c].step = "idle" => Settled
  BY <1>0 DEF Phase, StartPhase, StartWorkersPhase, StopPhase, DownPhase, UpPhase, Ops
<1>3. CASE Spawn(c) \/ Join(c)
  BY <1>3, PlanStep
<1>4. CASE Start(c)
  <2>1. ~running /\ Settled /\ same
    BY <1>2, <1>4 DEF Start, Begin, threads, past
  <2>2. call'[c].op = "start" /\ call'[c].step = "run"
    BY <1>0, <1>4, CallNow DEF Start, Ops, Steps
  <2>3. AtRest'
    BY <1>1, <2>1 DEF Settled
  <2>4. StartPhase(call[c])'
    BY <2>1, <2>2, <2>3 DEF StartPhase
  <2> QED
    BY <2>2, <2>4 DEF Phase
<1>5. CASE StartRun(c)
  <2>1. ~running /\ AtRest
    BY <1>5 DEF StartRun, Step, Phase, StartPhase
  <2>2. /\ call'[c].op = "start" /\ call'[c].step = "spawn"
        /\ call'[c].plan = <<"cap", "reactor">>
    <3>1. call[c].op = "start" /\ Plan(c, "spawn", <<"cap", "reactor">>)
      BY <1>5, Zenon DEF StartRun, Step
    <3>2. "spawn" \in Steps /\ <<"cap", "reactor">> \in Seq(Threads)
      BY Plans DEF Steps
    <3> QED
      BY <1>0, <3>1, <3>2, CallNow, Zenon
  <2>3. running' /\ UNCHANGED <<working, up>>
    BY <1>5 DEF StartRun, threads
  <2>4. Pending(call'[c].plan) = {"cap", "reactor"}
    BY <2>2, PlanParts
  <2>5. NoneOf(Workers)' /\ ~working'
    BY <2>1, <2>3 DEF AtRest, NoneOf, Threads
  <2>6. StartPhase(call[c])'
    BY <2>2, <2>3, <2>4, <2>5 DEF StartPhase
  <2> QED
    BY <2>2, <2>6 DEF Phase
<1>6. CASE StartMode(c)
  <2>1. /\ call[c].op = "start" /\ call[c].step = "spawn" /\ call[c].plan = <<>>
        /\ UNCHANGED <<running, lite, profile, up>> /\ deaf' = FALSE
        /\ working' = (StartWorkers # <<>> \/ working)
    BY <1>6, Zenon DEF StartMode, Step, threads
  <2>2. running /\ NoneOf(Workers) /\ up["reactor"] = "alive"
    BY <2>1, PlanParts DEF Phase, StartPhase
  <2>3. /\ call'[c].op = "start2" /\ call'[c].step = "spawn"
        /\ call'[c].plan = StartWorkers
    BY <1>0, <1>6 DEF StartMode, CallType
  <2>4. Wanted' = Wanted /\ Pending(call'[c].plan) = Wanted
    BY <2>1, <2>3, PlannedWorkers DEF Wanted
  <2>5. Wanted # {} => working'
    BY <2>1, PlannedWorkers, Zenon
  <2>6. Coming(call[c], Wanted)' /\ NoneOf(Workers \ Wanted)'
    BY <2>1, <2>2, <2>4 DEF Coming, NoneOf
  <2>7. StartWorkersPhase(call[c])'
    BY <2>1, <2>2, <2>3, <2>4, <2>5, <2>6 DEF StartWorkersPhase
  <2> QED
    BY <2>3, <2>7 DEF Phase
<1>7. CASE StartDone(c)
  <2>1. call[c].op = "start2" /\ call[c].plan = <<>> /\ same
    BY <1>7 DEF StartDone, Step, flags, threads, past
  <2>2. /\ running /\ up["reactor"] = "alive" /\ ~deaf /\ (Wanted # {} => working)
        /\ AllRun(Wanted) /\ NoneOf(Workers \ Wanted)
    BY <2>1, PlanParts DEF Phase, StartWorkersPhase, Coming, AllRun
  <2>3. ~lite => AtWork
    BY <2>2 DEF Wanted, AtWork, Workers
  <2>4. lite => AtWork
    <3>1. CASE lite /\ profile = "Video"
      <4>1. Wanted = {"receiver"}
        BY <3>1 DEF Wanted, Workers
      <4> QED
        BY <2>2, <3>1, <4>1 DEF AtWork, AllRun, NoneOf, Receives, Workers
    <3>2. CASE lite /\ profile # "Video"
      <4>1. Wanted = {}
        BY <3>2 DEF Wanted
      <4> QED
        BY <2>2, <3>2, <4>1 DEF AtWork, NoneOf, Receives, Workers
    <3> QED
      BY <3>1, <3>2
  <2>5. Settled
    BY <2>2, <2>3, <2>4 DEF Settled
  <2>6. call'[c].op = "none" /\ call'[c].step = "idle"
    BY <1>0, <1>7, CallNow DEF StartDone
  <2> QED
    BY <1>1, <2>1, <2>5, <2>6 DEF Phase
<1>8. CASE Stop(c)
  <2>1. Settled /\ same
    BY <1>2, <1>8 DEF Stop, Begin, flags, threads, past
  <2>2. call'[c].op = "stop" /\ call'[c].step = "byes"
    BY <1>0, <1>8, CallNow DEF Stop, Ops, Steps
  <2>3. StopPhase(call[c])'
    BY <1>1, <2>1, <2>2 DEF StopPhase
  <2> QED
    BY <2>2, <2>3 DEF Phase
<1>9. CASE StopFlags(c)
  <2>1. call[c].op = "stop" /\ call[c].step = "byes" /\ Settled
    BY <1>9 DEF StopFlags, Step, Phase, StopPhase
  <2>2. CASE running
    <3>1. call'[c].op = "stop" /\ call'[c].step = "close"
      BY <1>0, <1>9, <2>1, <2>2, CallNow DEF StopFlags, Steps
    <3>2. ~running' /\ ~working'
      BY <1>9, <2>2 DEF StopFlags
    <3>3. StopPhase(call[c])'
      BY <3>1, <3>2 DEF StopPhase
    <3> QED
      BY <3>1, <3>3 DEF Phase
  <2>3. CASE ~running
    <3>1. call'[c].op = "none" /\ call'[c].step = "idle"
      BY <1>0, <1>9, <2>3, CallNow DEF StopFlags
    <3>2. ~running' /\ UNCHANGED <<working, up>>
      BY <1>9, <2>3 DEF StopFlags, threads
    <3>3. Settled'
      BY <2>1, <2>3, <3>2 DEF Settled, AtRest, NoneOf
    <3> QED
      BY <3>1, <3>3 DEF Phase
  <2> QED
    BY <2>2, <2>3
<1>10. CASE StopClose(c)
  <2>1. /\ call[c].op = "stop" /\ call[c].step = "close"
        /\ Plan(c, "join", <<"cap", "reactor", "receiver", "encode", "sender">>)
        /\ UNCHANGED <<running, working, up>>
    BY <1>10 DEF StopClose, Step, threads
  <2>2. ~running /\ ~working
    BY <2>1 DEF Phase, StopPhase
  <2>3. /\ call'[c].op = "stop" /\ call'[c].step = "join"
        /\ call'[c].plan = <<"cap", "reactor", "receiver", "encode", "sender">>
    <3>1. "join" \in Steps /\ <<"cap", "reactor", "receiver", "encode", "sender">> \in Seq(Threads)
      BY Plans DEF Steps
    <3> QED
      BY <1>0, <2>1, <3>1, CallNow, Zenon
  <2>4. Going(call[c], Threads)'
    BY <2>3, PlanParts DEF Going
  <2>5. StopPhase(call[c])'
    BY <2>1, <2>2, <2>3, <2>4 DEF StopPhase
  <2> QED
    BY <2>3, <2>5 DEF Phase
<1>11. CASE StopDone(c)
  <2>1. call[c].op = "stop" /\ call[c].step = "join" /\ call[c].plan = <<>> /\ same
    BY <1>11 DEF StopDone, Step, threads, past
  <2>2. ~running /\ ~working /\ NoneOf(Threads)
    BY <2>1, PlanParts DEF Phase, StopPhase, Going, NoneOf
  <2>3. Settled
    BY <2>2 DEF Settled, AtRest
  <2>4. call'[c].op = "none" /\ call'[c].step = "idle"
    BY <1>0, <1>11, CallNow DEF StopDone
  <2> QED
    BY <1>1, <2>1, <2>3, <2>4 DEF Phase
<1>12. CASE SetLiteMode(c)
  <2>1. Settled /\ same
    BY <1>2, <1>12 DEF SetLiteMode, Begin, flags, threads, past
  <2>2. call'[c].op \in {"down", "up"} /\ call'[c].step = "lock"
    BY <1>0, <1>12, CallNow DEF SetLiteMode, Ops, Steps
  <2>3. DownPhase(call[c])' /\ UpPhase(call[c])'
    BY <1>1, <2>1, <2>2 DEF DownPhase, UpPhase
  <2> QED
    BY <2>2, <2>3 DEF Phase
<1>13. CASE SwitchLock(c) \/ SwitchSame(c) \/ SwitchPeers(c)
  <2>1. same
    BY <1>13 DEF SwitchLock, SwitchSame, SwitchPeers, flags, threads, past
  <2>2. call[c].step \in {"lock", "peers"}
    BY <1>13 DEF SwitchLock, SwitchSame, SwitchPeers
  <2>3. call[c].op \in {"down", "up"} /\ Settled
    BY <1>0, <2>2 DEF Phase, StartPhase, StartWorkersPhase, StopPhase, DownPhase, UpPhase, Ops
  <2>4. CASE SwitchLock(c)
    <3>1. call'[c].op = call[c].op /\ call'[c].step = "peers"
      BY <1>0, <2>4, CallNow DEF SwitchLock, Steps
    <3>2. DownPhase(call[c])' /\ UpPhase(call[c])'
      BY <1>1, <2>1, <2>3, <3>1 DEF DownPhase, UpPhase
    <3> QED
      BY <2>3, <3>1, <3>2 DEF Phase
  <2>5. CASE SwitchSame(c)
    <3>1. call'[c].op = "none" /\ call'[c].step = "idle"
      BY <1>0, <2>5, CallNow DEF SwitchSame
    <3> QED
      BY <1>1, <2>1, <2>3, <3>1 DEF Phase
  <2>6. CASE SwitchPeers(c)
    <3>1. CASE call[c].op = "down"
      <4>1. call'[c].op = "down" /\ call'[c].step = "lite"
        BY <1>0, <2>6, <3>1, CallNow DEF SwitchPeers, Steps
      <4>2. ~lite
        BY <2>6, <3>1, Zenon DEF SwitchPeers
      <4>3. DownPhase(call[c])'
        BY <1>1, <2>1, <2>3, <4>1, <4>2 DEF DownPhase
      <4> QED
        BY <4>1, <4>3 DEF Phase
    <3>2. CASE call[c].op = "up"
      <4>1. call'[c].op = "up" /\ call'[c].step = "flush"
        BY <1>0, <2>6, <3>2, CallNow DEF SwitchPeers, Steps
      <4>2. lite
        <5>1. lite # (call[c].op = "down") /\ lite \in BOOLEAN
          BY <2>6 DEF SwitchPeers, TypeInv, FlagType
        <5>2. (call[c].op = "down") = FALSE
          BY <3>2
        <5> QED
          BY <5>1, <5>2, Zenon
      <4>3. UpPhase(call[c])'
        BY <1>1, <2>1, <2>3, <4>1, <4>2 DEF UpPhase
      <4> QED
        BY <4>1, <4>3 DEF Phase
    <3> QED
      BY <2>3, <3>1, <3>2
  <2> QED
    BY <1>13, <2>4, <2>5, <2>6
<1>14. CASE DownLite(c)
  <2>1. /\ call[c].op = "down" /\ call[c].step = "lite" /\ lite'
        /\ UNCHANGED <<running, working, up>>
    BY <1>14 DEF DownLite, Step, threads
  <2>2. Settled
    BY <2>1 DEF Phase, DownPhase
  <2>3. call'[c].op = "down" /\ call'[c].step = "halt"
    BY <1>0, <1>14, <2>1, CallNow DEF DownLite, Steps
  <2>4. DownPhase(call[c])'
    BY <2>1, <2>2, <2>3 DEF DownPhase, Settled, AtWork, AtRest, NoneOf
  <2> QED
    BY <2>3, <2>4 DEF Phase
<1>15. CASE DownHalt(c)
  <2>1. /\ call[c].op = "down" /\ call[c].step = "halt" /\ ~working'
        /\ deaf' = running /\ UNCHANGED <<running, lite, up>>
        /\ Plan(c, "join", <<"receiver", "encode", "sender">>)
    BY <1>15 DEF DownHalt, Step, threads
  <2>2. lite /\ (running => up["reactor"] = "alive") /\ (~running => AtRest)
    BY <2>1 DEF Phase, DownPhase
  <2>3. /\ call'[c].op = "down" /\ call'[c].step = "join"
        /\ call'[c].plan = <<"receiver", "encode", "sender">>
    <3>1. "join" \in Steps /\ <<"receiver", "encode", "sender">> \in Seq(Threads)
      BY Plans DEF Steps
    <3> QED
      BY <1>0, <2>1, <3>1, CallNow, Zenon
  <2>4. Going(call[c], Workers)'
    BY <2>3, PlanParts DEF Going
  <2>5. ~running => AtRest'
    BY <2>1, <2>2 DEF AtRest, NoneOf
  <2>6. DownPhase(call[c])'
    BY <2>1, <2>2, <2>3, <2>4, <2>5 DEF DownPhase
  <2> QED
    BY <2>3, <2>6 DEF Phase
<1>16. CASE DownDone(c)
  <2>1. call[c].op = "down" /\ call[c].step = "join" /\ call[c].plan = <<>> /\ same
    BY <1>16 DEF DownDone, Step, flags, threads, past
  <2>2. /\ lite /\ ~working /\ NoneOf(Workers) /\ (running => up["reactor"] = "alive" /\ deaf)
        /\ (~running => AtRest)
    BY <2>1, PlanParts DEF Phase, DownPhase, Going, NoneOf
  <2>3. Settled
    BY <2>2 DEF Settled, AtWork, NoneOf, Receives, Workers
  <2>4. call'[c].op = "none" /\ call'[c].step = "idle"
    BY <1>0, <1>16, CallNow DEF DownDone
  <2> QED
    BY <1>1, <2>1, <2>3, <2>4 DEF Phase
<1>17. CASE UpFlush(c) \/ UpReset(c)
  <2>1. call[c].op = "up" /\ call[c].step \in {"flush", "reset"} /\ same
    BY <1>17 DEF UpFlush, UpReset, Step, flags, threads, past
  <2>2. lite /\ Settled
    BY <2>1 DEF Phase, UpPhase
  <2>3. PICK s \in {"reset", "revive"} : Continue(c, s)
    BY <1>17 DEF UpFlush, UpReset
  <2>4. call'[c].op = "up" /\ call'[c].step \in {"reset", "revive"}
    BY <1>0, <2>1, <2>3, CallNow DEF Steps
  <2>5. UpPhase(call[c])'
    BY <1>1, <2>1, <2>2, <2>4 DEF UpPhase
  <2> QED
    BY <2>4, <2>5 DEF Phase
<1>18. CASE UpRevive(c)
  <2>1. /\ call[c].op = "up" /\ call[c].step = "revive"
        /\ UNCHANGED <<running, lite, up>>
        /\ Plan(c, "spawn", IF running THEN Revived ELSE <<>>)
    BY <1>18 DEF UpRevive, Step, threads
  <2>2. lite /\ Settled
    BY <2>1 DEF Phase, UpPhase
  <2>3. /\ call'[c].op = "up" /\ call'[c].step = "spawn"
        /\ call'[c].plan = IF running THEN Revived ELSE <<>>
    BY <1>0, <2>1, CallNow, Plans DEF Steps
  <2>4. working' = (running \/ working)
    BY <1>18, Zenon DEF UpRevive
  <2>5. ASSUME running
        PROVE  working' /\ up'["reactor"] = "alive" /\ Coming(call[c], Workers)'
    <3>1. working'
      BY <2>4, <2>5, Zenon
    <3>2. Pending(call'[c].plan) = {t \in Workers : up[t] = "none"}
      BY <2>3, <2>5, PlannedWorkers
    <3>3. \A t \in Workers : up[t] \in {"none", "alive"}
      BY <2>2, <2>5 DEF Settled, AtWork, NoneOf, Workers
    <3>4. Coming(call[c], Workers)'
      BY <2>1, <3>2, <3>3 DEF Coming
    <3> QED
      BY <2>1, <2>2, <2>5, <3>1, <3>4 DEF Settled, AtWork
  <2>6. ASSUME ~running
        PROVE  AtRest' /\ call'[c].plan = <<>>
    <3>1. ~working'
      <4>1. ~working
        BY <2>2, <2>6 DEF Settled, AtRest
      <4> QED
        BY <2>4, <2>6, <4>1, Zenon
    <3> QED
      BY <2>1, <2>2, <2>3, <2>6, <3>1 DEF Settled, AtRest, NoneOf
  <2>7. UpPhase(call[c])'
    BY <2>1, <2>2, <2>3, <2>5, <2>6 DEF UpPhase
  <2> QED
    BY <2>3, <2>7 DEF Phase
<1>19. CASE UpDone(c)
  <2>1. /\ call[c].op = "up" /\ call[c].step = "spawn" /\ call[c].plan = <<>>
        /\ ~lite' /\ UNCHANGED <<running, working, up>>
    BY <1>19 DEF UpDone, Step, threads
  <2>2. /\ running => working /\ up["reactor"] = "alive" /\ AllRun(Workers)
        /\ ~running => AtRest
    BY <2>1, PlanParts DEF Phase, UpPhase, Coming, AllRun
  <2>3. Settled'
    BY <2>1, <2>2 DEF Settled, AtWork, AtRest, AllRun, NoneOf
  <2>4. call'[c].op = "none" /\ call'[c].step = "idle"
    BY <1>0, <1>19, CallNow DEF UpDone
  <2> QED
    BY <2>3, <2>4 DEF Phase
<1> HIDE DEF same
<1> QED
  BY <1>3, <1>4, <1>5, <1>6, <1>7, <1>8, <1>9, <1>10, <1>11, <1>12, <1>13, <1>14, <1>15, <1>16,
     <1>17, <1>18, <1>19 DEF Proceed

(* When calls are made one after the other, a transport that runs has, once the *)
(* last call has returned, one thread for every role: in full mode a worker of  *)
(* its own, in lite mode the reactor (or lite video's receiver).                *)
THEOREM EveryRoleServed ==
    ASSUME NEW c, Callers = {c}
    PROVE  Spec => []RolesServed
<1>1. Init => Phase(call[c])
  <2> SUFFICES ASSUME Init PROVE Phase(call[c])
    OBVIOUS
  <2>1. call[c] = Idle
    BY DEF Init
  <2>2. AtRest
    BY DEF Init, AtRest, NoneOf
  <2>3. Settled
    BY <2>2 DEF Init, Settled
  <2> QED
    BY <2>1, <2>3 DEF Phase, Idle
<1>2. TypeInv /\ LossInv /\ Phase(call[c]) /\ [Next]_vars => Phase(call[c])'
  <2> SUFFICES ASSUME TypeInv, LossInv, Phase(call[c]), [Next]_vars PROVE Phase(call[c])'
    OBVIOUS
  <2>1. PastOf(call[c]) /\ c \in Callers
    BY DEF LossInv
  <2>2. CASE UNCHANGED vars
    <3>1. UNCHANGED <<running, working, lite, profile, deaf, up, call>>
      BY <2>2 DEF vars, flags, threads, past
    <3>2. (Settled => Settled') /\ (AtRest => AtRest') /\ Wanted' = Wanted
      BY <3>1 DEF Settled, AtWork, AtRest, AllRun, NoneOf, Receives, Wanted
    <3>3. /\ Coming(call[c], Workers) => Coming(call[c], Workers)'
          /\ Coming(call[c], Wanted) => Coming(call[c], Wanted)'
          /\ Going(call[c], Workers) => Going(call[c], Workers)'
          /\ Going(call[c], Threads) => Going(call[c], Threads)'
          /\ NoneOf(Workers) => NoneOf(Workers)'
          /\ NoneOf(Workers \ Wanted) => NoneOf(Workers \ Wanted)'
      BY <3>1, <3>2 DEF Coming, Going, NoneOf
    <3>4. /\ call'[c] = call[c] /\ running' = running /\ working' = working /\ lite' = lite
          /\ deaf' = deaf /\ up'["reactor"] = up["reactor"]
      BY <3>1
    <3>5. /\ StartPhase(call[c]) => StartPhase(call[c])'
          /\ StartWorkersPhase(call[c]) => StartWorkersPhase(call[c])'
          /\ StopPhase(call[c]) => StopPhase(call[c])'
      BY <3>1, <3>2, <3>3 DEF StartPhase, StartWorkersPhase, StopPhase
    <3>6. ASSUME DownPhase(call[c])
          PROVE  DownPhase(call[c])'
      <4>1. CASE call[c].step \in {"lock", "peers"} \/ call[c].step = "lite"
        BY <3>2, <3>4, <3>6, <4>1 DEF DownPhase
      <4>2. CASE call[c].step \in {"halt", "join"}
        BY <3>2, <3>3, <3>4, <3>6, <4>2 DEF DownPhase
      <4> QED
        BY <3>6, <4>1, <4>2 DEF DownPhase
    <3>7. ASSUME UpPhase(call[c])
          PROVE  UpPhase(call[c])'
      <4>1. CASE call[c].step # "spawn"
        BY <3>2, <3>4, <3>7, <4>1 DEF UpPhase
      <4>2. CASE call[c].step = "spawn"
        <5>1. /\ lite
              /\ running => working /\ up["reactor"] = "alive" /\ Coming(call[c], Workers)
              /\ ~running => AtRest /\ call[c].plan = <<>>
          BY <3>7, <4>2 DEF UpPhase
        <5>2. Coming(call[c], Workers) => Coming(call[c], Workers)'
          BY <3>3
        <5>3. running' => working' /\ up'["reactor"] = "alive" /\ Coming(call[c], Workers)'
          BY <3>4, <5>1, <5>2
        <5>4. ~running' => AtRest' /\ call'[c].plan = <<>>
          BY <3>2, <3>4, <5>1
        <5> QED
          BY <3>4, <4>2, <5>1, <5>3, <5>4 DEF UpPhase
      <4> QED
        BY <4>1, <4>2
    <3> QED
      BY <3>2, <3>4, <3>5, <3>6, <3>7 DEF Phase
  <2> QED
    BY <2>1, <2>2, RolesThreads, RolesCallers DEF Next, ThreadStep
<1>3. Phase(call[c]) => RolesServed
  BY DEF Phase, Settled, AtWork, AllRun, NoneOf, Receives, Workers, Quiet, Idle, RolesServed
<1> QED
  BY <1>1, <1>2, <1>3, TypeInvariance, LossInvariance, PTL DEF Spec
=============================================================================
