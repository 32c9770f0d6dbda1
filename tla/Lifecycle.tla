----------------------------- MODULE Lifecycle -----------------------------
(***************************************************************************)
(* The threads of one transport: start, stop and set_lite_mode create and  *)
(* join them while they pass messages through the encode and the outbound  *)
(* queue, run callbacks with locks held and wait for queues to be closed.  *)
(*                                                                         *)
(* A message goes from m_send_queue (todo) through the encode queue and    *)
(* the outbound queue to the socket; order and pacing are in SendPipeline  *)
(* and Pacer, here the sender may lack tokens at any time, and whatever    *)
(* else stops a message short of the socket (a drained channel, a peer     *)
(* that is gone, a full queue, a handshake) may be met at any step that    *)
(* looks for it.  A lock that is held for the length of one step is a      *)
(* guard that it is free; the locks held across a callback, a nested lock  *)
(* or a join are variables.  Once closed, the queues are never opened      *)
(* again.                                                                  *)
(***************************************************************************)
EXTENDS Naturals, Sequences

CONSTANTS
    Callers,        \* application threads that start, stop and switch
    Msgs,           \* messages
    Profiles,       \* lite profiles: a subset of {"Audio", "Video"}
    CallbackCalls,  \* what callbacks call: subset of {"send", "send_command"}
    Nobody, NoMsg,
    MaxCalls,       \* bound: calls of start, stop and set_lite_mode
    MaxEvents       \* bound: callbacks, obstacles, shortages of tokens

ASSUME LifecycleAssumption ==
    /\ Profiles \subseteq {"Audio", "Video"} /\ CallbackCalls \subseteq {"send", "send_command"}
    /\ NoMsg \notin Msgs /\ Nobody \notin Callers /\ MaxCalls \in Nat /\ MaxEvents \in Nat

Workers == {"receiver", "encode", "sender"}
Threads == {"cap", "reactor"} \cup Workers
Locks   == {"workers", "peers", "peer"}

VARIABLES
    profile,          \* m_config.lite_profile
    running,          \* m_running
    working,          \* m_workers_running
    lite,             \* m_lite_mode
    socket,           \* m_sock is open
    closed,           \* the encode, outbound and capacity queues are closed
    up,               \* each thread object: "none", "alive" or "exited"
    at,               \* where each thread is
    holder,           \* who holds each lock
    call, calls,      \* what each caller is doing, calls made
    todo, encq, outq, \* messages in the three queues
    slot,             \* m_lite_pending
    events,           \* callbacks, obstacles and shortages so far
    \* history, for the properties only
    sent,             \* messages given to the socket
    twice,            \* a message was given to the socket a second time
    discarded,        \* messages thrown away by a thread that leaves, or a closed queue
    dropped,          \* messages dropped for an obstacle they met
    starved,          \* messages dropped by the sender thread for lack of tokens
    stopped,          \* a running transport was stopped
    switched,         \* "up", "down": switches to full and to lite mode made
    deaf              \* the workers were last dismissed by set_lite_mode(true)

flags   == <<profile, running, working, lite, socket, closed>>
threads == <<up, at>>
pipe    == <<todo, encq, outq, slot>>
tally   == <<sent, twice, discarded, dropped, starved>>
past    == <<stopped, switched, deaf>>
vars    == <<flags, threads, holder, call, calls, pipe, events, tally, past>>

Idle == [op |-> "none", step |-> "idle", plan |-> <<>>]

Init ==
    /\ profile \in Profiles /\ lite \in BOOLEAN
    /\ running = FALSE /\ working = FALSE /\ socket = FALSE /\ closed = FALSE
    /\ up = [t \in Threads |-> "none"] /\ at = [t \in Threads |-> "off"]
    /\ holder = [l \in Locks |-> Nobody]
    /\ call = [c \in Callers |-> Idle] /\ calls = 0
    /\ todo = Msgs /\ encq = {} /\ outq = {} /\ slot = NoMsg
    /\ events = 0
    /\ sent = {} /\ twice = FALSE /\ discarded = {} /\ dropped = {} /\ starved = {}
    /\ stopped = FALSE /\ switched = {} /\ deaf = FALSE

Free(l) == holder[l] = Nobody

Goto(t, place) == at' = [at EXCEPT ![t] = place]

Exit(t) == up' = [up EXCEPT ![t] = "exited"] /\ Goto(t, "off")

\* A message is given to the socket.
Transmit(m) ==
    /\ sent' = sent \cup {m} /\ twice' = (twice \/ m \in sent)
    /\ UNCHANGED <<discarded, dropped, starved>>

Discard(ms) == discarded' = discarded \cup ms /\ UNCHANGED <<sent, twice, dropped, starved>>

Drop(ms) == dropped' = dropped \cup ms /\ UNCHANGED <<sent, twice, discarded, starved>>

Starve(ms) == starved' = starved \cup ms /\ UNCHANGED <<sent, twice, discarded, dropped>>

-----------------------------------------------------------------------------
(* The application's calls *)

Begin(c, op, step) ==
    /\ call[c].step = "idle" /\ calls < MaxCalls
    /\ calls' = calls + 1
    /\ call' = [call EXCEPT ![c] = [op |-> op, step |-> step, plan |-> <<>>]]

Step(c, op, step) == call[c].op = op /\ call[c].step = step

Continue(c, step) == call' = [call EXCEPT ![c].step = step]

Plan(c, step, plan) == call' = [call EXCEPT ![c].step = step, ![c].plan = plan]

Return(c) == call' = [call EXCEPT ![c] = Idle]

\* A new thread takes the place of one that is not running any more.
Spawn(c) ==
    LET t == Head(call[c].plan) IN
    /\ call[c].step = "spawn" /\ call[c].plan # <<>> /\ up[t] # "alive"
    /\ up' = [up EXCEPT ![t] = "alive"] /\ Goto(t, "top")
    /\ call' = [call EXCEPT ![c].plan = Tail(@)]
    /\ UNCHANGED <<flags, holder, calls, pipe, events, tally, past>>

\* Mutant: the thread is detached instead of waited for.
Join_Detached(c) ==
    LET t == Head(call[c].plan) IN
    /\ call[c].step = "join" /\ call[c].plan # <<>>
    /\ up' = [up EXCEPT ![t] = "none"]
    /\ call' = [call EXCEPT ![c].plan = Tail(@)]
    /\ UNCHANGED <<flags, at, holder, calls, pipe, events, tally, past>>

Join(c) ==
    LET t == Head(call[c].plan) IN
    /\ call[c].step = "join" /\ call[c].plan # <<>> /\ up[t] # "alive"
    /\ up' = [up EXCEPT ![t] = "none"]
    /\ call' = [call EXCEPT ![c].plan = Tail(@)]
    /\ UNCHANGED <<flags, at, holder, calls, pipe, events, tally, past>>

\* start: a running transport is left as it is; the socket is opened.
Start(c) ==
    /\ ~running /\ Begin(c, "start", "run")
    /\ socket' = TRUE
    /\ UNCHANGED <<profile, running, working, lite, closed, threads, holder, pipe, events, tally, past>>

StartRun(c) ==
    /\ Step(c, "start", "run")
    /\ running' = TRUE
    /\ Plan(c, "spawn", <<"cap", "reactor">>)
    /\ UNCHANGED <<profile, working, lite, socket, closed, threads, holder, calls, pipe, events, tally, past>>

StartWorkers ==
    CASE ~lite -> <<"receiver", "encode", "sender">>
      [] lite /\ profile = "Video" -> <<"receiver">>
      [] OTHER -> <<>>

StartMode(c) ==
    /\ Step(c, "start", "spawn") /\ call[c].plan = <<>>
    /\ call' = [call EXCEPT ![c] = [op |-> "start2", step |-> "spawn", plan |-> StartWorkers]]
    /\ deaf' = FALSE
    /\ working' = (StartWorkers # <<>> \/ working)
    /\ UNCHANGED <<profile, running, lite, socket, closed, threads, holder, calls, pipe, events, tally, stopped, switched>>

StartDone(c) ==
    /\ Step(c, "start2", "spawn") /\ call[c].plan = <<>>
    /\ Return(c)
    /\ UNCHANGED <<flags, threads, holder, calls, pipe, events, tally, past>>

\* stop: Byes under the peer table's lock, then the flags, then the queues.
Stop(c) ==
    /\ Begin(c, "stop", "byes")
    /\ UNCHANGED <<flags, threads, holder, pipe, events, tally, past>>

StopFlags(c) ==
    /\ Step(c, "stop", "byes") /\ Free("peers")
    /\ stopped' = (stopped \/ running)
    /\ running' = FALSE
    /\ IF running THEN working' = FALSE /\ Continue(c, "close")
                  ELSE UNCHANGED working /\ Return(c)
    /\ UNCHANGED <<profile, lite, socket, closed, threads, holder, calls, pipe, events, tally, switched, deaf>>

\* Mutant: the queues stay open.
StopClose_Open(c) ==
    /\ Step(c, "stop", "close")
    /\ UNCHANGED closed
    /\ Plan(c, "join", <<"cap", "reactor", "receiver", "encode", "sender">>)
    /\ UNCHANGED <<profile, running, working, lite, socket, threads, holder, calls, pipe, events, tally, past>>

StopClose(c) ==
    /\ Step(c, "stop", "close")
    /\ closed' = TRUE
    /\ Plan(c, "join", <<"cap", "reactor", "receiver", "encode", "sender">>)
    /\ UNCHANGED <<profile, running, working, lite, socket, threads, holder, calls, pipe, events, tally, past>>

StopDone(c) ==
    /\ Step(c, "stop", "join") /\ call[c].plan = <<>>
    /\ socket' = FALSE /\ Return(c)
    /\ UNCHANGED <<profile, running, working, lite, closed, threads, holder, calls, pipe, events, tally, past>>

\* set_lite_mode holds m_workers_mutex to its end and looks at every peer.
SetLiteMode(c) ==
    /\ \E op \in {"down", "up"} : Begin(c, op, "lock")
    /\ UNCHANGED <<flags, threads, holder, pipe, events, tally, past>>

Unlock(c) == holder' = [holder EXCEPT !["workers"] = Nobody]

SwitchLock(c) ==
    /\ call[c].step = "lock" /\ Free("workers")
    /\ holder' = [holder EXCEPT !["workers"] = c]
    /\ Continue(c, "peers")
    /\ UNCHANGED <<flags, threads, calls, pipe, events, tally, past>>

SwitchSame(c) ==
    /\ call[c].step = "peers" /\ lite = (call[c].op = "down")
    /\ Unlock(c) /\ Return(c)
    /\ UNCHANGED <<flags, threads, calls, pipe, events, tally, past>>

SwitchPeers(c) ==
    /\ call[c].step = "peers" /\ lite # (call[c].op = "down") /\ Free("peers")
    /\ Continue(c, IF call[c].op = "down" THEN "lite" ELSE "flush")
    /\ UNCHANGED <<flags, threads, holder, calls, pipe, events, tally, past>>

\* To lite mode: the reactor takes over, then the workers are joined.
DownLite(c) ==
    /\ Step(c, "down", "lite")
    /\ lite' = TRUE /\ switched' = switched \cup {"down"}
    /\ Continue(c, "halt")
    /\ UNCHANGED <<profile, running, working, socket, closed, threads, holder, calls, pipe, events, tally, stopped, deaf>>

DownHalt(c) ==
    /\ Step(c, "down", "halt")
    /\ working' = FALSE /\ deaf' = running
    /\ Plan(c, "join", <<"receiver", "encode", "sender">>)
    /\ UNCHANGED <<profile, running, lite, socket, closed, threads, holder, calls, pipe, events, tally, stopped, switched>>

DownDone(c) ==
    /\ Step(c, "down", "join") /\ call[c].plan = <<>>
    /\ Unlock(c) /\ Return(c)
    /\ UNCHANGED <<flags, threads, calls, pipe, events, tally, past>>

\* To full mode: what is in the reactor's slot is sent, then the slot emptied.
UpFlush(c) ==
    /\ Step(c, "up", "flush")
    /\ switched' = switched \cup {"up"}
    /\ Continue(c, IF slot = NoMsg THEN "revive" ELSE "reset")
    /\ IF slot = NoMsg \/ ~socket THEN UNCHANGED tally ELSE Transmit(slot)
    /\ UNCHANGED <<flags, threads, holder, calls, pipe, events, stopped, deaf>>

UpReset(c) ==
    /\ Step(c, "up", "reset")
    /\ IF slot \in sent \cup {NoMsg} THEN UNCHANGED tally ELSE Discard({slot})
    /\ slot' = NoMsg
    /\ Continue(c, "revive")
    /\ UNCHANGED <<flags, threads, holder, calls, todo, encq, outq, events, past>>

\* Thread objects that were not joined are not started again.
Joined(t) == up[t] = "none"

IfJoined(t) == IF Joined(t) THEN <<t>> ELSE <<>>

\* Mutant: the receiver is taken to be there, as in lite video.
Revived_NotReceiver == IfJoined("encode") \o IfJoined("sender")

Revived == IfJoined("receiver") \o IfJoined("encode") \o IfJoined("sender")

\* Mutant: m_workers_running stays false, so the new threads leave at once.
UpRevive_Halted(c) ==
    /\ Step(c, "up", "revive")
    /\ deaf' = FALSE
    /\ Plan(c, "spawn", IF running THEN Revived ELSE <<>>)
    /\ UNCHANGED <<flags, threads, holder, calls, pipe, events, tally, stopped, switched>>

UpRevive(c) ==
    /\ Step(c, "up", "revive")
    /\ deaf' = FALSE
    /\ working' = (running \/ working)
    /\ Plan(c, "spawn", IF running THEN Revived ELSE <<>>)
    /\ UNCHANGED <<profile, running, lite, socket, closed, threads, holder, calls, pipe, events, tally, stopped, switched>>

UpDone(c) ==
    /\ Step(c, "up", "spawn") /\ call[c].plan = <<>>
    /\ lite' = FALSE
    /\ Unlock(c) /\ Return(c)
    /\ UNCHANGED <<profile, running, working, socket, closed, threads, calls, pipe, events, tally, past>>

Proceed(c) ==
    \/ Spawn(c) \/ Join(c)
    \/ StartRun(c) \/ StartMode(c) \/ StartDone(c)
    \/ StopFlags(c) \/ StopClose(c) \/ StopDone(c)
    \/ SwitchLock(c) \/ SwitchSame(c) \/ SwitchPeers(c)
    \/ DownLite(c) \/ DownHalt(c) \/ DownDone(c)
    \/ UpFlush(c) \/ UpReset(c) \/ UpRevive(c) \/ UpDone(c)

-----------------------------------------------------------------------------
(* Callbacks *)

Event == events < MaxEvents /\ events' = events + 1

Release(l) == holder' = [holder EXCEPT ![l] = Nobody]

\* The locks a call of the application takes, besides those held for one step.
LocksOf(name) == IF name = "send_command" THEN {"peers", "peer"} ELSE {}

\* A callback runs with lock l held and calls back into the transport.
Callback(t, place, l, next) ==
    /\ at[t] = place
    /\ \E name \in CallbackCalls : \A k \in LocksOf(name) : Free(k)
    /\ Release(l) /\ Goto(t, next)
    /\ UNCHANGED <<flags, up, call, calls, pipe, events, tally, past>>

\* A datagram is handled: nothing of interest, or the last chunk of a file,
\* whose callback runs under the peer's lock.
HandleDatagram(t, next) ==
    /\ Free("peers") /\ Free("peer")
    /\ \/ Goto(t, next) /\ UNCHANGED <<holder, events>>
       \/ Event /\ holder' = [holder EXCEPT !["peer"] = t] /\ Goto(t, "file")
    /\ UNCHANGED <<flags, up, call, calls, pipe, tally, past>>

-----------------------------------------------------------------------------
(* The threads *)

Loops(t) == running /\ working

\* receiver_loop
ReceiverQuits ==
    /\ at["receiver"] = "top" /\ ~Loops("receiver")
    /\ Exit("receiver")
    /\ UNCHANGED <<flags, holder, call, calls, pipe, events, tally, past>>

Receiver ==
    \/ ReceiverQuits
    \/ at["receiver"] = "top" /\ Loops("receiver") /\ HandleDatagram("receiver", "top")
    \/ Callback("receiver", "file", "peer", "top")

\* A task is dropped when its channel is drained (the loops look) or when the
\* outbound queue is full (send_raw); fragment_and_send numbers the fragments of
\* the others under the peer's lock and queues them, unless that queue is closed.
DropTask(m) == Event /\ Drop({m}) /\ UNCHANGED outq

FragmentAndSend(m) ==
    /\ Free("peer") /\ UNCHANGED events
    /\ IF closed THEN Discard({m}) /\ UNCHANGED outq
                 ELSE outq' = outq \cup {m} /\ UNCHANGED tally

Encode(m) ==
    /\ m \in encq /\ encq' = encq \ {m}
    /\ DropTask(m) \/ FragmentAndSend(m)
    /\ UNCHANGED <<flags, up, holder, call, calls, todo, slot, past>>

\* encode_loop: what is left in the queue is encoded on the way out.
Encoder ==
    /\ at["encode"] = "top"
    /\ \/ (\E m \in encq : Encode(m)) /\ UNCHANGED at
       \/ /\ ~Loops("encode") /\ encq = {} /\ Exit("encode")
          /\ UNCHANGED <<flags, holder, call, calls, pipe, events, tally, past>>

\* A datagram taken from the outbound queue is lost without a socket, and
\* dropped when its channel is drained.
Departs(m) ==
    /\ outq' = outq \ {m} /\ UNCHANGED events
    /\ IF socket THEN Transmit(m) ELSE Discard({m})

DropDatagram(m) == Event /\ outq' = outq \ {m} /\ Drop({m})

\* sender_loop: a datagram there are no tokens for has left the queue already
\* and is lost; an exhausted loan takes the rest of the queue along.  What is
\* left in the queue is thrown away on the way out.
SenderSends ==
    /\ Loops("sender") /\ \E m \in outq : Departs(m) \/ DropDatagram(m)
    /\ UNCHANGED threads

SenderLacksTokens ==
    /\ Loops("sender") /\ outq # {} /\ Event
    /\ \E ms \in {outq} \cup {{m} : m \in outq} : outq' = outq \ ms /\ Starve(ms)
    /\ UNCHANGED threads

Sender ==
    /\ at["sender"] = "top"
    /\ \/ SenderSends \/ SenderLacksTokens
       \/ ~Loops("sender") /\ Exit("sender") /\ outq' = {} /\ Discard(outq) /\ UNCHANGED events
    /\ UNCHANGED <<flags, holder, call, calls, todo, encq, slot, past>>

\* cap_notify_loop: the thread leaves when the queue it waits for is closed, or
\* when an update lets it look at m_running again.
CapClosed ==
    /\ at["cap"] = "top" /\ closed /\ Exit("cap")
    /\ UNCHANGED <<flags, holder, call, calls, pipe, events, tally, past>>

CapUpdate ==
    /\ at["cap"] = "top" /\ ~running /\ Exit("cap")
    /\ UNCHANGED <<flags, holder, call, calls, pipe, events, tally, past>>

\* reactor_loop: one round of the functions that walk the peer table, each with
\* the peers' locks nested in the table's
ReactorTop ==
    /\ at["reactor"] = "top"
    /\ IF running THEN Goto("reactor", "peers") /\ UNCHANGED up ELSE Exit("reactor")
    /\ UNCHANGED <<flags, holder, call, calls, pipe, events, tally, past>>

ReactorLocks ==
    /\ at["reactor"] = "peers" /\ Free("peers")
    /\ holder' = [holder EXCEPT !["peers"] = "reactor"] /\ Goto("reactor", "walk")
    /\ UNCHANGED <<flags, up, call, calls, pipe, events, tally, past>>

\* check_offline may find a dead peer and fire its callback under the lock.
ReactorWalks ==
    /\ at["reactor"] = "walk" /\ Free("peer")
    /\ \/ Release("peers") /\ Goto("reactor", "process") /\ UNCHANGED events
       \/ Event /\ Goto("reactor", "offline") /\ UNCHANGED holder
    /\ UNCHANGED <<flags, up, call, calls, pipe, tally, past>>

\* process_send_queue drops messages of drained channels and of peers that are
\* gone, and those a full queue has no place for; it puts back the ones whose
\* peer's handshake is not over.  A closed encode queue refuses the others, and
\* their payload is gone by then.
PassOn(ms) ==
    IF closed THEN discarded' = discarded \cup ms /\ UNCHANGED encq
              ELSE encq' = encq \cup ms /\ UNCHANGED discarded

ProcessSendQueue ==
    /\ \/ PassOn(todo) /\ todo' = {} /\ UNCHANGED <<dropped, events>>
       \/ /\ Event
          /\ \E lost, back \in SUBSET todo :
                /\ lost \cap back = {}
                /\ PassOn(todo \ (lost \cup back))
                /\ todo' = back /\ dropped' = dropped \cup lost
    /\ UNCHANGED <<outq, slot, sent, twice, starved>>

\* Then the merged roles, if the mode is lite by now.
ReactorProcesses ==
    /\ at["reactor"] = "process" /\ Free("peers")
    /\ ProcessSendQueue
    /\ Goto("reactor", CASE ~lite -> "top"
                         [] lite /\ profile = "Audio" -> "receive"
                         [] OTHER -> "encode")
    /\ UNCHANGED <<flags, up, holder, call, calls, past>>

\* drain_encode
ReactorEncodes ==
    /\ at["reactor"] = "encode"
    /\ \/ (\E m \in encq : Encode(m)) /\ UNCHANGED at
       \/ /\ encq = {} /\ Goto("reactor", "load")
          /\ UNCHANGED <<flags, up, holder, call, calls, pipe, events, tally, past>>

\* Mutant: the next datagram is loaded though one is waiting in the slot.
ReactorLoads_Overwrites ==
    /\ at["reactor"] = "load" /\ UNCHANGED <<events, tally>>
    /\ \/ /\ Goto("reactor", "send")
          /\ \E m \in outq : slot' = m /\ outq' = outq \ {m}
       \/ outq = {} /\ Goto("reactor", IF slot = NoMsg THEN "top" ELSE "send") /\ UNCHANGED <<outq, slot>>
    /\ UNCHANGED <<flags, up, holder, call, calls, todo, encq, past>>

\* drain_sender: a datagram is moved into the slot, unless its channel is
\* drained, and sent when there are tokens for it.
ReactorLoads ==
    /\ at["reactor"] = "load"
    /\ \/ slot # NoMsg /\ Goto("reactor", "send") /\ UNCHANGED <<outq, slot, events, tally>>
       \/ /\ slot = NoMsg /\ Goto("reactor", "send")
          /\ \E m \in outq : slot' = m /\ outq' = outq \ {m}
          /\ UNCHANGED <<events, tally>>
       \/ slot = NoMsg /\ (\E m \in outq : DropDatagram(m)) /\ UNCHANGED <<at, slot>>
       \/ /\ slot = NoMsg /\ outq = {} /\ Goto("reactor", "top")
          /\ UNCHANGED <<outq, slot, events, tally>>
    /\ UNCHANGED <<flags, up, holder, call, calls, todo, encq, past>>

\* When set_lite_mode has emptied the slot since, what is sent is garbage and
\* none of the messages; without a socket the slot is only emptied.
ReactorSends ==
    /\ at["reactor"] = "send"
    /\ CASE slot = NoMsg -> UNCHANGED tally
         [] slot # NoMsg /\ socket -> Transmit(slot)
         [] slot # NoMsg /\ ~socket -> Discard({slot})
    /\ slot' = NoMsg /\ Goto("reactor", "load")
    /\ UNCHANGED <<flags, up, holder, call, calls, todo, encq, outq, events, past>>

ReactorLacksTokens ==
    /\ at["reactor"] = "send" /\ Goto("reactor", "top")
    /\ UNCHANGED <<flags, up, holder, call, calls, pipe, events, tally, past>>

Reactor ==
    \/ ReactorTop \/ ReactorLocks \/ ReactorWalks \/ ReactorProcesses
    \/ Callback("reactor", "offline", "peers", "process")
    \/ at["reactor"] = "receive" /\ HandleDatagram("reactor", "encode")
    \/ Callback("reactor", "file", "peer", "encode")
    \/ ReactorEncodes \/ ReactorLoads \/ ReactorSends \/ ReactorLacksTokens

Next ==
    \/ \E c \in Callers : Start(c) \/ Stop(c) \/ SetLiteMode(c) \/ Proceed(c)
    \/ Receiver \/ Encoder \/ Sender \/ Reactor
    \/ CapClosed \/ CapUpdate

Spec == Init /\ [][Next]_vars

(* Threads run (no capacity update need ever come), calls go on, a caller  *)
(* gets the peer table's lock some time (the reactor sleeps between its    *)
(* rounds), and the bucket is filled again and again.                      *)
FairSpec ==
    /\ Spec
    /\ \A c \in Callers : WF_vars(Proceed(c)) /\ SF_vars(StopFlags(c)) /\ SF_vars(SwitchPeers(c))
    /\ WF_vars(Receiver) /\ WF_vars(Encoder) /\ WF_vars(Sender) /\ WF_vars(CapClosed)
    /\ WF_vars(Reactor) /\ SF_vars(ReactorSends)

-----------------------------------------------------------------------------
(* Properties *)

\* Every variable keeps its type, and a thread object without a thread is
\* nowhere in its loop.
TypeOK ==
    /\ profile \in Profiles /\ running \in BOOLEAN /\ working \in BOOLEAN /\ lite \in BOOLEAN
    /\ socket \in BOOLEAN /\ closed \in BOOLEAN
    /\ up \in [Threads -> {"none", "alive", "exited"}]
    /\ at \in [Threads -> {"off", "top", "peers", "walk", "offline", "process", "receive", "file",
                           "encode", "load", "send"}]
    /\ holder \in [Locks -> Callers \cup Threads \cup {Nobody}]
    /\ calls \in 0..MaxCalls /\ events \in 0..MaxEvents
    /\ todo \subseteq Msgs /\ encq \subseteq Msgs /\ outq \subseteq Msgs /\ slot \in Msgs \cup {NoMsg}
    /\ sent \subseteq Msgs /\ discarded \subseteq Msgs /\ dropped \subseteq Msgs /\ starved \subseteq Msgs
    /\ \A t \in Threads : (up[t] = "alive") <=> (at[t] # "off")

Quiet == \A c \in Callers : call[c] = Idle

\* Whatever is called in which order, one call after the other: in a transport
\* that runs, once the calls have returned, every role has one thread to play
\* it: a worker of its own in full mode, the reactor in lite mode, except for
\* lite video's receiver (start, stop, set_lite_mode).  Lite video entered by
\* set_lite_mode has no receiver at all and is left out.
RolesServed ==
    (running /\ Quiet) =>
        /\ up["reactor"] = "alive"
        /\ \A t \in {"encode", "sender"} : (up[t] = "alive") <=> ~lite
        /\ (up["receiver"] = "alive") <=> (~lite \/ (profile = "Video" /\ ~deaf))

Lost == discarded \cup dropped \cup starved

\* No message vanishes: between send and the socket it is in a queue, in the
\* reactor's slot, sent, dropped for an obstacle, or lost for one of two more
\* reasons.  A thread or a queue that is no longer in service throws messages
\* away only after a stop or a switch; and only a sender thread loses them for
\* lack of tokens (sender_loop), which a transport that has been in lite mode
\* all along has not: there drain_sender keeps them in its slot.  A message is
\* sent twice, or sent or waiting after it was lost, only when
\* set_lite_mode(false) used the slot while the reactor did: threads that take
\* messages from the same queues at the same time do no harm.
LostForAReason ==
    /\ Msgs \subseteq todo \cup encq \cup outq \cup {slot} \cup sent \cup Lost
    /\ discarded # {} => stopped \/ switched # {}
    /\ starved # {} => ~lite \/ switched # {}
    /\ twice \/ (sent \cup todo \cup encq \cup outq) \cap Lost # {} => "up" \in switched

\* Every call returns: threads leave their loops and can be joined, in every
\* place they may wait, for callbacks that call no more than send.
CallsReturn == \A c \in Callers : []<>(call[c] = Idle)

\* Once the transport runs, its messages come out or are lost, none is left
\* behind, in full mode, in lite mode and across switches; unless the transport
\* was stopped (its queues are then closed for good) or a message was left in the
\* reactor's slot by a switch to full mode.
QueuesServed ==
    []<>(running => stopped \/ \A m \in Msgs : m \in sent \cup Lost \/ (m = slot /\ ~lite))
=============================================================================
