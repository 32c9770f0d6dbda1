--------------------------- MODULE CommandChannel ---------------------------
(***************************************************************************)
(* One direction of the command channel: send_command at one endpoint,     *)
(* CommandChannel::handle, flush_expired and reset at the other, and the   *)
(* callbacks that the receiver thread and the reactor fire after they have *)
(* released the peer's lock.                                               *)
(*                                                                         *)
(* A command is the pair of its wire number seq and of its identity id,    *)
(* the position at which the application sent it; the two differ once a    *)
(* handshake has reset m_cmd_seq_out.  Time is counted in ticks of which   *)
(* Wait make the three-RTT window.                                         *)
(***************************************************************************)
EXTENDS Integers, Sequences

CONSTANTS
    Wait,        \* kMaxWaitRtt round trips, in ticks
    MaxCmd,      \* bound: commands sent
    MaxFaults,   \* bound: datagrams lost or duplicated
    MaxResets    \* bound: handshakes that reach each endpoint after the first

ASSUME CommandAssumption ==
    /\ Wait \in Nat \ {0} /\ MaxCmd \in Nat \ {0}
    /\ MaxFaults \in Nat /\ MaxResets \in Nat

Ids     == 1..MaxCmd
Threads == {"receiver", "reactor"}
Modes   == {"full", "liteVideo", "liteAudio"}
Command == [seq : Ids, id : Ids]

VARIABLES
    mode,       \* the threads start() has made: full, lite Video or lite Audio
    sent,       \* commands sent so far: the next identity is sent + 1
    seqOut,     \* sender: m_cmd_seq_out
    wire,       \* commands in flight
    next,       \* m_cmd_next_expected; 0 until m_cmd_initialized
    held,       \* m_cmd_held: the identity held under each number, 0 for none
    waited,     \* ticks since m_cmd_gap_since
    batch,      \* what each thread has taken out and not yet handed to the callback
    faults, resets,
    \* history, for the properties only
    released,   \* identities in the order in which they left the channel, up to
                \* the first reset
    fired,      \* identities in the order in which the callback saw them
    arrived,    \* identities that have been handled
    dropped,    \* commands dropped as behind the cursor, and whether also before first
    skipped,    \* numbers the cursor jumped over when a wait expired
    first       \* the number that initialised the cursor

recvVars == <<next, held, waited, batch>>
histVars == <<released, fired, arrived, dropped, skipped, first>>
vars     == <<mode, sent, seqOut, wire, recvVars, faults, resets, histVars>>

NoReset == \A e \in {"sender", "receiver"} : resets[e] = 0

Init ==
    /\ mode \in Modes /\ sent = 0 /\ seqOut = 1 /\ wire = {}
    /\ next = 0 /\ held = [s \in Ids |-> 0] /\ waited = 0
    /\ batch = [t \in Threads |-> <<>>]
    /\ faults = 0 /\ resets = [e \in {"sender", "receiver"} |-> 0]
    /\ released = <<>> /\ fired = <<>> /\ arrived = {} /\ dropped = {}
    /\ skipped = {} /\ first = 0

-----------------------------------------------------------------------------
(* Sender and network *)

\* send_command: number the command and send it directly, past every queue.
SendCommand ==
    /\ sent < MaxCmd
    /\ sent' = sent + 1
    /\ seqOut' = seqOut + 1
    /\ wire' = wire \cup {[seq |-> seqOut, id |-> sent + 1]}
    /\ UNCHANGED <<mode, recvVars, faults, resets, histVars>>

Lose ==
    /\ faults < MaxFaults
    /\ faults' = faults + 1
    /\ \E p \in wire : wire' = wire \ {p}
    /\ UNCHANGED <<mode, sent, seqOut, recvVars, resets, histVars>>

\* A datagram that is received may leave a duplicate behind.
Take(p) ==
    \/ wire' = wire \ {p} /\ UNCHANGED faults
    \/ UNCHANGED wire /\ faults < MaxFaults /\ faults' = faults + 1

-----------------------------------------------------------------------------
(* Receiver *)

HeldSeqs(h) == {s \in Ids : h[s] # 0}
FirstHeld(h) == CHOOSE s \in HeldSeqs(h) : \A t \in HeldSeqs(h) : s <= t

\* drain_locked: where the cursor ends when it starts at n.
Advance(n, h) ==
    CHOOSE m \in n..(MaxCmd + 1) : m \notin HeldSeqs(h) /\ \A k \in n..(m - 1) : k \in HeldSeqs(h)

\* The commands from n up to m, in the order of their numbers.
Run(n, m, h) == [i \in 1..(m - n) |-> h[n + i - 1]]

\* Mutant: the whole map is cleared.
Drain_Clear(t, n, h) ==
    LET m == Advance(n, h) IN
    /\ next' = m
    /\ held' = [s \in Ids |-> 0]
    /\ batch' = [batch EXCEPT ![t] = Run(n, m, h)]
    /\ released' = IF NoReset THEN released \o Run(n, m, h) ELSE released

\* Take everything consecutive from n out of h, into thread t's batch.
Drain(t, n, h) ==
    LET m == Advance(n, h) IN
    /\ next' = m
    /\ held' = [s \in Ids |-> IF s \in n..(m - 1) THEN 0 ELSE h[s]]
    /\ batch' = [batch EXCEPT ![t] = Run(n, m, h)]
    /\ released' = IF NoReset THEN released \o Run(n, m, h) ELSE released

\* Mutants: the window is one tick longer; the cursor skips to the newest.
Expired_Late   == waited > Wait
SkipTo_Last(h) == CHOOSE s \in HeldSeqs(h) : \A t \in HeldSeqs(h) : s >= t

Expired   == waited >= Wait
SkipTo(h) == FirstHeld(h)

\* Mutant: the gap is skipped and nothing is drained.
Expire_NoDrain(t, h) ==
    /\ next' = FirstHeld(h)
    /\ held' = h
    /\ waited' = 0
    /\ UNCHANGED <<batch, released, skipped>>

\* expire_locked, once the window is over: skip the gap, drain, and start the
\* window of a further gap.
Expire(t, h) ==
    /\ Drain(t, SkipTo(h), h)
    /\ waited' = 0
    /\ skipped' = skipped \cup (next..(SkipTo(h) - 1))

\* The reactor receives by itself (drain_receiver) in the lite Audio profile;
\* full mode and lite Video have a receiver thread.
OneThread == mode = "liteAudio"

\* Mutant: two threads all the same.
Free_PerThread(t) == batch[t] = <<>>

\* A thread calls into the channel when it has fired what it took out before.
Free(t) ==
    /\ batch[t] = <<>>
    /\ OneThread => \A u \in Threads : batch[u] = <<>>

Cursor(p) == IF next = 0 THEN p.seq ELSE next

Receive(p) ==
    /\ p \in wire
    /\ Free("receiver")
    /\ Take(p)
    /\ arrived' = arrived \cup {p.id}
    /\ first' = IF next = 0 THEN p.seq ELSE first
    /\ UNCHANGED <<mode, sent, seqOut, resets, fired>>

Behind(p) == p.seq < Cursor(p)

\* CommandChannel::handle of a number behind the cursor.
HandleLate(p) ==
    /\ Receive(p)
    /\ Behind(p)
    /\ dropped' = dropped \cup {[id |-> p.id, early |-> p.seq < first]}
    /\ UNCHANGED <<recvVars, released, skipped>>

\* CommandChannel::handle of the expected number.
HandleInOrder(p) ==
    /\ Receive(p)
    /\ p.seq = Cursor(p)
    /\ Drain("receiver", p.seq, [held EXCEPT ![p.seq] = p.id])
    /\ UNCHANGED <<waited, dropped, skipped>>

\* CommandChannel::handle of a later number: hold it, and skip the gap when
\* the window that is already running is over.
HandleAhead(p) ==
    LET h == [held EXCEPT ![p.seq] = IF @ = 0 THEN p.id ELSE @] IN
    /\ Receive(p)
    /\ p.seq > Cursor(p)
    /\ UNCHANGED dropped
    /\ \/ /\ HeldSeqs(held) = {}
          /\ waited' = 0
          /\ held' = h
          /\ UNCHANGED <<next, batch, released, skipped>>
       \/ /\ HeldSeqs(held) # {} /\ ~Expired
          /\ held' = h
          /\ UNCHANGED <<next, waited, batch, released, skipped>>
       \/ /\ HeldSeqs(held) # {} /\ Expired
          /\ Expire("receiver", h)

\* flush_commands on the reactor: flush_expired under the lock.
FlushExpired ==
    /\ Free("reactor")
    /\ HeldSeqs(held) # {} /\ Expired
    /\ Expire("reactor", held)
    /\ UNCHANGED <<mode, sent, seqOut, wire, faults, resets, fired, arrived, dropped, first>>

\* fire_command, after the lock was released.
Fire(t) ==
    /\ batch[t] # <<>>
    /\ fired' = Append(fired, Head(batch[t]))
    /\ batch' = [batch EXCEPT ![t] = Tail(@)]
    /\ UNCHANGED <<mode, sent, seqOut, wire, next, held, waited, faults, resets, released,
                   arrived, dropped, skipped, first>>

\* CommandChannel::reset at an endpoint that handles a handshake packet.  Each
\* endpoint resets both of its directions; this model sees one half of each.
Reset(e) ==
    /\ resets[e] < MaxResets
    /\ resets' = [resets EXCEPT ![e] = @ + 1]
    /\ IF e = "sender"
       THEN seqOut' = 1 /\ UNCHANGED <<recvVars, first>>
       ELSE /\ Free("receiver")
            /\ next' = 0 /\ held' = [s \in Ids |-> 0] /\ waited' = 0
            /\ UNCHANGED <<seqOut, batch, first>>
    /\ UNCHANGED <<mode, sent, wire, faults, released, fired, arrived, dropped, skipped>>

\* Time passes while a window runs.
Tick ==
    /\ HeldSeqs(held) # {} /\ ~Expired
    /\ waited' = waited + 1
    /\ UNCHANGED <<mode, sent, seqOut, wire, next, held, batch, faults, resets, released, fired,
                   arrived, dropped, skipped, first>>

-----------------------------------------------------------------------------
Next ==
    \/ SendCommand
    \/ Lose
    \/ \E p \in wire : HandleLate(p) \/ HandleInOrder(p) \/ HandleAhead(p)
    \/ FlushExpired
    \/ \E t \in Threads : Fire(t)
    \/ \E e \in {"sender", "receiver"} : Reset(e)
    \/ Tick

Spec == Init /\ [][Next]_vars

(* The reactor calls flush_commands on every pass, a thread finishes its loop *)
(* of callbacks, and time passes.                                            *)
Fairness ==
    /\ WF_vars(FlushExpired) /\ WF_vars(Tick)
    /\ \A t \in Threads : WF_vars(Fire(t))

FairSpec == Spec /\ Fairness

-----------------------------------------------------------------------------
(* Properties *)

\* Every variable keeps its type: the cursor (m_cmd_next_expected) stays within the
\* numbers send_command assigns, and a command waits no longer than the window.
TypeOK ==
    /\ mode \in Modes /\ sent \in 0..MaxCmd /\ seqOut \in 1..(MaxCmd + 1) /\ wire \subseteq Command
    /\ next \in 0..(MaxCmd + 1) /\ held \in [Ids -> 0..MaxCmd] /\ waited \in 0..Wait
    /\ batch \in [Threads -> Seq(Ids)]
    /\ faults \in 0..MaxFaults /\ resets \in [{"sender", "receiver"} -> 0..MaxResets]
    /\ released \in Seq(Ids) /\ fired \in Seq(Ids)
    /\ arrived \subseteq Ids /\ dropped \subseteq [id : Ids, early : BOOLEAN]
    /\ skipped \subseteq Ids /\ first \in 0..MaxCmd

Increasing(s) == \A i, j \in 1..Len(s) : i < j => s[i] < s[j]
Elements(s)   == {s[i] : i \in 1..Len(s)}

(* In the lite Audio profile, where the reactor receives by itself, the        *)
(* callback sees commands in the order they were sent, until a handshake resets *)
(* either endpoint.  In full mode and in lite Video it need not: the receiver   *)
(* thread and the reactor fire what they took out after releasing the lock.     *)
AudioFiredInOrder == mode = "liteAudio" /\ NoReset => Increasing(fired)

(* drain_locked, expire_locked and emplace lose nothing: a command that was    *)
(* handled was dropped as late, left the channel, or is held beyond the cursor, *)
(* until a handshake resets either endpoint.                                    *)
NothingVanishes ==
    NoReset => \A i \in arrived :
        \/ \E d \in dropped : d.id = i
        \/ i \in Elements(released)
        \/ \E s \in Ids : held[s] = i /\ s > next

(* Only the past is dropped: a command dropped as late has left the channel    *)
(* once, was skipped when a wait expired, or precedes the one that initialised  *)
(* the cursor, until a handshake resets either endpoint.                       *)
DropJustified ==
    NoReset => \A d \in dropped : d.id \in Elements(released) \cup skipped \/ d.early

(* Every command handled is accounted for, and justly so.                      *)
CommandsAccounted == NothingVanishes /\ DropJustified

(* A held command leaves the channel: flush_commands skips the gap in front of *)
(* it even when nothing else arrives.                                          *)
HeldLeaves == \A s \in Ids : (held[s] # 0) ~> (held[s] = 0)

(* The channel, seen where commands leave it, is an ordered lossy channel      *)
(* (command.hpp): they come out in the order they were sent, none twice,       *)
(* whatever arrives late, twice or never and whichever thread takes them out.  *)
Ordered == INSTANCE OrderedChannel WITH delivered <- released
ImplementsOrdered == Ordered!Spec
=============================================================================
