-------------------------------- MODULE Link --------------------------------
(***************************************************************************)
(* The life of the link between two endpoints: connect, the three-way      *)
(* handshake, key agreement, Online announcements, heartbeats, offline     *)
(* detection and reconnection, Bye.  Each endpoint has a receiver thread   *)
(* (one Handle action per packet type) and a reactor (one action per       *)
(* periodic function, in reactor_loop's order).                            *)
(*                                                                         *)
(* One tick is one heartbeat period, which is also the cap of the          *)
(* handshake backoff; Dead ticks make dead_timeout.  A datagram is         *)
(* delivered or lost within the tick, in any order, except the ones the    *)
(* network holds back.  Packets that only refresh m_last_recv (Ack,        *)
(* Heartbeat, Probe) are all called Keep.  A key pair is named by the      *)
(* incarnation of the process that generated it.                           *)
(***************************************************************************)
EXTENDS Integers

CONSTANTS
    Nodes,       \* the endpoints whose application calls connect()
    Dead,        \* dead_timeout, in ticks
    Restarted,   \* bound: endpoints that are started again, once, after a crash
    MaxTroubles  \* bound: crashes, stops and datagrams lost or held back

Endpoints == {"a", "b"}

ASSUME LinkAssumption ==
    /\ Nodes \subseteq Endpoints /\ Restarted \subseteq Endpoints
    /\ Dead \in Nat \ {0} /\ MaxTroubles \in Nat

MaxStarts == 2
Other(e)  == IF e = "a" THEN "b" ELSE "a"
States    == {"None", "Closed", "Handshake", "Established", "Online"}
Steps     == {"handshakes", "heartbeats", "announce", "offline", "reopen", "idle"}
Types     == {"Handshake", "HandshakeAck", "Online", "Keep", "Bye"}
Packet    == [to : Endpoints, type : Types, inc : 0..MaxStarts]

VARIABLES
    up,         \* the process runs: its socket is open
    leaving,    \* stop() has sent the Byes and is joining the threads
    inc,        \* incarnations of the process so far: names its key pair
    state,      \* m_state of the peer entry; None when there is no entry
    reconnect,  \* m_reconnect
    key,        \* incarnation whose public key was last derived from; 0: none
    silent,     \* ticks since m_last_recv
    step,       \* where the reactor is in its round
    net,        \* datagrams in flight
    late,       \* datagrams held back: they may arrive at any time
    faults, crashes, stops, \* the troubles so far
    offline     \* history: endpoints whose check_offline has closed the link

peerVars == <<state, reconnect, key, silent>>
procVars == <<up, leaving, inc>>
netVars  == <<net, late>>
bounds   == <<faults, crashes, stops>>
vars     == <<procVars, peerVars, step, netVars, bounds, offline>>

Init ==
    /\ up = [e \in Endpoints |-> FALSE] /\ leaving = {} /\ inc = [e \in Endpoints |-> 0]
    /\ state = [e \in Endpoints |-> "None"]
    /\ reconnect = [e \in Endpoints |-> FALSE]
    /\ key = [e \in Endpoints |-> 0]
    /\ silent = [e \in Endpoints |-> Dead]
    /\ step = [e \in Endpoints |-> "idle"]
    /\ net = {} /\ late = {}
    /\ faults = 0 /\ crashes = 0 /\ stops = 0
    /\ offline = {}

Trouble == faults + crashes + stops < MaxTroubles

Live(e) == state[e] \in {"Established", "Online"}

\* A datagram from e; only the handshake packets carry the public key.
Packets(e, types) ==
    {[to |-> Other(e), type |-> t,
      inc |-> IF t \in {"Handshake", "HandshakeAck"} THEN inc[e] ELSE 0] : t \in types}

-----------------------------------------------------------------------------
(* The application and the process *)

\* A new process: an empty peer table and a new key pair.
Start(e) ==
    /\ ~up[e]
    /\ inc[e] = 0 \/ (inc[e] < MaxStarts /\ e \in Restarted /\ stops = 0)
    /\ up' = [up EXCEPT ![e] = TRUE]
    /\ inc' = [inc EXCEPT ![e] = @ + 1]
    /\ step' = [step EXCEPT ![e] = "handshakes"]
    /\ UNCHANGED <<leaving, peerVars, netVars, bounds, offline>>

\* connect: an anonymous entry for the address is erased, and the new entry
\* goes to Handshake.  Modelled once per process.
Connect(e) ==
    /\ up[e] /\ e \in Nodes /\ ~reconnect[e] /\ e \notin leaving
    /\ state' = [state EXCEPT ![e] = "Handshake"]
    /\ reconnect' = [reconnect EXCEPT ![e] = TRUE]
    /\ key' = [key EXCEPT ![e] = 0]
    /\ silent' = [silent EXCEPT ![e] = Dead]
    /\ net' = net \cup Packets(e, {"Handshake"})
    /\ UNCHANGED <<procVars, step, late, bounds, offline>>

\* Mutant: stop() does not join the reactor.
Gone_ReactorRuns(e) ==
    /\ up' = [up EXCEPT ![e] = FALSE]
    /\ leaving' = leaving \ {e}
    /\ state' = [state EXCEPT ![e] = "None"]
    /\ reconnect' = [reconnect EXCEPT ![e] = FALSE]
    /\ key' = [key EXCEPT ![e] = 0]
    /\ silent' = [silent EXCEPT ![e] = Dead]
    /\ UNCHANGED <<inc, step, netVars, offline>>

\* What a process leaves behind when it ends.
Gone(e) ==
    /\ up' = [up EXCEPT ![e] = FALSE]
    /\ leaving' = leaving \ {e}
    /\ state' = [state EXCEPT ![e] = "None"]
    /\ reconnect' = [reconnect EXCEPT ![e] = FALSE]
    /\ key' = [key EXCEPT ![e] = 0]
    /\ silent' = [silent EXCEPT ![e] = Dead]
    /\ step' = [step EXCEPT ![e] = "idle"]
    /\ UNCHANGED <<inc, netVars, offline>>

Crash(e) ==
    /\ up[e] /\ Trouble
    /\ crashes' = crashes + 1
    /\ Gone(e)
    /\ UNCHANGED <<faults, stops>>

\* stop: send_byes sends the Bye past every queue and closes the entry; the
\* threads keep running until they are joined.
SendByes(e) ==
    /\ up[e] /\ e \notin leaving /\ Trouble
    /\ stops' = stops + 1
    /\ leaving' = leaving \cup {e}
    /\ IF state[e] \in {"None", "Closed"}
       THEN UNCHANGED <<state, net>>
       ELSE /\ state' = [state EXCEPT ![e] = "Closed"]
            /\ net' = net \cup Packets(e, {"Bye"})
    /\ UNCHANGED <<up, inc, reconnect, key, silent, step, late, faults, crashes, offline>>

StopThreads(e) ==
    /\ e \in leaving
    /\ Gone(e)
    /\ UNCHANGED bounds

-----------------------------------------------------------------------------
(* The receiver thread *)

\* find_or_create_peer_by_addr: an unknown address gets an anonymous entry.
Found(e) == IF state[e] = "None" THEN "Handshake" ELSE state[e]

\* Mutant: a packet that is neither a heartbeat nor a handshake packet of an
\* open link does not count as a sign of life.
Touch_OpenOnly(e) == silent' = IF Live(e) THEN silent ELSE [silent EXCEPT ![e] = 0]

\* handle_packet: any packet refreshes m_last_recv.
Touch(e) == silent' = [silent EXCEPT ![e] = 0]

\* The datagram is consumed and the handler's answers are sent.
Reply(p, types) ==
    /\ net' = (net \ {p}) \cup Packets(p.to, types)
    /\ late' = late \ {p}

Enter(e, s) == state' = [state EXCEPT ![e] = s]

\* Mutant: the side that did not connect answers without a Handshake of its own.
HandshakeAnswers_AckOnly(e) == {"HandshakeAck", "Keep"}

\* A HandshakeAck, the acknowledgment every such packet gets, and a Handshake
\* of its own when this side did not connect.
HandshakeAnswers(e) ==
    {"HandshakeAck", "Keep"} \cup (IF reconnect[e] THEN {} ELSE {"Handshake"})

\* handle_handshake: derive the key, restart the command channel and answer.
HandleHandshake(e, p) ==
    /\ p.type = "Handshake"
    /\ key' = [key EXCEPT ![e] = p.inc]
    /\ Enter(e, IF Live(e) THEN state[e] ELSE "Established")
    /\ Reply(p, HandshakeAnswers(e))

Acknowledged(e) == Found(e) \in {"Handshake", "Established"}

HandleHandshakeAck(e, p) ==
    /\ p.type = "HandshakeAck"
    /\ key' = [key EXCEPT ![e] = p.inc]
    /\ IF Acknowledged(e)
       THEN Enter(e, "Online") /\ Reply(p, {"Online", "Keep"})
       ELSE Enter(e, Found(e)) /\ Reply(p, {"Keep"})

\* handle_online: whatever the state was.
HandleOnline(e, p) ==
    /\ p.type = "Online"
    /\ Enter(e, "Online")
    /\ Reply(p, {"Keep"})
    /\ UNCHANGED key

HandleKeep(e, p) ==
    /\ p.type = "Keep"
    /\ Enter(e, Found(e))
    /\ Reply(p, {})
    /\ UNCHANGED key

HandleBye(e, p) ==
    /\ p.type = "Bye"
    /\ Enter(e, "Closed")
    /\ Reply(p, {})
    /\ UNCHANGED key

HandlePacket(e, p) ==
    /\ p.to = e /\ up[e]
    /\ Touch(e)
    /\ \/ HandleHandshake(e, p) \/ HandleHandshakeAck(e, p)
       \/ HandleOnline(e, p) \/ HandleKeep(e, p) \/ HandleBye(e, p)
    /\ UNCHANGED <<procVars, reconnect, step, bounds, offline>>

-----------------------------------------------------------------------------
(* The network *)

Receive(e) == \E p \in net : HandlePacket(e, p)

ReceiveLate(e) == \E p \in late : HandlePacket(e, p)

\* A datagram for a process that does not run.
Unheard ==
    /\ \E p \in net \cup late : ~up[p.to] /\ net' = net \ {p} /\ late' = late \ {p}
    /\ UNCHANGED <<procVars, peerVars, step, bounds, offline>>

Lose ==
    /\ Trouble
    /\ faults' = faults + 1
    /\ \E p \in net : net' = net \ {p}
    /\ UNCHANGED <<procVars, peerVars, step, late, crashes, stops, offline>>

\* A copy stays in the network for as long as it likes.
HoldBack ==
    /\ Trouble
    /\ faults' = faults + 1
    /\ \E p \in net : late' = late \cup {p}
    /\ UNCHANGED <<procVars, peerVars, step, net, crashes, stops, offline>>

-----------------------------------------------------------------------------
(* The reactor *)

At(e, from, to) ==
    /\ up[e] /\ step[e] = from
    /\ step' = [step EXCEPT ![e] = to]

\* Mutant: the handshake of connect() is not retried.
Retried_Never(e) == FALSE

Retried(e) == state[e] = "Handshake"

SendHandshakes(e) ==
    /\ At(e, "handshakes", "heartbeats")
    /\ net' = net \cup IF Retried(e) THEN Packets(e, {"Handshake"}) ELSE {}
    /\ UNCHANGED <<procVars, peerVars, late, bounds, offline>>

SendHeartbeats(e) ==
    /\ At(e, "heartbeats", "announce")
    /\ net' = net \cup IF Live(e) THEN Packets(e, {"Keep"}) ELSE {}
    /\ UNCHANGED <<procVars, peerVars, late, bounds, offline>>

SendOnlineAnnouncements(e) ==
    /\ At(e, "announce", "offline")
    /\ net' = net \cup IF Live(e) THEN Packets(e, {"Online"}) ELSE {}
    /\ UNCHANGED <<procVars, peerVars, late, bounds, offline>>

\* Mutant: the state Established never times out.
TimedOut_OnlineOnly(e) == state[e] = "Online" /\ silent[e] >= Dead

TimedOut(e) == Live(e) /\ silent[e] >= Dead

\* check_offline: Closed, the pending packets cleared, the callback run...
CheckOffline(e) ==
    /\ At(e, "offline", IF TimedOut(e) THEN "reopen" ELSE "idle")
    /\ IF TimedOut(e)
       THEN Enter(e, "Closed") /\ offline' = offline \cup {e}
       ELSE UNCHANGED <<state, offline>>
    /\ UNCHANGED <<procVars, reconnect, key, silent, netVars, bounds>>

\* ...and then, whatever the receiver has done meanwhile, Handshake again.
Reopen(e) ==
    /\ At(e, "reopen", "idle")
    /\ IF reconnect[e]
       THEN Enter(e, "Handshake") /\ silent' = [silent EXCEPT ![e] = 0]
       ELSE UNCHANGED <<state, silent>>
    /\ UNCHANGED <<procVars, reconnect, key, netVars, bounds, offline>>

Reactor(e) ==
    \/ SendHandshakes(e) \/ SendHeartbeats(e) \/ SendOnlineAnnouncements(e)
    \/ CheckOffline(e) \/ Reopen(e)

\* The next heartbeat period: every running reactor has done its round, stop()
\* has joined its threads, and nothing is in flight but what the network holds
\* back.
Tick ==
    /\ net = {} /\ leaving = {} /\ \A e \in Endpoints : step[e] = "idle"
    /\ step' = [e \in Endpoints |-> IF up[e] THEN "handshakes" ELSE "idle"]
    /\ silent' = [e \in Endpoints |-> IF silent[e] < Dead THEN silent[e] + 1 ELSE Dead]
    /\ UNCHANGED <<procVars, state, reconnect, key, netVars, bounds, offline>>

\* What goes on by itself: the threads, the delivery of datagrams, time.
Progress ==
    \/ \E e \in Endpoints : StopThreads(e) \/ Receive(e) \/ Reactor(e)
    \/ Unheard \/ Tick

Next ==
    \/ \E e \in Endpoints :
        Start(e) \/ Connect(e) \/ Crash(e) \/ SendByes(e) \/ ReceiveLate(e)
    \/ Lose \/ HoldBack
    \/ Progress

Spec == Init /\ [][Next]_vars

(***************************************************************************)
(* The threads run, datagrams in flight are delivered or lost and time     *)
(* passes: Tick waits for everybody, so that fairness of Progress as a     *)
(* whole is enough.  The application of a node connects.  Nothing is       *)
(* assumed of crashes, stops, faults and restarts.                         *)
(***************************************************************************)
FairSpec ==
    /\ Spec
    /\ WF_vars(Progress)
    /\ \A e \in Nodes : WF_vars(Connect(e))

-----------------------------------------------------------------------------
(* Properties *)

\* Every variable keeps its type, and a process that has ended has neither a
\* peer entry nor a running reactor (stop joins the threads).
TypeOK ==
    /\ up \in [Endpoints -> BOOLEAN] /\ leaving \subseteq Endpoints
    /\ inc \in [Endpoints -> 0..MaxStarts]
    /\ state \in [Endpoints -> States]
    /\ reconnect \in [Endpoints -> BOOLEAN]
    /\ key \in [Endpoints -> 0..MaxStarts]
    /\ silent \in [Endpoints -> 0..Dead]
    /\ step \in [Endpoints -> Steps]
    /\ net \subseteq Packet /\ late \subseteq Packet
    /\ faults \in Nat /\ crashes \in Nat /\ stops \in Nat
    /\ faults + crashes + stops <= MaxTroubles
    /\ offline \subseteq Endpoints
    /\ \A e \in Endpoints : ~up[e] => state[e] = "None" /\ step[e] = "idle"

\* A link is declared dead only when its peer process has ended: fewer lost
\* datagrams than dead_timeout has heartbeat periods never close a link whose
\* two processes run (handle_packet's m_last_recv against check_offline).
NoFalseAlarm == (crashes = 0 /\ stops = 0 /\ faults < Dead) => offline = {}

BothStayUp == <>[](\A e \in Endpoints : up[e])

\* Two processes that stay up bring both ends of the link Online for good,
\* whatever datagram was lost or came late, also when the side that does not
\* connect crashed and was started again (the retries of send_handshakes and
\* send_online_announcements); a Bye is not recovered from.
BothComeOnline ==
    BothStayUp /\ [](stops = 0) => <>[](\A e \in Endpoints : state[e] = "Online")

\* When the other process has ended for good, the link does not stay
\* Established or Online (check_offline, handle_bye).
DeadPeerNoticed ==
    \A e \in Endpoints : <>[](~up[Other(e)]) => <>[](~Live(e))

KeysMatch == \A e \in Endpoints : key[e] = inc[Other(e)]

\* Whoever connects, both ends end up deriving the session key from each
\* other's current public key, when both processes run on and the network loses
\* or delays at most one datagram (handle_handshake, handle_handshake_ack).
KeysAgree ==
    BothStayUp /\ [](crashes = 0 /\ stops = 0 /\ faults <= 1) => <>[]KeysMatch
=============================================================================
