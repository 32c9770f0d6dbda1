----------------------------- MODULE LinkProofs -----------------------------
(***************************************************************************)
(* What Link guarantees, for any endpoints that connect, any dead_timeout  *)
(* and any number of troubles: the types, and that a link between two      *)
(* processes that run is not declared dead.                                *)
(***************************************************************************)
EXTENDS Link, TLAPS

(***************************************************************************)
(* Types                                                                   *)
(***************************************************************************)

LEMMA Ends ==
    /\ \A e \in Endpoints : Other(e) \in Endpoints /\ Other(e) # e /\ Other(Other(e)) = e
    /\ \A e, d \in Endpoints : d = e \/ d = Other(e)
BY DEF Endpoints, Other

(* What goes out is packets to the other end, of the types asked for. *)
LEMMA Sending ==
    ASSUME TypeOK, NEW e \in Endpoints, NEW T \in SUBSET Types
    PROVE  /\ Packets(e, T) \subseteq Packet
           /\ \A p \in Packets(e, T) : p.to = Other(e) /\ p.type \in T
           /\ \A t \in T : \E p \in Packets(e, T) : p.to = Other(e) /\ p.type = t
<1>1. ASSUME NEW t \in T
      PROVE  [to |-> Other(e), type |-> t,
              inc |-> IF t \in {"Handshake", "HandshakeAck"} THEN inc[e] ELSE 0] \in Packet
  <2>1. inc[e] \in 0..MaxStarts /\ 0 \in 0..MaxStarts
    BY DEF TypeOK, MaxStarts
  <2> QED
    BY <2>1, Ends DEF Packet
<1> DEFINE M(t) == [to |-> Other(e), type |-> t,
                    inc |-> IF t \in {"Handshake", "HandshakeAck"} THEN inc[e] ELSE 0]
<1>2. Packets(e, T) = {M(t) : t \in T}
  BY DEF Packets
<1>3. \A t \in T : M(t) \in Packet /\ M(t).to = Other(e) /\ M(t).type = t
  BY <1>1
<1> HIDE DEF M
<1> QED
  BY <1>2, <1>3

(* What a handler may answer. *)
LEMMA Answers ==
    ASSUME NEW e \in Endpoints
    PROVE  /\ HandshakeAnswers(e) \in SUBSET Types /\ {"HandshakeAck", "Keep"} \subseteq HandshakeAnswers(e)
           /\ "Bye" \notin HandshakeAnswers(e)
           /\ {"Online", "Keep"} \in SUBSET Types /\ {"Keep"} \in SUBSET Types /\ {} \in SUBSET Types
BY DEF HandshakeAnswers, Types

\* What handling a packet of this type sends back.
Answer(e, p) ==
    CASE p.type = "Handshake" -> HandshakeAnswers(e)
      [] p.type = "HandshakeAck" -> IF Acknowledged(e) THEN {"Online", "Keep"} ELSE {"Keep"}
      [] p.type = "Online" -> {"Keep"}
      [] OTHER -> {}

(* The five handlers in one form. *)
LEMMA Handling ==
    ASSUME TypeOK, NEW e \in Endpoints, NEW p \in net \cup late, HandlePacket(e, p)
    PROVE  /\ p.to = e /\ up[e] /\ p \in Packet
           /\ UNCHANGED <<procVars, reconnect, step, bounds, offline>>
           /\ silent' = [silent EXCEPT ![e] = 0]
           /\ Answer(e, p) \in SUBSET Types /\ "Bye" \notin Answer(e, p)
           /\ net' = (net \ {p}) \cup Packets(e, Answer(e, p)) /\ late' = late \ {p}
           /\ p.type = "Online" => "Keep" \in Answer(e, p)
           /\ \E s \in States \ {"None"} :
                /\ state' = [state EXCEPT ![e] = s]
                /\ p.type # "Bye" => (s = "Closed" => state[e] = "Closed")
                /\ p.type # "Bye" => (Live(e) => s \in {"Established", "Online"})
           /\ \E k \in 0..MaxStarts : key' = [key EXCEPT ![e] = k]
<1>1. /\ p.to = e /\ up[e] /\ p \in Packet /\ p.inc \in 0..MaxStarts /\ p.type \in Types
      /\ UNCHANGED <<procVars, reconnect, step, bounds, offline>>
      /\ silent' = [silent EXCEPT ![e] = 0]
  BY DEF HandlePacket, Touch, TypeOK, Packet
<1>2. Found(e) \in States \ {"None"} /\ state[e] \in States /\ key = [key EXCEPT ![e] = key[e]]
      /\ key[e] \in 0..MaxStarts /\ (Found(e) = "Closed" => state[e] = "Closed") /\ (Live(e) => Found(e) = state[e])
  BY DEF Found, States, TypeOK, Live
<1>3. CASE HandleHandshake(e, p)
  <2>1. Answer(e, p) = HandshakeAnswers(e)
    BY <1>3 DEF HandleHandshake, Answer
  <2>2. net' = (net \ {p}) \cup Packets(e, Answer(e, p)) /\ late' = late \ {p}
    BY <1>1, <1>3, <2>1 DEF HandleHandshake, Reply
  <2>3. /\ key' = [key EXCEPT ![e] = p.inc]
        /\ state' = [state EXCEPT ![e] = IF Live(e) THEN state[e] ELSE "Established"]
    BY <1>3 DEF HandleHandshake, Enter
  <2>4. (IF Live(e) THEN state[e] ELSE "Established") \in {"Established", "Online"}
    BY DEF Live
  <2> QED
    BY <1>1, <1>3, <2>1, <2>2, <2>3, <2>4, Answers DEF HandleHandshake, States
<1>4. CASE HandleHandshakeAck(e, p)
  <2>1. Answer(e, p) = IF Acknowledged(e) THEN {"Online", "Keep"} ELSE {"Keep"}
    BY <1>4 DEF HandleHandshakeAck, Answer
  <2>2. net' = (net \ {p}) \cup Packets(e, Answer(e, p)) /\ late' = late \ {p}
    BY <1>1, <1>4, <2>1 DEF HandleHandshakeAck, Reply
  <2>3. /\ key' = [key EXCEPT ![e] = p.inc]
        /\ state' = [state EXCEPT ![e] = IF Acknowledged(e) THEN "Online" ELSE Found(e)]
    BY <1>4 DEF HandleHandshakeAck, Enter
  <2> QED
    BY <1>1, <1>2, <1>4, <2>1, <2>2, <2>3, Answers, ZenonT(40) DEF HandleHandshakeAck, States, Live
<1>5. CASE HandleOnline(e, p)
  <2>1. Answer(e, p) = {"Keep"}
    BY <1>5 DEF HandleOnline, Answer
  <2>2. /\ net' = (net \ {p}) \cup Packets(e, Answer(e, p)) /\ late' = late \ {p}
        /\ state' = [state EXCEPT ![e] = "Online"] /\ key' = key
    BY <1>1, <1>5, <2>1 DEF HandleOnline, Reply, Enter
  <2> QED
    BY <1>1, <1>2, <2>1, <2>2, Answers DEF States, Live
<1>6. CASE HandleKeep(e, p)
  <2>1. Answer(e, p) = {}
    BY <1>6 DEF HandleKeep, Answer
  <2>2. /\ net' = (net \ {p}) \cup Packets(e, Answer(e, p)) /\ late' = late \ {p}
        /\ state' = [state EXCEPT ![e] = Found(e)] /\ key' = key
    BY <1>1, <1>6, <2>1 DEF HandleKeep, Reply, Enter
  <2> QED
    BY <1>1, <1>2, <1>6, <2>1, <2>2, Answers DEF Live, HandleKeep
<1>7. CASE HandleBye(e, p)
  <2>1. Answer(e, p) = {}
    BY <1>7 DEF HandleBye, Answer
  <2>2. /\ net' = (net \ {p}) \cup Packets(e, Answer(e, p)) /\ late' = late \ {p}
        /\ state' = [state EXCEPT ![e] = "Closed"] /\ key' = key
    BY <1>1, <1>7, <2>1 DEF HandleBye, Reply, Enter
  <2> QED
    BY <1>1, <1>2, <1>7, <2>1, <2>2, Answers DEF States, HandleBye
<1> QED
  BY <1>3, <1>4, <1>5, <1>6, <1>7 DEF HandlePacket

LEMMA TypeGone ==
    ASSUME TypeOK, NEW e \in Endpoints, Crash(e) \/ StopThreads(e)
    PROVE  TypeOK'
<1>1. /\ up' = [up EXCEPT ![e] = FALSE] /\ leaving' = leaving \ {e}
      /\ state' = [state EXCEPT ![e] = "None"] /\ reconnect' = [reconnect EXCEPT ![e] = FALSE]
      /\ key' = [key EXCEPT ![e] = 0] /\ silent' = [silent EXCEPT ![e] = Dead]
      /\ step' = [step EXCEPT ![e] = "idle"] /\ UNCHANGED <<inc, netVars, offline>>
  BY DEF Crash, StopThreads, Gone
<1>2. /\ faults' \in Nat /\ crashes' \in Nat /\ stops' \in Nat
      /\ faults' + crashes' + stops' <= MaxTroubles
  BY LinkAssumption DEF Crash, StopThreads, Trouble, bounds, TypeOK
<1>3. 0 \in 0..MaxStarts /\ Dead \in 0..Dead /\ "None" \in States /\ "idle" \in Steps
  BY LinkAssumption DEF MaxStarts, States, Steps
<1> QED
  BY <1>1, <1>2, <1>3 DEF TypeOK, netVars

LEMMA TypeStep ==
    ASSUME TypeOK, [Next]_vars
    PROVE  TypeOK'
<1>0. /\ 0 \in 0..MaxStarts /\ 1 \in 0..MaxStarts /\ Dead \in 0..Dead /\ 0 \in 0..Dead /\ 0 \in Nat
      /\ Dead \in Nat /\ MaxTroubles \in Nat
  BY LinkAssumption DEF MaxStarts
<1>1. ASSUME NEW e \in Endpoints, Start(e)
      PROVE  TypeOK'
  <2>1. inc[e] + 1 \in 0..MaxStarts
    BY <1>1 DEF Start, TypeOK, MaxStarts
  <2> QED
    BY <1>1, <2>1 DEF Start, TypeOK, peerVars, netVars, bounds, Steps
<1>2. ASSUME NEW e \in Endpoints, Connect(e)
      PROVE  TypeOK'
  <2>1. {"Handshake"} \in SUBSET Types
    BY DEF Types
  <2>2. net' \subseteq Packet
    BY <1>2, <2>1, Sending DEF Connect, TypeOK
  <2> QED
    BY <1>0, <1>2, <2>2 DEF Connect, TypeOK, procVars, bounds, States
<1>3. ASSUME NEW e \in Endpoints, SendByes(e)
      PROVE  TypeOK'
  <2>1. {"Bye"} \in SUBSET Types
    BY DEF Types
  <2>2. net' \subseteq Packet
    BY <1>3, <2>1, Sending DEF SendByes, TypeOK
  <2>3. state' \in [Endpoints -> States] /\ \A d \in Endpoints : ~up'[d] => state'[d] = "None" /\ step'[d] = "idle"
    BY <1>3 DEF SendByes, TypeOK, States
  <2>4. stops' \in Nat /\ faults + crashes + stops' <= MaxTroubles
    BY <1>0, <1>3 DEF SendByes, TypeOK, Trouble
  <2> QED
    BY <1>3, <2>2, <2>3, <2>4 DEF SendByes, TypeOK
<1>4. ASSUME NEW e \in Endpoints, NEW p \in net \cup late, HandlePacket(e, p)
      PROVE  TypeOK'
  <2>1. net' \subseteq Packet /\ late' \subseteq Packet
    BY <1>4, Handling, Sending DEF TypeOK
  <2>2. /\ state' \in [Endpoints -> States] /\ key' \in [Endpoints -> 0..MaxStarts]
        /\ silent' \in [Endpoints -> 0..Dead] /\ up[e] /\ \A d \in Endpoints : d # e => state'[d] = state[d]
    BY <1>0, <1>4, Handling DEF TypeOK
  <2>3. UNCHANGED <<procVars, reconnect, step, bounds, offline>>
    BY <1>4, Handling
  <2> QED
    BY <2>1, <2>2, <2>3 DEF TypeOK, procVars, bounds
<1>5. CASE Unheard \/ Lose \/ HoldBack
  <2>1. net' \subseteq Packet /\ late' \subseteq Packet
    BY <1>5 DEF Unheard, Lose, HoldBack, TypeOK
  <2>2. faults' \in Nat /\ faults' + crashes + stops <= MaxTroubles
    BY <1>0, <1>5 DEF Unheard, Lose, HoldBack, TypeOK, Trouble, bounds
  <2> QED
    BY <1>5, <2>1, <2>2 DEF Unheard, Lose, HoldBack, TypeOK, procVars, peerVars, bounds
<1>6. ASSUME NEW e \in Endpoints, Reactor(e)
      PROVE  TypeOK'
  <2>1. /\ up[e] /\ \E s \in Steps : step' = [step EXCEPT ![e] = s]
        /\ UNCHANGED <<procVars, reconnect, key, late, bounds>>
    BY <1>6 DEF Reactor, SendHandshakes, SendHeartbeats, SendOnlineAnnouncements, CheckOffline, Reopen, At,
                Steps, peerVars, netVars
  <2>2. step' \in [Endpoints -> Steps] /\ \A d \in Endpoints : ~up[d] => step'[d] = "idle"
    BY <2>1 DEF TypeOK
  <2>3. {"Handshake"} \in SUBSET Types /\ {"Keep"} \in SUBSET Types /\ {"Online"} \in SUBSET Types
    BY DEF Types
  <2>4. net' \subseteq Packet
    <3>1. CASE SendHandshakes(e)
      BY <2>3, <3>1, Sending DEF SendHandshakes, TypeOK
    <3>2. CASE SendHeartbeats(e)
      BY <2>3, <3>2, Sending DEF SendHeartbeats, TypeOK
    <3>3. CASE SendOnlineAnnouncements(e)
      BY <2>3, <3>3, Sending DEF SendOnlineAnnouncements, TypeOK
    <3>4. CASE CheckOffline(e) \/ Reopen(e)
      BY <3>4 DEF CheckOffline, Reopen, netVars, TypeOK
    <3> QED
      BY <1>6, <3>1, <3>2, <3>3, <3>4 DEF Reactor
  <2>5. /\ state' \in [Endpoints -> States] /\ silent' \in [Endpoints -> 0..Dead]
        /\ \A d \in Endpoints : d # e => state'[d] = state[d]
        /\ offline' \subseteq Endpoints
    <3>1. CASE CheckOffline(e)
      BY <3>1 DEF CheckOffline, Enter, TypeOK, States
    <3>2. CASE Reopen(e)
      BY <1>0, <3>2 DEF Reopen, Enter, TypeOK, States
    <3>3. CASE ~CheckOffline(e) /\ ~Reopen(e)
      BY <1>6, <3>3 DEF Reactor, SendHandshakes, SendHeartbeats, SendOnlineAnnouncements, peerVars, TypeOK
    <3> QED
      BY <3>1, <3>2, <3>3
  <2> QED
    BY <2>1, <2>2, <2>4, <2>5 DEF TypeOK, procVars, bounds
<1>7. CASE Tick
  <2>1. silent' \in [Endpoints -> 0..Dead]
    <3>1. \A e \in Endpoints : (IF silent[e] < Dead THEN silent[e] + 1 ELSE Dead) \in 0..Dead
      BY <1>0 DEF TypeOK
    <3> QED
      BY <1>7, <3>1 DEF Tick
  <2>2. step' \in [Endpoints -> Steps] /\ \A e \in Endpoints : ~up[e] => step'[e] = "idle"
    BY <1>7 DEF Tick, Steps
  <2> QED
    BY <1>7, <2>1, <2>2 DEF Tick, TypeOK, procVars, netVars, bounds
<1>8. CASE UNCHANGED vars
  BY <1>8 DEF TypeOK, vars, procVars, peerVars, netVars, bounds
<1> QED
  BY <1>1, <1>2, <1>3, <1>4, <1>5, <1>6, <1>7, <1>8, TypeGone
     DEF Next, Progress, Receive, ReceiveLate

(* Every variable keeps its type, and a process that has ended leaves neither a *)
(* peer entry nor a running reactor behind.                                     *)
THEOREM TypeCorrect ==
    Spec => []TypeOK
<1>1. Init => TypeOK
  BY LinkAssumption DEF Init, TypeOK, MaxStarts, States, Steps
<1> QED
  BY <1>1, TypeStep, PTL DEF Spec

(***************************************************************************)
(* No false alarm.  In every period in which an end is Live it is owed two *)
(* signs of life that no one loss can take: what the other reactor sends   *)
(* of itself, and the acknowledgment of this end's own announcement.  So   *)
(* silence of n periods costs 2n faults, less what may still come in the   *)
(* current one.                                                            *)
(***************************************************************************)

Calm       == crashes = 0 /\ stops = 0 /\ faults < Dead
Present(e) == state[e] \notin {"None", "Closed"}

\* The other end's own Handshake or Online is in flight or still to be sent.
Own(e) ==
    \/ \E p \in net : p.to = e /\ p.type \in {"Online", "Handshake"}
    \/ step[Other(e)] = "handshakes"
    \/ step[Other(e)] \in {"heartbeats", "announce"} /\ Live(Other(e))

\* This end's Online, or the acknowledgment of it, is in flight or to be sent.
Echo(e) ==
    \/ step[e] \in {"handshakes", "heartbeats", "announce"}
    \/ \E p \in net : p.to = Other(e) /\ p.type = "Online"
    \/ \E p \in net : p.to = e /\ p.type = "Keep"

Score(b) == IF b THEN 1 ELSE 0

PaidFor(e) == Live(e) => 2 * silent[e] <= faults + Score(Own(e)) + Score(Echo(e))

Healthy ==
    /\ offline = {} /\ leaving = {}
    /\ \A p \in net \cup late : p.type # "Bye" /\ Present(Other(p.to))
    /\ \A e \in Endpoints : Live(e) => Present(Other(e))
    /\ \A e \in Endpoints : state[e] # "Closed" /\ step[e] # "reopen"

CalmInv == Calm => Healthy /\ \A e \in Endpoints : PaidFor(e)

(* Signs of life that stay keep the account. *)
LEMMA AccountKept ==
    ASSUME TypeOK, TypeOK', NEW e \in Endpoints, PaidFor(e), Live(e)' => Live(e), silent'[e] = silent[e],
           \/ faults' >= faults /\ (Own(e) => Own(e)') /\ (Echo(e) => Echo(e)')
           \/ faults' = faults + 1 /\ ((Own(e) => Own(e)') \/ (Echo(e) => Echo(e)'))
    PROVE  PaidFor(e)'
<1>1. faults \in Nat /\ faults' \in Nat /\ silent[e] \in Nat
  BY LinkAssumption DEF TypeOK
<1>2. Score(Own(e)) \in {0, 1} /\ Score(Own(e)') \in {0, 1} /\ ((Own(e) => Own(e)') => Score(Own(e)) <= Score(Own(e)'))
  BY DEF Score
<1>3. Score(Echo(e)) \in {0, 1} /\ Score(Echo(e)') \in {0, 1} /\ ((Echo(e) => Echo(e)') => Score(Echo(e)) <= Score(Echo(e)'))
  BY DEF Score
<1>4. faults + Score(Own(e)) + Score(Echo(e)) <= faults' + Score(Own(e)') + Score(Echo(e)')
  BY <1>1, <1>2, <1>3
<1>5. Live(e)' => 2 * silent[e] <= faults + Score(Own(e)) + Score(Echo(e))
  BY DEF PaidFor
<1>6. Live(e)' => 2 * silent'[e] <= faults' + Score(Own(e)') + Score(Echo(e)')
  BY <1>1, <1>2, <1>3, <1>4, <1>5
<1>7. Score(Own(e))' = Score(Own(e)') /\ Score(Echo(e))' = Score(Echo(e)')
  BY DEF Score
<1> QED
  BY <1>6, <1>7 DEF PaidFor

(* The threads and the application of one end. *)
LEMMA CalmHandling ==
    ASSUME TypeOK, TypeOK', Healthy, \A d \in Endpoints : PaidFor(d),
           NEW e \in Endpoints, NEW p \in net \cup late, HandlePacket(e, p)
    PROVE  Healthy' /\ \A d \in Endpoints : PaidFor(d)'
<1> DEFINE o == Other(e)
<1>1. /\ p.to = e /\ p.type # "Bye" /\ Present(o) /\ silent' = [silent EXCEPT ![e] = 0]
      /\ net' = (net \ {p}) \cup Packets(e, Answer(e, p)) /\ late' = late \ {p}
      /\ UNCHANGED <<procVars, reconnect, step, bounds, offline>>
      /\ p.type = "Online" => "Keep" \in Answer(e, p)
  BY Handling DEF Healthy
<1>2. PICK s \in States \ {"None"} :
          /\ state' = [state EXCEPT ![e] = s] /\ (s = "Closed" => state[e] = "Closed")
          /\ (Live(e) => s \in {"Established", "Online"})
  BY <1>1, Handling
<1>3. /\ o \in Endpoints /\ o # e /\ Other(o) = e /\ (\A d \in Endpoints : d = e \/ d = o)
  BY Ends
<1>4. /\ \A q \in Packets(e, Answer(e, p)) : q.to = o /\ q.type # "Bye"
      /\ p.type = "Online" => \E q \in Packets(e, Answer(e, p)) : q.to = o /\ q.type = "Keep"
  BY <1>1, Handling, Sending
<1> HIDE DEF o
<1>5. state'[e] = s /\ state'[o] = state[o] /\ Present(e)' /\ Present(o)' /\ (Live(o)' <=> Live(o)) /\ (Live(e) => Live(e)')
  <2>1. state'[e] = s /\ state'[o] = state[o]
    BY <1>2, <1>3 DEF TypeOK
  <2>2. s # "Closed"
    BY <1>2 DEF Healthy
  <2> QED
    BY <1>1, <1>2, <2>1, <2>2 DEF Present, Live
<1>6. Healthy'
  <2>1. \A q \in net' \cup late' : q.type # "Bye" /\ Present(Other(q.to))'
    <3>1. ASSUME NEW q \in net' \cup late'
          PROVE  q.type # "Bye" /\ q.to \in Endpoints
      BY <1>1, <1>3, <1>4, <3>1 DEF Healthy, TypeOK, Packet
    <3> QED
      BY <1>3, <1>5, <3>1, Ends
  <2>2. \A d \in Endpoints : Present(Other(d))' /\ state'[d] # "Closed"
    BY <1>3, <1>5, Ends DEF Present
  <2> QED
    BY <1>1, <2>1, <2>2 DEF Healthy, procVars
<1>7. PaidFor(e)'
  <2>1. silent'[e] = 0 /\ faults' \in Nat
    BY <1>1 DEF TypeOK
  <2>2. Score(Own(e))' \in Nat /\ Score(Echo(e))' \in Nat
    BY DEF Score
  <2> QED
    BY <2>1, <2>2 DEF PaidFor
<1>8. PaidFor(o)'
  <2>1. Own(o) => Own(o)'
    <3>1. ASSUME NEW q \in net, q.to = o
          PROVE  q \in net'
      BY <1>1, <1>3, <3>1
    <3> QED
      BY <1>1, <1>3, <1>5, <3>1 DEF Own
  <2>2. Echo(o) => Echo(o)'
    <3>1. ASSUME NEW q \in net, q.to = o, q.type = "Keep"
          PROVE  Echo(o)'
      BY <1>1, <1>3, <3>1 DEF Echo
    <3>2. ASSUME NEW q \in net, q.to = e, q.type = "Online"
          PROVE  Echo(o)'
      BY <1>1, <1>3, <1>4, <3>2 DEF Echo
    <3>3. step' = step
      BY <1>1
    <3> QED
      BY <1>3, <3>1, <3>2, <3>3 DEF Echo
  <2>3. silent'[o] = silent[o] /\ faults' >= faults
    BY <1>1, <1>3 DEF TypeOK, bounds
  <2> QED
    BY <1>3, <1>5, <2>1, <2>2, <2>3, AccountKept
<1> QED
  BY <1>3, <1>6, <1>7, <1>8

LEMMA CalmConnect ==
    ASSUME TypeOK, TypeOK', Healthy, \A d \in Endpoints : PaidFor(d), NEW e \in Endpoints, Connect(e)
    PROVE  Healthy' /\ \A d \in Endpoints : PaidFor(d)'
<1> DEFINE o == Other(e)
<1>1. /\ o \in Endpoints /\ o # e /\ Other(o) = e /\ (\A d \in Endpoints : d = e \/ d = o)
  BY Ends
<1>2. /\ state'[e] = "Handshake" /\ state'[o] = state[o] /\ silent'[o] = silent[o]
      /\ net' = net \cup Packets(e, {"Handshake"})
      /\ UNCHANGED <<procVars, step, late, bounds, offline>>
  BY <1>1 DEF Connect, TypeOK
<1>3. /\ \A q \in Packets(e, {"Handshake"}) : q.to = o /\ q.type = "Handshake"
      /\ \E q \in Packets(e, {"Handshake"}) : q.to = o /\ q.type = "Handshake"
  BY Sending DEF Types
<1> HIDE DEF o
<1>4. Present(e)' /\ ~Live(e)' /\ (Present(o)' <=> Present(o)) /\ (Live(o)' <=> Live(o))
  BY <1>2 DEF Present, Live
<1>5. Healthy'
  <2>1. \A q \in net' \cup late' : q.type # "Bye" /\ Present(Other(q.to))'
    <3>1. ASSUME NEW q \in net \cup late
          PROVE  q.type # "Bye" /\ Present(Other(q.to))'
      <4>1. q.type # "Bye" /\ Present(Other(q.to)) /\ q.to \in Endpoints
        BY DEF Healthy, TypeOK, Packet
      <4> QED
        BY <1>1, <1>4, <4>1, Ends
    <3>2. ASSUME NEW q \in Packets(e, {"Handshake"})
          PROVE  q.type # "Bye" /\ Present(Other(q.to))'
      BY <1>1, <1>3, <1>4
    <3> QED
      BY <1>2, <3>1, <3>2
  <2>2. \A d \in Endpoints : (Live(d)' => Present(Other(d))') /\ state'[d] # "Closed"
    BY <1>1, <1>2, <1>4 DEF Healthy
  <2> QED
    BY <1>2, <2>1, <2>2 DEF Healthy, procVars
<1>6. PaidFor(o)'
  <2>1. Own(o)' /\ (Echo(o) => Echo(o)')
    BY <1>2, <1>3 DEF Own, Echo
  <2>2. faults' >= faults
    BY <1>2 DEF TypeOK, bounds
  <2> QED
    BY <1>1, <1>2, <1>4, <2>1, <2>2, AccountKept
<1> QED
  BY <1>1, <1>4, <1>5, <1>6 DEF PaidFor

\* What a sending step of the reactor does.
Sends(e, to, types) ==
    /\ step' = [step EXCEPT ![e] = to]
    /\ net' = net \cup Packets(e, types)
    /\ UNCHANGED <<procVars, peerVars, late, bounds, offline>>

(* One of the reactor's sending steps: it pays what it owes. *)
LEMMA CalmSends ==
    ASSUME TypeOK, TypeOK', Healthy, \A d \in Endpoints : PaidFor(d), NEW e \in Endpoints,
           NEW to \in Steps \ {"reopen"}, NEW T \in SUBSET {"Handshake", "Keep", "Online"}, Sends(e, to, T),
           T # {} => Present(e),
           Own(Other(e)) /\ Live(Other(e)) => Own(Other(e))', Echo(e) /\ Live(e) => Echo(e)'
    PROVE  Healthy' /\ \A d \in Endpoints : PaidFor(d)'
<1> DEFINE o == Other(e)
<1>1. /\ o \in Endpoints /\ o # e /\ Other(o) = e /\ (\A d \in Endpoints : d = e \/ d = o)
  BY Ends
<1>2. /\ step'[e] = to /\ step'[o] = step[o] /\ state' = state /\ silent' = silent
      /\ net' = net \cup Packets(e, T) /\ UNCHANGED <<procVars, late, bounds, offline>>
  BY <1>1 DEF Sends, TypeOK, peerVars
<1>3. \A q \in Packets(e, T) : q.to = o /\ q.type \in T
  BY Sending DEF Types
<1> HIDE DEF o
<1>4. \A d \in Endpoints : (Present(d)' <=> Present(d)) /\ (Live(d)' <=> Live(d))
  BY <1>2 DEF Present, Live
<1>5. Healthy'
  <2>1. \A q \in net' \cup late' : q.type # "Bye" /\ Present(Other(q.to))'
    <3>1. ASSUME NEW q \in net \cup late
          PROVE  q.type # "Bye" /\ Present(Other(q.to))'
      <4>1. q.type # "Bye" /\ Present(Other(q.to)) /\ q.to \in Endpoints
        BY DEF Healthy, TypeOK, Packet
      <4> QED
        BY <1>4, <4>1, Ends
    <3>2. ASSUME NEW q \in Packets(e, T)
          PROVE  q.type # "Bye" /\ Present(Other(q.to))'
      BY <1>1, <1>3, <1>4
    <3> QED
      BY <1>2, <3>1, <3>2
  <2>2. \A d \in Endpoints : (Live(d)' => Present(Other(d))') /\ state'[d] # "Closed" /\ step'[d] # "reopen"
    BY <1>1, <1>2, <1>4, Ends DEF Healthy
  <2> QED
    BY <1>2, <2>1, <2>2 DEF Healthy, procVars
<1>6. faults' >= faults
  BY <1>2 DEF TypeOK, bounds
<1>7. PaidFor(e)'
  <2>1. Own(e) => Own(e)'
    <3>1. Live(o)' <=> Live(o)
      BY <1>1, <1>4
    <3> QED
      BY <1>2, <3>1 DEF Own, o
  <2>2. CASE Live(e)
    BY <1>2, <1>4, <1>6, <2>1, <2>2, AccountKept
  <2>3. CASE ~Live(e)
    BY <1>4, <2>3 DEF PaidFor
  <2> QED
    BY <2>2, <2>3
<1>8. PaidFor(o)'
  <2>1. Echo(o) => Echo(o)'
    BY <1>1, <1>2 DEF Echo
  <2>2. CASE Live(o)
    BY <1>1, <1>2, <1>4, <1>6, <2>1, <2>2, AccountKept DEF o
  <2>3. CASE ~Live(o)
    BY <1>1, <1>4, <2>3 DEF PaidFor
  <2> QED
    BY <2>2, <2>3
<1> QED
  BY <1>1, <1>5, <1>7, <1>8

LEMMA CalmReactor ==
    ASSUME TypeOK, TypeOK', Calm, Healthy, \A d \in Endpoints : PaidFor(d), Dead > 1,
           NEW e \in Endpoints, Reactor(e)
    PROVE  Healthy' /\ \A d \in Endpoints : PaidFor(d)'
<1> DEFINE o == Other(e)
<1>1. /\ o \in Endpoints /\ o # e /\ Other(o) = e /\ step[e] \in Steps /\ step \in [Endpoints -> Steps]
      /\ state[e] \in States
  BY Ends DEF TypeOK
<1>2. /\ \A T \in SUBSET Types : \A t \in T : \E q \in Packets(e, T) : q.to = o /\ q.type = t
      /\ {"Handshake"} \in SUBSET Types /\ {"Online"} \in SUBSET Types
      /\ "Handshake" \in {"Handshake"} /\ "Online" \in {"Online"}
  BY Sending DEF Types
<1>3. Live(o) => Present(e)
  BY <1>1 DEF Healthy
<1>4. Packets(e, {}) = {}
  BY DEF Packets
<1> HIDE DEF o
<1>5. CASE SendHandshakes(e)
  <2> DEFINE T == IF Retried(e) THEN {"Handshake"} ELSE {}
  <2>1. step[e] = "handshakes" /\ Sends(e, "heartbeats", T)
    BY <1>4, <1>5 DEF SendHandshakes, At, Sends
  <2>2. step'[e] = "heartbeats" /\ state' = state /\ net' = net \cup Packets(e, T)
    BY <1>1, <2>1 DEF Sends, peerVars
  <2>3. Echo(e)'
    BY <2>2 DEF Echo
  <2>4. Live(o) => Own(o)'
    <3>1. CASE Retried(e)
      BY <1>2, <2>2, <3>1 DEF Own
    <3>2. CASE ~Retried(e)
      <4>1. Live(o) => Live(e)'
        BY <1>1, <1>3, <2>2, <3>2 DEF Present, Retried, Live, States
      <4> QED
        BY <1>1, <2>2, <4>1 DEF Own
    <3> QED
      BY <3>1, <3>2
  <2>5. T \in SUBSET {"Handshake", "Keep", "Online"} /\ (T # {} => Present(e)) /\ "heartbeats" \in Steps \ {"reopen"}
    BY DEF Retried, Present, Steps
  <2> HIDE DEF T
  <2> QED
    BY <2>1, <2>3, <2>4, <2>5, CalmSends DEF o
<1>6. CASE SendHeartbeats(e)
  <2> DEFINE T == IF Live(e) THEN {"Keep"} ELSE {}
  <2>1. step[e] = "heartbeats" /\ Sends(e, "announce", T)
    BY <1>4, <1>6 DEF SendHeartbeats, At, Sends
  <2>2. step'[e] = "announce" /\ state' = state /\ net' = net \cup Packets(e, T)
    BY <1>1, <2>1 DEF Sends, peerVars
  <2>3. Echo(e)'
    BY <2>2 DEF Echo
  <2>4. Own(o) => Own(o)'
    BY <1>1, <2>1, <2>2 DEF Own, Live
  <2>5. T \in SUBSET {"Handshake", "Keep", "Online"} /\ (T # {} => Present(e)) /\ "announce" \in Steps \ {"reopen"}
    BY DEF Live, Present, Steps
  <2> HIDE DEF T
  <2> QED
    BY <2>1, <2>3, <2>4, <2>5, CalmSends DEF o
<1>7. CASE SendOnlineAnnouncements(e)
  <2> DEFINE T == IF Live(e) THEN {"Online"} ELSE {}
  <2>1. step[e] = "announce" /\ Sends(e, "offline", T)
    BY <1>4, <1>7 DEF SendOnlineAnnouncements, At, Sends
  <2>2. step'[e] = "offline" /\ state' = state /\ net' = net \cup Packets(e, T)
    BY <1>1, <2>1 DEF Sends, peerVars
  <2>3. Live(e) => \E q \in net' : q.to = o /\ q.type = "Online"
    BY <1>2, <2>2
  <2>4. Live(e) => Echo(e)'
    BY <2>3 DEF Echo, o
  <2>5. Own(o) => Own(o)'
    BY <1>1, <2>1, <2>2, <2>3 DEF Own
  <2>6. T \in SUBSET {"Handshake", "Keep", "Online"} /\ (T # {} => Present(e)) /\ "offline" \in Steps \ {"reopen"}
    BY DEF Live, Present, Steps
  <2> HIDE DEF T
  <2> QED
    BY <2>1, <2>4, <2>5, <2>6, CalmSends DEF o
<1>8. CASE CheckOffline(e)
  <2>1. ~TimedOut(e)
    <3>1. faults \in Nat /\ silent[e] \in Nat /\ Dead \in Nat /\ faults < Dead
      BY LinkAssumption DEF TypeOK, Calm
    <3>2. Score(Own(e)) \in {0, 1} /\ Score(Echo(e)) \in {0, 1}
      BY DEF Score
    <3>3. Live(e) => 2 * silent[e] <= faults + 2
      BY <3>1, <3>2 DEF PaidFor
    <3> QED
      BY <3>1, <3>3 DEF TimedOut
  <2>2. step[e] = "offline" /\ Sends(e, "idle", {})
    BY <1>4, <1>8, <2>1 DEF CheckOffline, At, Sends, netVars, peerVars
  <2>3. step'[e] = "idle" /\ step'[o] = step[o] /\ state' = state /\ net' = net
    BY <1>1, <1>4, <2>2 DEF Sends, peerVars
  <2>4. Echo(e) => Echo(e)'
    BY <2>2, <2>3 DEF Echo
  <2>5. Own(o) => Own(o)'
    BY <1>1, <2>2, <2>3 DEF Own
  <2>6. {} \in SUBSET {"Handshake", "Keep", "Online"} /\ "idle" \in Steps \ {"reopen"}
    BY DEF Steps
  <2> QED
    BY <2>2, <2>4, <2>5, <2>6, CalmSends DEF o
<1>9. CASE Reopen(e)
  BY <1>9 DEF Reopen, At, Healthy
<1> QED
  BY <1>5, <1>6, <1>7, <1>8, <1>9 DEF Reactor

LEMMA CalmTick ==
    ASSUME TypeOK, TypeOK', Healthy, \A d \in Endpoints : PaidFor(d), Tick
    PROVE  Healthy' /\ \A d \in Endpoints : PaidFor(d)'
<1>1. /\ net = {} /\ \A e \in Endpoints : step[e] = "idle"
      /\ \A e \in Endpoints : step'[e] = IF up[e] THEN "handshakes" ELSE "idle"
      /\ \A e \in Endpoints : silent'[e] = IF silent[e] < Dead THEN silent[e] + 1 ELSE Dead
      /\ UNCHANGED <<procVars, state, reconnect, key, netVars, bounds, offline>>
  BY DEF Tick
<1>2. Healthy'
  <2>1. \A d \in Endpoints : (Present(d)' <=> Present(d)) /\ (Live(d)' <=> Live(d))
    BY <1>1 DEF Present, Live
  <2>2. ASSUME NEW q \in net' \cup late'
        PROVE  q.type # "Bye" /\ Present(Other(q.to))'
    <3>1. q \in net \cup late /\ q \in Packet
      BY <1>1, <2>2 DEF netVars, TypeOK
    <3>2. q.type # "Bye" /\ Present(Other(q.to)) /\ q.to \in Endpoints
      BY <3>1 DEF Healthy, Packet
    <3> QED
      BY <2>1, <3>2, Ends
  <2>3. \A d \in Endpoints : (Live(d)' => Present(Other(d))') /\ state'[d] # "Closed" /\ step'[d] # "reopen"
    BY <1>1, <2>1, Ends DEF Healthy
  <2> QED
    BY <1>1, <2>2, <2>3 DEF Healthy, procVars
<1>3. ASSUME NEW e \in Endpoints, Live(e)'
      PROVE  2 * silent'[e] <= faults' + Score(Own(e))' + Score(Echo(e))'
  <2> DEFINE o == Other(e)
  <2>1. o \in Endpoints /\ Live(e) /\ Present(o)
    BY <1>1, <1>3, Ends DEF Live, Healthy
  <2>2. up[e] /\ up[o]
    BY <2>1 DEF TypeOK, Live, Present
  <2>3. step'[e] = "handshakes" /\ step'[o] = "handshakes"
    BY <1>1, <2>1, <2>2
  <2>4. Own(e)' /\ Echo(e)'
    BY <2>3 DEF Own, Echo
  <2>5. ~Own(e) /\ ~Echo(e)
    <3>1. step[e] = "idle" /\ step[o] = "idle" /\ net = {}
      BY <1>1, <2>1
    <3> QED
      BY <3>1 DEF Own, Echo
  <2>6. Score(Own(e))' = 1 /\ Score(Echo(e))' = 1
    BY <2>4 DEF Score
  <2>7. Score(Own(e)) = 0 /\ Score(Echo(e)) = 0
    BY <2>5 DEF Score
  <2>8. 2 * silent[e] <= faults
    <3>1. 2 * silent[e] <= faults + 0 + 0
      BY <2>1, <2>7 DEF PaidFor
    <3> QED
      BY <3>1 DEF TypeOK
  <2>9. /\ faults' = faults /\ faults \in Nat /\ silent[e] \in 0..Dead /\ Dead \in Nat
        /\ silent'[e] = IF silent[e] < Dead THEN silent[e] + 1 ELSE Dead
    BY <1>1, LinkAssumption DEF bounds, TypeOK
  <2> QED
    BY <2>6, <2>8, <2>9
<1> QED
  BY <1>2, <1>3 DEF PaidFor

LEMMA CalmNetwork ==
    ASSUME TypeOK, TypeOK', Healthy, \A d \in Endpoints : PaidFor(d), Unheard \/ Lose \/ HoldBack
    PROVE  Healthy' /\ \A d \in Endpoints : PaidFor(d)'
<1>1. UNCHANGED <<procVars, peerVars, step, offline>> /\ net' \subseteq net /\ late' \subseteq net \cup late
  BY DEF Unheard, Lose, HoldBack
<1>2. \A d \in Endpoints : (Present(d)' <=> Present(d)) /\ (Live(d)' <=> Live(d)) /\ silent'[d] = silent[d]
  BY <1>1 DEF Present, Live, peerVars
<1>3. Healthy'
  <2>1. ASSUME NEW q \in net' \cup late'
        PROVE  q.type # "Bye" /\ Present(Other(q.to))'
    <3>1. q \in net \cup late /\ q \in Packet
      BY <1>1, <2>1 DEF TypeOK
    <3>2. q.type # "Bye" /\ Present(Other(q.to)) /\ q.to \in Endpoints
      BY <3>1 DEF Healthy, Packet
    <3> QED
      BY <1>2, <3>2, Ends
  <2>2. \A d \in Endpoints : (Live(d)' => Present(Other(d))') /\ state'[d] # "Closed" /\ step'[d] # "reopen"
    BY <1>1, <1>2, Ends DEF Healthy, peerVars
  <2> QED
    BY <1>1, <2>1, <2>2 DEF Healthy, procVars
<1>4. ASSUME NEW e \in Endpoints
      PROVE  PaidFor(e)'
  <2>0. faults \in Nat /\ step' = step
    BY <1>1 DEF TypeOK
  \* Of the two signs of life a loss takes at most one.
  <2>1. CASE Lose
    <3>1. PICK p \in net : net' = net \ {p}
      BY <2>1 DEF Lose
    <3>2. CASE p.to = e /\ p.type \in {"Online", "Handshake"}
      <4>1. Echo(e) => Echo(e)'
        <5>1. \A q \in net : (q.to = Other(e) \/ q.type = "Keep") => q \in net'
          BY <3>1, <3>2, Ends
        <5> QED
          BY <2>0, <5>1 DEF Echo
      <4> QED
        BY <1>2, <2>1, <4>1, AccountKept DEF Lose
    <3>3. CASE ~(p.to = e /\ p.type \in {"Online", "Handshake"})
      <4>1. Own(e) => Own(e)'
        <5>1. \A q \in net : q.to = e /\ q.type \in {"Online", "Handshake"} => q \in net'
          BY <3>1, <3>3
        <5>2. Live(Other(e))' <=> Live(Other(e))
          BY <1>2, Ends
        <5> QED
          BY <2>0, <5>1, <5>2 DEF Own
      <4> QED
        BY <1>2, <2>1, <4>1, AccountKept DEF Lose
    <3> QED
      BY <3>2, <3>3
  <2>2. CASE HoldBack
    <3>1. (Own(e) => Own(e)') /\ (Echo(e) => Echo(e)')
      <4>1. net' = net /\ (Live(Other(e))' <=> Live(Other(e)))
        BY <1>2, <2>2, Ends DEF HoldBack
      <4> QED
        BY <2>0, <4>1 DEF Own, Echo
    <3>2. faults' >= faults
      BY <2>0, <2>2 DEF HoldBack
    <3> QED
      BY <1>2, <3>1, <3>2, AccountKept
  <2>3. CASE Unheard
    <3>1. PICK p \in net \cup late : ~up[p.to]
      BY <2>3 DEF Unheard
    <3>2. p.to \in Endpoints /\ state[p.to] = "None"
      BY <3>1 DEF TypeOK, Packet
    <3>3. ~Live(e)
      <4>1. CASE p.to = e
        BY <3>2, <4>1 DEF Live
      <4>2. CASE p.to = Other(e)
        BY <3>2, <4>2 DEF Healthy, Present
      <4> QED
        BY <3>2, <4>1, <4>2, Ends
    <3> QED
      BY <1>2, <3>3 DEF PaidFor
  <2> QED
    BY <2>1, <2>2, <2>3
<1> QED
  BY <1>3, <1>4

LEMMA CalmStart ==
    ASSUME TypeOK, TypeOK', Healthy, \A d \in Endpoints : PaidFor(d), NEW e \in Endpoints, Start(e)
    PROVE  Healthy' /\ \A d \in Endpoints : PaidFor(d)'
<1>1. state[e] = "None" /\ UNCHANGED <<leaving, peerVars, netVars, bounds, offline>> /\ step' = [step EXCEPT ![e] = "handshakes"]
  BY DEF Start, TypeOK
<1>2. \A d \in Endpoints : (Present(d)' <=> Present(d)) /\ (Live(d)' <=> Live(d))
  BY <1>1 DEF Present, Live, peerVars
<1>3. \A d \in Endpoints : ~Live(d)
  <2>1. ~Live(e) /\ ~Live(Other(e))
    BY <1>1, Ends DEF Healthy, Present, Live
  <2> QED
    BY <2>1, Ends
<1>4. Healthy'
  <2>1. ASSUME NEW q \in net' \cup late'
        PROVE  q.type # "Bye" /\ Present(Other(q.to))'
    <3>1. q \in net \cup late /\ q \in Packet
      BY <1>1, <2>1 DEF netVars, TypeOK
    <3>2. q.type # "Bye" /\ Present(Other(q.to)) /\ q.to \in Endpoints
      BY <3>1 DEF Healthy, Packet
    <3> QED
      BY <1>2, <3>2, Ends
  <2>2. \A d \in Endpoints : (Live(d)' => Present(Other(d))') /\ state'[d] # "Closed" /\ step'[d] # "reopen"
    <3>1. state' = state /\ \A d \in Endpoints : step'[d] = IF d = e THEN "handshakes" ELSE step[d]
      BY <1>1 DEF peerVars, TypeOK
    <3> QED
      BY <1>2, <1>3, <3>1 DEF Healthy
  <2> QED
    BY <1>1, <2>1, <2>2 DEF Healthy
<1> QED
  BY <1>2, <1>3, <1>4 DEF PaidFor

LEMMA CalmStep ==
    ASSUME Dead > 1, TypeOK, TypeOK', CalmInv, [Next]_vars
    PROVE  CalmInv'
<1> SUFFICES ASSUME Calm'
             PROVE  Healthy' /\ \A d \in Endpoints : PaidFor(d)'
  BY DEF CalmInv
<1>1. /\ \A e \in Endpoints : ~Crash(e) /\ ~SendByes(e)
      /\ \/ UNCHANGED bounds
         \/ faults' = faults + 1 /\ UNCHANGED <<crashes, stops>>
  <2>0. faults \in Nat /\ crashes \in Nat /\ stops \in Nat /\ crashes' = 0 /\ stops' = 0
    BY DEF TypeOK, Calm
  <2>1. \A e \in Endpoints : ~Crash(e) /\ ~SendByes(e)
    BY <2>0 DEF Crash, SendByes
  <2>2. CASE Lose \/ HoldBack
    BY <2>1, <2>2 DEF Lose, HoldBack
  <2>3. CASE ~Lose /\ ~HoldBack
    BY <2>1, <2>3 DEF Next, Progress, Start, Connect, ReceiveLate, Receive, HandlePacket, StopThreads, Unheard, Tick,
           Reactor, SendHandshakes, SendHeartbeats, SendOnlineAnnouncements, CheckOffline, Reopen, vars, bounds
  <2> QED
    BY <2>1, <2>2, <2>3
<1>2. Calm
  BY <1>1, LinkAssumption DEF Calm, bounds, TypeOK
<1>3. Healthy /\ \A d \in Endpoints : PaidFor(d)
  BY <1>2 DEF CalmInv
<1>4. \A e \in Endpoints : ~StopThreads(e)
  BY <1>3 DEF Healthy, StopThreads
<1>5. CASE UNCHANGED vars
  <2>1. Healthy'
    BY <1>3, <1>5 DEF Healthy, Present, Live, vars, procVars, peerVars, netVars
  <2>2. ASSUME NEW e \in Endpoints
        PROVE  PaidFor(e)'
    <3>1. /\ net' = net /\ step' = step /\ state' = state /\ silent' = silent /\ faults' >= faults
      BY <1>5 DEF vars, peerVars, netVars, bounds, TypeOK
    <3>2. (Live(e)' <=> Live(e)) /\ (Own(e)' <=> Own(e)) /\ (Echo(e)' <=> Echo(e))
      BY <3>1 DEF Own, Echo, Live
    <3> QED
      BY <1>3, <3>1, <3>2, AccountKept
  <2> QED
    BY <2>1, <2>2
<1>6. ASSUME NEW e \in Endpoints, NEW p \in net \cup late, HandlePacket(e, p)
      PROVE  Healthy' /\ \A d \in Endpoints : PaidFor(d)'
  BY <1>3, <1>6, CalmHandling
<1>7. ASSUME NEW e \in Endpoints, Start(e) \/ Connect(e) \/ Reactor(e)
      PROVE  Healthy' /\ \A d \in Endpoints : PaidFor(d)'
  BY <1>2, <1>3, <1>7, CalmStart, CalmConnect, CalmReactor
<1>8. CASE Tick \/ Unheard \/ Lose \/ HoldBack
  BY <1>3, <1>8, CalmTick, CalmNetwork
<1> QED
  BY <1>1, <1>4, <1>5, <1>6, <1>7, <1>8 DEF Next, Progress, Receive, ReceiveLate

(* A link whose two processes run is not declared dead, whoever connects and    *)
(* whenever, as long as fewer datagrams are lost or held back than dead_timeout *)
(* has heartbeat periods; dead_timeout must be longer than one period, or the   *)
(* reactor that checks first finds the other's heartbeat missing.               *)
THEOREM LinkSurvivesLosses ==
    ASSUME Dead > 1
    PROVE  Spec => []NoFalseAlarm
<1>1. ASSUME Init
      PROVE  CalmInv
  <2>1. /\ offline = {} /\ leaving = {} /\ net \cup late = {}
        /\ \A e \in Endpoints : state[e] = "None" /\ step[e] = "idle"
    BY <1>1 DEF Init
  <2>2. \A e \in Endpoints : ~Live(e)
    BY <2>1 DEF Live
  <2> QED
    BY <2>1, <2>2 DEF CalmInv, Healthy, PaidFor
<1>2. CalmInv => NoFalseAlarm
  BY DEF CalmInv, NoFalseAlarm, Calm, Healthy
<1>3. TypeOK /\ TypeOK' /\ CalmInv /\ [Next]_vars => CalmInv'
  BY CalmStep
<1> QED
  BY <1>1, <1>2, <1>3, TypeCorrect, PTL DEF Spec
=============================================================================
