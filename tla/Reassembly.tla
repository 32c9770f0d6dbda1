----------------------------- MODULE Reassembly -----------------------------
(***************************************************************************)
(* The receiving side of fragmented messages: Reassembler::handle and      *)
(* try_assemble on the threads that handle packets, and the part of        *)
(* check_offline, on the reactor, that throws old entries away.  What      *)
(* Reassembler::handle does with sequence numbers is in module Arq.        *)
(*                                                                         *)
(* Packets are handled by one thread, the receiver or the reactor, but     *)
(* while set_lite_mode(true) switches to the Audio profile the reactor     *)
(* already drains the socket and the receiver still runs: two threads are  *)
(* then in Reassembler::handle for the same peer.                          *)
(*                                                                         *)
(* A message has Data data fragments and parity parity fragments.          *)
(* As many parity fragments as there are data fragments missing recover    *)
(* them: with more than three parities that is not so (module Fec), hence  *)
(* the assumption.  A sender that is restarted numbers its messages from   *)
(* the beginning again; its incarnation is the epoch of a message, which   *)
(* the receiver cannot see.  Time is counted in ticks.                     *)
(***************************************************************************)
EXTENDS Integers, FiniteSets

CONSTANTS
    Handlers,       \* threads that may be in Reassembler::handle
    Data,           \* data fragments of a message
    Parities,       \* numbers of parity fragments a message may have
    Window,         \* loss_wait
    Horizon,        \* ticks within which a fragment, or the last of its
                    \* retransmissions, arrives or is lost
    DeadTimeout,    \* dead_timeout
    MaxMsg,         \* bound: messages of one incarnation of the sender
    MaxEpochs,      \* bound: incarnations of the sender
    MaxTrouble      \* bound: fragments lost, duplicated or retransmitted, and
                    \* restarts, which count double

ASSUME ReassemblyAssumption ==
    /\ Data \in Nat \ {0} /\ Data < 256 /\ Parities \subseteq 0..3 /\ \A p \in Parities : p <= Data
    /\ Window \in Nat /\ Horizon \in Nat /\ DeadTimeout \in Nat \ {0}
    /\ MaxMsg \in Nat \ {0} /\ MaxEpochs \in Nat \ {0}
    /\ MaxTrouble \in Nat

Msgs     == 1..MaxMsg
Epochs   == 1..MaxEpochs
Indices  == 1..(2 * Data)
Fragment == [ep : Epochs, msg : Msgs, idx : Indices]
NoJob    == [ep |-> 0, msg |-> 0, idx |-> 0]
Absent   == -1

VARIABLES
    parity,      \* parity fragments of a message
    epoch,       \* incarnation of the sender
    sent,        \* messages sent in it (m_msg_id_out)
    sentAge,     \* ticks since each message was sent
    net,         \* fragments in flight
    faults, again,
    entry,       \* m_incoming: "none", "raw" (made by operator[]), "open"
    got,         \* m_fragments of an open entry: the epoch of each, 0 if missing
    age,         \* ticks since m_first_seen
    completed,   \* m_completed: ticks since the message was finished, or Absent
    stage, job,  \* what each handler is doing, and with which fragment
    \* history, for the properties only
    delivered,   \* deliveries of each message
    lost,        \* loss callbacks for each message
    disturbed,   \* an entry has expired while a handler was at work on its message
    shared       \* messages two handlers have worked on at the same time

netVars  == <<parity, epoch, sent, sentAge, net, faults, again>>
recvVars == <<entry, got, age, completed>>
histVars == <<delivered, lost, disturbed, shared>>
vars     == <<netVars, recvVars, stage, job, histVars>>

NoFragments == [i \in Indices |-> 0]

Init ==
    /\ parity \in Parities /\ epoch = 1 /\ sent = 0 /\ sentAge = [e \in Epochs |-> [m \in Msgs |-> 0]]
    /\ net = {} /\ faults = 0 /\ again = 0
    /\ entry = [m \in Msgs |-> "none"] /\ got = [m \in Msgs |-> NoFragments]
    /\ age = [m \in Msgs |-> 0] /\ completed = [m \in Msgs |-> Absent]
    /\ stage = [h \in Handlers |-> "idle"] /\ job = [h \in Handlers |-> NoJob]
    /\ delivered = [e \in Epochs |-> [m \in Msgs |-> 0]]
    /\ lost = [e \in Epochs |-> [m \in Msgs |-> 0]]
    /\ disturbed = FALSE /\ shared = {}

-----------------------------------------------------------------------------
(* Sender and network *)

Trouble == faults + again + 2 * (epoch - 1)

\* Fragmenter::fragment_and_send
Send ==
    /\ sent < MaxMsg
    /\ sent' = sent + 1
    /\ net' = net \cup {[ep |-> epoch, msg |-> sent + 1, idx |-> i] : i \in 1..(Data + parity)}
    /\ UNCHANGED <<parity, epoch, sentAge, faults, again, recvVars, stage, job, histVars>>

Restart ==
    /\ epoch < MaxEpochs /\ Trouble + 2 <= MaxTrouble
    /\ epoch' = epoch + 1 /\ sent' = 0
    /\ UNCHANGED <<parity, sentAge, net, faults, again, recvVars, stage, job, histVars>>

\* A retransmission: parity fragments carry no number and are sent once.
Resend ==
    /\ Trouble < MaxTrouble
    /\ again' = again + 1
    /\ \E m \in 1..sent, i \in 1..Data :
        /\ sentAge[epoch][m] < Horizon
        /\ net' = net \cup {[ep |-> epoch, msg |-> m, idx |-> i]}
    /\ UNCHANGED <<parity, epoch, sent, sentAge, faults, recvVars, stage, job, histVars>>

Lose ==
    /\ Trouble < MaxTrouble
    /\ faults' = faults + 1
    /\ \E f \in net : net' = net \ {f}
    /\ UNCHANGED <<parity, epoch, sent, sentAge, again, recvVars, stage, job, histVars>>

-----------------------------------------------------------------------------
(* A handler: Reassembler::handle, one step per critical section *)

Finished(m) == completed[m] # Absent

\* A fragment of a finished message is dropped.
Reject(h) ==
    /\ stage[h] = "idle"
    /\ \E f \in net : Finished(f.msg) /\ net' = net \ {f}
    /\ UNCHANGED <<parity, epoch, sent, sentAge, faults, again, recvVars, stage, job, histVars>>

WorksOn(h, m) == stage[h] # "idle" /\ job[h].msg = m

\* Under the lock: the message is not finished yet.
Take(h) ==
    /\ stage[h] = "idle"
    /\ \E f \in net :
        /\ ~Finished(f.msg)
        /\ net' = net \ {f}
        /\ job' = [job EXCEPT ![h] = f]
        /\ shared' = shared \cup {m \in {f.msg} : \E g \in Handlers : WorksOn(g, m)}
    /\ stage' = [stage EXCEPT ![h] = "checked"]
    /\ UNCHANGED <<parity, epoch, sent, sentAge, faults, again, recvVars, delivered, lost, disturbed>>

\* operator[] finds or makes the entry, without the lock.
Lookup(h) ==
    /\ stage[h] = "checked"
    /\ stage' = [stage EXCEPT ![h] = "found"]
    /\ entry' = [entry EXCEPT ![job[h].msg] = IF @ = "none" THEN "raw" ELSE @]
    /\ UNCHANGED <<netVars, got, age, completed, job, histVars>>

\* Under the lock: fill in a new entry, store the fragment unless it is there.
Store(h) ==
    LET m == job[h].msg IN
    /\ stage[h] = "found"
    /\ stage' = [stage EXCEPT ![h] = "stored"]
    /\ entry' = [entry EXCEPT ![m] = "open"]
    /\ got' = [got EXCEPT ![m][job[h].idx] = IF @ = 0 THEN job[h].ep ELSE @]
    /\ age' = [age EXCEPT ![m] = IF entry[m] = "raw" THEN 0 ELSE @]
    /\ UNCHANGED <<netVars, completed, job, histVars>>

MissingData(m) == Cardinality({i \in 1..Data : got[m][i] = 0})
HaveParity(m)  == Cardinality({i \in (Data + 1)..(Data + parity) : got[m][i] # 0})

\* Mutant: one parity fragment more than needed is asked for.
Recoverable_Strict(m) == MissingData(m) = 0 \/ MissingData(m) < HaveParity(m)

Recoverable(m) == MissingData(m) <= HaveParity(m)

\* More is missing than there are parity fragments, whether they came or not.
Hopeless(m) == MissingData(m) > parity

\* The message is delivered (and is a whole only if all of it is of one epoch).
Deliver(h, m) ==
    /\ Recoverable(m)
    /\ delivered' = [e \in Epochs |->
            [delivered[e] EXCEPT ![m] = IF \E i \in Indices : got[m][i] = e THEN @ + 1 ELSE @]]
    /\ stage' = [stage EXCEPT ![h] = "finish"]
    /\ UNCHANGED <<lost, job>>

Overdue(m) == age[m] >= Window

DeclareLost(h, m) ==
    /\ Hopeless(m) /\ Overdue(m)
    /\ lost' = [lost EXCEPT ![job[h].ep][m] = @ + 1]
    /\ stage' = [stage EXCEPT ![h] = "finish"]
    /\ UNCHANGED <<delivered, job>>

KeepWaiting(h, m) ==
    /\ ~Recoverable(m) /\ ~(Hopeless(m) /\ Overdue(m))
    /\ stage' = [stage EXCEPT ![h] = "idle"] /\ job' = [job EXCEPT ![h] = NoJob]
    /\ UNCHANGED <<delivered, lost>>

\* try_assemble, without the lock.
TryAssemble(h) ==
    LET m == job[h].msg IN
    /\ stage[h] = "stored"
    /\ Deliver(h, m) \/ DeclareLost(h, m) \/ KeepWaiting(h, m)
    /\ UNCHANGED <<netVars, recvVars, disturbed, shared>>

\* The reference a handler got from operator[] when entries are erased.
Erased(g, gone) ==
    IF stage[g] \in {"found", "stored"} /\ job[g].msg \in gone THEN "erased" ELSE stage[g]

\* The handler uses a reference to an entry that is no longer there; what that
\* gives is undefined, here the fragment disappears.
UseErased(h) ==
    /\ stage[h] = "erased"
    /\ stage' = [stage EXCEPT ![h] = "idle"] /\ job' = [job EXCEPT ![h] = NoJob]
    /\ UNCHANGED <<netVars, recvVars, histVars>>

\* Mutant: the entry is recycled without clearing its fragments.
Finish_Recycled(h) ==
    LET m == job[h].msg IN
    /\ stage[h] = "finish"
    /\ completed' = [completed EXCEPT ![m] = 0]
    /\ entry' = [entry EXCEPT ![m] = "none"]
    /\ age' = [age EXCEPT ![m] = 0]
    /\ stage' = [g \in Handlers |-> IF g = h THEN "idle" ELSE Erased(g, {m})]
    /\ job' = [job EXCEPT ![h] = NoJob]
    /\ UNCHANGED <<netVars, got, histVars>>

\* Under the lock again: remember the message and erase the entry.
Finish(h) ==
    LET m == job[h].msg IN
    /\ stage[h] = "finish"
    /\ completed' = [completed EXCEPT ![m] = 0]
    /\ entry' = [entry EXCEPT ![m] = "none"]
    /\ got' = [got EXCEPT ![m] = NoFragments]
    /\ age' = [age EXCEPT ![m] = 0]
    /\ stage' = [g \in Handlers |-> IF g = h THEN "idle" ELSE Erased(g, {m})]
    /\ job' = [job EXCEPT ![h] = NoJob]
    /\ UNCHANGED <<netVars, histVars>>

-----------------------------------------------------------------------------
(* The reactor *)

\* Mutant: only the memory of finished messages is purged.
Expired_Never(m) == FALSE

\* m_first_seen of a raw entry is the clock's epoch, which is long ago.
Expired(m) == entry[m] = "raw" \/ (entry[m] = "open" /\ age[m] >= DeadTimeout)

Forgotten(m) == completed[m] >= DeadTimeout

CheckOffline ==
    /\ \E m \in Msgs : Expired(m) \/ Forgotten(m)
    /\ entry' = [m \in Msgs |-> IF Expired(m) THEN "none" ELSE entry[m]]
    /\ got' = [m \in Msgs |-> IF Expired(m) THEN NoFragments ELSE got[m]]
    /\ age' = [m \in Msgs |-> IF Expired(m) THEN 0 ELSE age[m]]
    /\ completed' = [m \in Msgs |-> IF Forgotten(m) THEN Absent ELSE completed[m]]
    /\ stage' = [h \in Handlers |-> Erased(h, {m \in Msgs : Expired(m)})]
    /\ disturbed' = (disturbed \/ \E h \in Handlers, m \in Msgs : WorksOn(h, m) /\ Expired(m))
    /\ UNCHANGED <<netVars, job, delivered, lost, shared>>

Older(n, cap) == IF n < cap THEN n + 1 ELSE n

Tick ==
    /\ \A f \in net : sentAge[f.ep][f.msg] < Horizon
    /\ sentAge' = [e \in Epochs |-> [m \in Msgs |->
            IF e < epoch \/ (e = epoch /\ m <= sent) THEN Older(sentAge[e][m], Horizon)
            ELSE sentAge[e][m]]]
    /\ age' = [m \in Msgs |->
            IF entry[m] = "open" THEN Older(age[m], DeadTimeout) ELSE age[m]]
    /\ completed' = [m \in Msgs |->
            IF completed[m] = Absent THEN Absent ELSE Older(completed[m], DeadTimeout)]
    /\ UNCHANGED <<parity, epoch, sent, net, faults, again, entry, got, stage, job, histVars>>

Handle(h) ==
    Reject(h) \/ Take(h) \/ Lookup(h) \/ Store(h) \/ TryAssemble(h) \/ UseErased(h) \/ Finish(h)

Next ==
    \/ Send \/ Restart \/ Resend \/ Lose
    \/ \E h \in Handlers : Handle(h)
    \/ CheckOffline \/ Tick

Spec == Init /\ [][Next]_vars

(* The threads run and time passes. *)
FairSpec ==
    Spec /\ (\A h \in Handlers : WF_vars(Handle(h))) /\ WF_vars(CheckOffline) /\ WF_vars(Tick)

-----------------------------------------------------------------------------
(* Properties *)

\* Every variable keeps its type, and only an open entry holds fragments.
TypeOK ==
    /\ epoch \in Epochs /\ sent \in 0..MaxMsg
    /\ sentAge \in [Epochs -> [Msgs -> 0..Horizon]]
    /\ net \subseteq Fragment /\ faults \in Nat /\ again \in Nat
    /\ entry \in [Msgs -> {"none", "raw", "open"}]
    /\ got \in [Msgs -> [Indices -> 0..MaxEpochs]]
    /\ age \in [Msgs -> 0..DeadTimeout]
    /\ completed \in [Msgs -> {Absent} \cup 0..DeadTimeout]
    /\ stage \in [Handlers -> {"idle", "checked", "found", "stored", "erased", "finish"}]
    /\ job \in [Handlers -> Fragment \cup {NoJob}]
    /\ delivered \in [Epochs -> [Msgs -> Nat]] /\ lost \in [Epochs -> [Msgs -> Nat]]
    /\ parity \in Parities /\ disturbed \in BOOLEAN /\ shared \subseteq Msgs
    /\ \A m \in Msgs : entry[m] # "open" => got[m] = NoFragments

\* One outcome per message: it is delivered once or announced as lost once,
\* never both and never twice, as long as retransmissions and the network give
\* up a fragment before dead_timeout (m_completed against late fragments), and
\* two handlers have not worked on the message at the same time: nothing keeps
\* both from putting it together, nor the later one from making a new entry for
\* a message that the other has just finished.
OneOutcome ==
    \A e \in Epochs, m \in Msgs \ shared : delivered[e][m] + lost[e][m] <= 1

\* Nothing that could be put together is left waiting: an open entry that no
\* handler works on lacks more data fragments than it has parity fragments, also
\* when several handlers store fragments (try_assemble on every fragment).
NothingRecoverableWaits ==
    \A m \in Msgs : entry[m] = "open" /\ (\A h \in Handlers : ~WorksOn(h, m)) =>
        MissingData(m) > HaveParity(m)

\* No false alarm: when the window outlasts the time within which fragments
\* arrive, and none is lost, no message is announced as lost, in whatever order
\* fragments and retransmissions come (loss_wait in Reassembler::handle), from
\* a sender that was not restarted, unless an entry expires under the hands of a
\* handler.
NoFalseLoss ==
    (Window > Horizon /\ faults = 0 /\ ~disturbed /\ epoch = 1) =>
        \A e \in Epochs, m \in Msgs \ shared : lost[e][m] = 0

\* Every message meets the end it should: one outcome, at the earliest moment,
\* and no loss that need not be.
OutcomesRight == OneOutcome /\ NothingRecoverableWaits /\ NoFalseLoss

\* No entry stays for ever, whatever fragments were lost (check_offline).
EntriesLeave == \A m \in Msgs : (entry[m] # "none") ~> (entry[m] = "none")
=============================================================================
