-------------------------- MODULE ReassemblyProofs --------------------------
(***************************************************************************)
(* What Reassembly guarantees, for messages of any size, any number of     *)
(* messages, incarnations, losses and retransmissions.                     *)
(***************************************************************************)
EXTENDS Reassembly, FiniteSetTheorems, TLAPS

(***************************************************************************)
(* The inductive invariant.                                                *)
(***************************************************************************)

\* A handler has a fragment exactly when it is busy.
JobInv == \A h \in Handlers : IF stage[h] = "idle" THEN job[h] = NoJob ELSE job[h] \in Fragment

TypeInv == TypeOK /\ JobInv

\* That incarnation has sent the message.
Known(e, m) == e < epoch \/ (e = epoch /\ m <= sent)

\* What is on the way or was received has been sent.
SentInv ==
    /\ \A f \in net : Known(f.ep, f.msg)
    /\ \A h \in Handlers : stage[h] # "idle" => Known(job[h].ep, job[h].msg)
    /\ \A m \in Msgs, i \in Indices : got[m][i] # 0 => Known(got[m][i], m)
    /\ \A m \in Msgs : entry[m] = "open" => Known(1, m)

\* A handler's reference is one to the entry that is there; an entry is raw only
\* between operator[] and the lock.
HeldInv ==
    /\ \A h \in Handlers : stage[h] = "found" => entry[job[h].msg] # "none"
    /\ \A h \in Handlers : stage[h] = "stored" =>
            entry[job[h].msg] = "open" /\ got[job[h].msg][job[h].idx] # 0
    /\ \A m \in Msgs : entry[m] = "raw" =>
            \E h \in Handlers : stage[h] = "found" /\ job[h].msg = m

\* A message that is not shared has one handler at a time, and when it is finished
\* neither a handler nor an entry.
AloneInv ==
    \A m \in Msgs \ shared :
        /\ \A g, h \in Handlers : WorksOn(g, m) /\ WorksOn(h, m) => g = h
        /\ \A h \in Handlers : WorksOn(h, m) => ~Finished(m)
        /\ Finished(m) => entry[m] = "none"

\* No fragment of the message, as that incarnation sent it, is on its way.
Silent(e, m) == \A f \in net : ~(f.ep = e /\ f.msg = m)

\* None is left anywhere, and none will be sent again.
Over(e, m) ==
    /\ sentAge[e][m] = Horizon /\ Silent(e, m)
    /\ \A h \in Handlers : WorksOn(h, m) => job[h].ep # e
    /\ \A i \in Indices : got[m][i] # e

\* Time passes for the sender when it passes for the receiver.
Keeps(t, e, m) ==
    /\ t <= sentAge[e][m] \/ sentAge[e][m] = Horizon
    /\ t > Horizon => Silent(e, m)

\* A handler is about to note that the message is finished.
Finishing(m) == \E h \in Handlers : stage[h] = "finish" /\ job[h].msg = m

\* A message that had its outcome is remembered until nothing of it is left.
OutcomeInv ==
    \A e \in Epochs, m \in Msgs \ shared :
        /\ delivered[e][m] + lost[e][m] <= 1
        /\ delivered[e][m] + lost[e][m] = 1 =>
            /\ Known(e, m)
            /\ \/ Finishing(m)
               \/ Finished(m) /\ Keeps(completed[m], e, m)
               \/ ~Finished(m) /\ Over(e, m)

\* An entry that could be put together is being put together.
WaitInv ==
    \A m \in Msgs : entry[m] = "open" =>
        \/ \E h \in Handlers : stage[h] \in {"stored", "finish"} /\ job[h].msg = m
        \/ MissingData(m) > HaveParity(m)

\* Fragments of the only incarnation are not older than their entry.
TimelyInv == epoch = 1 => \A m \in Msgs : entry[m] = "open" => Keeps(age[m], 1, m)

DataFragment(m, i) == [ep |-> 1, msg |-> m, idx |-> i]

\* Where a data fragment is that is not lost.
Kept(m, i) ==
    \/ DataFragment(m, i) \in net
    \/ got[m][i] # 0
    \/ \E h \in Handlers : stage[h] \in {"checked", "found"} /\ job[h] = DataFragment(m, i)

\* Without losses, a message is whole or delivered.
Undisturbed == Window > Horizon /\ epoch = 1 /\ faults = 0 /\ ~disturbed

Whole(m) ==
    /\ m <= sent => delivered[1][m] >= 1 \/ \A i \in 1..Data : Kept(m, i)
    /\ Finished(m) => delivered[1][m] >= 1
    /\ Finishing(m) => delivered[1][m] >= 1
    /\ \A e \in Epochs : lost[e][m] = 0

WholeInv == Undisturbed => \A m \in Msgs \ shared : Whole(m)

Inv == SentInv /\ HeldInv /\ AloneInv /\ OutcomeInv /\ WaitInv /\ TimelyInv /\ WholeInv

(***************************************************************************)
(* Types                                                                   *)
(***************************************************************************)

(* What the constants are. *)
LEMMA Constants ==
    /\ Data \in Nat \ {0} /\ Window \in Nat /\ Horizon \in Nat /\ DeadTimeout \in Nat \ {0}
    /\ MaxMsg \in Nat \ {0} /\ MaxEpochs \in Nat \ {0} /\ MaxTrouble \in Nat
    /\ \A p \in Parities : p \in 0..Data
BY ReassemblyAssumption

(* A fragment of an incarnation and a message that exist. *)
LEMMA Fragments ==
    ASSUME NEW f \in Fragment
    PROVE  f.ep \in Epochs /\ f.msg \in Msgs /\ f.idx \in Indices
BY DEF Fragment

(* Fragments that may be sent. *)
LEMMA MadeFragments ==
    ASSUME NEW e \in Epochs, NEW m \in Msgs, NEW i \in 1..(Data + Data)
    PROVE  [ep |-> e, msg |-> m, idx |-> i] \in Fragment
BY Constants DEF Fragment, Indices

(* A counter of ticks grows up to its cap. *)
LEMMA Aging ==
    ASSUME NEW cap \in Nat, NEW n \in 0..cap
    PROVE  /\ Older(n, cap) \in 0..cap /\ Older(n, cap) >= n
           /\ n < cap => Older(n, cap) = n + 1
           /\ n = cap => Older(n, cap) = n
BY DEF Older

(* The handlers and their fragments. *)
LEMMA Jobs ==
    ASSUME TypeInv, NEW h \in Handlers
    PROVE  /\ stage[h] \in {"idle", "checked", "found", "stored", "erased", "finish"}
           /\ stage[h] # "idle" => /\ job[h] \in Fragment /\ job[h].msg \in Msgs
                                  /\ job[h].idx \in Indices /\ job[h].ep \in Epochs
BY Fragments DEF TypeInv, TypeOK, JobInv

(* A handler whose entry is erased stays busy with its fragment. *)
LEMMA Erasing ==
    ASSUME TypeInv, NEW gone, NEW g \in Handlers
    PROVE  /\ Erased(g, gone) \in {"idle", "checked", "found", "stored", "erased", "finish"}
           /\ Erased(g, gone) = "idle" <=> stage[g] = "idle"
           /\ \/ Erased(g, gone) = stage[g]
                 /\ (stage[g] \in {"found", "stored"} => job[g].msg \notin gone)
              \/ Erased(g, gone) = "erased" /\ stage[g] \in {"found", "stored"} /\ job[g].msg \in gone
BY DEF Erased, TypeInv, TypeOK

(* The sender, the network, and the reactor keep the types. *)
LEMMA TypeWorld ==
    ASSUME TypeInv, Send \/ Restart \/ Resend \/ Lose \/ CheckOffline \/ Tick
    PROVE  TypeInv'
<1>1. CASE Send
  <2>1. \A i \in 1..(Data + parity) : i \in 1..(Data + Data)
    BY Constants DEF TypeInv, TypeOK
  <2>2. sent + 1 \in Msgs /\ epoch \in Epochs
    BY <1>1, Constants DEF Send, TypeInv, TypeOK, Msgs
  <2>3. {[ep |-> epoch, msg |-> sent + 1, idx |-> i] : i \in 1..(Data + parity)} \subseteq Fragment
    BY <2>1, <2>2, MadeFragments
  <2>4. net' \subseteq Fragment
    BY <1>1, <2>3 DEF Send, TypeInv, TypeOK
  <2> QED
    BY <1>1, <2>2, <2>4 DEF Send, TypeInv, TypeOK, JobInv, Msgs, recvVars, histVars
<1>2. CASE Restart
  <2>1. epoch' \in Epochs /\ sent' \in 0..MaxMsg
    BY <1>2, Constants DEF Restart, TypeInv, TypeOK, Epochs
  <2>2. UNCHANGED <<parity, sentAge, net, faults, again, recvVars, stage, job, histVars>>
    BY <1>2 DEF Restart
  <2> QED
    BY <2>1, <2>2 DEF TypeInv, TypeOK, JobInv, recvVars, histVars
<1>3. CASE Resend
  <2>1. PICK m \in 1..sent, i \in 1..Data :
            net' = net \cup {[ep |-> epoch, msg |-> m, idx |-> i]}
    BY <1>3 DEF Resend
  <2>2. m \in Msgs /\ i \in 1..(Data + Data) /\ epoch \in Epochs
    BY Constants DEF TypeInv, TypeOK, Msgs
  <2>3. net' \subseteq Fragment
    BY <2>1, <2>2, MadeFragments DEF TypeInv, TypeOK
  <2> QED
    BY <1>3, <2>3, Constants DEF Resend, TypeInv, TypeOK, JobInv, recvVars, histVars
<1>4. CASE Lose
  BY <1>4, Constants DEF Lose, TypeInv, TypeOK, JobInv, recvVars, histVars
<1>5. CASE CheckOffline
  <2>1. /\ entry' \in [Msgs -> {"none", "raw", "open"}]
        /\ \A m \in Msgs : entry'[m] # "open" => got'[m] = NoFragments
    BY <1>5 DEF CheckOffline, TypeInv, TypeOK, Expired
  <2>2. NoFragments \in [Indices -> 0..MaxEpochs]
    BY Constants DEF NoFragments
  <2>3. got' \in [Msgs -> [Indices -> 0..MaxEpochs]]
    BY <1>5, <2>2 DEF CheckOffline, TypeInv, TypeOK
  <2>4. age' \in [Msgs -> 0..DeadTimeout] /\ completed' \in [Msgs -> {Absent} \cup 0..DeadTimeout]
    BY <1>5, Constants DEF CheckOffline, TypeInv, TypeOK
  <2>5. /\ stage' \in [Handlers -> {"idle", "checked", "found", "stored", "erased", "finish"}]
        /\ job' = job /\ \A h \in Handlers : stage'[h] = "idle" <=> stage[h] = "idle"
    BY <1>5, Erasing DEF CheckOffline
  <2>6. disturbed' \in BOOLEAN
    BY <1>5, Zenon DEF CheckOffline, TypeInv, TypeOK
  <2>7. UNCHANGED <<netVars, delivered, lost, shared>>
    BY <1>5 DEF CheckOffline
  <2> QED
    BY <2>1, <2>3, <2>4, <2>5, <2>6, <2>7 DEF TypeInv, TypeOK, JobInv, netVars
<1>6. CASE Tick
  <2>1. sentAge' \in [Epochs -> [Msgs -> 0..Horizon]]
    BY <1>6, Aging, Constants DEF Tick, TypeInv, TypeOK
  <2>2. age' \in [Msgs -> 0..DeadTimeout]
    BY <1>6, Aging, Constants DEF Tick, TypeInv, TypeOK
  <2>3. completed' \in [Msgs -> {Absent} \cup 0..DeadTimeout]
    <3>1. ASSUME NEW m \in Msgs
          PROVE  completed'[m] \in {Absent} \cup 0..DeadTimeout
      BY <1>6, Aging, Constants DEF Tick, TypeInv, TypeOK
    <3> QED
      BY <1>6, <3>1 DEF Tick
  <2> QED
    BY <1>6, <2>1, <2>2, <2>3 DEF Tick, TypeInv, TypeOK, JobInv, histVars
<1> QED
  BY <1>1, <1>2, <1>3, <1>4, <1>5, <1>6

(* The handlers keep them. *)
LEMMA TypeHandle ==
    ASSUME TypeInv, NEW h \in Handlers, Handle(h)
    PROVE  TypeInv'
<1>0. stage[h] # "idle" => /\ job[h] \in Fragment /\ job[h].msg \in Msgs
                          /\ job[h].idx \in Indices /\ job[h].ep \in Epochs
  BY Jobs
<1>1. CASE Reject(h)
  BY <1>1 DEF Reject, TypeInv, TypeOK, JobInv, recvVars, histVars
<1>2. CASE Take(h)
  <2>1. PICK f \in net :
            /\ net' = net \ {f} /\ job' = [job EXCEPT ![h] = f]
            /\ shared' = shared \cup {m \in {f.msg} : \E g \in Handlers : WorksOn(g, m)}
    BY <1>2 DEF Take
  <2>2. f \in Fragment /\ f.msg \in Msgs
    BY Fragments DEF TypeInv, TypeOK
  <2>3. shared' \subseteq Msgs
    BY <2>1, <2>2 DEF TypeInv, TypeOK
  <2>4. stage' = [stage EXCEPT ![h] = "checked"]
    BY <1>2 DEF Take
  <2>5. /\ stage' \in [Handlers -> {"idle", "checked", "found", "stored", "erased", "finish"}]
        /\ job' \in [Handlers -> Fragment \cup {NoJob}] /\ JobInv'
    BY <2>1, <2>2, <2>4 DEF TypeInv, TypeOK, JobInv
  <2> QED
    BY <1>2, <2>1, <2>3, <2>5 DEF Take, TypeInv, TypeOK, recvVars
<1>3. CASE Lookup(h)
  <2>1. entry' = [entry EXCEPT ![job[h].msg] = IF @ = "none" THEN "raw" ELSE @] /\ got' = got
    BY <1>3 DEF Lookup
  <2>2. /\ entry' \in [Msgs -> {"none", "raw", "open"}]
        /\ \A m \in Msgs : entry'[m] # "open" => got'[m] = NoFragments
    BY <1>0, <2>1 DEF TypeInv, TypeOK
  <2>3. /\ stage' \in [Handlers -> {"idle", "checked", "found", "stored", "erased", "finish"}]
        /\ JobInv'
    BY <1>0, <1>3 DEF Lookup, TypeInv, TypeOK, JobInv
  <2> QED
    BY <1>3, <2>2, <2>3 DEF Lookup, TypeInv, TypeOK, netVars, histVars
<1>4. CASE Store(h)
  <2>1. /\ entry' = [entry EXCEPT ![job[h].msg] = "open"]
        /\ got' = [got EXCEPT ![job[h].msg][job[h].idx] = IF @ = 0 THEN job[h].ep ELSE @]
        /\ age' = [age EXCEPT ![job[h].msg] = IF entry[job[h].msg] = "raw" THEN 0 ELSE @]
        /\ stage' = [stage EXCEPT ![h] = "stored"] /\ job' = job /\ stage[h] = "found"
        /\ UNCHANGED <<netVars, completed, histVars>>
    BY <1>4 DEF Store
  <2>2. job[h].ep \in 0..MaxEpochs /\ 0 \in 0..DeadTimeout
    BY <1>0, <2>1, Constants DEF Epochs
  <2>3. got' \in [Msgs -> [Indices -> 0..MaxEpochs]]
    BY <1>0, <2>1, <2>2 DEF TypeInv, TypeOK
  <2>4. age' \in [Msgs -> 0..DeadTimeout]
    BY <1>0, <2>1, <2>2 DEF TypeInv, TypeOK
  <2>5. /\ entry' \in [Msgs -> {"none", "raw", "open"}]
        /\ \A m \in Msgs : entry'[m] # "open" => got'[m] = NoFragments
    BY <1>0, <2>1 DEF TypeInv, TypeOK
  <2>6. /\ stage' \in [Handlers -> {"idle", "checked", "found", "stored", "erased", "finish"}]
        /\ JobInv'
    BY <1>0, <2>1 DEF TypeInv, TypeOK, JobInv
  <2> QED
    BY <2>1, <2>3, <2>4, <2>5, <2>6 DEF TypeInv, TypeOK, netVars, histVars
<1>5. CASE TryAssemble(h)
  <2>0. stage[h] = "stored" /\ UNCHANGED <<netVars, recvVars, disturbed, shared>>
    BY <1>5 DEF TryAssemble
  <2>1. CASE Deliver(h, job[h].msg)
    <3>1. delivered' \in [Epochs -> [Msgs -> Nat]]
      BY <1>0, <2>0, <2>1 DEF Deliver, TypeInv, TypeOK
    <3>2. stage' = [stage EXCEPT ![h] = "finish"] /\ UNCHANGED <<lost, job>>
      BY <2>1 DEF Deliver
    <3>3. /\ stage' \in [Handlers -> {"idle", "checked", "found", "stored", "erased", "finish"}]
          /\ JobInv'
      BY <1>0, <2>0, <3>2 DEF TypeInv, TypeOK, JobInv
    <3> QED
      BY <2>0, <3>1, <3>2, <3>3 DEF TypeInv, TypeOK, netVars, recvVars
  <2>2. CASE DeclareLost(h, job[h].msg)
    <3>1. lost' \in [Epochs -> [Msgs -> Nat]]
      BY <1>0, <2>0, <2>2 DEF DeclareLost, TypeInv, TypeOK
    <3>2. stage' = [stage EXCEPT ![h] = "finish"] /\ UNCHANGED <<delivered, job>>
      BY <2>2 DEF DeclareLost
    <3>3. /\ stage' \in [Handlers -> {"idle", "checked", "found", "stored", "erased", "finish"}]
          /\ JobInv'
      BY <1>0, <2>0, <3>2 DEF TypeInv, TypeOK, JobInv
    <3> QED
      BY <2>0, <3>1, <3>2, <3>3 DEF TypeInv, TypeOK, netVars, recvVars
  <2>3. CASE KeepWaiting(h, job[h].msg)
    <3>1. /\ stage' = [stage EXCEPT ![h] = "idle"] /\ job' = [job EXCEPT ![h] = NoJob]
          /\ UNCHANGED <<delivered, lost>>
      BY <2>3 DEF KeepWaiting
    <3>2. /\ stage' \in [Handlers -> {"idle", "checked", "found", "stored", "erased", "finish"}]
          /\ job' \in [Handlers -> Fragment \cup {NoJob}] /\ JobInv'
      BY <3>1 DEF TypeInv, TypeOK, JobInv
    <3> QED
      BY <2>0, <3>1, <3>2 DEF TypeInv, TypeOK, netVars, recvVars
  <2> QED
    BY <1>5, <2>1, <2>2, <2>3 DEF TryAssemble
<1>6. CASE UseErased(h)
  <2>1. /\ stage' = [stage EXCEPT ![h] = "idle"] /\ job' = [job EXCEPT ![h] = NoJob]
        /\ UNCHANGED <<netVars, recvVars, histVars>>
    BY <1>6 DEF UseErased
  <2>2. /\ stage' \in [Handlers -> {"idle", "checked", "found", "stored", "erased", "finish"}]
        /\ job' \in [Handlers -> Fragment \cup {NoJob}] /\ JobInv'
    BY <2>1 DEF TypeInv, TypeOK, JobInv
  <2> QED
    BY <2>1, <2>2 DEF TypeInv, TypeOK, netVars, recvVars, histVars
<1>7. CASE Finish(h)
  <2>1. /\ stage[h] = "finish" /\ job' = [job EXCEPT ![h] = NoJob]
        /\ stage' = [g \in Handlers |-> IF g = h THEN "idle" ELSE Erased(g, {job[h].msg})]
        /\ completed' = [completed EXCEPT ![job[h].msg] = 0]
        /\ entry' = [entry EXCEPT ![job[h].msg] = "none"]
        /\ got' = [got EXCEPT ![job[h].msg] = NoFragments]
        /\ age' = [age EXCEPT ![job[h].msg] = 0] /\ UNCHANGED <<netVars, histVars>>
    BY <1>7 DEF Finish
  <2>2. NoFragments \in [Indices -> 0..MaxEpochs]
    BY Constants DEF NoFragments
  <2>3. /\ got' \in [Msgs -> [Indices -> 0..MaxEpochs]] /\ entry' \in [Msgs -> {"none", "raw", "open"}]
        /\ \A m \in Msgs : entry'[m] # "open" => got'[m] = NoFragments
    BY <1>0, <2>1, <2>2 DEF TypeInv, TypeOK
  <2>4. age' \in [Msgs -> 0..DeadTimeout] /\ completed' \in [Msgs -> {Absent} \cup 0..DeadTimeout]
    BY <1>0, <2>1, Constants DEF TypeInv, TypeOK
  <2>5. /\ stage' \in [Handlers -> {"idle", "checked", "found", "stored", "erased", "finish"}]
        /\ \A g \in Handlers \ {h} : stage'[g] = "idle" <=> stage[g] = "idle"
        /\ stage'[h] = "idle"
    BY <2>1, Erasing
  <2>6. job' \in [Handlers -> Fragment \cup {NoJob}] /\ JobInv'
    BY <2>1, <2>5 DEF TypeInv, TypeOK, JobInv
  <2> QED
    BY <2>1, <2>3, <2>4, <2>5, <2>6 DEF TypeInv, TypeOK, netVars, histVars
<1> QED
  BY <1>1, <1>2, <1>3, <1>4, <1>5, <1>6, <1>7 DEF Handle

(* Types are an invariant, for any constants. *)
LEMMA TypeInvariance ==
    Spec => []TypeInv
<1>1. ASSUME Init
      PROVE  TypeInv
  <2>1. NoFragments \in [Indices -> 0..MaxEpochs] /\ 1 \in Epochs
    BY Constants DEF NoFragments, Epochs
  <2>2. /\ sentAge \in [Epochs -> [Msgs -> 0..Horizon]]
        /\ delivered \in [Epochs -> [Msgs -> Nat]] /\ lost \in [Epochs -> [Msgs -> Nat]]
    BY <1>1, Constants DEF Init
  <2>3. /\ got \in [Msgs -> [Indices -> 0..MaxEpochs]] /\ age \in [Msgs -> 0..DeadTimeout]
        /\ completed \in [Msgs -> {Absent} \cup 0..DeadTimeout]
        /\ \A m \in Msgs : got[m] = NoFragments
    BY <1>1, <2>1, Constants DEF Init
  <2>4. /\ epoch \in Epochs /\ sent \in 0..MaxMsg /\ faults \in Nat /\ again \in Nat
        /\ net \subseteq Fragment /\ entry \in [Msgs -> {"none", "raw", "open"}]
    BY <1>1, <2>1, Constants DEF Init
  <2>5. /\ stage \in [Handlers -> {"idle", "checked", "found", "stored", "erased", "finish"}]
        /\ job \in [Handlers -> Fragment \cup {NoJob}] /\ JobInv
    BY <1>1 DEF Init, JobInv
  <2>6. parity \in Parities /\ disturbed \in BOOLEAN /\ shared \subseteq Msgs
    BY <1>1 DEF Init
  <2> QED
    BY <2>2, <2>3, <2>4, <2>5, <2>6 DEF TypeInv, TypeOK
<1>2. TypeInv /\ [Next]_vars => TypeInv'
  <2> SUFFICES ASSUME TypeInv, [Next]_vars PROVE TypeInv'
    OBVIOUS
  <2>1. CASE UNCHANGED vars
    BY <2>1 DEF TypeInv, TypeOK, JobInv, vars, netVars, recvVars, histVars
  <2> QED
    BY <2>1, TypeWorld, TypeHandle DEF Next
<1> QED
  BY <1>1, <1>2, PTL DEF Spec

(* Every variable keeps its type, and only an open entry holds fragments, for any *)
(* number of handlers, size of messages, number of them and losses.               *)
THEOREM TypeCorrect ==
    Spec => []TypeOK
<1>1. TypeInv => TypeOK
  BY DEF TypeInv
<1> QED
  BY <1>1, TypeInvariance, PTL

(***************************************************************************)
(* Outcomes                                                                *)
(***************************************************************************)

(* Numbers of fragments are numbers; without missing data there is no shortage. *)
LEMMA Counting ==
    ASSUME TypeOK, NEW m \in Msgs
    PROVE  /\ MissingData(m) \in Nat /\ HaveParity(m) \in Nat
           /\ (\A i \in 1..Data : got[m][i] # 0) => MissingData(m) = 0
<1>1. Data \in Nat /\ parity \in Nat
  BY Constants DEF TypeOK
<1>2. IsFiniteSet(1..Data) /\ IsFiniteSet((Data + 1)..(Data + parity))
  BY <1>1, FS_Interval
<1>3. MissingData(m) \in Nat
  BY <1>2, FS_Subset, FS_CardinalityType DEF MissingData
<1>4. HaveParity(m) \in Nat
  BY <1>2, FS_Subset, FS_CardinalityType DEF HaveParity
<1>5. ASSUME \A i \in 1..Data : got[m][i] # 0
      PROVE  MissingData(m) = 0
  <2>1. {i \in 1..Data : got[m][i] = 0} = {}
    BY <1>5
  <2> QED
    BY <2>1, FS_EmptySet DEF MissingData
<1> QED
  BY <1>3, <1>4, <1>5

(* What a handler does leaves the sender alone, and takes from the network only *)
(* the fragment it handles.                                                    *)
LEMMA HandleNet ==
    ASSUME NEW h \in Handlers, Handle(h)
    PROVE  UNCHANGED <<parity, epoch, sent, sentAge, faults, again>> /\ net' \subseteq net
BY DEF Handle, Reject, Take, Lookup, Store, TryAssemble, UseErased, Finish, netVars

(* What is sent, stays sent. *)
LEMMA KnownStays ==
    ASSUME TypeInv, [Next]_vars, NEW e \in Epochs, NEW m \in Msgs, Known(e, m)
    PROVE  Known(e, m)'
<1>1. epoch \in Nat /\ e \in Nat /\ sent \in Nat /\ m \in Nat
  BY Constants DEF TypeInv, TypeOK, Epochs, Msgs
<1>2. CASE Send
  BY <1>1, <1>2 DEF Send, Known
<1>3. CASE Restart
  BY <1>1, <1>3 DEF Restart, Known
<1>4. CASE UNCHANGED <<epoch, sent>>
  BY <1>4 DEF Known
<1>5. UNCHANGED <<epoch, sent>> \/ Send \/ Restart
  BY HandleNet DEF Next, Resend, Lose, CheckOffline, Tick, vars, netVars
<1> QED
  BY <1>2, <1>3, <1>4, <1>5

\* The step leaves a message, its fragments and its handlers alone.
Aside(m) ==
    /\ entry'[m] = entry[m] /\ got'[m] = got[m] /\ age'[m] = age[m] /\ completed'[m] = completed[m]
    /\ \A e \in Epochs : delivered'[e][m] = delivered[e][m] /\ lost'[e][m] = lost[e][m]
    /\ \A g \in Handlers : WorksOn(g, m) => stage'[g] = stage[g] /\ job'[g] = job[g]
    /\ \A g \in Handlers : stage'[g] # "idle" /\ job'[g].msg = m => WorksOn(g, m)
    /\ \A f \in net : f.msg = m => f \in net'

(* A handler leaves alone every message but the one it works on. *)
LEMMA HandleAside ==
    ASSUME TypeInv, NEW h \in Handlers, Handle(h), ~Reject(h), NEW m \in Msgs,
           ~WorksOn(h, m), ~(Take(h) /\ job'[h].msg = m)
    PROVE  Aside(m)
<1>0. stage[h] # "idle" => /\ job[h] \in Fragment /\ job[h].msg \in Msgs
                          /\ job[h].idx \in Indices /\ job[h].ep \in Epochs
  BY Jobs
<1>1. CASE Take(h)
  <2>1. PICK f \in net : net' = net \ {f} /\ job' = [job EXCEPT ![h] = f]
    BY <1>1 DEF Take
  <2>2. f.msg # m
    BY <1>1, <2>1 DEF TypeInv, TypeOK
  <2>3. /\ UNCHANGED <<recvVars, delivered, lost>> /\ stage[h] = "idle"
        /\ stage' = [stage EXCEPT ![h] = "checked"]
    BY <1>1 DEF Take
  <2> QED
    BY <2>1, <2>2, <2>3 DEF Aside, WorksOn, recvVars, TypeInv, TypeOK
<1>2. CASE Lookup(h)
  <2>1. /\ stage[h] = "checked" /\ stage' = [stage EXCEPT ![h] = "found"]
        /\ entry' = [entry EXCEPT ![job[h].msg] = IF @ = "none" THEN "raw" ELSE @]
        /\ UNCHANGED <<net, got, age, completed, job, delivered, lost>>
    BY <1>2 DEF Lookup, netVars, histVars
  <2> QED
    BY <1>0, <2>1 DEF Aside, WorksOn, TypeInv, TypeOK
<1>3. CASE Store(h)
  <2>1. /\ stage[h] = "found" /\ stage' = [stage EXCEPT ![h] = "stored"]
        /\ entry' = [entry EXCEPT ![job[h].msg] = "open"]
        /\ got' = [got EXCEPT ![job[h].msg][job[h].idx] = IF @ = 0 THEN job[h].ep ELSE @]
        /\ age' = [age EXCEPT ![job[h].msg] = IF entry[job[h].msg] = "raw" THEN 0 ELSE @]
        /\ UNCHANGED <<net, completed, job, delivered, lost>>
    BY <1>3 DEF Store, netVars, histVars
  <2>2. job[h].msg # m
    BY <2>1 DEF WorksOn
  <2>3. entry'[m] = entry[m] /\ got'[m] = got[m] /\ age'[m] = age[m]
    BY <1>0, <2>1, <2>2 DEF TypeInv, TypeOK
  <2>4. \A g \in Handlers : g # h => stage'[g] = stage[g]
    BY <2>1 DEF TypeInv, TypeOK
  <2> QED
    BY <2>1, <2>2, <2>3, <2>4 DEF Aside, WorksOn
<1>4. CASE TryAssemble(h)
  <2>1. stage[h] = "stored" /\ UNCHANGED <<net, recvVars>>
    BY <1>4 DEF TryAssemble, netVars
  <2>2. job[h].msg # m
    BY <2>1 DEF WorksOn
  <2>3. \A e \in Epochs : delivered'[e][m] = delivered[e][m]
    BY <1>0, <1>4, <2>1, <2>2 DEF TryAssemble, Deliver, DeclareLost, KeepWaiting, TypeInv, TypeOK
  <2>4. \A e \in Epochs : lost'[e][m] = lost[e][m]
    <3>1. lost' = lost \/ lost' = [lost EXCEPT ![job[h].ep][job[h].msg] = @ + 1]
      BY <1>4 DEF TryAssemble, Deliver, DeclareLost, KeepWaiting
    <3>2. lost \in [Epochs -> [Msgs -> Nat]] /\ job[h].ep \in Epochs /\ job[h].msg \in Msgs
      BY <1>0, <2>1 DEF TypeInv, TypeOK
    <3> QED
      BY <2>2, <3>1, <3>2
  <2>5. /\ \A g \in Handlers : g # h => stage'[g] = stage[g] /\ job'[g] = job[g]
        /\ stage'[h] = "idle" \/ job'[h] = job[h]
    BY <1>4 DEF TryAssemble, Deliver, DeclareLost, KeepWaiting, TypeInv, TypeOK
  <2> QED
    BY <2>1, <2>2, <2>3, <2>4, <2>5 DEF Aside, WorksOn, recvVars
<1>5. CASE UseErased(h)
  <2>1. /\ stage[h] = "erased" /\ UNCHANGED <<net, recvVars, delivered, lost>>
        /\ stage' = [stage EXCEPT ![h] = "idle"] /\ job' = [job EXCEPT ![h] = NoJob]
    BY <1>5 DEF UseErased, netVars, histVars
  <2> QED
    BY <2>1 DEF Aside, WorksOn, recvVars, TypeInv, TypeOK
<1>6. CASE Finish(h)
  <2>1. /\ stage[h] = "finish" /\ job' = [job EXCEPT ![h] = NoJob]
        /\ stage' = [g \in Handlers |-> IF g = h THEN "idle" ELSE Erased(g, {job[h].msg})]
        /\ completed' = [completed EXCEPT ![job[h].msg] = 0]
        /\ entry' = [entry EXCEPT ![job[h].msg] = "none"]
        /\ got' = [got EXCEPT ![job[h].msg] = NoFragments]
        /\ age' = [age EXCEPT ![job[h].msg] = 0] /\ UNCHANGED <<net, delivered, lost>>
    BY <1>6 DEF Finish, netVars, histVars
  <2>2. job[h].msg # m
    BY <2>1 DEF WorksOn
  <2>3. entry'[m] = entry[m] /\ got'[m] = got[m] /\ age'[m] = age[m] /\ completed'[m] = completed[m]
    BY <1>0, <2>1, <2>2 DEF TypeInv, TypeOK
  <2>4. \A g \in Handlers : g # h => job'[g] = job[g] /\ stage'[g] = Erased(g, {job[h].msg})
    BY <2>1 DEF TypeInv, TypeOK
  <2>5. \A g \in Handlers : WorksOn(g, m) => stage'[g] = stage[g] /\ job'[g] = job[g]
    BY <2>1, <2>2, <2>4, Erasing DEF WorksOn
  <2>6. \A g \in Handlers : stage'[g] # "idle" /\ job'[g].msg = m => WorksOn(g, m)
    BY <2>1, <2>4, Erasing DEF WorksOn
  <2> QED
    BY <2>1, <2>3, <2>5, <2>6 DEF Aside
<1> QED
  BY <1>1, <1>2, <1>3, <1>4, <1>5, <1>6 DEF Handle

(* Whatever arrives at the receiver has been sent. *)
LEMMA SentStep ==
    ASSUME TypeInv, SentInv, [Next]_vars
    PROVE  SentInv'
<1> DEFINE NewNet == \A f \in net' : f \in net \/ Known(f.ep, f.msg)'
           NewJob == \A h \in Handlers : stage'[h] # "idle" =>
                        (stage[h] # "idle" /\ job'[h] = job[h]) \/ job'[h] \in net
           NewGot == \A m \in Msgs, i \in Indices :
                        \/ got'[m][i] = 0 \/ got'[m][i] = got[m][i]
                        \/ \E h \in Handlers : WorksOn(h, m) /\ got'[m][i] = job[h].ep
           NewOpen == \A m \in Msgs : entry'[m] = "open" =>
                        entry[m] = "open" \/ \E h \in Handlers : WorksOn(h, m)
<1>1. NewNet /\ NewJob /\ NewGot /\ NewOpen
  <2>1. CASE Send
    BY <2>1, Constants DEF Send, Known, TypeInv, TypeOK, recvVars
  <2>2. CASE Resend
    BY <2>2, Constants DEF Resend, Known, TypeInv, TypeOK, recvVars
  <2>3. CASE Restart \/ Lose \/ UNCHANGED vars
    BY <2>3 DEF Restart, Lose, vars, netVars, recvVars
  <2>4. CASE CheckOffline
    <3>1. NewJob
      BY <2>4, Erasing DEF CheckOffline
    <3> QED
      BY <2>4, <3>1 DEF CheckOffline, NoFragments, netVars
  <2>5. CASE Tick
    BY <2>5 DEF Tick
  <2>6. ASSUME NEW h \in Handlers, Reject(h)
        PROVE  NewNet /\ NewJob /\ NewGot /\ NewOpen
    BY <2>6 DEF Reject, recvVars
  <2>7. ASSUME NEW h \in Handlers, Handle(h), ~Reject(h)
        PROVE  NewNet /\ NewJob /\ NewGot /\ NewOpen
    <3>1. stage[h] # "idle" => /\ job[h] \in Fragment /\ job[h].msg \in Msgs
                              /\ job[h].idx \in Indices /\ job[h].ep \in Epochs
      BY Jobs
    <3>2. NewNet
      BY <2>7, HandleNet
    <3>3. NewJob
      <4>1. CASE Take(h)
        BY <4>1 DEF Take, TypeInv, TypeOK
      <4>2. CASE Lookup(h) \/ Store(h)
        BY <4>2 DEF Lookup, Store, TypeInv, TypeOK
      <4>3. CASE TryAssemble(h)
        BY <4>3 DEF TryAssemble, Deliver, DeclareLost, KeepWaiting, TypeInv, TypeOK
      <4>4. CASE UseErased(h)
        BY <4>4 DEF UseErased, TypeInv, TypeOK
      <4>5. CASE Finish(h)
        <5>1. \A g \in Handlers : g # h => job'[g] = job[g] /\ stage'[g] = Erased(g, {job[h].msg})
          BY <4>5 DEF Finish, TypeInv, TypeOK
        <5>2. stage'[h] = "idle"
          BY <4>5 DEF Finish
        <5> QED
          BY <5>1, <5>2, Erasing
      <4> QED
        BY <2>7, <4>1, <4>2, <4>3, <4>4, <4>5 DEF Handle
    <3>4. ASSUME NEW m \in Msgs, WorksOn(h, m)
          PROVE  \A i \in Indices : \/ got'[m][i] = 0 \/ got'[m][i] = got[m][i]
                                   \/ got'[m][i] = job[h].ep
      <4>1. CASE Store(h)
        <5>1. got' = [got EXCEPT ![job[h].msg][job[h].idx] = IF @ = 0 THEN job[h].ep ELSE @]
          BY <4>1 DEF Store
        <5> QED
          BY <3>1, <3>4, <5>1 DEF WorksOn, TypeInv, TypeOK
      <4>2. CASE Finish(h)
        BY <3>1, <3>4, <4>2 DEF Finish, NoFragments, WorksOn, TypeInv, TypeOK
      <4>3. CASE got' = got
        BY <4>3
      <4> QED
        BY <2>7, <4>1, <4>2, <4>3 DEF Handle, Take, Lookup, TryAssemble, UseErased, recvVars
    <3>5. ASSUME NEW m \in Msgs, Take(h)
          PROVE  entry'[m] = entry[m] /\ got'[m] = got[m]
      BY <3>5 DEF Take, recvVars
    <3>6. \A m \in Msgs : WorksOn(h, m) \/ (entry'[m] = entry[m] /\ got'[m] = got[m])
      BY <2>7, <3>5, HandleAside DEF Aside
    <3>7. NewGot /\ NewOpen
      BY <3>4, <3>6
    <3> QED
      BY <3>2, <3>3, <3>7
  <2> HIDE DEF NewNet, NewJob, NewGot, NewOpen
  <2> QED
    BY <2>1, <2>2, <2>3, <2>4, <2>5, <2>6, <2>7 DEF Next
<1>2. /\ \A f \in net : f.ep \in Epochs /\ f.msg \in Msgs
      /\ \A h \in Handlers : stage[h] # "idle" => job[h].ep \in Epochs /\ job[h].msg \in Msgs
  BY Fragments, Jobs DEF TypeInv, TypeOK
<1>3. \A f \in net : Known(f.ep, f.msg)'
  BY <1>2, KnownStays DEF SentInv
<1> DEFINE Now(e, m) == e < epoch' \/ (e = epoch' /\ m <= sent')
<1>4. \A e \in Epochs, m \in Msgs : Known(e, m) => Now(e, m)
  BY KnownStays DEF Known
<1>5. \A h \in Handlers : stage'[h] # "idle" => Now(job'[h].ep, job'[h].msg)
  BY <1>1, <1>2, <1>4 DEF SentInv
<1>6. \A m \in Msgs, i \in Indices : got'[m][i] # 0 => Now(got'[m][i], m)
  <2> SUFFICES ASSUME NEW m \in Msgs, NEW i \in Indices, got'[m][i] # 0
               PROVE  Now(got'[m][i], m)
    OBVIOUS
  <2>1. CASE got'[m][i] = got[m][i]
    <3>1. Known(got[m][i], m) /\ got[m][i] \in Epochs
      BY <2>1, Constants DEF SentInv, TypeInv, TypeOK, Epochs
    <3> QED
      BY <1>4, <2>1, <3>1
  <2>2. ASSUME NEW h \in Handlers, WorksOn(h, m), got'[m][i] = job[h].ep
        PROVE  Now(got'[m][i], m)
    BY <1>2, <1>4, <2>2 DEF SentInv, WorksOn
  <2> QED
    BY <1>1, <2>1, <2>2
<1>7. \A m \in Msgs : entry'[m] = "open" => Now(1, m)
  <2>1. ASSUME NEW m \in Msgs, NEW h \in Handlers, WorksOn(h, m)
        PROVE  Known(1, m)
    <3>1. Known(job[h].ep, m) /\ job[h].ep \in Epochs
      BY <1>2, <2>1 DEF SentInv, WorksOn
    <3>2. job[h].ep \in Nat /\ job[h].ep >= 1 /\ epoch \in Nat
      BY <3>1, Constants DEF Epochs, TypeInv, TypeOK
    <3> QED
      BY <3>1, <3>2 DEF Known
  <2> QED
    BY <1>1, <1>4, <2>1, Constants DEF SentInv, Epochs
<1>8. \A f \in net' : Now(f.ep, f.msg)
  BY <1>1, <1>3 DEF Known
<1> QED
  BY <1>5, <1>6, <1>7, <1>8 DEF SentInv, Known

(* References and entries fit together, however many handlers share them. *)
LEMMA HeldStep ==
    ASSUME TypeInv, HeldInv, [Next]_vars
    PROVE  HeldInv'
<1> USE DEF HeldInv
<1>1. CASE Send \/ Restart \/ Resend \/ Lose \/ Tick \/ UNCHANGED vars
  BY <1>1 DEF Send, Restart, Resend, Lose, Tick, vars, recvVars
<1>2. ASSUME NEW h \in Handlers, Handle(h)
      PROVE  HeldInv'
  <2>0. stage[h] # "idle" => /\ job[h] \in Fragment /\ job[h].msg \in Msgs
                            /\ job[h].idx \in Indices /\ job[h].ep \in Epochs
    BY Jobs
  <2>1. CASE Reject(h)
    BY <2>1 DEF Reject, recvVars
  <2>2. CASE Take(h)
    <3>1. PICK f \in net : job' = [job EXCEPT ![h] = f]
      BY <2>2 DEF Take
    <3>2. /\ stage' = [stage EXCEPT ![h] = "checked"] /\ stage[h] = "idle" /\ UNCHANGED <<entry, got>>
      BY <2>2 DEF Take, recvVars
    <3> QED
      BY <3>1, <3>2 DEF TypeInv, TypeOK
  <2>3. CASE Lookup(h)
    <3>1. /\ stage[h] = "checked" /\ stage' = [stage EXCEPT ![h] = "found"] /\ UNCHANGED <<job, got>>
          /\ entry' = [entry EXCEPT ![job[h].msg] = IF @ = "none" THEN "raw" ELSE @]
      BY <2>3 DEF Lookup
    <3> QED
      BY <2>0, <3>1, Jobs DEF TypeInv, TypeOK
  <2>4. CASE Store(h)
    <3>1. /\ stage[h] = "found" /\ stage' = [stage EXCEPT ![h] = "stored"] /\ job' = job
          /\ entry' = [entry EXCEPT ![job[h].msg] = "open"]
          /\ got' = [got EXCEPT ![job[h].msg][job[h].idx] = IF @ = 0 THEN job[h].ep ELSE @]
      BY <2>4 DEF Store
    <3>2. \A m \in Msgs, i \in Indices : got[m][i] # 0 => got'[m][i] # 0
      BY <2>0, <3>1 DEF TypeInv, TypeOK
    <3>3. got'[job[h].msg][job[h].idx] # 0
      BY <2>0, <3>1 DEF TypeInv, TypeOK, Epochs
    <3>4. \A g \in Handlers : stage'[g] = "found" => entry'[job'[g].msg] # "none"
      BY <2>0, <3>1, Jobs DEF TypeInv, TypeOK
    <3>5. \A g \in Handlers : stage'[g] = "stored" =>
              entry'[job'[g].msg] = "open" /\ got'[job'[g].msg][job'[g].idx] # 0
      BY <2>0, <3>1, <3>2, <3>3, Jobs DEF TypeInv, TypeOK
    <3>6. \A m \in Msgs : entry'[m] = "raw" => \E g \in Handlers : stage'[g] = "found" /\ job'[g].msg = m
      BY <2>0, <3>1 DEF TypeInv, TypeOK
    <3> QED
      BY <3>4, <3>5, <3>6
  <2>5. CASE TryAssemble(h) \/ UseErased(h)
    <3>1. /\ UNCHANGED <<entry, got>> /\ stage[h] # "found" /\ stage'[h] \in {"idle", "finish"}
          /\ \A g \in Handlers : g # h => stage'[g] = stage[g] /\ job'[g] = job[g]
      BY <2>5 DEF TryAssemble, UseErased, Deliver, DeclareLost, KeepWaiting, recvVars, TypeInv, TypeOK
    <3> QED
      BY <3>1
  <2>6. CASE Finish(h)
    <3>1. /\ stage[h] = "finish" /\ stage'[h] = "idle"
          /\ \A g \in Handlers : g # h => job'[g] = job[g] /\ stage'[g] = Erased(g, {job[h].msg})
          /\ entry' = [entry EXCEPT ![job[h].msg] = "none"]
          /\ got' = [got EXCEPT ![job[h].msg] = NoFragments]
      BY <2>6 DEF Finish, TypeInv, TypeOK
    <3>2. \A g \in Handlers : stage'[g] \in {"found", "stored"} =>
              g # h /\ stage'[g] = stage[g] /\ job'[g] = job[g] /\ job[g].msg # job[h].msg
      BY <3>1, Erasing
    <3>3. \A m \in Msgs : m # job[h].msg => entry'[m] = entry[m] /\ got'[m] = got[m]
      BY <2>0, <3>1 DEF TypeInv, TypeOK
    <3>4. \A m \in Msgs, g \in Handlers : m # job[h].msg /\ stage[g] = "found" /\ job[g].msg = m =>
              stage'[g] = "found" /\ job'[g].msg = m
      BY <3>1, Erasing
    <3>5. entry'[job[h].msg] = "none"
      BY <2>0, <3>1 DEF TypeInv, TypeOK
    <3> QED
      BY <3>2, <3>3, <3>4, <3>5, Jobs
  <2> QED
    BY <1>2, <2>1, <2>2, <2>3, <2>4, <2>5, <2>6 DEF Handle
<1>3. CASE CheckOffline
  <2> DEFINE gone == {m \in Msgs : Expired(m)}
  <2>1. /\ job' = job /\ \A h \in Handlers : stage'[h] = Erased(h, gone)
        /\ \A m \in Msgs : entry'[m] = IF m \in gone THEN "none" ELSE entry[m]
        /\ \A m \in Msgs : got'[m] = IF m \in gone THEN NoFragments ELSE got[m]
    BY <1>3 DEF CheckOffline
  <2> HIDE DEF gone
  <2>2. \A g \in Handlers : stage'[g] \in {"found", "stored"} =>
              stage'[g] = stage[g] /\ job[g].msg \notin gone
    BY <2>1, Erasing
  <2>3. \A m \in Msgs, g \in Handlers : m \notin gone /\ stage[g] = "found" /\ job[g].msg = m =>
              stage'[g] = "found"
    BY <2>1, Erasing
  <2> QED
    BY <2>1, <2>2, <2>3, Jobs
<1> QED
  BY <1>1, <1>2, <1>3 DEF Next

(* What two handlers once shared counts as shared for good. *)
LEMMA SharedGrows ==
    ASSUME [Next]_vars
    PROVE  shared \subseteq shared'
BY DEF Next, Send, Restart, Resend, Lose, CheckOffline, Tick, Handle, Reject, Take, Lookup, Store,
   TryAssemble, UseErased, Finish, vars, histVars

(* A message one handler takes up while nobody works on it stays its own. *)
LEMMA AloneStep ==
    ASSUME TypeInv, AloneInv, [Next]_vars
    PROVE  AloneInv'
<1> SUFFICES ASSUME NEW m \in Msgs, m \notin shared'
             PROVE  /\ \A g, h \in Handlers : WorksOn(g, m)' /\ WorksOn(h, m)' => g = h
                    /\ \A h \in Handlers : WorksOn(h, m)' => ~Finished(m)'
                    /\ Finished(m)' => entry'[m] = "none"
  BY DEF AloneInv
<1>0. /\ \A g, h \in Handlers : WorksOn(g, m) /\ WorksOn(h, m) => g = h
      /\ \A h \in Handlers : WorksOn(h, m) => ~Finished(m)
      /\ Finished(m) => entry[m] = "none"
  BY SharedGrows DEF AloneInv
<1> USE DEF WorksOn, Finished
<1>1. CASE Send \/ Restart \/ Resend \/ Lose \/ UNCHANGED vars
  BY <1>0, <1>1 DEF Send, Restart, Resend, Lose, vars, recvVars
<1>2. CASE Tick
  <2>1. completed'[m] = Absent <=> completed[m] = Absent
    BY <1>2, Aging, Constants DEF Tick, Absent, TypeInv, TypeOK
  <2> QED
    BY <1>0, <1>2, <2>1 DEF Tick
<1>3. CASE CheckOffline
  <2>1. /\ entry'[m] = "none" \/ entry'[m] = entry[m]
        /\ completed'[m] = Absent \/ completed'[m] = completed[m]
        /\ job' = job
    BY <1>3 DEF CheckOffline
  <2>2. \A h \in Handlers : stage'[h] = "idle" <=> stage[h] = "idle"
    BY <1>3, Erasing DEF CheckOffline
  <2> QED
    BY <1>0, <2>1, <2>2
<1>4. ASSUME NEW h \in Handlers, Reject(h)
      PROVE  /\ \A g, k \in Handlers : WorksOn(g, m)' /\ WorksOn(k, m)' => g = k
             /\ \A g \in Handlers : WorksOn(g, m)' => ~Finished(m)'
             /\ Finished(m)' => entry'[m] = "none"
  BY <1>0, <1>4 DEF Reject, recvVars
<1>5. ASSUME Aside(m)
      PROVE  /\ \A g, k \in Handlers : WorksOn(g, m)' /\ WorksOn(k, m)' => g = k
             /\ \A g \in Handlers : WorksOn(g, m)' => ~Finished(m)'
             /\ Finished(m)' => entry'[m] = "none"
  BY <1>0, <1>5 DEF Aside
<1>6. ASSUME NEW h \in Handlers, Take(h), job'[h].msg = m
      PROVE  /\ \A g, k \in Handlers : WorksOn(g, m)' /\ WorksOn(k, m)' => g = k
             /\ \A g \in Handlers : WorksOn(g, m)' => ~Finished(m)'
             /\ Finished(m)' => entry'[m] = "none"
  <2>1. PICK f \in net :
            /\ ~Finished(f.msg) /\ job' = [job EXCEPT ![h] = f]
            /\ shared' = shared \cup {n \in {f.msg} : \E g \in Handlers : WorksOn(g, n)}
    BY <1>6 DEF Take
  <2>2. f.msg = m
    BY <1>6, <2>1 DEF TypeInv, TypeOK
  <2>3. \A g \in Handlers : ~WorksOn(g, m)
    BY <2>1, <2>2
  <2>4. stage' = [stage EXCEPT ![h] = "checked"] /\ UNCHANGED <<entry, completed>>
    BY <1>6 DEF Take, recvVars
  <2> QED
    BY <2>1, <2>2, <2>3, <2>4 DEF TypeInv, TypeOK
<1>7. ASSUME NEW h \in Handlers, Handle(h), WorksOn(h, m)
      PROVE  /\ \A g, k \in Handlers : WorksOn(g, m)' /\ WorksOn(k, m)' => g = k
             /\ \A g \in Handlers : WorksOn(g, m)' => ~Finished(m)'
             /\ Finished(m)' => entry'[m] = "none"
  <2>1. stage[h] # "idle" /\ job[h].msg = m /\ ~Finished(m)
    BY <1>0, <1>7
  <2>2. CASE Lookup(h) \/ Store(h)
    <3>1. UNCHANGED <<completed, job>> /\ \A g \in Handlers : g # h => stage'[g] = stage[g]
      BY <2>2 DEF Lookup, Store, TypeInv, TypeOK
    <3> QED
      BY <1>0, <2>1, <3>1
  <2>3. CASE TryAssemble(h) \/ UseErased(h)
    <3>1. /\ UNCHANGED <<entry, completed>> /\ (stage'[h] = "idle" \/ job'[h] = job[h])
          /\ \A g \in Handlers : g # h => stage'[g] = stage[g] /\ job'[g] = job[g]
      BY <2>3 DEF TryAssemble, UseErased, Deliver, DeclareLost, KeepWaiting, recvVars, TypeInv, TypeOK
    <3> QED
      BY <1>0, <2>1, <3>1
  <2>4. CASE Finish(h)
    <3>1. /\ stage'[h] = "idle"
          /\ \A g \in Handlers : g # h => job'[g] = job[g] /\ stage'[g] = Erased(g, {job[h].msg})
          /\ entry' = [entry EXCEPT ![job[h].msg] = "none"]
      BY <2>4 DEF Finish, TypeInv, TypeOK
    <3>2. \A g \in Handlers : ~WorksOn(g, m)'
      BY <1>0, <1>7, <3>1, Erasing
    <3>3. entry'[m] = "none"
      BY <2>1, <3>1 DEF TypeInv, TypeOK
    <3> QED
      BY <3>2, <3>3
  <2>5. ~Take(h) /\ ~Reject(h)
    BY <2>1 DEF Take, Reject
  <2> QED
    BY <1>7, <2>2, <2>3, <2>4, <2>5 DEF Handle
<1>8. ASSUME NEW h \in Handlers, Handle(h)
      PROVE  /\ \A g, k \in Handlers : WorksOn(g, m)' /\ WorksOn(k, m)' => g = k
             /\ \A g \in Handlers : WorksOn(g, m)' => ~Finished(m)'
             /\ Finished(m)' => entry'[m] = "none"
  <2>1. Reject(h) \/ (Take(h) /\ job'[h].msg = m) \/ WorksOn(h, m) \/ Aside(m)
    BY <1>8, HandleAside
  <2> QED
    BY <1>4, <1>5, <1>6, <1>7, <1>8, <2>1
<1> QED
  BY <1>1, <1>2, <1>3, <1>8 DEF Next

\* Keeps, after the step.
Later(t, e, m) ==
    /\ t <= sentAge'[e][m] \/ sentAge'[e][m] = Horizon
    /\ t > Horizon => \A f \in net' : ~(f.ep = e /\ f.msg = m)

(* A message that was sent grows old; when it is old and silent, it stays so. *)
LEMMA AgesMove ==
    ASSUME TypeInv, [Next]_vars, NEW e \in Epochs, NEW m \in Msgs, Known(e, m)
    PROVE  /\ sentAge[e][m] = Horizon /\ Silent(e, m) =>
                sentAge'[e][m] = Horizon /\ \A f \in net' : ~(f.ep = e /\ f.msg = m)
           /\ sentAge[e][m] \in 0..Horizon /\ sentAge'[e][m] \in 0..Horizon
           /\ sentAge'[e][m] >= sentAge[e][m]
           /\ Tick => /\ sentAge[e][m] < Horizon => sentAge'[e][m] = sentAge[e][m] + 1
                      /\ sentAge[e][m] = Horizon => Silent(e, m)
                      /\ net' = net
<1>0. sentAge[e][m] \in 0..Horizon /\ Horizon \in Nat
  BY Constants DEF TypeInv, TypeOK
<1>1. CASE Tick
  <2>1. sentAge'[e][m] = Older(sentAge[e][m], Horizon)
    BY <1>1 DEF Tick, Known
  <2>2. sentAge[e][m] = Horizon => Silent(e, m)
    BY <1>0, <1>1 DEF Tick, Silent
  <2>3. net' = net
    BY <1>1 DEF Tick
  <2> QED
    BY <1>0, <2>1, <2>2, <2>3, Aging DEF Silent
<1>2. CASE ~Tick
  <2>1. sentAge' = sentAge
    BY <1>2, HandleNet DEF Next, Send, Restart, Resend, Lose, CheckOffline, vars, netVars
  <2>2. CASE Send
    <3>1. \A f \in net' : f \in net \/ (f.ep = epoch /\ f.msg = sent + 1)
      BY <2>2 DEF Send
    <3>2. ~(e = epoch /\ m = sent + 1)
      BY Constants DEF Known, TypeInv, TypeOK, Epochs
    <3>3. Silent(e, m) => \A f \in net' : ~(f.ep = e /\ f.msg = m)
      BY <3>1, <3>2 DEF Silent
    <3> QED
      BY <1>0, <1>2, <2>1, <3>3
  <2>3. CASE Resend
    BY <1>0, <1>2, <2>1, <2>3 DEF Resend, Silent
  <2>4. CASE net' \subseteq net
    BY <1>0, <1>2, <2>1, <2>4 DEF Silent
  <2>5. Send \/ Resend \/ net' \subseteq net
    BY <1>2, HandleNet DEF Next, Restart, Lose, CheckOffline, vars, netVars
  <2> QED
    BY <2>2, <2>3, <2>4, <2>5
<1> QED
  BY <1>1, <1>2

(* A time the sender kept up with is one it still keeps up with, and one tick more *)
(* after a tick.                                                                   *)
LEMMA KeepsOn ==
    ASSUME TypeInv, [Next]_vars, NEW e \in Epochs, NEW m \in Msgs, Known(e, m)
    PROVE  /\ \A t \in Nat : Keeps(t, e, m) => Later(t, e, m)
           /\ Tick => \A t \in Nat : Keeps(t, e, m) => Later(t + 1, e, m)
<1>0. Horizon \in Nat
  BY Constants
<1>1. ASSUME NEW t \in Nat, Keeps(t, e, m)
      PROVE  Later(t, e, m)
  BY <1>0, <1>1, AgesMove DEF Keeps, Later
<1>2. ASSUME Tick, NEW t \in Nat, Keeps(t, e, m)
      PROVE  Later(t + 1, e, m)
  BY <1>0, <1>2, AgesMove DEF Keeps, Later, Silent
<1> QED
  BY <1>1, <1>2

(* A message has one outcome: as long as it is remembered, and when it is not any *)
(* more, because nothing of it is left that could be taken for a new message.     *)
LEMMA OutcomeStep ==
    ASSUME Horizon < DeadTimeout, TypeInv, SentInv, HeldInv, AloneInv, OutcomeInv, [Next]_vars
    PROVE  OutcomeInv'
<1> DEFINE Ends(e, m) == delivered[e][m] + lost[e][m]
<1> SUFFICES ASSUME NEW e \in Epochs, NEW m \in Msgs, m \notin shared'
             PROVE  /\ Ends(e, m)' <= 1
                    /\ Ends(e, m)' = 1 =>
                        /\ Known(e, m)'
                        /\ \/ Finishing(m)'
                           \/ Finished(m)' /\ Later(completed'[m], e, m)
                           \/ ~Finished(m)' /\ Over(e, m)'
  BY DEF OutcomeInv, Keeps, Later, Silent
<1> DEFINE Good == /\ Ends(e, m)' <= 1
                   /\ Ends(e, m)' = 1 =>
                        /\ Known(e, m)'
                        /\ \/ Finishing(m)'
                           \/ Finished(m)' /\ Later(completed'[m], e, m)
                           \/ ~Finished(m)' /\ Over(e, m)'
<1>0. /\ delivered[e][m] \in Nat /\ lost[e][m] \in Nat /\ Horizon \in Nat /\ DeadTimeout \in Nat
      /\ e \in Nat \ {0} /\ completed[m] \in {Absent} \cup Nat /\ Absent \notin Nat
  BY Constants, SMTT(20) DEF TypeInv, TypeOK, Epochs, Absent
<1>1. /\ Ends(e, m) <= 1
      /\ Ends(e, m) = 1 =>
            /\ Known(e, m)
            /\ \/ Finishing(m)
               \/ Finished(m) /\ Keeps(completed[m], e, m)
               \/ ~Finished(m) /\ Over(e, m)
  BY SharedGrows DEF OutcomeInv
<1>2. Known(e, m) => Known(e, m)'
  BY KnownStays
<1>3. /\ \A g, h \in Handlers : WorksOn(g, m) /\ WorksOn(h, m) => g = h
      /\ \A h \in Handlers : WorksOn(h, m) => ~Finished(m)
      /\ Finished(m) => entry[m] = "none"
  BY SharedGrows DEF AloneInv
\* Steps that neither finish the message nor forget it.
<1>4. ASSUME Ends(e, m)' = Ends(e, m), completed'[m] = completed[m], Finishing(m) => Finishing(m)',
             Over(e, m) => \A i \in Indices : got'[m][i] # e,
             Over(e, m) => \A h \in Handlers : WorksOn(h, m)' => job'[h].ep # e
      PROVE  Good
  <2> SUFFICES ASSUME Ends(e, m) = 1
               PROVE  \/ Finishing(m)'
                      \/ Finished(m) /\ Later(completed[m], e, m)
                      \/ ~Finished(m) /\ Over(e, m)'
    BY <1>1, <1>2, <1>4 DEF Finished
  <2>1. Known(e, m)
    BY <1>1
  <2>2. Finished(m) /\ Keeps(completed[m], e, m) => Later(completed[m], e, m)
    BY <1>0, <2>1, KeepsOn DEF Finished
  <2>3. ASSUME Over(e, m)
        PROVE  Over(e, m)'
    <3>1. sentAge'[e][m] = Horizon /\ \A f \in net' : ~(f.ep = e /\ f.msg = m)
      BY <2>1, <2>3, AgesMove DEF Over
    <3> QED
      BY <1>4, <2>3, <3>1 DEF Over, Silent
  <2> QED
    BY <1>1, <1>4, <2>2, <2>3
<1>5. CASE Send \/ Restart \/ Resend \/ Lose \/ UNCHANGED vars
  <2>1. UNCHANGED <<delivered, lost, completed, stage, job, got>>
    BY <1>5 DEF Send, Restart, Resend, Lose, vars, recvVars, histVars
  <2> QED
    BY <1>4, <2>1 DEF Over, Finishing, WorksOn
<1>6. ASSUME NEW h \in Handlers, Reject(h)
      PROVE  Good
  <2>1. UNCHANGED <<delivered, lost, completed, stage, job, got>>
    BY <1>6 DEF Reject, recvVars, histVars
  <2> QED
    BY <1>4, <2>1 DEF Over, Finishing, WorksOn
<1>7. ASSUME Aside(m)
      PROVE  Good
  <2>1. Ends(e, m)' = Ends(e, m) /\ completed'[m] = completed[m] /\ got'[m] = got[m]
    BY <1>7 DEF Aside
  <2>2. Finishing(m) => Finishing(m)'
    BY <1>7 DEF Aside, Finishing, WorksOn
  <2>3. \A h \in Handlers : WorksOn(h, m)' => WorksOn(h, m) /\ job'[h] = job[h]
    BY <1>7 DEF Aside, WorksOn
  <2> QED
    BY <1>4, <2>1, <2>2, <2>3 DEF Over
<1>8. ASSUME NEW h \in Handlers, Take(h), job'[h].msg = m
      PROVE  Good
  <2>1. PICK f \in net :
            /\ ~Finished(f.msg) /\ job' = [job EXCEPT ![h] = f]
            /\ shared' = shared \cup {n \in {f.msg} : \E g \in Handlers : WorksOn(g, n)}
    BY <1>8 DEF Take
  <2>2. f.msg = m /\ job'[h] = f
    BY <1>8, <2>1 DEF TypeInv, TypeOK
  <2>3. \A g \in Handlers : ~WorksOn(g, m)
    BY <2>1, <2>2
  <2>4. UNCHANGED <<delivered, lost, completed, got>> /\ stage' = [stage EXCEPT ![h] = "checked"]
    BY <1>8 DEF Take, recvVars
  <2>5. \A g \in Handlers : WorksOn(g, m)' => g = h
    BY <2>1, <2>3, <2>4 DEF WorksOn, TypeInv, TypeOK
  <2>6. Over(e, m) => f.ep # e
    BY <2>1, <2>2 DEF Over, Silent
  <2>7. ~Finishing(m)
    BY <2>3 DEF Finishing, WorksOn
  <2> QED
    BY <1>4, <2>2, <2>4, <2>5, <2>6, <2>7 DEF Over
<1>9. ASSUME NEW h \in Handlers, Handle(h), WorksOn(h, m)
      PROVE  Good
  <2>0. /\ stage[h] # "idle" /\ job[h].msg = m /\ job[h] \in Fragment
        /\ job[h].idx \in Indices /\ job[h].ep \in Epochs /\ ~Finished(m)
    BY <1>3, <1>9, Jobs DEF WorksOn
  <2>1. stage[h] # "finish" => ~Finishing(m)
    BY <1>3, <1>9 DEF Finishing, WorksOn
  <2>2. CASE Lookup(h)
    <3>1. UNCHANGED <<delivered, lost, completed, got, job>> /\ stage[h] = "checked"
          /\ \A g \in Handlers : g # h => stage'[g] = stage[g]
      BY <2>2 DEF Lookup, histVars, TypeInv, TypeOK
    <3>2. \A g \in Handlers : WorksOn(g, m)' => WorksOn(g, m)
      BY <1>9, <3>1 DEF WorksOn
    <3> QED
      BY <1>4, <2>1, <3>1, <3>2 DEF Over
  <2>3. CASE Store(h)
    <3>1. /\ stage[h] = "found" /\ UNCHANGED <<delivered, lost, completed, job>>
          /\ \A g \in Handlers : g # h => stage'[g] = stage[g]
          /\ got' = [got EXCEPT ![job[h].msg][job[h].idx] = IF @ = 0 THEN job[h].ep ELSE @]
      BY <2>3 DEF Store, histVars, TypeInv, TypeOK
    <3>2. \A g \in Handlers : WorksOn(g, m)' => WorksOn(g, m)
      BY <1>9, <3>1 DEF WorksOn
    <3>3. ASSUME Over(e, m)
          PROVE  \A i \in Indices : got'[m][i] # e
      <4>1. got'[m] = [got[m] EXCEPT ![job[h].idx] = IF @ = 0 THEN job[h].ep ELSE @] /\ job[h].ep # e
        BY <1>9, <2>0, <3>1, <3>3 DEF Over, TypeInv, TypeOK
      <4>2. got[m] \in [Indices -> 0..MaxEpochs]
        BY DEF TypeInv, TypeOK
      <4> QED
        BY <3>3, <4>1, <4>2 DEF Over
    <3> QED
      BY <1>4, <2>1, <3>1, <3>2, <3>3 DEF Over
  <2>4. CASE TryAssemble(h)
    <3>1. /\ stage[h] = "stored" /\ UNCHANGED <<completed, got>>
          /\ \A g \in Handlers : g # h => stage'[g] = stage[g] /\ job'[g] = job[g]
      BY <2>4 DEF TryAssemble, Deliver, DeclareLost, KeepWaiting, recvVars, TypeInv, TypeOK
    <3>2. Ends(e, m) = 1 => Over(e, m)
      BY <1>1, <2>0, <2>1, <3>1
    <3>3. CASE KeepWaiting(h, m)
      <4>1. UNCHANGED <<delivered, lost>> /\ stage'[h] = "idle"
        BY <3>3 DEF KeepWaiting, TypeInv, TypeOK
      <4>2. \A g \in Handlers : WorksOn(g, m)' => WorksOn(g, m) /\ job'[g] = job[g]
        BY <3>1, <4>1 DEF WorksOn
      <4> QED
        BY <1>4, <2>1, <3>1, <4>1, <4>2 DEF Over
    <3>4. CASE Deliver(h, m)
      <4>1. /\ stage'[h] = "finish" /\ job' = job /\ lost' = lost
            /\ delivered'[e][m] = IF \E i \in Indices : got[m][i] = e THEN delivered[e][m] + 1
                                  ELSE delivered[e][m]
        BY <3>4 DEF Deliver, TypeInv, TypeOK
      <4>2. Finishing(m)'
        BY <2>0, <4>1 DEF Finishing
      <4>3. CASE \E i \in Indices : got[m][i] = e
        <5>1. Ends(e, m) # 1
          BY <3>2, <4>3 DEF Over
        <5>2. Known(e, m)
          BY <1>0, <4>3 DEF SentInv
        <5> QED
          BY <1>0, <1>1, <1>2, <4>1, <4>2, <4>3, <5>1, <5>2
      <4>4. CASE ~\E i \in Indices : got[m][i] = e
        BY <1>0, <1>1, <1>2, <4>1, <4>2, <4>4
      <4> QED
        BY <4>3, <4>4
    <3>5. CASE DeclareLost(h, m)
      <4>1. /\ stage'[h] = "finish" /\ job' = job /\ delivered' = delivered
            /\ lost' = [lost EXCEPT ![job[h].ep][m] = @ + 1]
        BY <3>5 DEF DeclareLost, TypeInv, TypeOK
      <4>2. lost'[e][m] = IF e = job[h].ep THEN lost[e][m] + 1 ELSE lost[e][m]
        BY <2>0, <4>1 DEF TypeInv, TypeOK
      <4>3. Finishing(m)'
        BY <2>0, <4>1 DEF Finishing
      <4>4. CASE e = job[h].ep
        <5>1. Ends(e, m) # 1
          BY <1>9, <3>2, <4>4 DEF Over
        <5>2. Known(e, m)
          BY <2>0, <4>4 DEF SentInv
        <5> QED
          BY <1>0, <1>1, <1>2, <4>1, <4>2, <4>3, <4>4, <5>1, <5>2
      <4>5. CASE e # job[h].ep
        BY <1>0, <1>1, <1>2, <4>1, <4>2, <4>3, <4>5
      <4> QED
        BY <4>4, <4>5
    <3> QED
      BY <2>0, <2>4, <3>3, <3>4, <3>5 DEF TryAssemble
  <2>5. CASE UseErased(h)
    <3>1. /\ UNCHANGED <<delivered, lost, completed, got>> /\ stage[h] = "erased" /\ stage'[h] = "idle"
          /\ \A g \in Handlers : g # h => stage'[g] = stage[g] /\ job'[g] = job[g]
      BY <2>5 DEF UseErased, recvVars, histVars, TypeInv, TypeOK
    <3>2. \A g \in Handlers : WorksOn(g, m)' => WorksOn(g, m) /\ job'[g] = job[g]
      BY <3>1 DEF WorksOn
    <3> QED
      BY <1>4, <2>1, <3>1, <3>2 DEF Over
  <2>6. CASE Finish(h)
    <3>1. /\ UNCHANGED <<net, sentAge, delivered, lost>>
          /\ completed' = [completed EXCEPT ![job[h].msg] = 0]
      BY <2>6 DEF Finish, netVars, histVars
    <3>2. completed'[m] = 0 /\ sentAge[e][m] \in Nat
      BY <2>0, <3>1, Constants DEF TypeInv, TypeOK
    <3>3. Finished(m)' /\ Later(completed'[m], e, m)
      BY <1>0, <3>1, <3>2 DEF Finished, Later
    <3> QED
      BY <1>1, <1>2, <3>1, <3>3
  <2>7. ~Take(h) /\ ~Reject(h)
    BY <2>0 DEF Take, Reject
  <2> HIDE DEF Good
  <2> QED
    BY <1>9, <2>2, <2>3, <2>4, <2>5, <2>6, <2>7 DEF Handle
<1>10. CASE CheckOffline
  <2>1. /\ UNCHANGED <<net, sentAge, job, delivered, lost>>
        /\ completed'[m] = IF Forgotten(m) THEN Absent ELSE completed[m]
        /\ got'[m] = IF Expired(m) THEN NoFragments ELSE got[m]
    BY <1>10 DEF CheckOffline, netVars, histVars
  <2>2. \A i \in Indices : got'[m][i] = e => got[m][i] = e
    BY <1>0, <2>1 DEF NoFragments
  <2>3. /\ \A h \in Handlers : stage'[h] = "idle" <=> stage[h] = "idle"
        /\ \A h \in Handlers : stage[h] = "finish" => stage'[h] = "finish"
    BY <1>10, Erasing DEF CheckOffline
  <2>4. \A h \in Handlers : WorksOn(h, m)' => WorksOn(h, m)
    BY <2>1, <2>3 DEF WorksOn
  <2>5. CASE ~Forgotten(m)
    <3>1. Finishing(m) => Finishing(m)'
      BY <2>1, <2>3 DEF Finishing
    <3> QED
      BY <1>4, <2>1, <2>2, <2>4, <2>5, <3>1 DEF Over
  <2>6. CASE Forgotten(m)
    <3>1. completed[m] \in Nat /\ completed[m] > Horizon /\ Finished(m) /\ ~Finished(m)'
      BY <1>0, <2>1, <2>6 DEF Forgotten, Finished, Absent
    <3>2. \A h \in Handlers : ~WorksOn(h, m)
      BY <1>3, <3>1
    <3>3. got[m] = NoFragments /\ ~Finishing(m)
      BY <1>3, <3>1, <3>2 DEF TypeInv, TypeOK, Finishing, WorksOn
    <3>4. Keeps(completed[m], e, m) => sentAge[e][m] = Horizon /\ Silent(e, m)
      BY <1>0, <3>1, Constants DEF Keeps, TypeInv, TypeOK
    <3>5. Keeps(completed[m], e, m) => Over(e, m)'
      BY <1>0, <2>1, <2>2, <2>4, <3>2, <3>3, <3>4 DEF Over, Silent, NoFragments
    <3> QED
      BY <1>1, <1>2, <2>1, <3>1, <3>3, <3>5
  <2> QED
    BY <2>5, <2>6
<1>11. CASE Tick
  <2>1. /\ UNCHANGED <<net, stage, job, got, delivered, lost>>
        /\ completed'[m] = IF completed[m] = Absent THEN Absent ELSE Older(completed[m], DeadTimeout)
    BY <1>11 DEF Tick, histVars
  <2>2. Known(e, m) /\ Over(e, m) => Over(e, m)'
    BY <2>1, AgesMove DEF Over, Silent, WorksOn
  <2>3. ASSUME Known(e, m), Finished(m), Keeps(completed[m], e, m)
        PROVE  Later(completed'[m], e, m)
    <3>1. completed'[m] = completed[m] \/ completed'[m] = completed[m] + 1
      BY <2>1, <2>3 DEF Finished, Older
    <3> QED
      BY <1>0, <1>11, <2>3, <3>1, KeepsOn DEF Finished
  <2>4. Finished(m) <=> Finished(m)'
    BY <1>0, <2>1, Aging, Constants DEF Finished, Older
  <2>5. Finishing(m)' <=> Finishing(m)
    BY <2>1 DEF Finishing
  <2> QED
    BY <1>1, <1>2, <2>1, <2>2, <2>3, <2>4, <2>5
<1>12. ASSUME NEW h \in Handlers, Handle(h)
       PROVE  Good
  <2>1. Reject(h) \/ (Take(h) /\ job'[h].msg = m) \/ WorksOn(h, m) \/ Aside(m)
    BY <1>12, HandleAside
  <2> HIDE DEF Good
  <2> QED
    BY <1>6, <1>7, <1>8, <1>9, <1>12, <2>1
<1> QED
  BY <1>5, <1>10, <1>11, <1>12 DEF Next

(* An entry is left only when it cannot be put together yet. *)
LEMMA WaitStep ==
    ASSUME TypeInv, HeldInv, WaitInv, [Next]_vars
    PROVE  WaitInv'
<1>1. SUFFICES ASSUME NEW m \in Msgs, entry'[m] = "open"
               PROVE  \/ \E h \in Handlers : stage'[h] \in {"stored", "finish"} /\ job'[h].msg = m
                      \/ (MissingData(m) > HaveParity(m))'
  BY DEF WaitInv
<1> DEFINE Good == \/ \E h \in Handlers : stage'[h] \in {"stored", "finish"} /\ job'[h].msg = m
                   \/ (MissingData(m) > HaveParity(m))'
<1>2. parity' = parity
  BY HandleNet DEF Next, Send, Restart, Resend, Lose, CheckOffline, Tick, vars, netVars
<1>3. ASSUME got'[m] = got[m], MissingData(m) > HaveParity(m)
      PROVE  Good
  BY <1>2, <1>3 DEF MissingData, HaveParity
<1>4. ASSUME entry[m] = "open", got'[m] = got[m],
             \A g \in Handlers : stage[g] \in {"stored", "finish"} /\ job[g].msg = m =>
                stage'[g] = stage[g] /\ job'[g] = job[g]
      PROVE  Good
  BY <1>3, <1>4 DEF WaitInv
<1>5. CASE Send \/ Restart \/ Resend \/ Lose \/ Tick \/ UNCHANGED vars
  <2>1. UNCHANGED <<entry, got, stage, job>>
    BY <1>5 DEF Send, Restart, Resend, Lose, Tick, vars, recvVars
  <2> QED
    BY <1>1, <1>4, <2>1
<1>6. ASSUME NEW h \in Handlers, Reject(h) \/ Take(h)
      PROVE  Good
  <2>1. /\ UNCHANGED <<entry, got>> /\ stage[h] = "idle"
        /\ \A g \in Handlers : g # h => stage'[g] = stage[g] /\ job'[g] = job[g]
    BY <1>6 DEF Reject, Take, recvVars, TypeInv, TypeOK
  <2> QED
    BY <1>1, <1>4, <2>1
<1>7. ASSUME Aside(m)
      PROVE  Good
  BY <1>1, <1>4, <1>7 DEF Aside, WorksOn
<1>8. ASSUME NEW h \in Handlers, Handle(h), WorksOn(h, m)
      PROVE  Good
  <2>0. stage[h] # "idle" /\ job[h].msg = m /\ job[h] \in Fragment
    BY <1>8, Jobs DEF WorksOn
  <2>1. CASE Lookup(h)
    <3>1. /\ entry' = [entry EXCEPT ![m] = IF @ = "none" THEN "raw" ELSE @] /\ stage[h] = "checked"
          /\ got' = got /\ job' = job /\ \A g \in Handlers : g # h => stage'[g] = stage[g]
      BY <2>0, <2>1 DEF Lookup, TypeInv, TypeOK
    <3>2. entry[m] = "open"
      BY <1>1, <3>1 DEF TypeInv, TypeOK
    <3> QED
      BY <1>4, <3>1, <3>2
  <2>2. CASE Store(h)
    BY <2>0, <2>2 DEF Store, TypeInv, TypeOK
  <2>3. CASE TryAssemble(h)
    <3>1. UNCHANGED <<entry, got>>
      BY <2>3 DEF TryAssemble, recvVars
    <3>2. Deliver(h, m) \/ DeclareLost(h, m) => stage'[h] = "finish" /\ job' = job
      BY DEF Deliver, DeclareLost, TypeInv, TypeOK
    <3>3. KeepWaiting(h, m) => MissingData(m) > HaveParity(m)
      BY Counting DEF KeepWaiting, Recoverable, TypeInv
    <3> QED
      BY <1>3, <2>0, <2>3, <3>1, <3>2, <3>3 DEF TryAssemble
  <2>4. CASE UseErased(h)
    <3>1. /\ UNCHANGED <<entry, got>> /\ stage[h] = "erased"
          /\ \A g \in Handlers : g # h => stage'[g] = stage[g] /\ job'[g] = job[g]
      BY <2>4 DEF UseErased, recvVars, TypeInv, TypeOK
    <3> QED
      BY <1>1, <1>4, <3>1
  <2>5. ~Finish(h)
    BY <1>1, <2>0 DEF Finish, TypeInv, TypeOK
  <2>6. ~Take(h) /\ ~Reject(h)
    BY <2>0 DEF Take, Reject
  <2> HIDE DEF Good
  <2> QED
    BY <1>8, <2>1, <2>2, <2>3, <2>4, <2>5, <2>6 DEF Handle
<1>9. CASE CheckOffline
  <2> DEFINE gone == {n \in Msgs : Expired(n)}
  <2>1. m \notin gone /\ entry[m] = "open" /\ got'[m] = got[m] /\ job' = job
    BY <1>1, <1>9 DEF CheckOffline
  <2>2. \A g \in Handlers : stage'[g] = Erased(g, gone)
    BY <1>9 DEF CheckOffline
  <2> HIDE DEF gone
  <2>3. \A g \in Handlers : stage[g] \in {"stored", "finish"} /\ job[g].msg = m => stage'[g] = stage[g]
    BY <2>1, <2>2, Erasing
  <2> QED
    BY <1>4, <2>1, <2>3
<1>10. ASSUME NEW h \in Handlers, Handle(h)
       PROVE  Good
  <2>1. Reject(h) \/ Take(h) \/ WorksOn(h, m) \/ Aside(m)
    BY <1>10, HandleAside
  <2> HIDE DEF Good
  <2> QED
    BY <1>6, <1>7, <1>8, <1>10, <2>1
<1> QED
  BY <1>5, <1>9, <1>10 DEF Next

(* As long as the sender is not restarted, entries are not older than what they *)
(* wait for.                                                                    *)
LEMMA TimelyStep ==
    ASSUME TypeInv, SentInv, HeldInv, TimelyInv, [Next]_vars
    PROVE  TimelyInv'
<1>0. 1 \in Epochs /\ Horizon \in Nat /\ epoch \in Nat \ {0}
  BY Constants DEF TypeInv, TypeOK, Epochs
<1>1. SUFFICES ASSUME NEW m \in Msgs, epoch' = 1, entry'[m] = "open"
               PROVE  Later(age'[m], 1, m)
  BY DEF TimelyInv, Keeps, Later, Silent
<1>2. epoch = 1
  <2>1. epoch' = epoch \/ epoch' = epoch + 1
    BY HandleNet DEF Next, Send, Restart, Resend, Lose, CheckOffline, Tick, vars, netVars
  <2> QED
    BY <1>0, <1>1, <2>1
<1>3. ASSUME entry[m] = "open", age'[m] = age[m]
      PROVE  Later(age'[m], 1, m)
  <2>1. Known(1, m) /\ Keeps(age[m], 1, m) /\ age[m] \in Nat
    BY <1>2, <1>3, Constants DEF SentInv, TimelyInv, TypeInv, TypeOK
  <2>2. Later(age[m], 1, m)
    BY <1>0, <2>1, KeepsOn
  <2> QED
    BY <1>3, <2>2
<1>4. CASE Tick
  <2>1. entry[m] = "open" /\ age'[m] = Older(age[m], DeadTimeout)
    BY <1>1, <1>4 DEF Tick
  <2>2. Known(1, m) /\ Keeps(age[m], 1, m) /\ age[m] \in Nat
    BY <1>2, <2>1, Constants DEF SentInv, TimelyInv, TypeInv, TypeOK
  <2>3. Later(age[m], 1, m) /\ Later(age[m] + 1, 1, m)
    BY <1>0, <1>4, <2>2, KeepsOn
  <2>4. age'[m] = age[m] \/ age'[m] = age[m] + 1
    BY <2>1 DEF Older
  <2> QED
    BY <2>3, <2>4
<1>5. CASE CheckOffline
  BY <1>1, <1>3, <1>5 DEF CheckOffline
<1>6. CASE UNCHANGED <<entry, age>>
  BY <1>1, <1>3, <1>6
<1>7. ASSUME NEW h \in Handlers, Handle(h)
      PROVE  Later(age'[m], 1, m)
  <2>0. stage[h] # "idle" => job[h] \in Fragment /\ job[h].msg \in Msgs
    BY Jobs
  <2>1. CASE Store(h)
    <3>1. /\ stage[h] = "found" /\ UNCHANGED <<sentAge, net>>
          /\ entry' = [entry EXCEPT ![job[h].msg] = "open"]
          /\ age' = [age EXCEPT ![job[h].msg] = IF entry[job[h].msg] = "raw" THEN 0 ELSE @]
      BY <2>1 DEF Store, netVars
    <3>2. CASE entry[m] = "open"
      <4>1. age'[m] = age[m]
        BY <2>0, <3>1, <3>2 DEF TypeInv, TypeOK
      <4> QED
        BY <1>3, <3>2, <4>1
    <3>3. CASE entry[m] # "open"
      <4>1. m = job[h].msg
        BY <1>1, <2>0, <3>1, <3>3 DEF TypeInv, TypeOK
      <4>2. entry[m] = "raw"
        BY <3>1, <3>3, <4>1 DEF HeldInv, TypeInv, TypeOK
      <4>3. age'[m] = 0 /\ sentAge'[1][m] \in Nat
        BY <1>0, <2>0, <3>1, <4>1, <4>2, Constants DEF TypeInv, TypeOK
      <4> QED
        BY <1>0, <4>3 DEF Later
    <3> QED
      BY <3>2, <3>3
  <2>2. CASE Lookup(h)
    <3>1. entry' = [entry EXCEPT ![job[h].msg] = IF @ = "none" THEN "raw" ELSE @] /\ age' = age
      BY <2>2 DEF Lookup
    <3>2. entry \in [Msgs -> {"none", "raw", "open"}]
      BY DEF TypeInv, TypeOK
    <3> QED
      BY <1>1, <1>3, <3>1, <3>2
  <2>3. CASE Finish(h)
    <3>1. /\ entry' = [entry EXCEPT ![job[h].msg] = "none"]
          /\ age' = [age EXCEPT ![job[h].msg] = 0] /\ stage[h] = "finish"
      BY <2>3 DEF Finish
    <3>2. job[h].msg # m /\ entry[m] = "open" /\ age'[m] = age[m]
      BY <1>1, <2>0, <3>1 DEF TypeInv, TypeOK
    <3> QED
      BY <1>3, <3>2
  <2> QED
    BY <1>6, <1>7, <2>1, <2>2, <2>3 DEF Handle, Reject, Take, TryAssemble, UseErased, recvVars
<1> QED
  BY <1>4, <1>5, <1>6, <1>7 DEF Next, Send, Restart, Resend, Lose, vars, recvVars

(* What has not been disturbed yet was not disturbed before. *)
LEMMA UndisturbedBefore ==
    ASSUME TypeInv, [Next]_vars, Undisturbed'
    PROVE  Undisturbed /\ epoch = 1 /\ faults = 0 /\ ~disturbed
<1>1. epoch \in Nat \ {0} /\ faults \in Nat /\ disturbed \in BOOLEAN
  BY Constants DEF TypeInv, TypeOK, Epochs
<1>2. epoch' = epoch \/ epoch' = epoch + 1
  BY HandleNet DEF Next, Send, Restart, Resend, Lose, CheckOffline, Tick, vars, netVars
<1>3. faults' = faults \/ faults' = faults + 1
  BY HandleNet DEF Next, Send, Restart, Resend, Lose, CheckOffline, Tick, vars, netVars
<1>4. disturbed => disturbed'
  <2>1. ASSUME NEW h \in Handlers, Handle(h)
        PROVE  disturbed' = disturbed
    BY <2>1 DEF Handle, Reject, Take, Lookup, Store, TryAssemble, UseErased, Finish, histVars
  <2>2. CASE ~\E h \in Handlers : Handle(h)
    BY <2>2 DEF Next, Send, Restart, Resend, Lose, CheckOffline, Tick, vars, histVars
  <2> QED
    BY <2>1, <2>2
<1> QED
  BY <1>1, <1>2, <1>3, <1>4 DEF Undisturbed

(* Without losses and restarts a message one handler works on is put together, *)
(* unless its entry expired under the handler; none is announced as lost.      *)
LEMMA WholeStep ==
    ASSUME Horizon < DeadTimeout, TypeInv, Inv, [Next]_vars
    PROVE  WholeInv'
<1> SUFFICES ASSUME Undisturbed', NEW m \in Msgs, m \notin shared'
             PROVE  Whole(m)'
  BY DEF WholeInv
<1>0. /\ 1 \in Epochs /\ Horizon \in Nat /\ DeadTimeout \in Nat /\ Window \in Nat
      /\ 1..Data \subseteq Indices /\ delivered[1][m] \in Nat
  BY Constants DEF TypeInv, TypeOK, Epochs, Indices
<1>1. epoch = 1 /\ Window > Horizon /\ ~disturbed' /\ m \notin shared
  BY UndisturbedBefore, SharedGrows DEF Undisturbed
<1>2. /\ m <= sent => delivered[1][m] >= 1 \/ \A i \in 1..Data : Kept(m, i)
      /\ Finished(m) => delivered[1][m] >= 1
      /\ Finishing(m) => delivered[1][m] >= 1
      /\ \A e \in Epochs : lost[e][m] = 0
  BY <1>1, UndisturbedBefore DEF Inv, WholeInv, Whole
\* Every fragment is of the only incarnation.
<1>3. /\ \A h \in Handlers : stage[h] # "idle" => job[h].ep = 1
      /\ \A n \in Msgs, i \in Indices : got[n][i] \in {0, 1}
  <2>1. \A n \in Msgs, i \in Indices : got[n][i] \in Nat
    BY Constants DEF TypeInv, TypeOK
  <2> QED
    BY <1>1, <2>1, Jobs, Constants DEF Inv, SentInv, Known, Epochs
<1>4. \A i \in 1..Data : DataFragment(m, i).ep = 1 /\ DataFragment(m, i).msg = m /\ DataFragment(m, i).idx = i
  BY DEF DataFragment
<1>5. /\ \A g, h \in Handlers : WorksOn(g, m) /\ WorksOn(h, m) => g = h
      /\ \A h \in Handlers : WorksOn(h, m) => ~Finished(m)
  BY <1>1 DEF Inv, AloneInv
\* An entry that is older than the horizon is whole.
<1>6. ASSUME entry[m] = "open", age[m] > Horizon, m <= sent, delivered[1][m] = 0,
             \A h \in Handlers : WorksOn(h, m) => stage[h] \notin {"checked", "found"}
      PROVE  MissingData(m) = 0
  <2>1. Silent(1, m)
    BY <1>1, <1>6 DEF Inv, TimelyInv, Keeps
  <2>2. \A i \in 1..Data : Kept(m, i)
    BY <1>2, <1>6
  <2>3. \A i \in 1..Data : DataFragment(m, i) \notin net
    BY <1>4, <2>1 DEF Silent
  <2>4. \A i \in 1..Data : got[m][i] # 0
    BY <1>4, <1>6, <2>2, <2>3 DEF Kept, WorksOn
  <2> QED
    BY <2>4, Counting DEF TypeInv
\* Steps that change neither the number of messages nor their outcomes.
<1>7. ASSUME \A e \in Epochs : delivered'[e][m] = delivered[e][m] /\ lost'[e][m] = lost[e][m],
             sent' = sent, Finished(m)' => Finished(m), Finishing(m)' => Finishing(m),
             delivered[1][m] < 1 /\ m <= sent => \A i \in 1..Data : Kept(m, i) => Kept(m, i)'
      PROVE  Whole(m)'
  BY <1>0, <1>2, <1>7 DEF Whole
<1>8. CASE Send
  <2>1. /\ UNCHANGED <<delivered, lost, completed, stage, job, got>> /\ sent' = sent + 1
        /\ net' = net \cup {[ep |-> epoch, msg |-> sent + 1, idx |-> i] : i \in 1..(Data + parity)}
    BY <1>8 DEF Send, recvVars, histVars
  <2>2. \A i \in 1..Data : Kept(m, i) => Kept(m, i)'
    BY <2>1 DEF Kept
  <2>3. ASSUME m = sent + 1
        PROVE  \A i \in 1..Data : Kept(m, i)'
    <3>1. parity \in Nat /\ Data \in Nat
      BY Constants DEF TypeInv, TypeOK
    <3>2. \A i \in 1..Data : DataFragment(m, i) \in net'
      BY <1>1, <2>1, <2>3, <3>1 DEF DataFragment
    <3> QED
      BY <3>2 DEF Kept
  <2>4. m <= sent' => m <= sent \/ m = sent + 1
    BY <2>1 DEF TypeInv, TypeOK, Msgs
  <2>5. /\ Finished(m)' <=> Finished(m)
        /\ Finishing(m)' <=> Finishing(m)
    BY <2>1 DEF Finished, Finishing
  <2> QED
    BY <1>2, <2>1, <2>2, <2>3, <2>4, <2>5 DEF Whole
<1>9. CASE Restart \/ Lose
  BY <1>1, <1>9, UndisturbedBefore, Constants DEF Restart, Lose, Undisturbed, TypeInv, TypeOK
<1>10. CASE Resend \/ Tick \/ UNCHANGED vars
  <2>1. UNCHANGED <<delivered, lost, stage, job, got, sent>> /\ net \subseteq net'
    BY <1>10 DEF Resend, Tick, vars, netVars, recvVars, histVars
  <2>2. Finished(m)' => Finished(m)
    <3>1. CASE Tick
      BY <3>1 DEF Tick, Finished
    <3>2. CASE Resend \/ UNCHANGED vars
      BY <3>2 DEF Resend, vars, recvVars, Finished
    <3> QED
      BY <1>10, <3>1, <3>2
  <2>3. \A i \in 1..Data : Kept(m, i) => Kept(m, i)'
    BY <2>1 DEF Kept
  <2> QED
    BY <1>7, <2>1, <2>2, <2>3 DEF Finishing
<1>11. ASSUME NEW h \in Handlers, Reject(h)
       PROVE  Whole(m)'
  <2>1. PICK f \in net : Finished(f.msg) /\ net' = net \ {f}
    BY <1>11 DEF Reject
  <2>2. UNCHANGED <<delivered, lost, completed, stage, job, got, sent>>
    BY <1>11 DEF Reject, recvVars, histVars
  <2>3. delivered[1][m] < 1 => f.msg # m
    BY <1>0, <1>2, <2>1
  <2>4. delivered[1][m] < 1 => \A i \in 1..Data : Kept(m, i) => Kept(m, i)'
    BY <1>4, <2>1, <2>2, <2>3 DEF Kept
  <2> QED
    BY <1>7, <2>2, <2>4 DEF Finished, Finishing
<1>12. ASSUME Aside(m), sent' = sent
       PROVE  Whole(m)'
  <2>1. \A i \in 1..Data : Kept(m, i) => Kept(m, i)'
    <3> SUFFICES ASSUME NEW i \in 1..Data, Kept(m, i) PROVE Kept(m, i)'
      OBVIOUS
    <3>1. DataFragment(m, i) \in net => DataFragment(m, i) \in net'
      BY <1>4, <1>12 DEF Aside
    <3>2. \A h \in Handlers : stage[h] \in {"checked", "found"} /\ job[h] = DataFragment(m, i) =>
              stage'[h] = stage[h] /\ job'[h] = job[h]
      BY <1>4, <1>12 DEF Aside, WorksOn
    <3>3. got'[m] = got[m]
      BY <1>12 DEF Aside
    <3> QED
      BY <3>1, <3>2, <3>3 DEF Kept
  <2>2. Finishing(m)' => Finishing(m)
    BY <1>12 DEF Aside, Finishing, WorksOn
  <2> QED
    BY <1>7, <1>12, <2>1, <2>2 DEF Aside, Finished
<1>13. ASSUME NEW h \in Handlers, Take(h), job'[h].msg = m
       PROVE  Whole(m)'
  <2>1. PICK f \in net : net' = net \ {f} /\ job' = [job EXCEPT ![h] = f]
    BY <1>13 DEF Take
  <2>2. /\ UNCHANGED <<delivered, lost, completed, got, sent>> /\ stage[h] = "idle"
        /\ stage' = [stage EXCEPT ![h] = "checked"]
    BY <1>13 DEF Take, recvVars
  <2>3. /\ job'[h] = f /\ stage'[h] = "checked"
        /\ \A g \in Handlers : g # h => stage'[g] = stage[g] /\ job'[g] = job[g]
    BY <2>1, <2>2 DEF TypeInv, TypeOK
  <2>4. \A i \in 1..Data : Kept(m, i) => Kept(m, i)'
    BY <2>1, <2>2, <2>3 DEF Kept
  <2>5. Finishing(m)' => Finishing(m)
    BY <2>3 DEF Finishing
  <2> QED
    BY <1>7, <2>2, <2>4, <2>5 DEF Finished
<1>14. ASSUME NEW h \in Handlers, Handle(h), WorksOn(h, m)
       PROVE  Whole(m)'
  <2>0. /\ stage[h] # "idle" /\ job[h].msg = m /\ job[h] \in Fragment
        /\ job[h].idx \in Indices /\ job[h].ep = 1 /\ ~Finished(m)
    BY <1>3, <1>5, <1>14, Jobs DEF WorksOn
  <2>1. sent' = sent
    BY <1>14, HandleNet
  <2>2. CASE Lookup(h)
    <3>1. /\ UNCHANGED <<delivered, lost, completed, got, job, net>> /\ stage[h] = "checked"
          /\ stage'[h] = "found" /\ \A g \in Handlers : g # h => stage'[g] = stage[g]
      BY <2>2 DEF Lookup, netVars, histVars, TypeInv, TypeOK
    <3>2. \A i \in 1..Data : Kept(m, i) => Kept(m, i)'
      BY <3>1 DEF Kept
    <3> QED
      BY <1>7, <2>1, <3>1, <3>2 DEF Finished, Finishing
  <2>3. CASE Store(h)
    <3>1. /\ UNCHANGED <<delivered, lost, completed, job, net>> /\ stage[h] = "found"
          /\ stage'[h] = "stored" /\ \A g \in Handlers : g # h => stage'[g] = stage[g]
          /\ got' = [got EXCEPT ![job[h].msg][job[h].idx] = IF @ = 0 THEN job[h].ep ELSE @]
      BY <2>3 DEF Store, netVars, histVars, TypeInv, TypeOK
    <3>2. got'[m] = [got[m] EXCEPT ![job[h].idx] = IF @ = 0 THEN 1 ELSE @]
      BY <2>0, <3>1 DEF TypeInv, TypeOK
    <3>3. got[m] \in [Indices -> 0..MaxEpochs]
      BY DEF TypeInv, TypeOK
    <3>4. got'[m][job[h].idx] # 0 /\ \A i \in Indices : got[m][i] # 0 => got'[m][i] # 0
      BY <2>0, <3>2, <3>3
    <3>5. \A i \in 1..Data : Kept(m, i) => Kept(m, i)'
      <4> SUFFICES ASSUME NEW i \in 1..Data, Kept(m, i) PROVE Kept(m, i)'
        OBVIOUS
      <4>1. job[h] = DataFragment(m, i) => got'[m][i] # 0
        BY <1>4, <3>4
      <4>2. \A g \in Handlers : g # h /\ stage[g] \in {"checked", "found"} /\ job[g] = DataFragment(m, i) =>
                stage'[g] \in {"checked", "found"} /\ job'[g] = DataFragment(m, i)
        BY <3>1
      <4> QED
        BY <1>0, <3>1, <3>4, <4>1, <4>2 DEF Kept
    <3> QED
      BY <1>7, <2>1, <3>1, <3>5 DEF Finished, Finishing
  <2>4. CASE TryAssemble(h)
    <3>1. /\ stage[h] = "stored" /\ UNCHANGED <<net, completed, got>>
          /\ \A g \in Handlers : g # h => stage'[g] = stage[g] /\ job'[g] = job[g]
      BY <2>4 DEF TryAssemble, Deliver, DeclareLost, KeepWaiting, netVars, recvVars, TypeInv, TypeOK
    <3>2. \A i \in 1..Data : Kept(m, i) => Kept(m, i)'
      BY <3>1 DEF Kept
    <3>3. CASE KeepWaiting(h, m)
      <4>1. UNCHANGED <<delivered, lost>> /\ stage'[h] = "idle"
        BY <3>3 DEF KeepWaiting, TypeInv, TypeOK
      <4>2. Finishing(m)' => Finishing(m)
        BY <3>1, <4>1 DEF Finishing
      <4> QED
        BY <1>7, <2>1, <3>1, <3>2, <4>1, <4>2 DEF Finished
    <3>4. CASE Deliver(h, m)
      <4>1. /\ lost' = lost
            /\ delivered'[1][m] = IF \E i \in Indices : got[m][i] = 1 THEN delivered[1][m] + 1
                                  ELSE delivered[1][m]
        BY <1>0, <3>4 DEF Deliver, TypeInv, TypeOK
      <4>2. got[m][job[h].idx] = 1
        BY <1>3, <2>0, <3>1 DEF Inv, HeldInv
      <4>3. delivered'[1][m] >= 1
        BY <1>0, <2>0, <4>1, <4>2
      <4> QED
        BY <1>2, <4>1, <4>3 DEF Whole
    <3>5. ~DeclareLost(h, m)
      <4> SUFFICES ASSUME DeclareLost(h, m) PROVE FALSE
        OBVIOUS
      <4>1. entry[m] = "open"
        BY <2>0, <3>1 DEF Inv, HeldInv
      <4>2. age[m] > Horizon
        BY <1>0, <1>1, Constants DEF DeclareLost, Overdue, TypeInv, TypeOK
      <4>3. delivered[1][m] = 0
        <5>1. delivered[1][m] + lost[1][m] <= 1 /\ lost[1][m] = 0
          BY <1>0, <1>1, <1>2 DEF Inv, OutcomeInv
        <5>2. ~Finishing(m)
          BY <1>5, <1>14, <3>1 DEF Finishing, WorksOn
        <5>3. ~Over(1, m)
          BY <1>14, <2>0 DEF Over
        <5>4. delivered[1][m] + lost[1][m] # 1
          BY <1>0, <1>1, <2>0, <5>2, <5>3 DEF Inv, OutcomeInv
        <5> QED
          BY <1>0, <5>1, <5>4
      <4>4. m <= sent
        BY <1>1, <2>0 DEF Inv, SentInv, Known
      <4>5. MissingData(m) = 0
        BY <1>5, <1>6, <1>14, <3>1, <4>1, <4>2, <4>3, <4>4
      <4>6. parity \in Nat
        BY Constants DEF TypeInv, TypeOK
      <4> QED
        BY <4>5, <4>6 DEF DeclareLost, Hopeless
    <3> QED
      BY <2>0, <2>4, <3>3, <3>4, <3>5 DEF TryAssemble
  <2>5. CASE UseErased(h)
    <3>1. /\ UNCHANGED <<net, delivered, lost, completed, got>> /\ stage[h] = "erased" /\ stage'[h] = "idle"
          /\ \A g \in Handlers : g # h => stage'[g] = stage[g] /\ job'[g] = job[g]
      BY <2>5 DEF UseErased, netVars, recvVars, histVars, TypeInv, TypeOK
    <3>2. \A i \in 1..Data : Kept(m, i) => Kept(m, i)'
      BY <3>1 DEF Kept
    <3>3. Finishing(m)' => Finishing(m)
      BY <3>1 DEF Finishing
    <3> QED
      BY <1>7, <2>1, <3>1, <3>2, <3>3 DEF Finished
  <2>6. CASE Finish(h)
    <3>1. UNCHANGED <<delivered, lost>> /\ stage[h] = "finish"
      BY <2>6 DEF Finish, histVars
    <3>2. delivered[1][m] >= 1
      BY <1>2, <2>0, <3>1 DEF Finishing
    <3> QED
      BY <1>2, <3>1, <3>2 DEF Whole
  <2>7. ~Take(h) /\ ~Reject(h)
    BY <2>0 DEF Take, Reject
  <2> QED
    BY <1>14, <2>2, <2>3, <2>4, <2>5, <2>6, <2>7 DEF Handle
<1>15. CASE CheckOffline
  <2> DEFINE gone == {n \in Msgs : Expired(n)}
  <2>1. /\ UNCHANGED <<net, sent, job, delivered, lost>>
        /\ got'[m] = IF Expired(m) THEN NoFragments ELSE got[m]
        /\ \A h \in Handlers : stage'[h] = Erased(h, gone)
    BY <1>15 DEF CheckOffline, netVars
  <2>2. Expired(m) <=> m \in gone
    OBVIOUS
  <2> HIDE DEF gone
  <2>3. Finished(m)' => Finished(m)
    BY <1>15 DEF CheckOffline, Finished
  <2>4. Finishing(m)' => Finishing(m)
    BY <2>1, Erasing DEF Finishing
  <2>5. CASE ~Expired(m)
    <3>1. \A i \in 1..Data, h \in Handlers :
              stage[h] \in {"checked", "found"} /\ job[h] = DataFragment(m, i) => stage'[h] = stage[h]
      BY <1>4, <2>1, <2>2, <2>5, Erasing
    <3>2. \A i \in 1..Data : Kept(m, i) => Kept(m, i)'
      BY <2>1, <2>5, <3>1 DEF Kept
    <3> QED
      BY <1>7, <2>1, <2>3, <2>4, <3>2
  <2>6. CASE Expired(m)
    <3>1. \A h \in Handlers : ~WorksOn(h, m)
      BY <1>1, <1>15, <2>6 DEF CheckOffline
    <3>2. entry[m] = "open" /\ age[m] >= DeadTimeout
      BY <2>6, <3>1 DEF Expired, Inv, HeldInv, WorksOn
    <3>3. age[m] > Horizon
      BY <1>0, <3>2, Constants DEF TypeInv, TypeOK
    <3>4. MissingData(m) > HaveParity(m) /\ HaveParity(m) \in Nat /\ MissingData(m) \in Nat
      BY <3>1, <3>2, Counting DEF Inv, WaitInv, WorksOn, TypeInv
    <3>5. m <= sent => delivered[1][m] # 0
      BY <1>6, <3>1, <3>2, <3>3, <3>4
    <3> QED
      BY <1>0, <1>7, <2>1, <2>3, <2>4, <3>5
  <2> QED
    BY <2>5, <2>6
<1>16. ASSUME NEW h \in Handlers, Handle(h)
       PROVE  Whole(m)'
  <2>1. Reject(h) \/ (Take(h) /\ job'[h].msg = m) \/ WorksOn(h, m) \/ Aside(m)
    BY <1>16, HandleAside
  <2>2. sent' = sent
    BY <1>16, HandleNet
  <2> QED
    BY <1>11, <1>12, <1>13, <1>14, <1>16, <2>1, <2>2
<1> QED
  BY <1>8, <1>9, <1>10, <1>15, <1>16 DEF Next

(* Every message meets the end it should, for any number of handlers, messages,   *)
(* incarnations, losses and retransmissions: it is put together as soon as it can *)
(* be, and, unless two handlers worked on it at once, it is delivered once or     *)
(* announced as lost once, and without losses and restarts not announced as lost; *)
(* provided what is sent is given up for lost before a message that is finished   *)
(* is forgotten.                                                                  *)
THEOREM EveryMessageMeetsItsEnd ==
    ASSUME Horizon < DeadTimeout
    PROVE  Spec => []OutcomesRight
<1>1. Init => Inv
  <2> SUFFICES ASSUME Init PROVE Inv
    OBVIOUS
  <2>1. /\ net = {} /\ sent = 0 /\ \A h \in Handlers : stage[h] = "idle"
        /\ \A m \in Msgs : got[m] = NoFragments /\ entry[m] = "none" /\ completed[m] = Absent
        /\ \A e \in Epochs, m \in Msgs : delivered[e][m] = 0 /\ lost[e][m] = 0
    BY DEF Init
  <2>2. SentInv /\ HeldInv /\ AloneInv /\ WaitInv /\ TimelyInv
    BY <2>1 DEF SentInv, HeldInv, AloneInv, WaitInv, TimelyInv, NoFragments, Finished, WorksOn
  <2>3. OutcomeInv /\ WholeInv
    BY <2>1 DEF OutcomeInv, WholeInv, Whole, Finished, Finishing, Msgs
  <2> QED
    BY <2>2, <2>3 DEF Inv
<1>2. TypeInv /\ Inv /\ [Next]_vars => Inv'
  BY SentStep, HeldStep, AloneStep, OutcomeStep, WaitStep, TimelyStep, WholeStep DEF Inv
<1>3. TypeInv /\ Inv => OutcomesRight
  <2> SUFFICES ASSUME TypeInv, Inv PROVE OutcomesRight
    OBVIOUS
  <2>1. OneOutcome
    BY DEF Inv, OutcomeInv, OneOutcome
  <2>2. NothingRecoverableWaits
    BY DEF Inv, WaitInv, NothingRecoverableWaits, WorksOn
  <2>3. NoFalseLoss
    BY DEF Inv, WholeInv, Whole, Undisturbed, NoFalseLoss
  <2> QED
    BY <2>1, <2>2, <2>3 DEF OutcomesRight
<1> QED
  BY <1>1, <1>2, <1>3, TypeInvariance, PTL DEF Spec
=============================================================================
