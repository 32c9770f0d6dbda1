------------------------ MODULE CommandChannelProofs ------------------------
(***************************************************************************)
(* Theorems about CommandChannel, for every window, number of commands,    *)
(* number of faults and number of resets.                                  *)
(***************************************************************************)
EXTENDS CommandChannel, WellFoundedInduction, TLAPS

\* A set of numbers that is not empty has a least one.
LEMMA LeastNumber ==
    ASSUME NEW S \in SUBSET Nat, S # {}
    PROVE  \E x \in S : \A y \in S : x <= y
<1>1. PICK x \in S : \A y \in S : ~(<<y, x>> \in OpToRel(<, Nat))
    BY NatLessThanWellFounded, WFMin
<1>2. \A y \in S : ~(y < x)
    BY <1>1 DEF OpToRel
<1>. QED
    BY <1>2

\* The loop of drain_locked stops, at the first number that is not held.
LEMMA AdvanceStops ==
    ASSUME NEW h \in [Ids -> 0..MaxCmd], NEW n \in Ids, h[n] # 0
    PROVE  /\ Advance(n, h) \in (n + 1)..(MaxCmd + 1)
           /\ Advance(n, h) \in Ids => h[Advance(n, h)] = 0
           /\ \A k \in n..(Advance(n, h) - 1) : k \in Ids /\ h[k] # 0
<1>. DEFINE T == {m \in n..(MaxCmd + 1) : m \notin HeldSeqs(h)}
            P(m) == m \notin HeldSeqs(h) /\ \A k \in n..(m - 1) : k \in HeldSeqs(h)
<1>0. MaxCmd \in Nat \ {0} /\ n \in Nat /\ 1 <= n /\ n <= MaxCmd /\ n \in HeldSeqs(h)
    BY CommandAssumption DEF Ids, HeldSeqs
<1>1. T \in SUBSET Nat /\ MaxCmd + 1 \in T
    BY <1>0 DEF HeldSeqs, Ids
<1>2. PICK x \in T : \A y \in T : x <= y
    BY <1>1, LeastNumber
<1>3. x \in n..(MaxCmd + 1) /\ P(x)
    BY <1>0, <1>2
<1>. HIDE DEF P
<1>4. (CHOOSE m \in n..(MaxCmd + 1) : P(m)) \in n..(MaxCmd + 1)
      /\ P(CHOOSE m \in n..(MaxCmd + 1) : P(m))
    BY <1>3
<1>5. Advance(n, h) = CHOOSE m \in n..(MaxCmd + 1) : P(m)
    BY DEF Advance, P
<1>. QED
    BY <1>0, <1>4, <1>5 DEF P, HeldSeqs

\* begin() of m_cmd_held is its least number.
LEMMA FirstHeldLeast ==
    ASSUME NEW h \in [Ids -> 0..MaxCmd], HeldSeqs(h) # {}
    PROVE  /\ FirstHeld(h) \in Ids /\ h[FirstHeld(h)] # 0
           /\ \A s \in Ids : h[s] # 0 => FirstHeld(h) <= s
<1>1. HeldSeqs(h) \in SUBSET Nat
    BY DEF HeldSeqs, Ids
<1>2. \E x \in HeldSeqs(h) : \A y \in HeldSeqs(h) : x <= y
    BY <1>1, LeastNumber
<1>. QED
    BY <1>2 DEF FirstHeld, HeldSeqs

\* What one drain takes out: the commands held under consecutive numbers.
LEMMA RunType ==
    ASSUME NEW h \in [Ids -> 0..MaxCmd], NEW n \in Ids, h[n] # 0
    PROVE  /\ Run(n, Advance(n, h), h) \in Seq(Ids)
           /\ Len(Run(n, Advance(n, h), h)) = Advance(n, h) - n
           /\ \A i \in 1..(Advance(n, h) - n) :
                  /\ n + i - 1 \in n..(Advance(n, h) - 1)
                  /\ Run(n, Advance(n, h), h)[i] = h[n + i - 1]
<1>. DEFINE m == Advance(n, h)
<1>1. m \in (n + 1)..(MaxCmd + 1) /\ \A k \in n..(m - 1) : k \in Ids /\ h[k] # 0
    BY AdvanceStops
<1>2. MaxCmd \in Nat /\ n \in Nat
    BY CommandAssumption DEF Ids
<1>. HIDE DEF m
<1>3. m \in Nat /\ m - n \in Nat
    BY <1>1, <1>2
<1>4. \A i \in 1..(m - n) : n + i - 1 \in n..(m - 1)
    BY <1>2, <1>3
<1>5. \A i \in 1..(m - n) : h[n + i - 1] \in Ids
    BY <1>1, <1>4, <1>2 DEF Ids
<1>6. Run(n, m, h) \in [1..(m - n) -> Ids]
    BY <1>5 DEF Run
<1>7. Run(n, m, h) \in Seq(Ids) /\ Len(Run(n, m, h)) = m - n
    BY <1>3, <1>6
<1>8. \A i \in 1..(m - n) : Run(n, m, h)[i] = h[n + i - 1]
    BY DEF Run
<1>. QED
    BY <1>4, <1>7, <1>8 DEF m

-----------------------------------------------------------------------------
\* TypeOK with what it rests on: a number is never beyond the next identity,
\* and nothing is held before the cursor is initialised.
TypeInv ==
    /\ TypeOK
    /\ seqOut <= sent + 1
    /\ HeldSeqs(held) # {} => next # 0

LEMMA DrainType ==
    ASSUME TypeOK, NEW t \in Threads, NEW h \in [Ids -> 0..MaxCmd], NEW n \in Ids, h[n] # 0,
           Drain(t, n, h)
    PROVE  /\ next' \in (n + 1)..(MaxCmd + 1)
           /\ held' \in [Ids -> 0..MaxCmd]
           /\ batch' \in [Threads -> Seq(Ids)]
           /\ released' \in Seq(Ids)
<1>1. MaxCmd \in Nat /\ next' = Advance(n, h)
    BY CommandAssumption DEF Drain
<1>2. next' \in (n + 1)..(MaxCmd + 1)
    BY <1>1, AdvanceStops
<1>3. held' \in [Ids -> 0..MaxCmd]
    BY <1>1 DEF Drain
<1>4. Run(n, Advance(n, h), h) \in Seq(Ids)
    BY RunType
<1>5. batch' \in [Threads -> Seq(Ids)]
    BY <1>4 DEF Drain, TypeOK
<1>6. released' \in Seq(Ids)
    BY <1>4 DEF Drain, TypeOK
<1>. QED
    BY <1>2, <1>3, <1>5, <1>6

LEMMA ExpireType ==
    ASSUME TypeOK, next # 0, NEW t \in Threads, NEW h \in [Ids -> 0..MaxCmd], HeldSeqs(h) # {},
           Expire(t, h)
    PROVE  /\ next' \in 1..(MaxCmd + 1)
           /\ held' \in [Ids -> 0..MaxCmd]
           /\ batch' \in [Threads -> Seq(Ids)]
           /\ released' \in Seq(Ids)
           /\ waited' \in 0..Wait
           /\ skipped' \subseteq Ids
<1>. DEFINE n == FirstHeld(h)
<1>1. n \in Ids /\ h[n] # 0 /\ Drain(t, n, h)
    BY FirstHeldLeast DEF Expire, SkipTo
<1>. HIDE DEF n
<1>2. /\ next' \in (n + 1)..(MaxCmd + 1)
      /\ held' \in [Ids -> 0..MaxCmd]
      /\ batch' \in [Threads -> Seq(Ids)]
      /\ released' \in Seq(Ids)
    BY <1>1, DrainType
<1>3. n \in Nat /\ MaxCmd \in Nat /\ next \in Nat
    BY <1>1, CommandAssumption DEF Ids, TypeOK
<1>4. waited' \in 0..Wait
    BY CommandAssumption DEF Expire
<1>5. next..(n - 1) \subseteq Ids
    BY <1>1, <1>3 DEF Ids
<1>6. skipped' = skipped \cup (next..(n - 1))
    BY DEF Expire, SkipTo, n
<1>. QED
    BY <1>2, <1>3, <1>4, <1>5, <1>6 DEF TypeOK

\* What every arrival does besides.
LEMMA ReceiveType ==
    ASSUME TypeOK, NEW p \in wire, Receive(p)
    PROVE  /\ p \in Command /\ p.seq \in Ids /\ p.id \in Ids
           /\ wire' \subseteq Command /\ faults' \in 0..MaxFaults
           /\ arrived' \subseteq Ids /\ first' \in 0..MaxCmd
           /\ UNCHANGED <<mode, sent, seqOut, resets, fired>>
<1>1. p \in Command /\ p.seq \in Ids /\ p.id \in Ids
    BY DEF TypeOK, Command
<1>2. wire' \subseteq wire /\ faults' \in 0..MaxFaults
    BY CommandAssumption DEF Receive, Take, TypeOK
<1>3. arrived' \subseteq Ids /\ first' \in 0..MaxCmd
    <2>1. p.seq \in 0..MaxCmd
        BY <1>1, CommandAssumption DEF Ids
    <2>. QED
        BY <1>1, <2>1 DEF Receive, TypeOK
<1>. QED
    BY <1>1, <1>2, <1>3 DEF Receive, TypeOK

LEMMA TypeStep == ASSUME TypeInv, [Next]_vars PROVE TypeInv'
<1>. USE CommandAssumption
<1>1. CASE SendCommand
    <2>1. sent + 1 \in Ids /\ seqOut \in Ids /\ seqOut' \in 1..(MaxCmd + 1)
        BY <1>1 DEF SendCommand, TypeInv, TypeOK, Ids
    <2>2. wire' \subseteq Command
        BY <1>1, <2>1 DEF SendCommand, TypeInv, TypeOK, Command
    <2>. QED
        BY <1>1, <2>1, <2>2, SMTT(20) DEF SendCommand, TypeInv, TypeOK, recvVars, histVars, Ids
<1>2. CASE Lose
    BY <1>2 DEF Lose, TypeInv, TypeOK, recvVars, histVars
<1>3. ASSUME NEW p \in wire, HandleLate(p) PROVE TypeInv'
    <2>1. Receive(p) /\ TypeOK
        BY <1>3 DEF HandleLate, TypeInv
    <2>2. dropped' \subseteq [id : Ids, early : BOOLEAN]
        <3>1. p.id \in Ids /\ (p.seq < first) \in BOOLEAN
            BY <2>1, ReceiveType
        <3>2. [id |-> p.id, early |-> p.seq < first] \in [id : Ids, early : BOOLEAN]
            BY <3>1
        <3>. QED
            BY <1>3, <3>2 DEF HandleLate, TypeInv, TypeOK
    <2>. QED
        BY <1>3, <2>1, <2>2, ReceiveType DEF HandleLate, TypeInv, TypeOK, recvVars
<1>4. ASSUME NEW p \in wire, HandleInOrder(p) PROVE TypeInv'
    <2>. DEFINE h == [held EXCEPT ![p.seq] = p.id]
    <2>1. Receive(p) /\ TypeOK
        BY <1>4 DEF HandleInOrder, TypeInv
    <2>2. p.seq \in Ids /\ h \in [Ids -> 0..MaxCmd] /\ h[p.seq] # 0
        <3>1. p.seq \in Ids /\ p.id \in Ids
            BY <2>1, ReceiveType
        <3>2. p.id \in 0..MaxCmd /\ p.id # 0 /\ held \in [Ids -> 0..MaxCmd]
            BY <2>1, <3>1 DEF TypeOK, Ids
        <3>. QED
            BY <3>1, <3>2
    <2>3. Drain("receiver", p.seq, h) /\ "receiver" \in Threads
        BY <1>4 DEF HandleInOrder, Threads
    <2>. HIDE DEF h
    <2>4. /\ next' \in (p.seq + 1)..(MaxCmd + 1)
          /\ held' \in [Ids -> 0..MaxCmd]
          /\ batch' \in [Threads -> Seq(Ids)]
          /\ released' \in Seq(Ids)
        BY <2>1, <2>2, <2>3, DrainType
    <2>5. next' \in 1..(MaxCmd + 1)
        BY <2>2, <2>4 DEF Ids
    <2>6. waited' \in 0..Wait /\ dropped' \subseteq [id : Ids, early : BOOLEAN] /\ skipped' \subseteq Ids
        BY <1>4, <2>1 DEF HandleInOrder, TypeOK
    <2>7. /\ wire' \subseteq Command /\ faults' \in 0..MaxFaults
          /\ arrived' \subseteq Ids /\ first' \in 0..MaxCmd
          /\ UNCHANGED <<mode, sent, seqOut, resets, fired>>
        BY <2>1, ReceiveType
    <2>. QED
        BY <2>1, <2>4, <2>5, <2>6, <2>7, SMTT(20) DEF TypeInv, TypeOK
<1>5. ASSUME NEW p \in wire, HandleAhead(p) PROVE TypeInv'
    <2>. DEFINE h == [held EXCEPT ![p.seq] = IF @ = 0 THEN p.id ELSE @]
    <2>1. Receive(p) /\ TypeOK
        BY <1>5 DEF HandleAhead, TypeInv
    <2>2. /\ p.seq \in Ids /\ h \in [Ids -> 0..MaxCmd] /\ HeldSeqs(h) # {}
          /\ next # 0 /\ "receiver" \in Threads
        <3>1. p.seq \in Ids /\ p.id \in Ids
            BY <2>1, ReceiveType
        <3>2. p.id \in 0..MaxCmd /\ p.id # 0 /\ held \in [Ids -> 0..MaxCmd] /\ p.seq \in Nat
            BY <2>1, <3>1, SMTT(20) DEF TypeOK, Ids
        <3>3. h \in [Ids -> 0..MaxCmd] /\ h[p.seq] # 0
            BY <3>1, <3>2
        <3>4. next # 0
            BY <1>5, <3>2 DEF HandleAhead, Cursor
        <3>. QED
            BY <3>1, <3>3, <3>4 DEF HeldSeqs, Threads
    <2>3. /\ next' \in 1..(MaxCmd + 1) /\ held' \in [Ids -> 0..MaxCmd]
          /\ batch' \in [Threads -> Seq(Ids)] /\ released' \in Seq(Ids)
          /\ waited' \in 0..Wait /\ skipped' \subseteq Ids
        <3>1. CASE Expire("receiver", h)
            BY <2>1, <2>2, <3>1, ExpireType
        <3>2. CASE held' = h /\ UNCHANGED <<next, batch, released, skipped>> /\ waited' \in {0, waited}
            BY <2>1, <2>2, <3>2 DEF TypeOK
        <3>. QED
            BY <1>5, <3>1, <3>2 DEF HandleAhead
    <2>4. dropped' \subseteq [id : Ids, early : BOOLEAN]
        BY <1>5, <2>1 DEF HandleAhead, TypeOK
    <2>7. /\ wire' \subseteq Command /\ faults' \in 0..MaxFaults
          /\ arrived' \subseteq Ids /\ first' \in 0..MaxCmd
          /\ UNCHANGED <<mode, sent, seqOut, resets, fired>>
        BY <2>1, ReceiveType
    <2>. QED
        BY <2>1, <2>3, <2>4, <2>7, SMTT(30) DEF TypeInv, TypeOK
<1>6. CASE FlushExpired
    <2>1. TypeOK /\ next # 0 /\ HeldSeqs(held) # {} /\ Expire("reactor", held) /\ "reactor" \in Threads
          /\ held \in [Ids -> 0..MaxCmd]
        BY <1>6 DEF FlushExpired, TypeInv, TypeOK, Threads
    <2>2. /\ next' \in 1..(MaxCmd + 1) /\ held' \in [Ids -> 0..MaxCmd]
          /\ batch' \in [Threads -> Seq(Ids)] /\ released' \in Seq(Ids)
          /\ waited' \in 0..Wait /\ skipped' \subseteq Ids
        BY <2>1, ExpireType
    <2>. QED
        BY <1>6, <2>1, <2>2, SMTT(20) DEF FlushExpired, TypeInv, TypeOK
<1>7. ASSUME NEW t \in Threads, Fire(t) PROVE TypeInv'
    <2>1. batch[t] \in Seq(Ids) /\ batch[t] # <<>>
        BY <1>7 DEF Fire, TypeInv, TypeOK
    <2>2. Head(batch[t]) \in Ids /\ Tail(batch[t]) \in Seq(Ids)
        BY <2>1
    <2>3. fired' \in Seq(Ids) /\ batch' \in [Threads -> Seq(Ids)]
        BY <1>7, <2>2 DEF Fire, TypeInv, TypeOK
    <2>. QED
        BY <1>7, <2>3 DEF Fire, TypeInv, TypeOK
<1>8. ASSUME NEW e \in {"sender", "receiver"}, Reset(e) PROVE TypeInv'
    <2>1. resets' \in [{"sender", "receiver"} -> 0..MaxResets]
        BY <1>8 DEF Reset, TypeInv, TypeOK
    <2>2. CASE e = "sender"
        BY <1>8, <2>1, <2>2 DEF Reset, TypeInv, TypeOK, recvVars
    <2>3. CASE e = "receiver"
        <3>1. held' \in [Ids -> 0..MaxCmd] /\ HeldSeqs(held') = {} /\ next' = 0 /\ waited' = 0
            BY <1>8, <2>3 DEF Reset, HeldSeqs
        <3>. QED
            BY <1>8, <2>1, <2>3, <3>1, SMTT(20) DEF Reset, TypeInv, TypeOK
    <2>. QED
        BY <2>2, <2>3
<1>9. CASE Tick
    BY <1>9 DEF Tick, Expired, TypeInv, TypeOK
<1>10. CASE UNCHANGED vars
    BY <1>10 DEF vars, recvVars, histVars, TypeInv, TypeOK
<1>. QED
    BY <1>1, <1>2, <1>3, <1>4, <1>5, <1>6, <1>7, <1>8, <1>9, <1>10 DEF Next

LEMMA TypeInvariance == Spec => []TypeInv
<1>1. Init => TypeInv
    BY CommandAssumption DEF Init, TypeInv, TypeOK, HeldSeqs, Ids, NoReset
<1>2. TypeInv /\ [Next]_vars => TypeInv'
    BY TypeStep
<1>. QED
    BY <1>1, <1>2, PTL DEF Spec

\* Every variable keeps its type: the cursor (m_cmd_next_expected) stays within
\* the numbers send_command assigns, and a window never runs beyond its length.
THEOREM TypeCorrect == Spec => []TypeOK
<1>1. TypeInv => TypeOK
    BY DEF TypeInv
<1>. QED
    BY <1>1, TypeInvariance, PTL

-----------------------------------------------------------------------------
\* The inductive invariant, until a handshake resets either endpoint.  The
\* number of a command is its identity, on the wire and where it is held, and
\* what is held lies beyond the cursor.
SeqIsId ==
    /\ seqOut = sent + 1
    /\ \A p \in wire : p.seq = p.id /\ p.id <= sent
    /\ \A s \in Ids : held[s] # 0 => held[s] = s /\ s <= sent /\ s > next

\* What left the channel did so in order, and lies behind the cursor.
ReleasedBehind ==
    /\ Increasing(released)
    /\ \A i \in 1..Len(released) : released[i] < next /\ released[i] <= sent

\* Each number the cursor has passed left the channel or was skipped.
PassedAccounted ==
    next # 0 => \A k \in Ids : first <= k /\ k < next => k \in Elements(released) \cup skipped

ChannelInv == NoReset => SeqIsId /\ ReleasedBehind /\ PassedAccounted /\ CommandsAccounted

\* Where the reactor receives by itself, what left the channel is what the
\* callback saw, followed by what is left of the one batch there may be.
OneThreadInv ==
    OneThread => \E t \in Threads :
        /\ \A u \in Threads : u # t => batch[u] = <<>>
        /\ NoReset =>
            /\ Len(released) = Len(fired) + Len(batch[t])
            /\ \A i \in 1..Len(fired) : released[i] = fired[i]
            /\ \A i \in 1..Len(batch[t]) : released[Len(fired) + i] = batch[t][i]

\* The entries of two sequences put together.
LEMMA Joined ==
    ASSUME NEW r \in Seq(Ids), NEW s \in Seq(Ids)
    PROVE  /\ r \o s \in Seq(Ids) /\ Len(r \o s) = Len(r) + Len(s)
           /\ Len(r) \in Nat /\ Len(s) \in Nat
           /\ \A i \in 1..Len(r) : i \in 1..Len(r \o s) /\ (r \o s)[i] = r[i]
           /\ \A i \in 1..Len(s) : Len(r) + i \in 1..Len(r \o s) /\ (r \o s)[Len(r) + i] = s[i]
           /\ \A i \in 1..Len(r \o s) :
                  \/ i \in 1..Len(r) /\ (r \o s)[i] = r[i]
                  \/ i > Len(r) /\ i - Len(r) \in 1..Len(s) /\ (r \o s)[i] = s[i - Len(r)]
OBVIOUS

\* A drain from n on, of commands held under their identities.
LEMMA DrainStep ==
    ASSUME TypeInv, NoReset, ReleasedBehind,
           NEW t \in Threads, NEW h \in [Ids -> 0..MaxCmd], NEW n \in Ids, h[n] # 0,
           \A s \in Ids : h[s] # 0 => h[s] = s /\ s <= sent /\ n <= s,
           next <= n, Drain(t, n, h), UNCHANGED sent
    PROVE  /\ next' \in Nat /\ n < next' /\ next <= next'
           /\ \A s \in Ids : held'[s] # 0 => held'[s] = s /\ s <= sent' /\ s > next'
           /\ ReleasedBehind'
           /\ \A k \in Ids : n <= k /\ k < next' => k \in Elements(released')
           /\ Elements(released) \subseteq Elements(released')
           /\ \A s \in Ids : h[s] # 0 => held'[s] = h[s] \/ s \in Elements(released')
           /\ Len(released') = Len(released) + Len(batch'[t]) /\ Len(released') > Len(released)
           /\ \A i \in 1..Len(released) : released'[i] = released[i]
           /\ \A i \in 1..Len(batch'[t]) : released'[Len(released) + i] = batch'[t][i]
           /\ \A u \in Threads : u # t => batch'[u] = batch[u]
<1>. DEFINE m == Advance(n, h)
            run == Run(n, m, h)
<1>1. /\ m \in (n + 1)..(MaxCmd + 1)
      /\ m \in Ids => h[m] = 0
      /\ \A k \in n..(m - 1) : k \in Ids /\ h[k] # 0
    BY AdvanceStops
<1>2. /\ run \in Seq(Ids) /\ Len(run) = m - n
      /\ \A i \in 1..(m - n) : n + i - 1 \in n..(m - 1) /\ run[i] = h[n + i - 1]
    BY RunType
<1>3. /\ next' = m /\ batch' = [batch EXCEPT ![t] = run] /\ released' = released \o run
      /\ held' = [s \in Ids |-> IF s \in n..(m - 1) THEN 0 ELSE h[s]]
    BY DEF Drain
<1>. HIDE DEF m, run
<1>4. /\ released \in Seq(Ids) /\ batch \in [Threads -> Seq(Ids)] /\ n \in Nat /\ m \in Nat /\ next \in Nat
      /\ n < m /\ m <= MaxCmd + 1 /\ MaxCmd \in Nat /\ sent \in Nat
    BY <1>1, CommandAssumption DEF TypeInv, TypeOK, Ids
<1>5. \A i \in 1..(m - n) : run[i] = n + i - 1 /\ run[i] <= sent /\ n <= run[i] /\ run[i] < m
    BY <1>1, <1>2, <1>4
<1>6. batch'[t] = run /\ \A u \in Threads : u # t => batch'[u] = batch[u]
    BY <1>3, <1>4
<1>7. /\ released' \in Seq(Ids) /\ Len(released') = Len(released) + Len(run)
      /\ Len(released) \in Nat /\ Len(run) \in Nat
      /\ \A i \in 1..Len(released) : i \in 1..Len(released') /\ released'[i] = released[i]
      /\ \A i \in 1..Len(run) : Len(released) + i \in 1..Len(released') /\ released'[Len(released) + i] = run[i]
      /\ \A i \in 1..Len(released') :
             \/ i \in 1..Len(released) /\ released'[i] = released[i]
             \/ i > Len(released) /\ i - Len(released) \in 1..Len(run) /\ released'[i] = run[i - Len(released)]
    <2>1. PICK r : r = released
        OBVIOUS
    <2>2. r \in Seq(Ids) /\ run \in Seq(Ids) /\ released' = r \o run
        BY <1>2, <1>3, <1>4, <2>1
    <2>3. /\ r \o run \in Seq(Ids) /\ Len(r \o run) = Len(r) + Len(run)
          /\ Len(r) \in Nat /\ Len(run) \in Nat
          /\ \A i \in 1..Len(r) : i \in 1..Len(r \o run) /\ (r \o run)[i] = r[i]
          /\ \A i \in 1..Len(run) : Len(r) + i \in 1..Len(r \o run) /\ (r \o run)[Len(r) + i] = run[i]
          /\ \A i \in 1..Len(r \o run) :
                 \/ i \in 1..Len(r) /\ (r \o run)[i] = r[i]
                 \/ i > Len(r) /\ i - Len(r) \in 1..Len(run) /\ (r \o run)[i] = run[i - Len(r)]
        BY <2>2, Joined, Zenon
    <2>. QED
        BY <2>1, <2>2, <2>3, Zenon
<1>8. ASSUME NEW s \in Ids, held'[s] # 0 PROVE held'[s] = s /\ s <= sent' /\ s > next'
    <2>1. h[s] = s /\ s <= sent /\ n <= s /\ held'[s] = h[s] /\ s \notin n..(m - 1) /\ s \in Nat
        BY <1>3, <1>8 DEF Ids
    <2>2. s # m
        BY <1>1, <2>1
    <2>. QED
        BY <1>3, <1>4, <2>1, <2>2
<1>8a. \A i \in 1..Len(released) : released[i] \in Nat /\ released[i] < next /\ released[i] <= sent
    <2>1. \A i \in 1..Len(released) : released[i] \in Ids
        BY <1>4
    <2>. QED
        BY <2>1 DEF ReleasedBehind, Ids
<1>8b. ASSUME NEW i \in 1..Len(released'), i \notin 1..Len(released)
       PROVE  /\ i > Len(released) /\ released'[i] = n + (i - Len(released)) - 1
              /\ released'[i] <= sent /\ n <= released'[i] /\ released'[i] < m
    <2>1. i > Len(released) /\ i - Len(released) \in 1..Len(run) /\ released'[i] = run[i - Len(released)]
        BY <1>7, <1>8b
    <2>2. i - Len(released) \in 1..(m - n)
        BY <2>1, <1>2
    <2>. QED
        BY <2>1, <2>2, <1>5
<1>9. ReleasedBehind'
    <2>1. ASSUME NEW i \in 1..Len(released') PROVE released'[i] < next' /\ released'[i] <= sent'
        <3>1. CASE i \in 1..Len(released)
            <4>1. released'[i] = released[i]
                BY <3>1, <1>7
            <4>. QED
                BY <3>1, <4>1, <1>3, <1>4, <1>8a
        <3>2. CASE i \notin 1..Len(released)
            BY <3>2, <1>3, <1>8b
        <3>. QED
            BY <3>1, <3>2
    <2>2. ASSUME NEW i \in 1..Len(released'), NEW j \in 1..Len(released'), i < j
          PROVE  released'[i] < released'[j]
        <3>1. CASE j \in 1..Len(released)
            <4>1. i \in 1..Len(released)
                BY <3>1, <2>2, <1>7
            <4>. QED
                BY <3>1, <4>1, <2>2, <1>7 DEF ReleasedBehind, Increasing
        <3>2. CASE j \notin 1..Len(released) /\ i \in 1..Len(released)
            <4>1. released'[i] = released[i] /\ released[i] < next /\ released[i] \in Nat
                BY <3>2, <1>7, <1>8a
            <4>2. n <= released'[j] /\ released'[j] = n + (j - Len(released)) - 1
                BY <3>2, <1>8b
            <4>. QED
                BY <4>1, <4>2, <1>4, <1>7, SMTT(30)
        <3>3. CASE i \notin 1..Len(released) /\ j \notin 1..Len(released)
            BY <3>3, <2>2, <1>4, <1>7, <1>8b
        <3>. QED
            BY <3>1, <3>2, <3>3
    <2>. QED
        BY <2>1, <2>2 DEF ReleasedBehind, Increasing
<1>10. ASSUME NEW k \in Ids, n <= k, k < next' PROVE k \in Elements(released')
    <2>1. k - n + 1 \in 1..(m - n) /\ run[k - n + 1] = k
        BY <1>3, <1>4, <1>5, <1>10 DEF Ids
    <2>. QED
        BY <2>1, <1>2, <1>7 DEF Elements
<1>11. Elements(released) \subseteq Elements(released')
    BY <1>7 DEF Elements
<1>12. ASSUME NEW s \in Ids, h[s] # 0 PROVE held'[s] = h[s] \/ s \in Elements(released')
    <2>1. CASE s \in n..(m - 1)
        BY <2>1, <1>3, <1>4, <1>10
    <2>. QED
        BY <2>1, <1>3
<1>13. n < next' /\ next <= next' /\ next' \in Nat
    BY <1>3, <1>4
<1>14. Len(released') = Len(released) + Len(batch'[t]) /\ Len(released') > Len(released)
    <2>1. Len(run) > 0
        BY <1>2, <1>4
    <2>. QED
        BY <2>1, <1>6, <1>7
<1>15. /\ \A i \in 1..Len(released) : released'[i] = released[i]
       /\ \A i \in 1..Len(batch'[t]) : released'[Len(released) + i] = batch'[t][i]
    BY <1>6, <1>7
<1>. QED
    BY <1>6, <1>8, <1>9, <1>10, <1>11, <1>12, <1>13, <1>14, <1>15

\* Skipping a gap: the numbers between the cursor and the first held command
\* are skipped, and the drain that follows starts there.
LEMMA ExpireStep ==
    ASSUME TypeInv, NoReset, ReleasedBehind, PassedAccounted, next # 0,
           NEW t \in Threads, NEW h \in [Ids -> 0..MaxCmd], HeldSeqs(h) # {},
           \A s \in Ids : h[s] # 0 => h[s] = s /\ s <= sent /\ s > next,
           Expire(t, h), UNCHANGED <<sent, first>>
    PROVE  /\ next <= next'
           /\ \A s \in Ids : held'[s] # 0 => held'[s] = s /\ s <= sent' /\ s > next'
           /\ ReleasedBehind' /\ PassedAccounted'
           /\ Elements(released) \subseteq Elements(released') /\ skipped \subseteq skipped'
           /\ \A s \in Ids : h[s] # 0 => held'[s] = h[s] \/ s \in Elements(released')
<1>. DEFINE n == FirstHeld(h)
<1>1. /\ n \in Ids /\ h[n] # 0 /\ Drain(t, n, h) /\ skipped' = skipped \cup (next..(n - 1))
      /\ \A s \in Ids : h[s] # 0 => n <= s
    BY FirstHeldLeast DEF Expire, SkipTo
<1>. HIDE DEF n
<1>2. n \in Nat /\ next \in Nat /\ next < n
    BY <1>1, CommandAssumption DEF TypeInv, TypeOK, Ids
<1>3. \A s \in Ids : h[s] # 0 => h[s] = s /\ s <= sent /\ n <= s
    BY <1>1
<1>4. /\ next' \in Nat /\ n < next' /\ next <= next'
      /\ \A s \in Ids : held'[s] # 0 => held'[s] = s /\ s <= sent' /\ s > next'
      /\ ReleasedBehind'
      /\ \A k \in Ids : n <= k /\ k < next' => k \in Elements(released')
      /\ Elements(released) \subseteq Elements(released')
      /\ \A s \in Ids : h[s] # 0 => held'[s] = h[s] \/ s \in Elements(released')
    BY <1>1, <1>2, <1>3, DrainStep
<1>5. PassedAccounted'
    <2>. SUFFICES ASSUME NEW k \in Ids, first <= k, k < next'
                  PROVE  k \in Elements(released') \cup skipped'
        BY DEF PassedAccounted
    <2>1. k \in Nat
        BY DEF Ids
    <2>2. CASE k < next
        BY <2>2, <1>1, <1>4 DEF PassedAccounted
    <2>3. CASE next <= k /\ k < n
        BY <2>1, <2>3, <1>1, <1>2
    <2>4. CASE n <= k
        BY <2>4, <1>4
    <2>. QED
        BY <2>1, <2>2, <2>3, <2>4, <1>2
<1>. QED
    BY <1>1, <1>4, <1>5

\* What was accounted for before a step stays so.
LEMMA StillAccounted ==
    ASSUME NoReset, CommandsAccounted, NEW h,
           dropped \subseteq dropped', Elements(released) \subseteq Elements(released'),
           skipped \subseteq skipped',
           \A s \in Ids : held[s] # 0 /\ s > next => held[s] = s /\ h[s] = s,
           \A s \in Ids : h[s] # 0 => held'[s] = h[s] \/ s \in Elements(released'),
           \A s \in Ids : held'[s] # 0 => s > next',
           0 \notin arrived
    PROVE  /\ \A i \in arrived : \/ \E d \in dropped' : d.id = i
                                 \/ i \in Elements(released')
                                 \/ \E s \in Ids : held'[s] = i /\ s > next'
           /\ \A d \in dropped : d.id \in Elements(released') \cup skipped' \/ d.early
<1>1. ASSUME NEW i \in arrived
      PROVE  \/ \E d \in dropped' : d.id = i
             \/ i \in Elements(released')
             \/ \E s \in Ids : held'[s] = i /\ s > next'
    <2>1. CASE \E s \in Ids : held[s] = i /\ s > next
        <3>1. PICK s \in Ids : held[s] = i /\ s > next
            BY <2>1
        <3>2. i = s /\ i # 0 /\ h[s] = i
            BY <3>1
        <3>3. held'[s] = i \/ i \in Elements(released')
            BY <3>2
        <3>. QED
            BY <3>2, <3>3
    <2>2. CASE ~\E s \in Ids : held[s] = i /\ s > next
        BY <2>2 DEF CommandsAccounted, NothingVanishes
    <2>. QED
        BY <2>1, <2>2
<1>2. \A d \in dropped : d.id \in Elements(released') \cup skipped' \/ d.early
    BY DEF CommandsAccounted, DropJustified
<1>. QED
    BY <1>1, <1>2

\* What handle drains from, of the expected number and of a later one.
WithExpected(p) == [held EXCEPT ![p.seq] = p.id]
WithAhead(p)    == [held EXCEPT ![p.seq] = IF @ = 0 THEN p.id ELSE @]

LEMMA Arriving ==
    ASSUME TypeInv, SeqIsId, NEW p \in wire, Receive(p)
    PROVE  /\ p \in Command /\ p.seq \in Ids /\ p.id = p.seq /\ p.seq <= sent
           /\ p.seq \in Nat /\ p.seq # 0 /\ p.seq <= MaxCmd
           /\ UNCHANGED <<mode, sent, seqOut, resets, fired>> /\ wire' \subseteq wire
           /\ next \in Nat /\ sent \in Nat /\ held \in [Ids -> 0..MaxCmd] /\ 0 \notin arrived
           /\ \A s \in Ids : s \in Nat /\ (held[s] # 0 => held[s] = s /\ s <= sent /\ s > next)
           /\ next = 0 => \A s \in Ids : held[s] = 0
<1>1. p \in Command /\ p.seq \in Ids /\ p.id = p.seq /\ p.seq <= sent
    BY DEF SeqIsId, TypeInv, TypeOK, Command
<1>2. p.seq \in Nat /\ p.seq # 0 /\ p.seq <= MaxCmd
    BY <1>1, CommandAssumption DEF Ids
<1>3. UNCHANGED <<mode, sent, seqOut, resets, fired>> /\ wire' \subseteq wire
    BY DEF Receive, Take
<1>4. next \in Nat /\ sent \in Nat /\ held \in [Ids -> 0..MaxCmd] /\ 0 \notin arrived
    BY CommandAssumption DEF TypeInv, TypeOK, Ids
<1>5. \A s \in Ids : s \in Nat /\ (held[s] # 0 => held[s] = s /\ s <= sent /\ s > next)
    BY DEF SeqIsId, Ids
<1>6. next = 0 => \A s \in Ids : held[s] = 0
    BY DEF TypeInv, HeldSeqs
<1>. QED
    BY <1>1, <1>2, <1>3, <1>4, <1>5, <1>6

LEMMA InOrderDrains ==
    ASSUME TypeInv, SeqIsId, NEW p \in wire, HandleInOrder(p)
    PROVE  /\ WithExpected(p) \in [Ids -> 0..MaxCmd] /\ WithExpected(p)[p.seq] = p.seq
           /\ \A s \in Ids : s # p.seq => WithExpected(p)[s] = held[s]
           /\ \A s \in Ids : WithExpected(p)[s] # 0 =>
                  WithExpected(p)[s] = s /\ s <= sent /\ p.seq <= s
           /\ Drain("receiver", p.seq, WithExpected(p)) /\ "receiver" \in Threads
           /\ UNCHANGED <<dropped, skipped>> /\ (next = 0 \/ next = p.seq) /\ next <= p.seq
<1>. DEFINE n == p.seq
            h == WithExpected(p)
<1>0. Receive(p)
    BY DEF HandleInOrder
<1>1. h \in [Ids -> 0..MaxCmd] /\ h[n] = n /\ \A s \in Ids : s # n => h[s] = held[s]
    BY <1>0, Arriving, CommandAssumption DEF WithExpected
<1>2. /\ Drain("receiver", n, h) /\ "receiver" \in Threads /\ UNCHANGED <<dropped, skipped>>
      /\ (next = 0 \/ next = n)
    BY DEF HandleInOrder, Threads, Cursor, WithExpected
<1>3. n \in Nat /\ next <= n
    BY <1>0, <1>2, Arriving
<1>. HIDE DEF h
<1>4. ASSUME NEW s \in Ids, h[s] # 0 PROVE h[s] = s /\ s <= sent /\ n <= s
    <2>1. CASE s = n
        BY <2>1, <1>0, <1>1, Arriving
    <2>2. CASE s # n
        BY <2>2, <1>0, <1>1, <1>2, <1>4, Arriving
    <2>. QED
        BY <2>1, <2>2
<1>. QED
    BY <1>1, <1>2, <1>3, <1>4 DEF h

LEMMA AheadDrains ==
    ASSUME TypeInv, SeqIsId, NEW p \in wire, HandleAhead(p)
    PROVE  /\ WithAhead(p) \in [Ids -> 0..MaxCmd] /\ WithAhead(p)[p.seq] = p.seq
           /\ \A s \in Ids : s # p.seq => WithAhead(p)[s] = held[s]
           /\ \A s \in Ids : WithAhead(p)[s] # 0 =>
                  WithAhead(p)[s] = s /\ s <= sent /\ s > next
           /\ HeldSeqs(WithAhead(p)) # {} /\ "receiver" \in Threads
           /\ next # 0 /\ p.seq > next /\ UNCHANGED <<dropped, first>>
           /\ \/ held' = WithAhead(p) /\ UNCHANGED <<next, batch, released, skipped>>
              \/ Expire("receiver", WithAhead(p))
<1>. DEFINE n == p.seq
            h == WithAhead(p)
<1>0. Receive(p)
    BY DEF HandleAhead
<1>1. next # 0 /\ n > next /\ UNCHANGED dropped
    BY <1>0, Arriving DEF HandleAhead, Cursor
<1>2. UNCHANGED first
    BY <1>0, <1>1 DEF Receive
<1>3. h \in [Ids -> 0..MaxCmd] /\ h[n] = n /\ \A s \in Ids : s # n => h[s] = held[s]
    BY <1>0, Arriving, CommandAssumption DEF WithAhead
<1>4. \/ held' = h /\ UNCHANGED <<next, batch, released, skipped>>
      \/ Expire("receiver", h)
    BY DEF HandleAhead, WithAhead
<1>. HIDE DEF h
<1>5. \A s \in Ids : h[s] # 0 => h[s] = s /\ s <= sent /\ s > next
    BY <1>0, <1>1, <1>3, Arriving
<1>6. HeldSeqs(h) # {} /\ "receiver" \in Threads
    BY <1>0, <1>3, Arriving DEF HeldSeqs, Threads
<1>. QED
    BY <1>1, <1>2, <1>3, <1>4, <1>5, <1>6 DEF h

\* Steps that leave the receiver's state and what left the channel alone.
LEMMA SenderStep ==
    ASSUME ChannelInv, NoReset' => NoReset,
           NoReset' => /\ seqOut' = sent' + 1 /\ sent <= sent'
                       /\ \A p \in wire' : p.seq = p.id /\ p.id <= sent',
           TypeInv, sent' \in Nat,
           UNCHANGED <<next, held, released, arrived, dropped, skipped, first>>
    PROVE  ChannelInv'
<1>. SUFFICES ASSUME NoReset' PROVE SeqIsId' /\ ReleasedBehind' /\ PassedAccounted' /\ CommandsAccounted'
    BY DEF ChannelInv
<1>1. NoReset /\ SeqIsId /\ ReleasedBehind /\ PassedAccounted /\ CommandsAccounted
      /\ sent \in Nat /\ sent' \in Nat /\ sent <= sent'
    BY DEF ChannelInv, TypeInv, TypeOK
<1>2. SeqIsId'
    <2>1. ASSUME NEW s \in Ids, held'[s] # 0 PROVE held'[s] = s /\ s <= sent' /\ s > next'
        <3>1. s \in Nat /\ held[s] = s /\ s <= sent /\ s > next
            BY <2>1, <1>1 DEF SeqIsId, Ids
        <3>. QED
            BY <3>1, <1>1
    <2>. QED
        BY <2>1 DEF SeqIsId
<1>3. ReleasedBehind'
    <2>1. ASSUME NEW i \in 1..Len(released') PROVE released'[i] < next' /\ released'[i] <= sent'
        <3>1. released[i] \in Ids /\ released[i] < next /\ released[i] <= sent
            BY <2>1, <1>1, SMTT(20) DEF ReleasedBehind, TypeInv, TypeOK
        <3>2. released[i] \in Nat
            BY <3>1 DEF Ids
        <3>. QED
            BY <3>1, <3>2, <1>1
    <2>. QED
        BY <2>1, <1>1 DEF ReleasedBehind, Increasing
<1>4. PassedAccounted'
    BY <1>1 DEF PassedAccounted, Elements
<1>5. CommandsAccounted'
    BY <1>1 DEF CommandsAccounted, NothingVanishes, DropJustified, Elements
<1>. QED
    BY <1>2, <1>3, <1>4, <1>5

LEMMA ChannelStep == ASSUME TypeInv, ChannelInv, [Next]_vars PROVE ChannelInv'
<1>. USE CommandAssumption
<1>1. CASE SendCommand
    <2>1. NoReset' => NoReset
        BY <1>1 DEF SendCommand, NoReset
    <2>2. sent \in Nat /\ sent' = sent + 1 /\ sent' \in Nat
        BY <1>1 DEF SendCommand, TypeInv, TypeOK
    <2>3. ASSUME NoReset' PROVE seqOut' = sent' + 1 /\ \A p \in wire' : p.seq = p.id /\ p.id <= sent'
        <3>1. SeqIsId
            BY <2>1, <2>3 DEF ChannelInv
        <3>2. seqOut' = sent' + 1 /\ wire' = wire \cup {[seq |-> sent + 1, id |-> sent + 1]}
            BY <1>1, <2>2, <3>1 DEF SendCommand, SeqIsId
        <3>3. \A p \in wire : p.seq = p.id /\ p.id <= sent /\ p.id \in Nat
            BY <3>1 DEF SeqIsId, TypeInv, TypeOK, Command, Ids
        <3>. QED
            BY <2>2, <3>2, <3>3
    <2>4. UNCHANGED <<next, held, released, arrived, dropped, skipped, first>>
        BY <1>1 DEF SendCommand, recvVars, histVars
    <2>. QED
        BY <2>1, <2>2, <2>3, <2>4, SenderStep
<1>2. CASE Lose
    <2>1. NoReset' => NoReset
        BY <1>2 DEF Lose, NoReset
    <2>2. sent \in Nat /\ UNCHANGED <<sent, seqOut, next, held, released, arrived, dropped, skipped, first>>
          /\ wire' \subseteq wire
        BY <1>2 DEF Lose, recvVars, histVars, TypeInv, TypeOK
    <2>3. NoReset' => seqOut' = sent' + 1 /\ \A p \in wire' : p.seq = p.id /\ p.id <= sent'
        BY <2>1, <2>2 DEF ChannelInv, SeqIsId
    <2>. QED
        BY <2>1, <2>2, <2>3, SenderStep
<1>3. ASSUME NEW p \in wire, Receive(p),
             HandleLate(p) \/ HandleInOrder(p) \/ HandleAhead(p)
      PROVE  ChannelInv'
    <2>. SUFFICES ASSUME NoReset' PROVE SeqIsId' /\ ReleasedBehind' /\ PassedAccounted' /\ CommandsAccounted'
        BY DEF ChannelInv
    <2>1. /\ NoReset /\ SeqIsId /\ ReleasedBehind /\ PassedAccounted /\ CommandsAccounted
          /\ UNCHANGED <<sent, seqOut, resets>> /\ wire' \subseteq wire
          /\ arrived' = arrived \cup {p.id} /\ first' = IF next = 0 THEN p.seq ELSE first
        BY <1>3 DEF ChannelInv, NoReset, Receive, Take
    <2>2. /\ p.seq \in Ids /\ p.id \in Ids /\ p.id = p.seq
          /\ p.seq <= sent /\ p.seq \in Nat /\ p.seq # 0 /\ p.seq <= MaxCmd
        BY <1>3, <2>1, Arriving
    <2>3. next \in Nat /\ sent \in Nat /\ held \in [Ids -> 0..MaxCmd] /\ 0 \notin arrived
        BY <1>3, <2>1, Arriving
    <2>4. \A s \in Ids : s \in Nat /\ (held[s] # 0 => held[s] = s /\ s <= sent /\ s > next)
        BY <1>3, <2>1, Arriving
    <2>6. CASE HandleLate(p)
        <3>1. /\ UNCHANGED <<next, held, released, skipped>> /\ next # 0 /\ p.seq < next
              /\ dropped' = dropped \cup {[id |-> p.id, early |-> p.seq < first]}
            BY <2>2, <2>3, <2>6 DEF HandleLate, Behind, Cursor, recvVars
        <3>. DEFINE late == [id |-> p.id, early |-> p.seq < first]
        <3>1a. late.id = p.id /\ late.early = (p.seq < first)
            BY Zenon
        <3>1b. dropped' = dropped \cup {late}
            BY <3>1
        <3>. HIDE DEF late
        <3>2. SeqIsId' /\ ReleasedBehind' /\ PassedAccounted'
            BY <2>1, <3>1 DEF SeqIsId, ReleasedBehind, PassedAccounted, Increasing, Elements
        <3>3. NothingVanishes'
            <4>1. \E d \in dropped' : d.id = p.id
                BY <3>1a, <3>1b
            <4>2. \A i \in arrived : \/ \E d \in dropped' : d.id = i
                                     \/ i \in Elements(released')
                                     \/ \E s \in Ids : held'[s] = i /\ s > next'
                BY <2>1, <3>1 DEF CommandsAccounted, NothingVanishes
            <4>. QED
                BY <4>1, <4>2, <2>1 DEF NothingVanishes
        <3>4. DropJustified'
            <4>1. p.id \in Elements(released') \cup skipped' \/ p.seq < first
                <5>1. first \in Nat
                    BY DEF TypeInv, TypeOK
                <5>. QED
                    BY <5>1, <2>1, <2>2, <3>1 DEF PassedAccounted
            <4>2. \A d \in dropped : d.id \in Elements(released') \cup skipped' \/ d.early
                BY <2>1, <3>1 DEF CommandsAccounted, DropJustified
            <4>. QED
                BY <3>1a, <3>1b, <4>1, <4>2, Zenon DEF DropJustified
        <3>. QED
            BY <3>2, <3>3, <3>4 DEF CommandsAccounted
    <2>7. CASE HandleInOrder(p)
        <3>. DEFINE n == p.seq
                    h == WithExpected(p)
        <3>1. /\ h \in [Ids -> 0..MaxCmd] /\ h[n] = n /\ \A s \in Ids : s # n => h[s] = held[s]
              /\ \A s \in Ids : h[s] # 0 => h[s] = s /\ s <= sent /\ n <= s
              /\ Drain("receiver", n, h) /\ "receiver" \in Threads
              /\ UNCHANGED <<dropped, skipped>> /\ (next = 0 \/ next = n) /\ next <= n
            BY <2>1, <2>7, InOrderDrains
        <3>. HIDE DEF h
        <3>4. /\ next' \in Nat /\ n < next' /\ next <= next'
              /\ \A s \in Ids : held'[s] # 0 => held'[s] = s /\ s <= sent' /\ s > next'
              /\ ReleasedBehind'
              /\ \A k \in Ids : n <= k /\ k < next' => k \in Elements(released')
              /\ Elements(released) \subseteq Elements(released')
              /\ \A s \in Ids : h[s] # 0 => held'[s] = h[s] \/ s \in Elements(released')
            BY <2>1, <2>2, <2>3, <3>1, DrainStep
        <3>5. SeqIsId'
            BY <2>1, <3>4 DEF SeqIsId
        <3>6. PassedAccounted'
            <4>. SUFFICES ASSUME NEW k \in Ids, first' <= k, k < next'
                          PROVE  k \in Elements(released') \cup skipped'
                BY DEF PassedAccounted
            <4>1. CASE n <= k
                BY <4>1, <3>4
            <4>2. CASE ~(n <= k)
                <5>1. next = n /\ k < next /\ first' = first
                    BY <4>2, <2>1, <2>2, <3>1 DEF Ids
                <5>. QED
                    BY <5>1, <2>1, <2>2, <3>1, <3>4 DEF PassedAccounted
            <4>. QED
                BY <4>1, <4>2
        <3>7. /\ \A i \in arrived : \/ \E d \in dropped' : d.id = i
                                    \/ i \in Elements(released')
                                    \/ \E s \in Ids : held'[s] = i /\ s > next'
              /\ \A d \in dropped : d.id \in Elements(released') \cup skipped' \/ d.early
            <4>1. \A s \in Ids : held[s] # 0 /\ s > next => held[s] = s /\ h[s] = s
                BY <2>4, <3>1
            <4>. QED
                BY <4>1, <2>1, <2>3, <3>1, <3>4, StillAccounted
        <3>8. CommandsAccounted'
            <4>1. p.id \in Elements(released')
                BY <2>1, <2>2, <3>4
            <4>. QED
                BY <4>1, <2>1, <3>1, <3>7 DEF CommandsAccounted, NothingVanishes, DropJustified
        <3>. QED
            BY <3>4, <3>5, <3>6, <3>8
    <2>8. CASE HandleAhead(p)
        <3>. DEFINE n == p.seq
                    h == WithAhead(p)
        <3>1. /\ h \in [Ids -> 0..MaxCmd] /\ h[n] = n /\ \A s \in Ids : s # n => h[s] = held[s]
              /\ \A s \in Ids : h[s] # 0 => h[s] = s /\ s <= sent /\ s > next
              /\ HeldSeqs(h) # {} /\ "receiver" \in Threads
              /\ next # 0 /\ n > next /\ UNCHANGED <<dropped, first>>
              /\ \/ held' = h /\ UNCHANGED <<next, batch, released, skipped>>
                 \/ Expire("receiver", h)
            BY <2>1, <2>8, AheadDrains
        <3>. HIDE DEF h
        <3>5. /\ \A s \in Ids : held'[s] # 0 => held'[s] = s /\ s <= sent' /\ s > next'
              /\ ReleasedBehind' /\ PassedAccounted'
              /\ Elements(released) \subseteq Elements(released') /\ skipped \subseteq skipped'
              /\ \A s \in Ids : h[s] # 0 => held'[s] = h[s] \/ s \in Elements(released')
            <4>1. CASE held' = h /\ UNCHANGED <<next, released, skipped>>
                BY <4>1, <2>1, <3>1 DEF ReleasedBehind, PassedAccounted, Increasing, Elements
            <4>2. CASE Expire("receiver", h)
                BY <4>2, <2>1, <3>1, ExpireStep
            <4>. QED
                BY <3>1, <4>1, <4>2
        <3>6. SeqIsId'
            BY <2>1, <3>5 DEF SeqIsId
        <3>7. /\ \A i \in arrived : \/ \E d \in dropped' : d.id = i
                                    \/ i \in Elements(released')
                                    \/ \E s \in Ids : held'[s] = i /\ s > next'
              /\ \A d \in dropped : d.id \in Elements(released') \cup skipped' \/ d.early
            <4>1. \A s \in Ids : held[s] # 0 /\ s > next => held[s] = s /\ h[s] = s
                BY <2>4, <3>1
            <4>. QED
                BY <4>1, <2>1, <2>3, <3>1, <3>5, StillAccounted
        <3>8. CommandsAccounted'
            <4>1. p.id \in Elements(released') \/ \E s \in Ids : held'[s] = p.id /\ s > next'
                BY <2>1, <2>2, <3>1, <3>5
            <4>. QED
                BY <4>1, <2>1, <3>1, <3>7 DEF CommandsAccounted, NothingVanishes, DropJustified
        <3>. QED
            BY <3>5, <3>6, <3>8
    <2>. QED
        BY <1>3, <2>6, <2>7, <2>8
<1>4. CASE FlushExpired
    <2>. SUFFICES ASSUME NoReset' PROVE SeqIsId' /\ ReleasedBehind' /\ PassedAccounted' /\ CommandsAccounted'
        BY DEF ChannelInv
    <2>1. /\ NoReset /\ SeqIsId /\ ReleasedBehind /\ PassedAccounted /\ CommandsAccounted
          /\ UNCHANGED <<sent, seqOut, wire, arrived, dropped, first>> /\ next # 0
          /\ Expire("reactor", held) /\ "reactor" \in Threads /\ HeldSeqs(held) # {}
        BY <1>4 DEF FlushExpired, ChannelInv, TypeInv, NoReset, Threads
    <2>2. /\ held \in [Ids -> 0..MaxCmd] /\ 0 \notin arrived
          /\ \A s \in Ids : held[s] # 0 => held[s] = s /\ s <= sent /\ s > next
        BY <2>1 DEF TypeInv, TypeOK, SeqIsId, Ids
    <2>3. /\ \A s \in Ids : held'[s] # 0 => held'[s] = s /\ s <= sent' /\ s > next'
          /\ ReleasedBehind' /\ PassedAccounted'
          /\ Elements(released) \subseteq Elements(released') /\ skipped \subseteq skipped'
          /\ \A s \in Ids : held[s] # 0 => held'[s] = held[s] \/ s \in Elements(released')
        BY <2>1, <2>2, ExpireStep
    <2>4. SeqIsId'
        BY <2>1, <2>3 DEF SeqIsId
    <2>5. /\ \A i \in arrived : \/ \E d \in dropped' : d.id = i
                                \/ i \in Elements(released')
                                \/ \E s \in Ids : held'[s] = i /\ s > next'
          /\ \A d \in dropped : d.id \in Elements(released') \cup skipped' \/ d.early
        BY <2>1, <2>2, <2>3, StillAccounted
    <2>6. CommandsAccounted'
        BY <2>1, <2>5 DEF CommandsAccounted, NothingVanishes, DropJustified
    <2>. QED
        BY <2>3, <2>4, <2>6
<1>5. ASSUME NEW e \in {"sender", "receiver"}, Reset(e) PROVE ChannelInv'
    <2>1. resets[e] \in Nat /\ resets'[e] = resets[e] + 1
        BY <1>5 DEF Reset, TypeInv, TypeOK
    <2>. QED
        BY <2>1 DEF ChannelInv, NoReset
<1>6. CASE (\E t \in Threads : Fire(t)) \/ Tick \/ UNCHANGED vars
    <2>1. NoReset' => NoReset
        BY <1>6 DEF Fire, Tick, vars, recvVars, histVars, NoReset
    <2>2. /\ UNCHANGED <<sent, seqOut, wire, next, held, released, arrived, dropped, skipped, first>>
          /\ sent \in Nat
        BY <1>6 DEF Fire, Tick, vars, recvVars, histVars, TypeInv, TypeOK
    <2>3. NoReset' => seqOut' = sent' + 1 /\ \A p \in wire' : p.seq = p.id /\ p.id <= sent'
        BY <2>1, <2>2 DEF ChannelInv, SeqIsId
    <2>. QED
        BY <2>1, <2>2, <2>3, SenderStep
<1>. QED
    BY <1>1, <1>2, <1>3, <1>4, <1>5, <1>6 DEF Next, HandleLate, HandleInOrder, HandleAhead

LEMMA ChannelInvariance == Spec => []ChannelInv
<1>1. Init => ChannelInv
    <2>. SUFFICES ASSUME Init PROVE SeqIsId /\ ReleasedBehind /\ PassedAccounted /\ CommandsAccounted
        BY DEF ChannelInv
    <2>. USE DEF Init
    <2>1. SeqIsId /\ PassedAccounted
        BY DEF SeqIsId, PassedAccounted
    <2>2. ReleasedBehind
        BY DEF ReleasedBehind, Increasing
    <2>3. CommandsAccounted
        BY DEF CommandsAccounted, NothingVanishes, DropJustified
    <2>. QED
        BY <2>1, <2>2, <2>3
<1>2. TypeInv /\ ChannelInv /\ [Next]_vars => ChannelInv'
    BY ChannelStep
<1>. QED
    BY <1>1, <1>2, TypeInvariance, PTL DEF Spec

\* No command that was handled vanishes in drain_locked, expire_locked or
\* emplace, and only what the cursor has passed is dropped as late.
THEOREM EveryCommandAccounted == Spec => []CommandsAccounted
<1>1. ChannelInv => CommandsAccounted
    BY DEF ChannelInv, CommandsAccounted, NothingVanishes, DropJustified
<1>. QED
    BY <1>1, ChannelInvariance, PTL

-----------------------------------------------------------------------------
\* What a step of thread t that takes commands out does to the two records of
\* what was taken out.
TakesOut(t) ==
    /\ Free(t) /\ UNCHANGED <<mode, sent, fired, resets>>
    /\ \A u \in Threads : u # t => batch'[u] = batch[u]
    /\ ~NoReset => UNCHANGED released
    /\ NoReset =>
        /\ ReleasedBehind'
        /\ Len(released') = Len(released) + Len(batch'[t]) /\ Len(released') > Len(released)
        /\ \A i \in 1..Len(released) : released'[i] = released[i]
        /\ \A i \in 1..Len(batch'[t]) : released'[Len(released) + i] = batch'[t][i]

LEMMA DrainTakesOut ==
    ASSUME TypeInv, NoReset => ReleasedBehind, NEW t \in Threads, NEW h \in [Ids -> 0..MaxCmd],
           NEW n \in Ids, h[n] # 0,
           NoReset => \A s \in Ids : h[s] # 0 => h[s] = s /\ s <= sent /\ n <= s,
           NoReset => next <= n,
           Drain(t, n, h), Free(t), UNCHANGED <<mode, sent, fired, resets>>
    PROVE  TakesOut(t)
<1>1. \A u \in Threads : u # t => batch'[u] = batch[u]
    BY DEF Drain, TypeInv, TypeOK
<1>2. ~NoReset => UNCHANGED released
    BY DEF Drain
<1>3. NoReset =>
        /\ ReleasedBehind'
        /\ Len(released') = Len(released) + Len(batch'[t]) /\ Len(released') > Len(released)
        /\ \A i \in 1..Len(released) : released'[i] = released[i]
        /\ \A i \in 1..Len(batch'[t]) : released'[Len(released) + i] = batch'[t][i]
    BY DrainStep
<1>. QED
    BY <1>1, <1>2, <1>3 DEF TakesOut

LEMMA ExpireTakesOut ==
    ASSUME TypeInv, NoReset => ReleasedBehind, NEW t \in Threads, NEW h \in [Ids -> 0..MaxCmd],
           HeldSeqs(h) # {},
           NoReset => \A s \in Ids : h[s] # 0 => h[s] = s /\ s <= sent /\ s > next,
           Expire(t, h), Free(t), UNCHANGED <<mode, sent, fired, resets>>
    PROVE  TakesOut(t)
<1>. DEFINE n == FirstHeld(h)
<1>1. n \in Ids /\ h[n] # 0 /\ Drain(t, n, h) /\ \A s \in Ids : h[s] # 0 => n <= s
    BY FirstHeldLeast DEF Expire, SkipTo
<1>. HIDE DEF n
<1>2. n \in Nat /\ next \in Nat
    BY <1>1, CommandAssumption DEF TypeInv, TypeOK, Ids
<1>3. NoReset => next <= n /\ \A s \in Ids : h[s] # 0 => h[s] = s /\ s <= sent /\ n <= s
    BY <1>1, <1>2
<1>. QED
    BY <1>1, <1>3, DrainTakesOut

\* Commands are taken out by handle and flush_expired only, and handed to the
\* callback by fire_command only.
LEMMA WhatTakesOut ==
    ASSUME TypeInv, ChannelInv, [Next]_vars
    PROVE  \/ \E t \in Threads : TakesOut(t)
           \/ \E t \in Threads : Fire(t)
           \/ /\ UNCHANGED <<mode, batch, fired, released>> /\ sent' \in {sent, sent + 1}
              /\ NoReset' => NoReset
<1>. DEFINE Idle == /\ UNCHANGED <<mode, batch, fired, released>> /\ sent' \in {sent, sent + 1}
                    /\ NoReset' => NoReset
<1>0. TypeOK /\ (NoReset => ReleasedBehind /\ SeqIsId) /\ "receiver" \in Threads /\ "reactor" \in Threads
    BY DEF TypeInv, ChannelInv, Threads
<1>1. CASE SendCommand \/ Lose \/ Tick \/ UNCHANGED vars
    BY <1>1 DEF SendCommand, Lose, Tick, vars, recvVars, histVars, NoReset
<1>2. ASSUME NEW p \in wire, HandleLate(p) PROVE Idle
    BY <1>2 DEF HandleLate, Receive, recvVars, NoReset
<1>3. ASSUME NEW p \in wire, HandleInOrder(p) PROVE TakesOut("receiver")
    <2>1. Receive(p) /\ Free("receiver") /\ UNCHANGED <<mode, sent, fired, resets>>
        BY <1>3 DEF HandleInOrder, Receive
    <2>2. /\ p.seq \in Ids /\ WithExpected(p) \in [Ids -> 0..MaxCmd] /\ WithExpected(p)[p.seq] # 0
          /\ Drain("receiver", p.seq, WithExpected(p))
        <3>1. p.seq \in Ids /\ p.id \in Ids
            BY <1>0, <2>1, ReceiveType
        <3>2. p.id \in 0..MaxCmd /\ p.id # 0 /\ held \in [Ids -> 0..MaxCmd]
            BY <1>0, <3>1, CommandAssumption, SMTT(20) DEF TypeOK, Ids
        <3>. QED
            BY <1>3, <3>1, <3>2 DEF HandleInOrder, WithExpected
    <2>3. NoReset => /\ next <= p.seq
                     /\ \A s \in Ids : WithExpected(p)[s] # 0 =>
                            WithExpected(p)[s] = s /\ s <= sent /\ p.seq <= s
        BY <1>0, <1>3, InOrderDrains
    <2>. QED
        BY <1>0, <2>1, <2>2, <2>3, DrainTakesOut
<1>4. ASSUME NEW p \in wire, HandleAhead(p) PROVE Idle \/ TakesOut("receiver")
    <2>1. Receive(p) /\ Free("receiver") /\ UNCHANGED <<mode, sent, fired, resets>>
        BY <1>4 DEF HandleAhead, Receive
    <2>2. /\ WithAhead(p) \in [Ids -> 0..MaxCmd] /\ HeldSeqs(WithAhead(p)) # {}
        <3>1. p.seq \in Ids /\ p.id \in Ids
            BY <1>0, <2>1, ReceiveType
        <3>2. p.id \in 0..MaxCmd /\ p.id # 0 /\ held \in [Ids -> 0..MaxCmd]
            BY <1>0, <3>1, CommandAssumption, SMTT(20) DEF TypeOK, Ids
        <3>. QED
            BY <3>1, <3>2 DEF WithAhead, HeldSeqs
    <2>3. NoReset => \A s \in Ids : WithAhead(p)[s] # 0 => WithAhead(p)[s] = s /\ s <= sent /\ s > next
        BY <1>0, <1>4, AheadDrains
    <2>4. CASE Expire("receiver", WithAhead(p))
        BY <1>0, <2>1, <2>2, <2>3, <2>4, ExpireTakesOut
    <2>5. CASE UNCHANGED <<batch, released>>
        BY <2>1, <2>5 DEF NoReset
    <2>. QED
        BY <1>4, <2>4, <2>5 DEF HandleAhead, WithAhead
<1>5. CASE FlushExpired
    <2>1. /\ Free("reactor") /\ HeldSeqs(held) # {} /\ held \in [Ids -> 0..MaxCmd]
          /\ Expire("reactor", held) /\ UNCHANGED <<mode, sent, fired, resets>>
        BY <1>0, <1>5 DEF FlushExpired, TypeOK
    <2>2. NoReset => \A s \in Ids : held[s] # 0 => held[s] = s /\ s <= sent /\ s > next
        BY <1>0 DEF SeqIsId
    <2>. QED
        BY <1>0, <2>1, <2>2, ExpireTakesOut
<1>6. ASSUME NEW e \in {"sender", "receiver"}, Reset(e) PROVE Idle
    <2>1. resets[e] \in Nat /\ resets'[e] = resets[e] + 1
        BY <1>6 DEF Reset, TypeInv, TypeOK
    <2>2. ~NoReset'
        BY <2>1 DEF NoReset
    <2>. QED
        BY <1>6, <2>2 DEF Reset, recvVars
<1>. QED
    BY <1>0, <1>1, <1>2, <1>3, <1>4, <1>5, <1>6 DEF Next

LEMMA OneThreadStep == ASSUME TypeInv, ChannelInv, OneThreadInv, [Next]_vars PROVE OneThreadInv'
<1>0. batch \in [Threads -> Seq(Ids)] /\ fired \in Seq(Ids) /\ released \in Seq(Ids) /\ Len(fired) \in Nat
    BY DEF TypeInv, TypeOK
<1>1. ASSUME NEW t \in Threads, TakesOut(t) PROVE OneThreadInv'
    <2>. SUFFICES ASSUME OneThread'
                  PROVE  /\ \A u \in Threads : u # t => batch'[u] = <<>>
                         /\ NoReset' =>
                             /\ Len(released') = Len(fired') + Len(batch'[t])
                             /\ \A i \in 1..Len(fired') : released'[i] = fired'[i]
                             /\ \A i \in 1..Len(batch'[t]) : released'[Len(fired') + i] = batch'[t][i]
        BY DEF OneThreadInv
    <2>1. OneThread /\ fired' = fired /\ (NoReset' => NoReset) /\ \A u \in Threads : batch[u] = <<>>
        BY <1>1 DEF TakesOut, Free, NoReset, OneThread
    <2>2. \A u \in Threads : u # t => batch'[u] = <<>>
        BY <1>1, <2>1 DEF TakesOut
    <2>3. ASSUME NoReset'
          PROVE  /\ Len(released') = Len(fired') + Len(batch'[t])
                 /\ \A i \in 1..Len(fired') : released'[i] = fired'[i]
                 /\ \A i \in 1..Len(batch'[t]) : released'[Len(fired') + i] = batch'[t][i]
        <3>1. Len(released) = Len(fired) /\ \A i \in 1..Len(fired) : released[i] = fired[i]
            <4>1. PICK u \in Threads : /\ Len(released) = Len(fired) + Len(batch[u])
                                       /\ \A i \in 1..Len(fired) : released[i] = fired[i]
                BY <2>1, <2>3 DEF OneThreadInv
            <4>2. Len(batch[u]) = 0
                BY <2>1
            <4>. QED
                BY <4>1, <4>2, <1>0
        <3>2. /\ Len(released') = Len(released) + Len(batch'[t])
              /\ \A i \in 1..Len(released) : released'[i] = released[i]
              /\ \A i \in 1..Len(batch'[t]) : released'[Len(released) + i] = batch'[t][i]
            BY <1>1, <2>1, <2>3 DEF TakesOut
        <3>. QED
            BY <2>1, <3>1, <3>2
    <2>. QED
        BY <2>2, <2>3
<1>2. ASSUME NEW t \in Threads, Fire(t) PROVE OneThreadInv'
    <2>. SUFFICES ASSUME OneThread'
                  PROVE  /\ \A u \in Threads : u # t => batch'[u] = <<>>
                         /\ NoReset' =>
                             /\ Len(released') = Len(fired') + Len(batch'[t])
                             /\ \A i \in 1..Len(fired') : released'[i] = fired'[i]
                             /\ \A i \in 1..Len(batch'[t]) : released'[Len(fired') + i] = batch'[t][i]
        BY DEF OneThreadInv
    <2>1. /\ OneThread /\ batch[t] # <<>> /\ fired' = Append(fired, Head(batch[t])) /\ released' = released
          /\ batch' = [batch EXCEPT ![t] = Tail(@)] /\ (NoReset' => NoReset)
        BY <1>2 DEF Fire, NoReset, OneThread
    <2>2. /\ \A u \in Threads : u # t => batch[u] = <<>>
          /\ NoReset =>
              /\ Len(released) = Len(fired) + Len(batch[t])
              /\ \A i \in 1..Len(fired) : released[i] = fired[i]
              /\ \A i \in 1..Len(batch[t]) : released[Len(fired) + i] = batch[t][i]
        BY <2>1 DEF OneThreadInv
    <2>3. batch'[t] = Tail(batch[t]) /\ \A u \in Threads : u # t => batch'[u] = <<>>
        BY <1>0, <2>1, <2>2
    <2>4. /\ batch[t] \in Seq(Ids) /\ Len(batch[t]) \in Nat \ {0} /\ Len(batch'[t]) = Len(batch[t]) - 1
          /\ \A i \in 1..Len(batch'[t]) : batch'[t][i] = batch[t][i + 1] /\ i + 1 \in 1..Len(batch[t])
          /\ Head(batch[t]) = batch[t][1] /\ 1 \in 1..Len(batch[t])
        BY <1>0, <2>1, <2>3
    <2>5. /\ Len(fired') = Len(fired) + 1 /\ fired'[Len(fired) + 1] = batch[t][1]
          /\ \A i \in 1..Len(fired) : fired'[i] = fired[i]
        <3>1. Head(batch[t]) \in Ids
            BY <2>1, <2>4
        <3>. QED
            BY <1>0, <2>1, <2>4, <3>1
    <2>6. ASSUME NoReset'
          PROVE  /\ Len(released') = Len(fired') + Len(batch'[t])
                 /\ \A i \in 1..Len(fired') : released'[i] = fired'[i]
                 /\ \A i \in 1..Len(batch'[t]) : released'[Len(fired') + i] = batch'[t][i]
        <3>1. /\ Len(released) = Len(fired) + Len(batch[t])
              /\ \A i \in 1..Len(fired) : released[i] = fired[i]
              /\ \A i \in 1..Len(batch[t]) : released[Len(fired) + i] = batch[t][i]
            BY <2>1, <2>2, <2>6
        <3>2. Len(released') = Len(fired') + Len(batch'[t])
            BY <1>0, <2>1, <2>4, <2>5, <3>1
        <3>3. ASSUME NEW i \in 1..Len(fired') PROVE released'[i] = fired'[i]
            <4>1. CASE i \in 1..Len(fired)
                BY <4>1, <2>1, <2>5, <3>1
            <4>2. CASE i = Len(fired) + 1
                BY <4>2, <2>1, <2>4, <2>5, <3>1
            <4>. QED
                BY <1>0, <3>3, <4>1, <4>2, <2>5
        <3>4. ASSUME NEW i \in 1..Len(batch'[t]) PROVE released'[Len(fired') + i] = batch'[t][i]
            <4>1. released[Len(fired) + (i + 1)] = batch[t][i + 1] /\ batch'[t][i] = batch[t][i + 1]
                BY <2>4, <3>1
            <4>2. i \in Nat /\ Len(fired') + i = Len(fired) + (i + 1)
                BY <1>0, <2>5
            <4>. QED
                BY <4>1, <4>2, <2>1
        <3>. QED
            BY <3>2, <3>3, <3>4
    <2>. QED
        BY <2>3, <2>6
<1>3. CASE UNCHANGED <<mode, batch, fired, released>> /\ (NoReset' => NoReset)
    BY <1>3 DEF OneThreadInv, OneThread
<1>. QED
    BY <1>1, <1>2, <1>3, WhatTakesOut

LEMMA OneThreadInvariance == Spec => []OneThreadInv
<1>1. Init => OneThreadInv
    <2>. SUFFICES ASSUME Init PROVE OneThreadInv
        OBVIOUS
    <2>1. released = <<>> /\ fired = <<>> /\ "receiver" \in Threads /\ \A t \in Threads : batch[t] = <<>>
        BY DEF Init, Threads
    <2>. QED
        BY <2>1 DEF OneThreadInv
<1>2. TypeInv /\ ChannelInv /\ OneThreadInv /\ [Next]_vars => OneThreadInv'
    BY OneThreadStep
<1>. QED
    BY <1>1, <1>2, TypeInvariance, ChannelInvariance, PTL DEF Spec

\* In the lite Audio profile, where the reactor receives by itself, fire_command
\* hands commands to the callback in the order they were sent.
THEOREM AudioOrder == Spec => []AudioFiredInOrder
<1>1. TypeInv /\ ChannelInv /\ OneThreadInv => AudioFiredInOrder
    <2>. SUFFICES ASSUME TypeInv, ChannelInv, OneThreadInv, OneThread, NoReset,
                         NEW i \in 1..Len(fired), NEW j \in 1..Len(fired), i < j
                  PROVE  fired[i] < fired[j]
        BY DEF AudioFiredInOrder, Increasing, OneThread
    <2>1. PICK t \in Threads : /\ Len(released) = Len(fired) + Len(batch[t])
                               /\ released[i] = fired[i] /\ released[j] = fired[j]
        BY DEF OneThreadInv
    <2>2. Len(fired) \in Nat /\ Len(batch[t]) \in Nat
        BY SMTT(20) DEF TypeInv, TypeOK
    <2>3. i \in 1..Len(released) /\ j \in 1..Len(released)
        BY <2>1, <2>2
    <2>. QED
        BY <2>1, <2>3 DEF ChannelInv, ReleasedBehind, Increasing
<1>. QED
    BY <1>1, TypeInvariance, ChannelInvariance, OneThreadInvariance, PTL

-----------------------------------------------------------------------------
\* The channel implements the ordered lossy channel of command.hpp: a step that
\* takes commands out delivers them all at once, in order and none twice.
THEOREM ChannelIsOrdered == Spec => ImplementsOrdered
<1>1. Init => Ordered!Init
    BY DEF Init, Ordered!Init
<1>2. ASSUME TypeInv, TypeInv', ChannelInv, [Next]_vars
      PROVE  [Ordered!Next]_<<sent, released>>
    <2>1. ASSUME NEW t \in Threads, TakesOut(t) PROVE Ordered!Deliver \/ UNCHANGED <<sent, released>>
        <3>1. CASE ~NoReset
            BY <2>1, <3>1 DEF TakesOut
        <3>2. CASE NoReset
            <4>1. /\ UNCHANGED sent /\ ReleasedBehind' /\ Len(released') > Len(released)
                  /\ \A i \in 1..Len(released) : released'[i] = released[i]
                BY <2>1, <3>2 DEF TakesOut
            <4>2. \A i \in 1..Len(released') : released'[i] \in 1..sent
                <5>1. ASSUME NEW i \in 1..Len(released') PROVE released'[i] \in 1..sent
                    <6>1. released' \in Seq(Ids) /\ sent \in Nat
                        BY <1>2 DEF TypeInv, TypeOK
                    <6>2. released'[i] \in Ids
                        BY <6>1
                    <6>3. released'[i] <= sent
                        BY <4>1 DEF ReleasedBehind
                    <6>. QED
                        BY <6>1, <6>2, <6>3 DEF Ids
                <5>. QED
                    BY <5>1
            <4>3. Ordered!Increasing(released')
                BY <4>1 DEF ReleasedBehind, Increasing, Ordered!Increasing
            <4>. QED
                BY <4>1, <4>2, <4>3 DEF Ordered!Deliver
        <3>. QED
            BY <3>1, <3>2
    <2>2. ASSUME NEW t \in Threads, Fire(t) PROVE UNCHANGED <<sent, released>>
        BY <2>2 DEF Fire
    <2>3. CASE UNCHANGED released /\ sent' \in {sent, sent + 1}
        BY <2>3 DEF Ordered!Next, Ordered!Send
    <2>. QED
        BY <1>2, <2>1, <2>2, <2>3, WhatTakesOut DEF Ordered!Next
<1>. QED
    BY <1>1, <1>2, TypeInvariance, ChannelInvariance, PTL DEF Spec, ImplementsOrdered, Ordered!Spec
=============================================================================
