------------------------- MODULE FileTransferProofs -------------------------
(***************************************************************************)
(* What FileTransfer guarantees, for any files and chunk counts, any       *)
(* number of sending and handling threads, and any losses, repetitions     *)
(* and restarts of the sender.                                             *)
(***************************************************************************)
EXTENDS FileTransfer, Integers, FiniteSetTheorems, SequenceTheorems, TLAPS

Contents == Files \cup {NoFile}
Calls    == [file : Contents, step : {"idle", "read", "sending"}, next : Nat, id : {0} \cup Ids]
Works    == [step : {"idle", "complete"}, id : {0} \cup Ids]
Entries  == [name : Contents, chunks : Seq(Contents), received : Nat]
Handed   == [name : Contents, chunks : Seq(Contents)]

(***************************************************************************)
(* The inductive invariant.                                                *)
(***************************************************************************)

TypeInv ==
    /\ m_file_id_out \in Nat \ {0} /\ call \in [Callers -> Calls]
    /\ result \in [Files -> {"none", "busy", "true", "false"}]
    /\ fileId \in [Files -> {0} \cup Ids]
    /\ net \subseteq Manifest \cup Chunk /\ faults \in 0..MaxFaults
    /\ m_files \in [Ids -> Entries] /\ work \in [Handlers -> Works]
    /\ fired \in Seq(Handed) /\ cut \subseteq Files /\ remade \subseteq Files

Filled(s) == {k \in 1..Len(s) : s[k] # NoFile}

\* Chunks are counted right.
CountInv == \A i \in Ids : m_files[i].received = Cardinality(Filled(m_files[i].chunks))

\* A file has one number and at most one caller; its messages carry the number.
SendInv ==
    /\ \A c \in Callers : call[c].step # "idle" =>
            call[c].file \in Files /\ result[call[c].file] = "busy"
    /\ \A c \in Callers : call[c].step = "read" =>
            call[c].next = 0 /\ call[c].id \in Ids /\ fileId[call[c].file] = 0
    /\ \A c \in Callers : call[c].step = "sending" => fileId[call[c].file] \in Ids
    /\ \A c, d \in Callers :
            call[c].step # "idle" /\ call[d].step # "idle" /\ call[c].file = call[d].file => c = d
    /\ \A f \in Files : result[f] = "none" => fileId[f] = 0
    /\ \A m \in net : fileId[m.file] = m.id
    /\ \A m \in net, c \in Callers :
            (m.kind = "manifest" /\ call[c].step = "sending" /\ call[c].file = m.file) => call[c].next > 0

\* Entries and what the handlers do belong to files with that number.
EntryInv ==
    /\ \A i \in Ids : LET e == m_files[i] IN
        /\ IF e.name = NoFile THEN e = NoEntry
           ELSE fileId[e.name] = i /\ Len(e.chunks) = ChunkCount[e.name]
        /\ \A k \in 1..Len(e.chunks) : e.chunks[k] # NoFile => fileId[e.chunks[k]] = i
    /\ \A h \in Handlers : work[h].step = "complete" =>
            work[h].id \in Ids /\ \E f \in Files : fileId[f] = work[h].id

\* The manifest is still to come.
Awaited(f) ==
    \/ fileId[f] = 0
    \/ \E c \in Callers : call[c].step = "sending" /\ call[c].file = f /\ call[c].next = 0
    \/ \E m \in net : m.kind = "manifest" /\ m.file = f

Has(f) == \E i \in Ids : m_files[i].name = f

Busy(h, f) == work[h].step = "complete" /\ work[h].id = fileId[f]

\* From manifest to callback a file is in one place: to come, in its entry (which
\* one handler may have found complete), or handed over.
OnceFor(f) ==
    /\ Awaited(f) => ~Has(f) /\ ~Fired(f) /\ \A h \in Handlers : ~Busy(h, f)
    /\ \A h \in Handlers : Busy(h, f) =>
            m_files[fileId[f]].name = f /\ Complete(m_files[fileId[f]])
    /\ \A g, h \in Handlers : Busy(g, f) /\ Busy(h, f) => g = h
    /\ Fired(f) => ~Has(f)
    /\ \A n \in 1..Len(fired) : fired[n].name = f =>
            /\ fired[n].chunks = [i \in 1..ChunkCount[f] |-> f]
            /\ \A k \in 1..Len(fired) : fired[k].name = f => k = n

OnceInv ==
    ~Clash =>
        /\ \A f \in Files \ remade : OnceFor(f)
        /\ \A n \in 1..Len(fired) : fired[n].name = NoFile => remade # {}

(***************************************************************************)
(* Entries                                                                 *)
(***************************************************************************)

(* What messages are. *)
LEMMA Messages ==
    ASSUME NEW m \in Manifest \cup Chunk
    PROVE  /\ m.id \in Ids /\ m.file \in Files /\ m.kind \in {"manifest", "chunk"}
           /\ m.kind = "manifest" => m = [kind |-> "manifest", id |-> m.id, file |-> m.file]
           /\ m.kind = "chunk" => m.idx \in Nat \ {0}
BY DEF Manifest, Chunk

(* The chunks that are there are numbers up to the length of the table. *)
LEMMA FilledCount ==
    ASSUME NEW q \in Seq(Contents)
    PROVE  /\ IsFiniteSet(Filled(q)) /\ Cardinality(Filled(q)) \in Nat
           /\ Len(q) \in Nat /\ Cardinality(Filled(q)) <= Len(q)
           /\ Cardinality(Filled(q)) = Len(q) => \A k \in 1..Len(q) : q[k] # NoFile
<1>1. Len(q) \in Nat
  BY LenProperties
<1>2. IsFiniteSet(1..Len(q)) /\ Cardinality(1..Len(q)) = Len(q)
  BY <1>1, FS_Interval, SMTT(20)
<1>3. Filled(q) \in SUBSET (1..Len(q))
  BY DEF Filled
<1>4. /\ IsFiniteSet(Filled(q)) /\ Cardinality(Filled(q)) <= Len(q)
      /\ Cardinality(Filled(q)) = Len(q) => Filled(q) = 1..Len(q)
  BY <1>2, <1>3, FS_Subset
<1>5. Cardinality(Filled(q)) \in Nat
  BY <1>4, FS_CardinalityType
<1> QED
  BY <1>1, <1>4, <1>5 DEF Filled

(* A new entry has all its chunks to come, and no entry has none. *)
LEMMA NewEntry ==
    ASSUME NEW f \in Files
    PROVE  /\ EntryFor(f) \in Entries /\ EntryFor(f).name = f
           /\ Len(EntryFor(f).chunks) = ChunkCount[f] /\ Filled(EntryFor(f).chunks) = {}
           /\ EntryFor(f).received = 0 /\ Cardinality(Filled(EntryFor(f).chunks)) = 0
<1> DEFINE q == [i \in 1..ChunkCount[f] |-> NoFile]
<1>1. ChunkCount[f] \in Nat
  BY FileAssumption
<1>2. q \in Seq(Contents)
  BY <1>1, SeqDef DEF Contents
<1>3. Len(q) = ChunkCount[f]
  BY <1>1
<1>4. \A i \in 1..ChunkCount[f] : q[i] = NoFile
  OBVIOUS
<1>5. EntryFor(f).chunks = q /\ EntryFor(f).name = f /\ EntryFor(f).received = 0
  BY DEF EntryFor
<1>6. EntryFor(f) = [name |-> f, chunks |-> q, received |-> 0]
  BY DEF EntryFor
<1> HIDE DEF q
<1>7. Filled(q) = {}
  BY <1>3, <1>4 DEF Filled
<1> QED
  BY <1>2, <1>3, <1>5, <1>6, <1>7, FS_EmptySet DEF Entries, Contents

LEMMA NoEntryIsEmpty ==
    /\ NoEntry \in Entries /\ NoEntry.name = NoFile /\ Len(NoEntry.chunks) = 0
    /\ NoEntry.received = 0 /\ Cardinality(Filled(NoEntry.chunks)) = 0
<1>1. <<>> \in Seq(Contents) /\ Len(<<>>) = 0
  BY EmptySeq
<1>2. Filled(<<>>) = {}
  BY <1>1 DEF Filled
<1> QED
  BY <1>1, <1>2, FS_EmptySet DEF NoEntry, Entries, Contents

\* An entry with a chunk more.
Stored(e, k, f) == [name |-> e.name, chunks |-> [e.chunks EXCEPT ![k] = f], received |-> e.received + 1]

LEMMA StoredForm ==
    ASSUME NEW e \in Entries, NEW k \in 1..Len(e.chunks), NEW f \in Files, NEW x,
           x = [e EXCEPT !.chunks[k] = f, !.received = @ + 1]
    PROVE  x = Stored(e, k, f)
BY DEF Entries, Stored

(* It has one chunk more than before, and was not complete. *)
LEMMA StoredEntry ==
    ASSUME NEW e \in Entries, NEW k \in 1..Len(e.chunks), e.chunks[k] = NoFile, NEW f \in Files, NEW x,
           x = Stored(e, k, f)
    PROVE  /\ x \in Entries /\ x.name = e.name /\ x.received = e.received + 1
           /\ Len(x.chunks) = Len(e.chunks)
           /\ \A j \in 1..Len(e.chunks) : x.chunks[j] = IF j = k THEN f ELSE e.chunks[j]
           /\ Cardinality(Filled(x.chunks)) = Cardinality(Filled(e.chunks)) + 1
           /\ Cardinality(Filled(e.chunks)) # Len(e.chunks)
<1>1. e.chunks \in Seq(Contents) /\ f \in Contents /\ f # NoFile /\ e.received \in Nat
  BY FileAssumption DEF Entries, Contents
<1>2. x = [name |-> e.name, chunks |-> [e.chunks EXCEPT ![k] = f], received |-> e.received + 1]
  BY DEF Stored
<1>3. x.chunks = [e.chunks EXCEPT ![k] = f]
  BY <1>2
<1>4. /\ x.chunks \in Seq(Contents) /\ Len(x.chunks) = Len(e.chunks)
      /\ \A j \in 1..Len(e.chunks) : x.chunks[j] = IF j = k THEN f ELSE e.chunks[j]
  BY <1>1, <1>3, ExceptSeq
<1>5. Filled(x.chunks) = Filled(e.chunks) \cup {k} /\ k \notin Filled(e.chunks)
  BY <1>1, <1>4 DEF Filled
<1>6. Cardinality(Filled(x.chunks)) = Cardinality(Filled(e.chunks)) + 1
  BY <1>1, <1>5, FilledCount, FS_AddElement
<1>7. Cardinality(Filled(e.chunks)) # Len(e.chunks)
  BY <1>1, FilledCount
<1>8. x \in Entries /\ x.name = e.name /\ x.received = e.received + 1
  BY <1>1, <1>2, <1>4 DEF Entries
<1> QED
  BY <1>4, <1>6, <1>7, <1>8

(***************************************************************************)
(* Types and counts                                                        *)
(***************************************************************************)

(* A message of a file that has its number. *)
LEMMA MadeMessage ==
    ASSUME NEW f \in Files, fileId[f] \in Ids, NEW i \in Nat
    PROVE  /\ Message(f, i) \in Manifest \cup Chunk
           /\ Message(f, i).file = f /\ Message(f, i).id = fileId[f]
           /\ Message(f, i).kind = IF i = 0 THEN "manifest" ELSE "chunk"
<1>1. CASE i = 0
  BY <1>1 DEF Message, Manifest
<1>2. CASE i # 0
  BY <1>2 DEF Message, Chunk
<1> QED
  BY <1>1, <1>2

(* The sender and the network keep the types. *)
LEMMA TypeSender ==
    ASSUME TypeInv, SendInv, (\E c \in Callers : SendFile(c)) \/ Restart \/ Lose
    PROVE  TypeInv' /\ UNCHANGED <<m_files, work, fired>>
<1>1. CASE Restart
  <2>1. call' \in [Callers -> Calls]
    BY <1>1 DEF Restart, IdleCall, Calls, Contents
  <2>2. result' \in [Files -> {"none", "busy", "true", "false"}]
    BY <1>1 DEF Restart, TypeInv
  <2>3. faults' \in 0..MaxFaults
    BY <1>1, FileAssumption DEF Restart, Fault, TypeInv
  <2> QED
    BY <1>1, <2>1, <2>2, <2>3 DEF Restart, TypeInv
<1>2. CASE Lose
  <2>1. faults' \in 0..MaxFaults
    BY <1>2, FileAssumption DEF Lose, Fault, TypeInv
  <2>2. net' \subseteq Manifest \cup Chunk /\ cut' \subseteq Files
    BY <1>2, Messages DEF Lose, TypeInv
  <2> QED
    BY <1>2, <2>1, <2>2 DEF Lose, TypeInv, sendVars
<1>3. ASSUME NEW c \in Callers, SendFile(c)
      PROVE  TypeInv' /\ UNCHANGED <<m_files, work, fired>>
  <2>0. call[c] \in Calls
    BY DEF TypeInv
  <2>1. CASE Begin(c)
    <3>1. PICK f \in Files :
              /\ result' = [result EXCEPT ![f] = "busy"]
              /\ call' = [call EXCEPT ![c] = [file |-> f, step |-> "read", next |-> 0, id |-> m_file_id_out]]
      BY <2>1 DEF Begin
    <3>2. [file |-> f, step |-> "read", next |-> 0, id |-> m_file_id_out] \in Calls
      BY <2>1 DEF Begin, Calls, Contents
    <3> QED
      BY <2>1, <3>1, <3>2 DEF Begin, TypeInv
  <2>2. CASE Number(c)
    <3>1. call[c].id + 1 \in Nat \ {0} /\ call[c].id \in {0} \cup Ids
      BY <2>0 DEF Calls, Ids
    <3>2. [call[c] EXCEPT !.step = "sending"] \in Calls
      BY <2>0 DEF Calls
    <3>3. call' \in [Callers -> Calls]
      BY <2>2, <3>2 DEF Number, TypeInv
    <3> QED
      BY <2>2, <3>1, <3>3 DEF Number, TypeInv
  <2>3. CASE SendNext(c)
    <3>1. [call[c] EXCEPT !.next = call[c].next + 1] \in Calls
      BY <2>0 DEF Calls
    <3>2. call' \in [Callers -> Calls]
      BY <2>3, <3>1 DEF SendNext, TypeInv
    <3>3. UNCHANGED <<m_files, work, fired>>
      BY <2>3 DEF SendNext
    <3>4. call[c].file \in Files /\ fileId[call[c].file] \in Ids /\ call[c].next \in Nat
      BY <2>0, <2>3 DEF SendNext, SendInv, Calls
    <3>5. Message(call[c].file, call[c].next) \in Manifest \cup Chunk
      BY <3>4, MadeMessage
    <3>6. net' \subseteq Manifest \cup Chunk
      BY <2>3, <3>5 DEF SendNext, TypeInv
    <3> QED
      BY <2>3, <3>2, <3>3, <3>6 DEF SendNext, TypeInv
  <2>4. CASE Refused(c) \/ SentAll(c)
    <3>1. PICK v \in {"true", "false"} : Return(c, v)
      BY <2>4 DEF Refused, SentAll
    <3>2. IdleCall \in Calls
      BY DEF IdleCall, Calls, Contents
    <3>3. call' \in [Callers -> Calls] /\ result' \in [Files -> {"none", "busy", "true", "false"}]
      BY <3>1, <3>2 DEF Return, TypeInv
    <3>4. faults' \in 0..MaxFaults
      BY <2>4, FileAssumption DEF Refused, SentAll, Fault, TypeInv
    <3> QED
      BY <2>4, <3>3, <3>4 DEF Refused, SentAll, TypeInv
  <2> QED
    BY <1>3, <2>1, <2>2, <2>3, <2>4 DEF SendFile
<1> QED
  BY <1>1, <1>2, <1>3

\* What a handler does, in one form: nothing, a new entry, a chunk more, a callback.
Announces(m) == m.kind = "manifest" /\ m_files' = [m_files EXCEPT ![m.id] = EntryFor(m.file)] /\ work' = work

Stores(h, m) ==
    LET x == Stored(m_files[m.id], m.idx, m.file) IN
    /\ m.kind = "chunk" /\ m.idx \in 1..Len(m_files[m.id].chunks) /\ m_files[m.id].chunks[m.idx] = NoFile
    /\ m_files[m.id] # NoEntry
    /\ m_files' = [m_files EXCEPT ![m.id] = x]
    /\ work' = [work EXCEPT ![h] = IF Complete(x) THEN [step |-> "complete", id |-> m.id] ELSE IdleWork]

(* What a handler does with messages, entries and its work. *)
LEMMA HandlerMoves ==
    ASSUME TypeInv, NEW h \in Handlers, Handle(h)
    PROVE  /\ UNCHANGED sendVars /\ net' \subseteq net /\ remade \subseteq remade'
           /\ faults' \in 0..MaxFaults /\ cut' \subseteq Files /\ remade' \subseteq Files
           /\ \/ UNCHANGED <<m_files, work, fired>>
              \/ /\ fired' = fired
                 /\ \E m \in net : Announces(m) /\ (m \in net' => m.file \in remade')
              \/ /\ fired' = fired /\ work[h].step = "idle"
                 /\ \E m \in net : Stores(h, m)
              \/ FireFile(h) /\ net' = net /\ remade' = remade
<1>0. \A m \in net : Taken(m) => net' \subseteq net /\ faults' \in 0..MaxFaults
  BY FileAssumption DEF Taken, Fault, TypeInv
<1>1. CASE HandleManifest(h)
  <2>1. PICK m \in net :
            /\ m.kind = "manifest" /\ Taken(m)
            /\ m_files' = IF ChunkCount[m.file] > MaxChunkCount THEN m_files
                          ELSE [m_files EXCEPT ![m.id] = EntryFor(m.file)]
            /\ remade' = IF m \in net' THEN remade \cup {m.file} ELSE remade
    BY <1>1 DEF HandleManifest
  <2>2. m.file \in Files
    BY Messages DEF TypeInv
  <2>3. UNCHANGED <<sendVars, work, fired, cut>>
    BY <1>1 DEF HandleManifest
  <2> QED
    BY <1>0, <2>1, <2>2, <2>3 DEF TypeInv, Announces
<1>2. CASE DropChunk(h)
  <2>1. PICK m \in net :
            m.kind = "chunk" /\ Taken(m) /\ cut' = IF Known(m) THEN cut ELSE cut \cup {m.file}
    BY <1>2 DEF DropChunk
  <2>2. m.file \in Files
    BY Messages DEF TypeInv
  <2>3. UNCHANGED <<sendVars, m_files, work, fired, remade>>
    BY <1>2 DEF DropChunk
  <2> QED
    BY <1>0, <2>1, <2>2, <2>3 DEF TypeInv
<1>3. CASE StoreChunk(h)
  <2> DEFINE E(m) == [m_files[m.id] EXCEPT !.chunks[m.idx] = m.file, !.received = @ + 1]
  <2>1. PICK m \in net :
            /\ m.kind = "chunk" /\ Known(m) /\ Fresh(m) /\ Taken(m)
            /\ m_files' = [m_files EXCEPT ![m.id] = E(m)]
            /\ work' = [work EXCEPT ![h] =
                    IF Complete(E(m)) THEN [step |-> "complete", id |-> m.id] ELSE IdleWork]
    BY <1>3 DEF StoreChunk
  <2>2. /\ m.id \in Ids /\ m_files[m.id] \in Entries /\ m.file \in Files
        /\ m.idx \in 1..Len(m_files[m.id].chunks) /\ m_files[m.id].chunks[m.idx] = NoFile
    <3>1. m.id \in Ids /\ m_files[m.id] \in Entries /\ m.file \in Files /\ m.idx \in Nat \ {0}
      BY <2>1, Messages DEF TypeInv
    <3>2. Len(m_files[m.id].chunks) \in Nat
      BY <3>1, LenProperties DEF Entries
    <3> QED
      BY <2>1, <3>1, <3>2 DEF Known, Fresh
  <2>3. E(m) = Stored(m_files[m.id], m.idx, m.file)
    BY <2>2, StoredForm
  <2>4. UNCHANGED <<sendVars, fired, cut, remade>> /\ work[h].step = "idle"
    BY <1>3 DEF StoreChunk
  <2> HIDE DEF E
  <2>5. Stores(h, m)
    BY <2>1, <2>2, <2>3 DEF Stores, Known
  <2> QED
    BY <1>0, <2>1, <2>4, <2>5 DEF TypeInv
<1>4. CASE FireFile(h)
  BY <1>4 DEF FireFile, TypeInv
<1> QED
  BY <1>1, <1>2, <1>3, <1>4 DEF Handle

(* The handlers keep the types and the count. *)
LEMMA TypeHandler ==
    ASSUME TypeInv, CountInv, EntryInv, NEW h \in Handlers, Handle(h)
    PROVE  TypeInv' /\ CountInv'
<1>1. /\ UNCHANGED sendVars /\ net' \subseteq net
      /\ faults' \in 0..MaxFaults /\ cut' \subseteq Files /\ remade' \subseteq Files
  BY HandlerMoves
<1>2. ASSUME m_files' \in [Ids -> Entries], work' \in [Handlers -> Works], fired' \in Seq(Handed)
      PROVE  TypeInv'
  BY <1>1, <1>2 DEF TypeInv, sendVars
<1>3. IdleWork \in Works
  BY DEF IdleWork, Works
<1>4. CASE UNCHANGED <<m_files, work, fired>>
  BY <1>2, <1>4 DEF TypeInv, CountInv
<1>5. ASSUME NEW m \in net, Announces(m), fired' = fired
      PROVE  TypeInv' /\ CountInv'
  <2>1. m.id \in Ids /\ m.file \in Files
    BY Messages DEF TypeInv
  <2>2. m_files' = [m_files EXCEPT ![m.id] = EntryFor(m.file)] /\ work' = work
    BY <1>5 DEF Announces
  <2>3. m_files' \in [Ids -> Entries]
    BY <2>1, <2>2, NewEntry DEF TypeInv
  <2>4. CountInv'
    BY <2>1, <2>2, NewEntry DEF TypeInv, CountInv
  <2> QED
    BY <1>2, <1>5, <2>2, <2>3, <2>4 DEF TypeInv
<1>6. ASSUME NEW m \in net, Stores(h, m), fired' = fired
      PROVE  TypeInv' /\ CountInv'
  <2> DEFINE x == Stored(m_files[m.id], m.idx, m.file)
  <2>1. m.id \in Ids /\ m.file \in Files /\ m_files[m.id] \in Entries
    BY Messages DEF TypeInv
  <2>2. /\ m.idx \in 1..Len(m_files[m.id].chunks) /\ m_files[m.id].chunks[m.idx] = NoFile
        /\ m_files' = [m_files EXCEPT ![m.id] = x]
        /\ work' = [work EXCEPT ![h] = IF Complete(x) THEN [step |-> "complete", id |-> m.id] ELSE IdleWork]
    BY <1>6 DEF Stores
  <2> HIDE DEF x
  <2>3. /\ x \in Entries /\ x.received = m_files[m.id].received + 1
        /\ Cardinality(Filled(x.chunks)) = Cardinality(Filled(m_files[m.id].chunks)) + 1
    BY <2>1, <2>2, StoredEntry DEF x
  <2>4. m_files' \in [Ids -> Entries]
    BY <2>1, <2>2, <2>3 DEF TypeInv
  <2>5. [step |-> "complete", id |-> m.id] \in Works
    BY <2>1 DEF Works
  <2>6. work' \in [Handlers -> Works]
    BY <1>3, <2>2, <2>5 DEF TypeInv
  <2>7. CountInv'
    BY <2>1, <2>2, <2>3 DEF TypeInv, CountInv
  <2> QED
    BY <1>2, <1>6, <2>4, <2>6, <2>7 DEF TypeInv
<1>7. CASE FireFile(h)
  <2> DEFINE e == m_files[work[h].id]
             x == [name |-> e.name, chunks |-> e.chunks]
  <2>1. work[h].id \in Ids /\ e \in Entries
    BY <1>7 DEF FireFile, EntryInv, TypeInv
  <2>2. /\ fired' = Append(fired, x)
        /\ m_files' = [m_files EXCEPT ![work[h].id] = NoEntry]
        /\ work' = [work EXCEPT ![h] = IdleWork]
    BY <1>7 DEF FireFile
  <2>3. m_files' \in [Ids -> Entries] /\ work' \in [Handlers -> Works]
    BY <1>3, <2>2, NoEntryIsEmpty DEF TypeInv
  <2>4. fired' \in Seq(Handed)
    <3>1. x \in Handed
      BY <2>1 DEF Entries, Handed
    <3> QED
      BY <2>2, <3>1 DEF TypeInv
  <2>5. CountInv'
    BY <2>2, NoEntryIsEmpty DEF TypeInv, CountInv
  <2> QED
    BY <1>2, <2>3, <2>4, <2>5
<1> QED
  BY <1>4, <1>5, <1>6, <1>7, HandlerMoves

(* The sender's part is kept by every step. *)
LEMMA SendStep ==
    ASSUME TypeInv, SendInv, [Next]_vars
    PROVE  SendInv'
<1>0. call \in [Callers -> Calls] /\ fileId \in [Files -> {0} \cup Ids] /\ 0 \notin Ids
  BY DEF TypeInv, Ids
<1>1. ASSUME UNCHANGED sendVars, net' \subseteq net
      PROVE  SendInv'
  BY <1>1 DEF SendInv, sendVars
<1>2. ASSUME NEW h \in Handlers, Handle(h)
      PROVE  SendInv'
  BY <1>1, <1>2, HandlerMoves
<1>3. CASE Lose
  BY <1>1, <1>3 DEF Lose
<1>4. CASE UNCHANGED vars
  BY <1>1, <1>4 DEF vars
<1>5. CASE Restart
  BY <1>5 DEF Restart, SendInv, IdleCall, TypeInv
<1>6. ASSUME NEW c \in Callers, Begin(c)
      PROVE  SendInv'
  <2>1. PICK f \in Files :
            /\ result[f] = "none" /\ result' = [result EXCEPT ![f] = "busy"]
            /\ call' = [call EXCEPT ![c] = [file |-> f, step |-> "read", next |-> 0, id |-> m_file_id_out]]
    BY <1>6 DEF Begin
  <2>2. m_file_id_out \in Ids /\ UNCHANGED <<fileId, net>> /\ call[c].step = "idle"
    BY <1>6 DEF Begin
  <2>3. /\ call'[c] = [file |-> f, step |-> "read", next |-> 0, id |-> m_file_id_out]
        /\ \A d \in Callers : d # c => call'[d] = call[d]
        /\ \A g \in Files : result'[g] = IF g = f THEN "busy" ELSE result[g]
    BY <2>1 DEF TypeInv
  <2>4. \A d \in Callers : call[d].step # "idle" => call[d].file # f
    BY <2>1 DEF SendInv
  <2> QED
    BY <2>1, <2>2, <2>3, <2>4 DEF SendInv
<1>7. ASSUME NEW c \in Callers, Number(c)
      PROVE  SendInv'
  <2>1. /\ call[c].step = "read" /\ call[c].file \in Files /\ call[c].id \in Ids
        /\ fileId' = [fileId EXCEPT ![call[c].file] = call[c].id]
        /\ call' = [call EXCEPT ![c].step = "sending"] /\ UNCHANGED <<result, net>>
        /\ call[c].next = 0 /\ fileId[call[c].file] = 0
    BY <1>7 DEF Number, SendInv
  <2>2. /\ call'[c].file = call[c].file /\ call'[c].next = 0 /\ call'[c].step = "sending"
        /\ \A d \in Callers : d # c => call'[d] = call[d]
        /\ \A g \in Files : g # call[c].file => fileId'[g] = fileId[g]
        /\ fileId'[call[c].file] \in Ids
    BY <1>0, <2>1 DEF Calls
  <2>3. \A m \in net : m.file # call[c].file /\ m.file \in Files
    BY <1>0, <2>1, Messages DEF SendInv, TypeInv
  <2>4. result[call[c].file] = "busy"
    BY <2>1 DEF SendInv
  <2> QED
    BY <2>1, <2>2, <2>3, <2>4 DEF SendInv
<1>8. ASSUME NEW c \in Callers, SendNext(c)
      PROVE  SendInv'
  <2>1. /\ call[c].step = "sending" /\ call[c].file \in Files /\ fileId[call[c].file] \in Ids
        /\ call[c].next \in Nat
        /\ net' = net \cup {Message(call[c].file, call[c].next)}
        /\ call' = [call EXCEPT ![c].next = call[c].next + 1] /\ UNCHANGED <<result, fileId>>
    BY <1>0, <1>8 DEF SendNext, SendInv, Calls
  <2>2. /\ call'[c].file = call[c].file /\ call'[c].next > 0 /\ call'[c].step = "sending"
        /\ \A d \in Callers : d # c => call'[d] = call[d]
    BY <1>0, <2>1 DEF Calls
  <2>3. /\ Message(call[c].file, call[c].next).file = call[c].file
        /\ Message(call[c].file, call[c].next).id = fileId[call[c].file]
    BY <2>1, MadeMessage
  <2>4. \A m \in net' : fileId'[m.file] = m.id
    BY <2>1, <2>3 DEF SendInv
  <2>5. ASSUME NEW m \in net', NEW d \in Callers,
               m.kind = "manifest" /\ call'[d].step = "sending" /\ call'[d].file = m.file
        PROVE  call'[d].next > 0
    BY <2>1, <2>2, <2>3, <2>5 DEF SendInv
  <2> QED
    BY <2>1, <2>2, <2>4, <2>5 DEF SendInv
<1>9. ASSUME NEW c \in Callers, Refused(c) \/ SentAll(c)
      PROVE  SendInv'
  <2>1. PICK v \in {"true", "false"} : Return(c, v)
    BY <1>9 DEF Refused, SentAll
  <2>2. UNCHANGED <<fileId, net>> /\ call[c].step = "sending"
    BY <1>9 DEF Refused, SentAll
  <2>3. /\ call'[c].step = "idle" /\ \A d \in Callers : d # c => call'[d] = call[d]
        /\ call[c].file \in Files
        /\ \A g \in Files : result'[g] = IF g = call[c].file THEN v ELSE result[g]
    BY <1>0, <2>1, <2>2 DEF Return, IdleCall, SendInv, TypeInv
  <2> QED
    BY <2>1, <2>2, <2>3 DEF SendInv
<1> QED
  BY <1>2, <1>3, <1>4, <1>5, <1>6, <1>7, <1>8, <1>9 DEF Next, SendFile

(* A file keeps its number. *)
LEMMA NumbersStay ==
    ASSUME TypeInv, SendInv, [Next]_vars, NEW f \in Files
    PROVE  fileId[f] # 0 => fileId'[f] = fileId[f]
<1>1. ASSUME NEW c \in Callers, Number(c)
      PROVE  fileId[f] # 0 => fileId'[f] = fileId[f]
  <2>1. fileId' = [fileId EXCEPT ![call[c].file] = call[c].id] /\ fileId[call[c].file] = 0
    BY <1>1 DEF Number, SendInv
  <2> QED
    BY <2>1 DEF TypeInv
<1>2. ASSUME NEW c \in Callers, SendFile(c), ~Number(c)
      PROVE  fileId' = fileId
  BY <1>2 DEF SendFile, Begin, SendNext, Refused, SentAll
<1>3. ASSUME NEW h \in Handlers, Handle(h)
      PROVE  fileId' = fileId
  BY <1>3, HandlerMoves DEF sendVars
<1>4. CASE Restart \/ Lose \/ UNCHANGED vars
  BY <1>4 DEF Restart, Lose, vars, sendVars
<1> QED
  BY <1>1, <1>2, <1>3, <1>4 DEF Next

(* Entries and work stay with the files they are of. *)
LEMMA EntryStep ==
    ASSUME TypeInv, SendInv, EntryInv, [Next]_vars
    PROVE  EntryInv'
<1> DEFINE IsOf(e, i) ==
             /\ IF e.name = NoFile THEN e = NoEntry
                ELSE fileId'[e.name] = i /\ Len(e.chunks) = ChunkCount[e.name]
             /\ \A k \in 1..Len(e.chunks) : e.chunks[k] # NoFile => fileId'[e.chunks[k]] = i
           Works1(w) == w.step = "complete" => w.id \in Ids /\ \E f \in Files : fileId'[f] = w.id
<1>0. 0 \notin Ids /\ NoFile \notin Files
  BY FileAssumption DEF Ids
<1>1. \A i \in Ids : IsOf(m_files[i], i)
  <2> SUFFICES ASSUME NEW i \in Ids PROVE IsOf(m_files[i], i)
    OBVIOUS
  <2>1. m_files[i] \in Entries
    BY DEF TypeInv
  <2>2. m_files[i].name \in Contents /\ m_files[i].chunks \in Seq(Contents)
    BY <2>1 DEF Entries
  <2>3. IF m_files[i].name = NoFile THEN m_files[i] = NoEntry
        ELSE fileId'[m_files[i].name] = i /\ Len(m_files[i].chunks) = ChunkCount[m_files[i].name]
    BY <1>0, <2>2, NumbersStay DEF EntryInv, Contents
  <2>4. ASSUME NEW k \in 1..Len(m_files[i].chunks), m_files[i].chunks[k] # NoFile
        PROVE  fileId'[m_files[i].chunks[k]] = i
    <3>1. m_files[i].chunks[k] \in Files
      BY <2>2, <2>4, ElementOfSeq DEF Contents
    <3>2. fileId[m_files[i].chunks[k]] = i
      BY <2>4 DEF EntryInv
    <3> QED
      BY <1>0, <3>1, <3>2, NumbersStay
  <2> QED
    BY <2>3, <2>4
<1>2. \A h \in Handlers : Works1(work[h])
  BY <1>0, NumbersStay DEF EntryInv
<1>3. SUFFICES (\A i \in Ids : IsOf(m_files'[i], i)) /\ (\A h \in Handlers : Works1(work'[h]))
  BY DEF EntryInv
<1> HIDE DEF IsOf, Works1
<1>4. CASE UNCHANGED <<m_files, work>>
  BY <1>1, <1>2, <1>4
<1>5. ASSUME NEW m \in net, Announces(m)
      PROVE  (\A i \in Ids : IsOf(m_files'[i], i)) /\ (\A h \in Handlers : Works1(work'[h]))
  <2>1. m.id \in Ids /\ m.file \in Files /\ fileId[m.file] = m.id
    BY Messages DEF TypeInv, SendInv
  <2>2. fileId'[m.file] = m.id
    BY <1>0, <2>1, NumbersStay
  <2>3. IsOf(EntryFor(m.file), m.id)
    <3>1. \A k \in 1..Len(EntryFor(m.file).chunks) : EntryFor(m.file).chunks[k] = NoFile
      BY <2>1, NewEntry DEF Filled
    <3> QED
      BY <1>0, <2>1, <2>2, <3>1, NewEntry DEF IsOf
  <2> QED
    BY <1>1, <1>2, <1>5, <2>1, <2>3 DEF Announces, TypeInv
<1>6. ASSUME NEW h \in Handlers, NEW m \in net, Stores(h, m)
      PROVE  (\A i \in Ids : IsOf(m_files'[i], i)) /\ (\A g \in Handlers : Works1(work'[g]))
  <2> DEFINE x == Stored(m_files[m.id], m.idx, m.file)
             e == m_files[m.id]
  <2>1. m.id \in Ids /\ m.file \in Files /\ fileId[m.file] = m.id /\ e \in Entries
    BY Messages DEF TypeInv, SendInv
  <2>2. fileId'[m.file] = m.id
    BY <1>0, <2>1, NumbersStay
  <2>3. /\ m.idx \in 1..Len(e.chunks) /\ e.chunks[m.idx] = NoFile /\ e # NoEntry
        /\ m_files' = [m_files EXCEPT ![m.id] = x]
        /\ work' = [work EXCEPT ![h] = IF Complete(x) THEN [step |-> "complete", id |-> m.id] ELSE IdleWork]
    BY <1>6 DEF Stores
  <2> HIDE DEF x, e
  <2>4. /\ x.name = e.name /\ Len(x.chunks) = Len(e.chunks)
        /\ \A j \in 1..Len(e.chunks) : x.chunks[j] = IF j = m.idx THEN m.file ELSE e.chunks[j]
    BY <2>1, <2>3, StoredEntry, SMTT(20) DEF x, e
  <2>5. IsOf(e, m.id)
    BY <1>1, <2>1 DEF e
  <2>6. IsOf(x, m.id)
    BY <2>2, <2>3, <2>4, <2>5 DEF IsOf
  <2>7. Works1([step |-> "complete", id |-> m.id]) /\ Works1(IdleWork)
    BY <2>1, <2>2 DEF Works1, IdleWork
  <2> QED
    BY <1>1, <1>2, <2>1, <2>3, <2>6, <2>7 DEF TypeInv
<1>7. ASSUME NEW h \in Handlers, FireFile(h)
      PROVE  (\A i \in Ids : IsOf(m_files'[i], i)) /\ (\A g \in Handlers : Works1(work'[g]))
  <2>1. m_files' = [m_files EXCEPT ![work[h].id] = NoEntry] /\ work' = [work EXCEPT ![h] = IdleWork]
    BY <1>7 DEF FireFile
  <2>2. \A i \in Ids : IsOf(NoEntry, i)
    BY NoEntryIsEmpty DEF IsOf
  <2>3. Works1(IdleWork)
    BY DEF Works1, IdleWork
  <2> QED
    BY <1>1, <1>2, <2>1, <2>2, <2>3 DEF TypeInv
<1>8. ASSUME NEW h \in Handlers, Handle(h)
      PROVE  (\A i \in Ids : IsOf(m_files'[i], i)) /\ (\A g \in Handlers : Works1(work'[g]))
  BY <1>4, <1>5, <1>6, <1>7, <1>8, HandlerMoves
<1>9. CASE ~\E h \in Handlers : Handle(h)
  <2>1. UNCHANGED <<m_files, work>>
    BY <1>9, TypeSender DEF Next, vars
  <2> QED
    BY <1>4, <2>1
<1> QED
  BY <1>8, <1>9

(* All but the last part of the invariant. *)
LEMMA BaseInvariance ==
    Spec => [](TypeInv /\ CountInv /\ SendInv /\ EntryInv)
<1>1. ASSUME Init
      PROVE  TypeInv /\ CountInv /\ SendInv /\ EntryInv
  <2>1. \A i \in Ids : m_files[i] = NoEntry
    BY <1>1 DEF Init
  <2>2. CountInv /\ EntryInv
    BY <1>1, <2>1, NoEntryIsEmpty DEF Init, CountInv, EntryInv, IdleWork
  <2>3. SendInv
    BY <1>1 DEF Init, SendInv, IdleCall
  <2>4. /\ call \in [Callers -> Calls] /\ work \in [Handlers -> Works] /\ m_files \in [Ids -> Entries]
        /\ fired \in Seq(Handed) /\ faults \in 0..MaxFaults
    BY <1>1, NoEntryIsEmpty, FileAssumption DEF Init, IdleCall, IdleWork, Calls, Works, Contents
  <2> QED
    BY <1>1, <2>2, <2>3, <2>4 DEF Init, TypeInv
<1>2. ASSUME TypeInv, CountInv, SendInv, EntryInv, [Next]_vars
      PROVE  TypeInv' /\ CountInv'
  <2>1. CASE UNCHANGED vars
    BY <1>2, <2>1 DEF vars, sendVars, TypeInv, CountInv
  <2>2. CASE ~\E h \in Handlers : Handle(h)
    <3>1. CASE ~UNCHANGED vars
      BY <1>2, <2>2, <3>1, TypeSender DEF Next, CountInv
    <3> QED
      BY <2>1, <3>1
  <2> QED
    BY <1>2, <2>2, TypeHandler
<1> QED
  BY <1>1, <1>2, SendStep, EntryStep, PTL DEF Spec

(* Every variable keeps its type, and no entry has received more chunks than it *)
(* has.                                                                         *)
THEOREM TypeCorrect ==
    Spec => []TypeOK
<1>1. ASSUME TypeInv, CountInv
      PROVE  TypeOK
  <2>1. ASSUME NEW i \in Ids
        PROVE  m_files[i].received <= Len(m_files[i].chunks)
    <3>1. m_files[i].chunks \in Seq(Contents)
      BY <1>1 DEF TypeInv, Entries
    <3> QED
      BY <1>1, <3>1, FilledCount DEF CountInv
  <2> QED
    BY <1>1, <2>1 DEF TypeInv, TypeOK, Works
<1> QED
  BY <1>1, BaseInvariance, PTL

(***************************************************************************)
(* Once and whole                                                          *)
(***************************************************************************)

(* Without a clash, a number is of one file. *)
LEMMA NoClash ==
    /\ ~Clash => \A f, g \in Files : fileId[f] = fileId[g] /\ fileId[f] # 0 => f = g
    /\ ~Clash' => \A f, g \in Files : fileId'[f] = fileId'[g] /\ fileId'[f] # 0 => f = g
BY DEF Clash

(* Files that have clashed have clashed for good. *)
LEMMA ClashStays ==
    ASSUME TypeInv, SendInv, [Next]_vars, Clash
    PROVE  Clash'
<1>1. PICK f \in Files, g \in Files : f # g /\ fileId[f] = fileId[g] /\ fileId[f] # 0
  BY DEF Clash
<1>2. fileId'[f] = fileId[f] /\ fileId'[g] = fileId[g]
  BY <1>1, NumbersStay
<1> QED
  BY <1>1, <1>2 DEF Clash

(* A file's entry is the one with its number. *)
LEMMA WhereItIs ==
    ASSUME EntryInv, EntryInv', NEW f \in Files
    PROVE  /\ Has(f) <=> fileId[f] \in Ids /\ m_files[fileId[f]].name = f
           /\ Has(f)' <=> fileId'[f] \in Ids /\ m_files'[fileId'[f]].name = f
<1>1. f # NoFile
  BY FileAssumption
<1>2. Has(f) <=> fileId[f] \in Ids /\ m_files[fileId[f]].name = f
  BY <1>1 DEF EntryInv, Has
<1>3. Has(f)' <=> fileId'[f] \in Ids /\ m_files'[fileId'[f]].name = f
  BY <1>1 DEF EntryInv, Has
<1> QED
  BY <1>2, <1>3

(* A complete entry holds its file's chunks only. *)
LEMMA CompleteIsWhole ==
    ASSUME TypeInv, CountInv, EntryInv, ~Clash, NEW f \in Files, fileId[f] \in Ids,
           m_files[fileId[f]].name = f, Complete(m_files[fileId[f]])
    PROVE  m_files[fileId[f]].chunks = [i \in 1..ChunkCount[f] |-> f]
<1> DEFINE e == m_files[fileId[f]]
<1>1. e \in Entries /\ e.chunks \in Seq(Contents) /\ e.received = Cardinality(Filled(e.chunks))
  BY DEF TypeInv, CountInv, Entries
<1>2. f # NoFile /\ 0 \notin Ids
  BY FileAssumption DEF Ids
<1>3. Len(e.chunks) = ChunkCount[f]
  BY <1>2 DEF EntryInv
<1>4. \A k \in 1..Len(e.chunks) : e.chunks[k] # NoFile
  BY <1>1, FilledCount DEF Complete
<1>5. ASSUME NEW k \in 1..Len(e.chunks)
      PROVE  e.chunks[k] = f
  <2>1. e.chunks[k] \in Files
    BY <1>1, <1>4, ElementOfSeq DEF Contents
  <2>2. fileId[e.chunks[k]] = fileId[f]
    BY <1>4 DEF EntryInv
  <2> QED
    BY <1>2, <2>1, <2>2, NoClash
<1>6. e.chunks \in [1..Len(e.chunks) -> Contents]
  BY <1>1, LenProperties
<1> HIDE DEF e
<1>7. e.chunks = [i \in 1..ChunkCount[f] |-> f]
  BY <1>3, <1>5, <1>6
<1> QED
  BY <1>7 DEF e

(* A step that leaves the receiver alone brings no file into more places. *)
LEMMA OnceQuiet ==
    ASSUME OnceInv, ~Clash, UNCHANGED <<m_files, work, fired>>, remade \subseteq remade',
           \A f \in Files : Awaited(f)' => Awaited(f),
           \A f \in Files, h \in Handlers : Busy(h, f)' => Busy(h, f) /\ fileId'[f] = fileId[f]
    PROVE  OnceInv'
<1>1. \A f \in Files : (Fired(f)' <=> Fired(f)) /\ (Has(f)' <=> Has(f))
  BY DEF Fired, Has
<1>2. ASSUME NEW f \in Files \ remade'
      PROVE  OnceFor(f)'
  <2>1. OnceFor(f)
    BY <1>2 DEF OnceInv
  <2>2. Awaited(f)' => ~Has(f)' /\ ~Fired(f)' /\ \A h \in Handlers : ~Busy(h, f)'
    BY <1>1, <2>1 DEF OnceFor
  <2>3. \A h \in Handlers : Busy(h, f)' =>
            m_files'[fileId'[f]].name = f /\ Complete(m_files'[fileId'[f]])
    BY <2>1 DEF OnceFor
  <2>4. \A g, h \in Handlers : Busy(g, f)' /\ Busy(h, f)' => g = h
    BY <2>1 DEF OnceFor
  <2>5. Fired(f)' => ~Has(f)'
    BY <1>1, <2>1 DEF OnceFor
  <2>6. \A n \in 1..Len(fired') : fired'[n].name = f =>
            /\ fired'[n].chunks = [i \in 1..ChunkCount[f] |-> f]
            /\ \A k \in 1..Len(fired') : fired'[k].name = f => k = n
    BY <2>1 DEF OnceFor
  <2> QED
    BY <2>2, <2>3, <2>4, <2>5, <2>6 DEF OnceFor, Complete
<1>3. \A n \in 1..Len(fired') : fired'[n].name = NoFile => remade' # {}
  BY DEF OnceInv
<1> QED
  BY <1>2, <1>3 DEF OnceInv

(* A manifest: the file that was to come is in its entry now. *)
LEMMA OnceAnnounced ==
    ASSUME TypeInv, SendInv, EntryInv, EntryInv', OnceInv, ~Clash, UNCHANGED <<sendVars, fired>>,
           net' \subseteq net, remade \subseteq remade',
           NEW m \in net, Announces(m), m \in net' => m.file \in remade'
    PROVE  OnceInv'
<1>1. /\ m.id \in Ids /\ m.file \in Files /\ fileId[m.file] = m.id /\ m.kind = "manifest"
      /\ m = [kind |-> "manifest", id |-> m.id, file |-> m.file] /\ 0 \notin Ids
  BY Messages DEF TypeInv, SendInv, Announces, Ids
<1>2. m_files' = [m_files EXCEPT ![m.id] = EntryFor(m.file)] /\ work' = work /\ fileId' = fileId /\ call' = call
  BY DEF Announces, sendVars
<1>3. \A f \in Files : Awaited(f)' => Awaited(f)
  BY <1>2 DEF Awaited
<1>4. \A f \in Files, h \in Handlers : Busy(h, f)' <=> Busy(h, f)
  BY <1>2 DEF Busy
<1>5. \A f \in Files : Fired(f)' <=> Fired(f)
  BY DEF Fired
<1>6. ASSUME NEW f \in Files \ remade'
      PROVE  OnceFor(f)'
  <2>1. OnceFor(f)
    BY <1>6 DEF OnceInv
  <2>2. \A n \in 1..Len(fired') : fired'[n].name = f =>
            /\ fired'[n].chunks = [i \in 1..ChunkCount[f] |-> f]
            /\ \A k \in 1..Len(fired') : fired'[k].name = f => k = n
    BY <2>1 DEF OnceFor
  <2>3. CASE f = m.file
    <3>1. Awaited(f)
      BY <1>1, <2>3 DEF Awaited
    <3>2. ~Fired(f)' /\ \A h \in Handlers : ~Busy(h, f)'
      BY <1>4, <1>5, <2>1, <3>1 DEF OnceFor
    <3>3. \A n \in net' : n.kind = "manifest" => n.file # f
      <4>1. ASSUME NEW n \in net', n.kind = "manifest", n.file = f
            PROVE  FALSE
        <5>1. n \in net /\ n = [kind |-> "manifest", id |-> n.id, file |-> n.file]
          BY <4>1, Messages DEF TypeInv
        <5>2. n.id = m.id
          BY <1>1, <2>3, <4>1, <5>1 DEF SendInv
        <5>3. n = m
          BY <1>1, <2>3, <4>1, <5>1, <5>2
        <5> QED
          BY <1>6, <2>3, <5>3
      <4> QED
        BY <4>1
    <3>4. ~Awaited(f)'
      BY <1>1, <1>2, <2>3, <3>3 DEF Awaited, SendInv
    <3> QED
      BY <2>2, <3>2, <3>4 DEF OnceFor
  <2>4. CASE f # m.file
    <3>1. fileId[f] # m.id
      BY <1>1, <2>4, NoClash
    <3>2. fileId[f] \in Ids => m_files'[fileId[f]] = m_files[fileId[f]]
      BY <1>2, <3>1 DEF TypeInv
    <3>3. Has(f)' <=> Has(f)
      BY <1>2, <3>2, WhereItIs
    <3>4. \A h \in Handlers : Busy(h, f) => fileId[f] \in Ids
      BY DEF Busy, EntryInv
    <3>5. \A h \in Handlers : Busy(h, f)' =>
              m_files'[fileId'[f]].name = f /\ Complete(m_files'[fileId'[f]])
      BY <1>2, <1>4, <2>1, <3>2, <3>4 DEF OnceFor
    <3>6. /\ Awaited(f)' => ~Has(f)' /\ ~Fired(f)' /\ \A h \in Handlers : ~Busy(h, f)'
          /\ \A g, h \in Handlers : Busy(g, f)' /\ Busy(h, f)' => g = h
          /\ Fired(f)' => ~Has(f)'
      BY <1>3, <1>4, <1>5, <2>1, <3>3 DEF OnceFor
    <3> QED
      BY <2>2, <3>5, <3>6 DEF OnceFor, Complete
  <2> QED
    BY <2>3, <2>4
<1>7. \A n \in 1..Len(fired') : fired'[n].name = NoFile => remade' # {}
  BY DEF OnceInv
<1> QED
  BY <1>6, <1>7 DEF OnceInv

(* A chunk: an entry that lacks one is not in a handler's hands, and the handler *)
(* that completes it is the only one.                                            *)
LEMMA OnceStored ==
    ASSUME TypeInv, CountInv, SendInv, EntryInv, EntryInv', OnceInv, ~Clash, UNCHANGED <<sendVars, fired>>,
           net' \subseteq net, remade \subseteq remade',
           NEW h \in Handlers, work[h].step = "idle", NEW m \in net, Stores(h, m)
    PROVE  OnceInv'
<1> DEFINE e == m_files[m.id]
           x == Stored(e, m.idx, m.file)
<1>1. /\ m.id \in Ids /\ m.file \in Files /\ fileId[m.file] = m.id /\ e \in Entries /\ 0 \notin Ids
      /\ fileId' = fileId /\ call' = call
  BY Messages DEF TypeInv, SendInv, Ids, sendVars
<1>2. /\ m.idx \in 1..Len(e.chunks) /\ e.chunks[m.idx] = NoFile /\ e # NoEntry
      /\ m_files' = [m_files EXCEPT ![m.id] = x]
      /\ work' = [work EXCEPT ![h] = IF Complete(x) THEN [step |-> "complete", id |-> m.id] ELSE IdleWork]
  BY DEF Stores
<1> HIDE DEF x
<1>3. x.name = e.name /\ Cardinality(Filled(e.chunks)) # Len(e.chunks)
  BY <1>1, <1>2, StoredEntry DEF x
<1>4. ~Complete(e)
  BY <1>1, <1>3 DEF CountInv, Complete
<1>5. e.name = m.file
  <2>1. e.name \in Files /\ fileId[e.name] = m.id
    BY <1>1, <1>2 DEF EntryInv, Entries, Contents
  <2> QED
    BY <1>1, <2>1, NoClash
<1>6. \A f \in Files : (Awaited(f)' => Awaited(f)) /\ (Fired(f)' <=> Fired(f))
  BY <1>1 DEF Awaited, Fired
<1>7. ASSUME NEW f \in Files
      PROVE  Has(f)' <=> Has(f)
  <2>1. m_files'[m.id].name = e.name
    BY <1>1, <1>2, <1>3 DEF TypeInv
  <2>2. fileId[f] \in Ids => m_files'[fileId[f]].name = m_files[fileId[f]].name
    BY <1>1, <1>2, <2>1 DEF TypeInv
  <2> QED
    BY <1>1, <2>2, WhereItIs
\* Who is busy with which file.
<1>8. ASSUME NEW f \in Files, NEW g \in Handlers
      PROVE  Busy(g, f)' <=> IF g = h THEN f = m.file /\ Complete(x) ELSE Busy(g, f)
  <2>1. CASE g = h
    <3>1. work'[h] = IF Complete(x) THEN [step |-> "complete", id |-> m.id] ELSE IdleWork
      BY <1>2 DEF TypeInv
    <3>2. Busy(g, f)' <=> Complete(x) /\ m.id = fileId[f]
      BY <1>1, <2>1, <3>1 DEF Busy, IdleWork
    <3>3. m.id = fileId[f] <=> f = m.file
      BY <1>1, NoClash
    <3> QED
      BY <2>1, <3>2, <3>3
  <2>2. CASE g # h
    BY <1>1, <1>2, <2>2 DEF Busy
  <2> QED
    BY <2>1, <2>2
<1>9. ASSUME NEW f \in Files \ remade'
      PROVE  OnceFor(f)'
  <2>1. OnceFor(f)
    BY <1>9 DEF OnceInv
  <2>2. \A n \in 1..Len(fired') : fired'[n].name = f =>
            /\ fired'[n].chunks = [i \in 1..ChunkCount[f] |-> f]
            /\ \A k \in 1..Len(fired') : fired'[k].name = f => k = n
    BY <2>1 DEF OnceFor
  <2>3. (Awaited(f)' => ~Has(f)' /\ ~Fired(f)') /\ (Fired(f)' => ~Has(f)')
    BY <1>6, <1>7, <2>1 DEF OnceFor
  <2>4. CASE f = m.file
    <3>1. \A g \in Handlers : ~Busy(g, f)
      BY <1>1, <1>4, <2>1, <2>4 DEF OnceFor
    <3>2. \A g \in Handlers : Busy(g, f)' => g = h /\ Complete(x)
      BY <1>8, <3>1
    <3>3. m_files'[fileId'[f]] = x
      BY <1>1, <1>2, <2>4 DEF TypeInv
    <3>4. Has(f)
      BY <1>1, <1>5, <2>4, WhereItIs
    <3>5. ~Awaited(f)'
      BY <1>6, <2>1, <3>4 DEF OnceFor
    <3>6. \A g \in Handlers : Busy(g, f)' =>
              m_files'[fileId'[f]].name = f /\ Complete(m_files'[fileId'[f]])
      BY <1>3, <1>5, <2>4, <3>2, <3>3
    <3>7. \A g, k \in Handlers : Busy(g, f)' /\ Busy(k, f)' => g = k
      BY <3>2
    <3> QED
      BY <2>2, <2>3, <3>5, <3>6, <3>7 DEF OnceFor, Complete
  <2>5. CASE f # m.file
    <3>1. \A g \in Handlers : Busy(g, f)' => Busy(g, f)
      BY <1>8, <2>5
    <3>2. fileId[f] \in Ids => m_files'[fileId[f]] = m_files[fileId[f]]
      BY <1>1, <1>2, <2>5, NoClash DEF TypeInv
    <3>3. \A g \in Handlers : Busy(g, f) => fileId[f] \in Ids
      BY DEF Busy, EntryInv
    <3>4. \A g \in Handlers : Busy(g, f)' =>
              m_files'[fileId'[f]].name = f /\ Complete(m_files'[fileId'[f]])
      BY <1>1, <2>1, <3>1, <3>2, <3>3 DEF OnceFor
    <3>5. /\ Awaited(f)' => \A g \in Handlers : ~Busy(g, f)'
          /\ \A g, k \in Handlers : Busy(g, f)' /\ Busy(k, f)' => g = k
      BY <1>6, <2>1, <3>1 DEF OnceFor
    <3> QED
      BY <2>2, <2>3, <3>4, <3>5 DEF OnceFor, Complete
  <2> QED
    BY <2>4, <2>5
<1>10. \A n \in 1..Len(fired') : fired'[n].name = NoFile => remade' # {}
  BY DEF OnceInv
<1> QED
  BY <1>9, <1>10 DEF OnceInv

(* The callback: what is handed over leaves its entry, and is whole. *)
LEMMA OnceFired ==
    ASSUME TypeInv, CountInv, SendInv, EntryInv, EntryInv', OnceInv, ~Clash, UNCHANGED sendVars,
           net' = net, remade' = remade, NEW h \in Handlers, FireFile(h)
    PROVE  OnceInv'
<1> DEFINE i == work[h].id
           e == m_files[i]
           x == [name |-> e.name, chunks |-> e.chunks]
<1>1. /\ work[h].step = "complete" /\ i \in Ids /\ e \in Entries /\ x \in Handed /\ 0 \notin Ids
      /\ fileId' = fileId /\ call' = call
  BY DEF FireFile, EntryInv, TypeInv, Entries, Handed, Ids, sendVars
<1>2. /\ fired' = Append(fired, x) /\ m_files' = [m_files EXCEPT ![i] = NoEntry]
      /\ work' = [work EXCEPT ![h] = IdleWork]
  BY DEF FireFile
<1>3. PICK f0 \in Files : fileId[f0] = i
  BY <1>1 DEF EntryInv
<1> HIDE DEF x
<1>4. /\ Len(fired) \in Nat /\ Len(fired') = Len(fired) + 1 /\ fired'[Len(fired) + 1] = x
      /\ \A n \in 1..Len(fired) : fired'[n] = fired[n]
  BY <1>1, <1>2, AppendProperties, LenProperties DEF TypeInv
<1>5. x.name = e.name /\ x.chunks = e.chunks
  BY DEF x
<1>6. \A f \in Files : (Awaited(f)' <=> Awaited(f)) /\ (Fired(f)' <=> Fired(f) \/ e.name = f)
  <2>1. \A f \in Files : Awaited(f)' <=> Awaited(f)
    BY <1>1 DEF Awaited
  <2>2. ASSUME NEW f \in Files
        PROVE  Fired(f)' <=> Fired(f) \/ e.name = f
    BY <1>4, <1>5 DEF Fired
  <2> QED
    BY <2>1, <2>2
<1>7. ASSUME NEW f \in Files, NEW g \in Handlers
      PROVE  Busy(g, f)' <=> g # h /\ Busy(g, f)
  BY <1>1, <1>2 DEF Busy, IdleWork, TypeInv
<1>8. ASSUME NEW f \in Files \ remade'
      PROVE  OnceFor(f)'
  <2>1. OnceFor(f) /\ f # NoFile
    BY <1>8, FileAssumption DEF OnceInv
  <2>2. CASE f = f0
    <3>1. Busy(h, f)
      BY <1>1, <1>3, <2>2 DEF Busy
    <3>2. e.name = f /\ Complete(e)
      BY <1>3, <2>1, <2>2, <3>1 DEF OnceFor
    <3>3. Has(f) /\ ~Fired(f) /\ ~Awaited(f)
      BY <1>1, <1>3, <2>1, <2>2, <3>1, <3>2, WhereItIs DEF OnceFor
    <3>4. e.chunks = [j \in 1..ChunkCount[f] |-> f]
      BY <1>1, <1>3, <2>2, <3>2, CompleteIsWhole
    <3>5. \A g \in Handlers : ~Busy(g, f)'
      BY <1>7, <2>1, <3>1 DEF OnceFor
    <3>6. ~Has(f)'
      <4>1. m_files'[i].name = NoFile
        BY <1>1, <1>2, NoEntryIsEmpty DEF TypeInv
      <4> QED
        BY <1>1, <1>3, <2>1, <2>2, <4>1, WhereItIs
    <3>7. \A n \in 1..Len(fired') : fired'[n].name = f => n = Len(fired) + 1
      BY <1>4, <3>3 DEF Fired
    <3>8. \A n \in 1..Len(fired') : fired'[n].name = f =>
              /\ fired'[n].chunks = [j \in 1..ChunkCount[f] |-> f]
              /\ \A k \in 1..Len(fired') : fired'[k].name = f => k = n
      BY <1>4, <1>5, <3>4, <3>7
    <3>9. ~Awaited(f)'
      BY <1>6, <3>3
    <3> QED
      BY <3>5, <3>6, <3>8, <3>9 DEF OnceFor
  <2>3. CASE f # f0
    <3>1. fileId[f] # i
      BY <1>1, <1>3, <2>3, NoClash
    <3>2. e.name # f
      BY <1>1, <2>1, <3>1 DEF EntryInv
    <3>3. fileId[f] \in Ids => m_files'[fileId[f]] = m_files[fileId[f]]
      BY <1>2, <3>1 DEF TypeInv
    <3>4. Has(f)' <=> Has(f)
      BY <1>1, <3>3, WhereItIs
    <3>5. \A g \in Handlers : Busy(g, f)' => Busy(g, f) /\ fileId[f] \in Ids
      BY <1>7 DEF Busy, EntryInv
    <3>6. \A g \in Handlers : Busy(g, f)' =>
              m_files'[fileId'[f]].name = f /\ Complete(m_files'[fileId'[f]])
      BY <1>1, <2>1, <3>3, <3>5 DEF OnceFor
    <3>7. /\ Awaited(f)' => ~Has(f)' /\ ~Fired(f)' /\ \A g \in Handlers : ~Busy(g, f)'
          /\ \A g, k \in Handlers : Busy(g, f)' /\ Busy(k, f)' => g = k
          /\ Fired(f)' => ~Has(f)'
      BY <1>6, <2>1, <3>2, <3>4, <3>5 DEF OnceFor
    <3>8. \A n \in 1..Len(fired') : fired'[n].name = f => n \in 1..Len(fired) /\ fired[n].name = f
      BY <1>4, <1>5, <3>2
    <3>9. \A n \in 1..Len(fired') : fired'[n].name = f =>
              /\ fired'[n].chunks = [j \in 1..ChunkCount[f] |-> f]
              /\ \A k \in 1..Len(fired') : fired'[k].name = f => k = n
      BY <1>4, <2>1, <3>8 DEF OnceFor
    <3> QED
      BY <3>6, <3>7, <3>9 DEF OnceFor, Complete
  <2> QED
    BY <2>2, <2>3
<1>9. ASSUME NEW n \in 1..Len(fired'), fired'[n].name = NoFile
      PROVE  remade' # {}
  <2>1. CASE n \in 1..Len(fired)
    BY <1>4, <1>9, <2>1 DEF OnceInv
  <2>2. CASE n = Len(fired) + 1
    <3>1. e.name = NoFile /\ Busy(h, f0)
      BY <1>1, <1>3, <1>4, <1>5, <1>9, <2>2 DEF Busy
    <3>2. ASSUME f0 \notin remade
          PROVE  FALSE
      <4>1. OnceFor(f0)
        BY <1>3, <3>2 DEF OnceInv
      <4>2. m_files[fileId[f0]].name = f0
        BY <3>1, <4>1 DEF OnceFor
      <4>3. f0 = NoFile
        BY <1>3, <3>1, <4>2
      <4> QED
        BY <1>3, <4>3, FileAssumption
    <3> QED
      BY <3>2
  <2> QED
    BY <1>4, <2>1, <2>2
<1> QED
  BY <1>8, <1>9 DEF OnceInv

(* What the sender and the network do brings no manifest back, and gives no file *)
(* a number that a handler is busy with.                                         *)
LEMMA OnceSender ==
    ASSUME TypeInv, SendInv, EntryInv, ~Clash', (\E c \in Callers : SendFile(c)) \/ Restart \/ Lose,
           NEW f \in Files
    PROVE  /\ Awaited(f)' => Awaited(f)
           /\ \A h \in Handlers : Busy(h, f)' => Busy(h, f) /\ fileId'[f] = fileId[f]
<1>0. UNCHANGED <<m_files, work, fired>> /\ call \in [Callers -> Calls] /\ fileId \in [Files -> {0} \cup Ids]
  BY TypeSender DEF TypeInv
\* A step that leaves the numbers alone.
<1>1. ASSUME fileId' = fileId, Awaited(f)' => Awaited(f)
      PROVE  /\ Awaited(f)' => Awaited(f)
             /\ \A h \in Handlers : Busy(h, f)' => Busy(h, f) /\ fileId'[f] = fileId[f]
  BY <1>0, <1>1 DEF Busy
<1>2. CASE Restart
  <2>1. fileId' = fileId /\ net' = net /\ \A c \in Callers : call'[c].step = "idle"
    BY <1>2 DEF Restart, IdleCall
  <2>2. Awaited(f)' => Awaited(f)
    BY <2>1 DEF Awaited
  <2> QED
    BY <1>1, <2>1, <2>2
<1>3. CASE Lose
  <2>1. fileId' = fileId /\ call' = call /\ net' \subseteq net
    BY <1>3 DEF Lose, sendVars
  <2>2. Awaited(f)' => Awaited(f)
    BY <2>1 DEF Awaited
  <2> QED
    BY <1>1, <2>1, <2>2
<1>4. ASSUME NEW c \in Callers, SendFile(c)
      PROVE  /\ Awaited(f)' => Awaited(f)
             /\ \A h \in Handlers : Busy(h, f)' => Busy(h, f) /\ fileId'[f] = fileId[f]
  <2>1. CASE Begin(c)
    <3>1. fileId' = fileId /\ net' = net
      BY <2>1 DEF Begin
    <3>2. call'[c].step = "read" /\ \A d \in Callers : d # c => call'[d] = call[d]
      BY <1>0, <2>1 DEF Begin
    <3>3. Awaited(f)' => Awaited(f)
      BY <3>1, <3>2 DEF Awaited
    <3> QED
      BY <1>1, <3>1, <3>3
  <2>2. CASE Refused(c) \/ SentAll(c)
    <3>1. fileId' = fileId /\ net' = net
      BY <2>2 DEF Refused, SentAll
    <3>2. call'[c].step = "idle" /\ \A d \in Callers : d # c => call'[d] = call[d]
      BY <1>0, <2>2 DEF Refused, SentAll, Return, IdleCall
    <3>3. Awaited(f)' => Awaited(f)
      BY <3>1, <3>2 DEF Awaited
    <3> QED
      BY <1>1, <3>1, <3>3
  <2>3. CASE SendNext(c)
    <3> DEFINE m == Message(call[c].file, call[c].next)
    <3>1. /\ call[c].step = "sending" /\ call[c].file \in Files /\ fileId[call[c].file] \in Ids
          /\ call[c].next \in Nat
      BY <1>0, <2>3 DEF SendNext, SendInv, Calls
    <3>2. fileId' = fileId /\ net' = net \cup {m}
      BY <2>3 DEF SendNext
    <3>3. call'[c].next # 0 /\ \A d \in Callers : d # c => call'[d] = call[d]
      BY <1>0, <2>3, <3>1 DEF SendNext, Calls
    <3>4. m.file = call[c].file /\ m.kind = IF call[c].next = 0 THEN "manifest" ELSE "chunk"
      BY <3>1, MadeMessage
    <3> HIDE DEF m
    <3>5. m.kind = "manifest" /\ m.file = f => Awaited(f)
      <4>1. m.kind = "manifest" => call[c].next = 0
        BY <3>4
      <4> QED
        BY <3>1, <3>4, <4>1 DEF Awaited
    <3>6. Awaited(f)' => Awaited(f)
      <4>1. ASSUME NEW d \in Callers, call'[d].step = "sending", call'[d].file = f, call'[d].next = 0
            PROVE  Awaited(f)
        BY <3>3, <4>1 DEF Awaited
      <4>2. ASSUME NEW n \in net', n.kind = "manifest", n.file = f
            PROVE  Awaited(f)
        BY <3>2, <3>5, <4>2 DEF Awaited
      <4>3. fileId'[f] = 0 => Awaited(f)
        BY <3>2 DEF Awaited
      <4> QED
        BY <4>1, <4>2, <4>3 DEF Awaited
    <3> QED
      BY <1>1, <3>2, <3>6
  <2>4. CASE Number(c)
    <3> DEFINE f0 == call[c].file
    <3>1. call[c].step = "read" /\ f0 \in Files /\ fileId[f0] = 0 /\ 0 \notin Ids
      BY <2>4 DEF Number, SendInv, Ids
    <3>2. net' = net /\ \A g \in Files : g # f0 => fileId'[g] = fileId[g]
      BY <1>0, <2>4 DEF Number
    <3>3. call'[c].file = f0 /\ \A d \in Callers : d # c => call'[d] = call[d]
      BY <1>0, <2>4 DEF Number, Calls
    <3> HIDE DEF f0
    <3>4. CASE f = f0
      <4>1. Awaited(f)
        BY <3>1, <3>4 DEF Awaited
      <4>2. ASSUME NEW h \in Handlers, Busy(h, f)'
            PROVE  FALSE
        <5>1. work[h].step = "complete" /\ work[h].id = fileId'[f]
          BY <1>0, <4>2 DEF Busy
        <5>2. PICK g \in Files : fileId[g] = work[h].id /\ work[h].id \in Ids
          BY <5>1 DEF EntryInv
        <5>3. g # f0
          BY <3>1, <5>2
        <5>4. fileId'[g] = fileId'[f] /\ fileId'[g] # 0
          BY <3>1, <3>2, <5>1, <5>2, <5>3
        <5> QED
          BY <3>4, <5>3, <5>4, NoClash
      <4> QED
        BY <4>1, <4>2
    <3>5. CASE f # f0
      <4>1. fileId'[f] = fileId[f]
        BY <3>2, <3>5
      <4>2. Awaited(f)' => Awaited(f)
        BY <3>2, <3>3, <3>5, <4>1 DEF Awaited
      <4> QED
        BY <1>0, <4>1, <4>2 DEF Busy
    <3> QED
      BY <3>4, <3>5
  <2> QED
    BY <1>4, <2>1, <2>2, <2>3, <2>4 DEF SendFile
<1> QED
  BY <1>2, <1>3, <1>4

LEMMA OnceStep ==
    ASSUME TypeInv, CountInv, SendInv, EntryInv, EntryInv', OnceInv, [Next]_vars
    PROVE  OnceInv'
<1> SUFFICES ASSUME ~Clash'
             PROVE  OnceInv'
  BY DEF OnceInv
<1>0. ~Clash
  BY ClashStays
<1>1. ASSUME UNCHANGED <<m_files, work, fired>>, UNCHANGED sendVars, net' \subseteq net, remade \subseteq remade'
      PROVE  OnceInv'
  <2>1. \A f \in Files : Awaited(f)' => Awaited(f)
    BY <1>1 DEF Awaited, sendVars
  <2>2. \A f \in Files, h \in Handlers : Busy(h, f)' => Busy(h, f) /\ fileId'[f] = fileId[f]
    BY <1>1 DEF Busy, sendVars
  <2> QED
    BY <1>0, <1>1, <2>1, <2>2, OnceQuiet
<1>2. CASE UNCHANGED vars
  BY <1>1, <1>2 DEF vars
<1>3. ASSUME NEW h \in Handlers, Handle(h)
      PROVE  OnceInv'
  <2>1. UNCHANGED sendVars /\ net' \subseteq net /\ remade \subseteq remade'
    BY <1>3, HandlerMoves
  <2>2. ASSUME fired' = fired, NEW m \in net, Announces(m), m \in net' => m.file \in remade'
        PROVE  OnceInv'
    BY <1>0, <2>1, <2>2, OnceAnnounced
  <2>3. ASSUME fired' = fired, work[h].step = "idle", NEW m \in net, Stores(h, m)
        PROVE  OnceInv'
    BY <1>0, <2>1, <2>3, OnceStored
  <2>4. ASSUME FireFile(h), net' = net, remade' = remade
        PROVE  OnceInv'
    BY <1>0, <2>1, <2>4, OnceFired
  <2> QED
    BY <1>1, <1>3, <2>1, <2>2, <2>3, <2>4, HandlerMoves
<1>4. CASE (\E c \in Callers : SendFile(c)) \/ Restart \/ Lose
  <2>1. UNCHANGED <<m_files, work, fired>> /\ remade' = remade
    <3>1. remade' = remade
      BY <1>4 DEF SendFile, Begin, Number, SendNext, Refused, SentAll, Restart, Lose
    <3> QED
      BY <1>4, <3>1, TypeSender
  <2>2. \A f \in Files : Awaited(f)' => Awaited(f)
    BY <1>4, OnceSender
  <2>3. \A f \in Files, h \in Handlers : Busy(h, f)' => Busy(h, f) /\ fileId'[f] = fileId[f]
    BY <1>4, OnceSender
  <2> QED
    BY <1>0, <2>1, <2>2, <2>3, OnceQuiet
<1> QED
  BY <1>2, <1>3, <1>4 DEF Next

(* Unless two files were given one number, the file callback is fired with the  *)
(* whole file under its own name, and once, for every file whose manifest came  *)
(* once: whatever order the messages come in, whatever is lost or repeated, and *)
(* whichever handlers take them.                                                *)
THEOREM FilesComeWhole ==
    Spec => []FilesIntact
<1>1. ASSUME Init, TypeInv
      PROVE  OnceInv
  <2>1. /\ fired = <<>> /\ Len(fired) = 0 /\ \A f \in Files : fileId[f] = 0
        /\ \A i \in Ids : m_files[i].name = NoFile
        /\ \A h \in Handlers : work[h].step = "idle"
    BY <1>1, EmptySeq, NoEntryIsEmpty DEF Init, IdleWork
  <2>2. ASSUME NEW f \in Files
        PROVE  OnceFor(f)
    <3>1. f # NoFile
      BY FileAssumption
    <3>2. ~Has(f) /\ ~Fired(f) /\ \A h \in Handlers : ~Busy(h, f)
      BY <2>1, <3>1 DEF Has, Fired, Busy
    <3> QED
      BY <2>1, <3>2 DEF OnceFor
  <2> QED
    BY <2>1, <2>2 DEF OnceInv
<1>2. ASSUME TypeInv, OnceInv
      PROVE  FilesIntact
  <2>1. \A n \in 1..Len(fired) : fired[n].name \in Contents
    <3>1. fired \in Seq(Handed)
      BY <1>2 DEF TypeInv
    <3>2. \A n \in 1..Len(fired) : fired[n] \in Handed
      BY <3>1, ElementOfSeq
    <3> QED
      BY <3>2 DEF Handed
  <2> QED
    BY <1>2, <2>1 DEF OnceInv, OnceFor, FilesIntact, Contents
<1> QED
  BY <1>1, <1>2, BaseInvariance, OnceStep, PTL DEF Spec
=============================================================================
