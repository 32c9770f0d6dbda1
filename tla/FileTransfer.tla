---------------------------- MODULE FileTransfer ----------------------------
(***************************************************************************)
(* Files: send_file cuts a file into chunks and sends a manifest and the   *)
(* chunks as messages of the file channel; handle_file_manifest and        *)
(* handle_file_chunk put it together at the other end and fire the file    *)
(* callback.                                                               *)
(*                                                                         *)
(* The layers below carry messages in any order, and may lose one or       *)
(* deliver one twice (a message is remembered as finished for dead_timeout *)
(* only).  The two application threads may call send_file at a time, and   *)
(* while the transport switches to lite mode both the receiver thread and  *)
(* the reactor handle messages.  A chunk's content is its file.            *)
(***************************************************************************)
EXTENDS Naturals, Sequences, FiniteSets

CONSTANTS
    Files,          \* files to be sent
    ChunkCount,     \* the number of chunks of each
    MaxChunkCount,  \* manifests with more chunks are refused (65536)
    Callers,        \* application threads that call send_file
    Handlers,       \* threads that handle messages
    NoFile,
    MaxFaults       \* bound: messages refused, lost or delivered twice, and
                    \* restarts of the sender's process

ASSUME FileAssumption ==
    /\ IsFiniteSet(Files) /\ NoFile \notin Files
    /\ ChunkCount \in [Files -> Nat \ {0}] /\ MaxChunkCount \in Nat \ {0}
    /\ MaxFaults \in Nat

Ids      == 1..Cardinality(Files)
Manifest == [kind : {"manifest"}, id : Ids, file : Files]
Chunk    == [kind : {"chunk"}, id : Ids, file : Files, idx : Nat \ {0}]
NoMsg    == [kind |-> "none"]
NoEntry  == [name |-> NoFile, chunks |-> <<>>, received |-> 0]

VARIABLES
    m_file_id_out,  \* the next file id
    call,           \* what each caller is sending, and how far it is
    result,         \* what send_file said of each file
    fileId,         \* the id each file was given, 0 if none yet
    net,            \* messages in flight
    faults,
    m_files,        \* files being received, by id
    work,           \* what each handler is doing
    \* history, for the properties only
    fired,          \* file callbacks: the name given and the chunks handed over
    cut,            \* files with a message lost, or a chunk before the manifest
    remade          \* files whose manifest came twice

sendVars == <<m_file_id_out, call, result, fileId>>
vars     == <<sendVars, net, faults, m_files, work, fired, cut, remade>>

IdleCall == [file |-> NoFile, step |-> "idle", next |-> 0, id |-> 0]
IdleWork == [step |-> "idle", id |-> 0]

Init ==
    /\ m_file_id_out = 1
    /\ call = [c \in Callers |-> IdleCall]
    /\ result = [f \in Files |-> "none"] /\ fileId = [f \in Files |-> 0]
    /\ net = {} /\ faults = 0
    /\ m_files = [i \in Ids |-> NoEntry]
    /\ work = [h \in Handlers |-> IdleWork]
    /\ fired = <<>> /\ cut = {} /\ remade = {}

Fault == faults < MaxFaults /\ faults' = faults + 1

-----------------------------------------------------------------------------
(* send_file *)

\* m_file_id_out++ is not atomic: the value is read here and written back by
\* Number.
Begin(c) ==
    /\ call[c].step = "idle"
    /\ \E f \in Files :
        /\ result[f] = "none"
        /\ result' = [result EXCEPT ![f] = "busy"]
        /\ call' = [call EXCEPT ![c] = [file |-> f, step |-> "read", next |-> 0, id |-> m_file_id_out]]
    /\ m_file_id_out \in Ids
    /\ UNCHANGED <<m_file_id_out, fileId, net, faults, m_files, work, fired, cut, remade>>

Number(c) ==
    /\ call[c].step = "read"
    /\ m_file_id_out' = call[c].id + 1
    /\ fileId' = [fileId EXCEPT ![call[c].file] = call[c].id]
    /\ call' = [call EXCEPT ![c].step = "sending"]
    /\ UNCHANGED <<result, net, faults, m_files, work, fired, cut, remade>>

\* The manifest is message 0, chunk i is message i.
Message(f, i) ==
    IF i = 0 THEN [kind |-> "manifest", id |-> fileId[f], file |-> f]
    ELSE [kind |-> "chunk", id |-> fileId[f], file |-> f, idx |-> i]

SendNext(c) ==
    LET f == call[c].file
        i == call[c].next
    IN /\ call[c].step = "sending" /\ i <= ChunkCount[f]
       /\ net' = net \cup {Message(f, i)}
       /\ call' = [call EXCEPT ![c].next = i + 1]
       /\ UNCHANGED <<m_file_id_out, result, fileId, faults, m_files, work, fired, cut, remade>>

Return(c, value) ==
    /\ result' = [result EXCEPT ![call[c].file] = value]
    /\ call' = [call EXCEPT ![c] = IdleCall]

\* send_message returns false: send_file gives up, whatever went out already.
Refused(c) ==
    /\ call[c].step = "sending" /\ call[c].next <= ChunkCount[call[c].file]
    /\ Fault
    /\ Return(c, "false")
    /\ UNCHANGED <<m_file_id_out, fileId, net, m_files, work, fired, cut, remade>>

SentAll(c) ==
    /\ call[c].step = "sending" /\ call[c].next > ChunkCount[call[c].file]
    /\ Return(c, "true")
    /\ UNCHANGED <<m_file_id_out, fileId, net, faults, m_files, work, fired, cut, remade>>

SendFile(c) == Begin(c) \/ Number(c) \/ SendNext(c) \/ Refused(c) \/ SentAll(c)

\* The sending process is started again and numbers its files from 1; what is
\* in flight stays so.
Restart ==
    /\ Fault
    /\ m_file_id_out' = 1
    /\ result' = [f \in Files |-> IF result[f] = "busy" THEN "false" ELSE result[f]]
    /\ call' = [c \in Callers |-> IdleCall]
    /\ UNCHANGED <<fileId, net, m_files, work, fired, cut, remade>>

-----------------------------------------------------------------------------
(* The layers below *)

Lose ==
    /\ Fault
    /\ \E m \in net : net' = net \ {m} /\ cut' = cut \cup {m.file}
    /\ UNCHANGED <<sendVars, m_files, work, fired, remade>>

\* A message is handed up, for good or to be delivered once more.
Taken(m) ==
    \/ net' = net \ {m} /\ UNCHANGED faults
    \/ Fault /\ UNCHANGED net

-----------------------------------------------------------------------------
(* deliver_message at the receiving end, one step per critical section *)

EntryFor(f) ==
    [name |-> f, chunks |-> [i \in 1..ChunkCount[f] |-> NoFile], received |-> 0]

\* handle_file_manifest: the entry is made, or made anew.
HandleManifest(h) ==
    /\ work[h].step = "idle"
    /\ \E m \in net :
        /\ m.kind = "manifest" /\ Taken(m)
        /\ m_files' = IF ChunkCount[m.file] > MaxChunkCount THEN m_files
                      ELSE [m_files EXCEPT ![m.id] = EntryFor(m.file)]
        /\ remade' = IF m \in net' THEN remade \cup {m.file} ELSE remade
    /\ UNCHANGED <<sendVars, work, fired, cut>>

Known(m) == m_files[m.id] # NoEntry /\ m.idx <= Len(m_files[m.id].chunks)

\* Mutant: a chunk that is there already is counted again.
Fresh_Always(m) == TRUE

Fresh(m) == m_files[m.id].chunks[m.idx] = NoFile

\* Mutant: one chunk more than there are is waited for.
Complete_Never(e) == e.received > Len(e.chunks)

Complete(e) == e.received = Len(e.chunks)

\* handle_file_chunk of a file nobody has announced, or of a chunk it has
DropChunk(h) ==
    /\ work[h].step = "idle"
    /\ \E m \in net :
        /\ m.kind = "chunk" /\ ~(Known(m) /\ Fresh(m)) /\ Taken(m)
        /\ cut' = IF Known(m) THEN cut ELSE cut \cup {m.file}
    /\ UNCHANGED <<sendVars, m_files, work, fired, remade>>

StoreChunk(h) ==
    /\ work[h].step = "idle"
    /\ \E m \in net :
        LET e == [m_files[m.id] EXCEPT !.chunks[m.idx] = m.file, !.received = @ + 1] IN
        /\ m.kind = "chunk" /\ Known(m) /\ Fresh(m) /\ Taken(m)
        /\ m_files' = [m_files EXCEPT ![m.id] = e]
        /\ work' = [work EXCEPT ![h] =
                IF Complete(e) THEN [step |-> "complete", id |-> m.id] ELSE IdleWork]
    /\ UNCHANGED <<sendVars, fired, cut, remade>>

\* Outside the lock the chunks are strung together; under it again the entry is
\* erased and the callback fired.
FireFile(h) ==
    LET e == m_files[work[h].id] IN
    /\ work[h].step = "complete"
    /\ fired' = Append(fired, [name |-> e.name, chunks |-> e.chunks])
    /\ m_files' = [m_files EXCEPT ![work[h].id] = NoEntry]
    /\ work' = [work EXCEPT ![h] = IdleWork]
    /\ UNCHANGED <<sendVars, net, faults, cut, remade>>

Handle(h) == HandleManifest(h) \/ DropChunk(h) \/ StoreChunk(h) \/ FireFile(h)

Next ==
    \/ \E c \in Callers : SendFile(c)
    \/ \E h \in Handlers : Handle(h)
    \/ Restart \/ Lose

Spec == Init /\ [][Next]_vars

(* A call of send_file runs to its end, and messages that are not lost are *)
(* handled.                                                                *)
FairSpec ==
    /\ Spec
    /\ \A c \in Callers : WF_vars(SendFile(c))
    /\ \A h \in Handlers : WF_vars(Handle(h))

-----------------------------------------------------------------------------
(* Properties *)

\* The types of the tables and of what is in flight; an entry has received at
\* most as many chunks as it has.
TypeOK ==
    /\ m_file_id_out \in Nat \ {0}
    /\ result \in [Files -> {"none", "busy", "true", "false"}]
    /\ fileId \in [Files -> {0} \cup Ids]
    /\ net \subseteq Manifest \cup Chunk
    /\ faults \in 0..MaxFaults
    /\ \A i \in Ids : m_files[i].received <= Len(m_files[i].chunks)
    /\ work \in [Handlers -> [step : {"idle", "complete"}, id : {0} \cup Ids]]
    /\ cut \subseteq Files /\ remade \subseteq Files

\* Two files were given one id: two threads raced for it, or the sender was
\* started again.
Clash == \E f, g \in Files : f # g /\ fileId[f] = fileId[g] /\ fileId[f] # 0

\* The file callback hands over the whole file under its own name, and once: in
\* whatever order manifest and chunks come, handled by two threads, with chunks
\* repeated (handle_file_chunk's count against its de-duplication).  Excepted
\* are files that share an id, and files whose manifest comes a second time,
\* which empties an entry that is complete but not yet strung together; only
\* then can a thread string together an entry that the other has erased.
FilesIntact ==
    ~Clash => \A n \in 1..Len(fired) : LET f == fired[n].name IN
        IF f = NoFile THEN remade # {}
        ELSE f \notin remade =>
                /\ fired[n].chunks = [i \in 1..ChunkCount[f] |-> f]
                /\ \A k \in 1..Len(fired) : fired[k].name = f => k = n

Fired(f) == \E n \in 1..Len(fired) : fired[n].name = f

\* A file that send_file accepted is handed over, unless one of its messages was
\* lost, its manifest came twice or after one of its chunks, it has too many
\* chunks, or it shares its id (handle_file_manifest, handle_file_chunk).
FileArrives ==
    \A f \in Files :
        result[f] = "true" ~>
            (Fired(f) \/ f \in cut \cup remade \/ ChunkCount[f] > MaxChunkCount \/ Clash)
=============================================================================
