SPECIFICATION FairSpec
CONSTANTS
    small = small
    large = large
    Files = {small, large}
    ChunkCount <- Counts
    MaxChunkCount = 2
    Callers = {c1, c2}
    Handlers = {receiver, reactor}
    NoFile = NoFile
    MaxFaults = 1
CHECK_DEADLOCK FALSE
INVARIANTS TypeOK FilesIntact
PROPERTY FileArrives
