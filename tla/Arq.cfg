SPECIFICATION FairSpec
CONSTANTS
    Channels = {video, file}
    Reliable = {file}
    NoChannel = none
    PeerRetransmit = TRUE
    MaxRetries = 1
    LossThresholds = {0, 2}
    GiveUp = 2
    LostCap = 1
    MissingCap = 2
    MaxSeq = 4
    Traffic <- FourPackets
    MaxControl = 1
    MaxReports = 1
    AgeCap = 3
    MaxFaults = 1
INVARIANTS TypeOK CursorSafe RetransmissionSafe
 
