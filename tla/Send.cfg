SPECIFICATION FairPipeline
CONSTANTS
    Priorities = {0, 1}
    Media = {"video", "audio"}
    QueueLimit = 2
    EncodeCap = 1
    MaxMsgs = 3
    MaxFlaps = 1
    MaxClears = 1
    MaxDrains = 1
CHECK_DEADLOCK FALSE
INVARIANTS PipelineTypeOK QueuesAreOne
PROPERTY AcceptedLeaves
