SPECIFICATION PipelineSpec
CONSTANTS
    Priorities = {0, 1}
    Media = {"video"}
    QueueLimit = 3
    EncodeCap = 1
    MaxMsgs = 3
    MaxFlaps = 1
    MaxClears = 0
    MaxDrains = 0
CHECK_DEADLOCK FALSE
INVARIANT PayloadKept
