SPECIFICATION FairSpec
CONSTANTS
    Callers = {c1}
    Msgs = {m1, m2}
    Profiles = {"Audio", "Video"}
    CallbackCalls = {"send"}
    Nobody = Nobody
    NoMsg = NoMsg
    MaxCalls = 3
    MaxEvents = 1
CHECK_DEADLOCK FALSE
INVARIANTS TypeOK RolesServed LostForAReason
PROPERTIES CallsReturn QueuesServed
