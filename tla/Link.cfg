SPECIFICATION FairSpec
CONSTANTS
    Nodes = {"a"}
    Dead = 2
    Restarted = {"b"}
    MaxTroubles = 1
INVARIANTS TypeOK NoFalseAlarm
PROPERTIES BothComeOnline DeadPeerNoticed KeysAgree
