SPECIFICATION FairSpec
CONSTANTS
    Wait = 2
    MaxCmd = 4
    MaxFaults = 1
    MaxResets = 1
CHECK_DEADLOCK FALSE
INVARIANTS TypeOK CommandsAccounted AudioFiredInOrder
PROPERTIES ImplementsOrdered HeldLeaves
