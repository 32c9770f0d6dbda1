SPECIFICATION FairSpec
CONSTANTS
    Handlers = {h1, h2}
    Data = 2
    Parities = {0, 1}
    Window = 2
    Horizon = 1
    DeadTimeout = 3
    MaxMsg = 1
    MaxEpochs = 2
    MaxTrouble = 2
INVARIANTS TypeOK OutcomesRight
PROPERTY EntriesLeave
