SPECIFICATION FairSpec
CONSTANTS
    Rates = {1, 3}
    Cost = 2
    Burst = 4
    LoanBeats = 2
    QueueCap = 3
    Deep = 3
    Shallow = 1
    DrainBeats = 2
    PerBeat = 4
    MaxOverdraft = 4
    MaxEvacs = 1
INVARIANTS TypeOK DebtBounded CallsTruthful
PROPERTY TokensSuffice
