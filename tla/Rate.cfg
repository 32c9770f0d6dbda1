SPECIFICATION FairSpec
CONSTANTS
    Peers = {p1}
    MinBtl = 4
    Seed = 8
    LateRatios = {0, 600}
    CeRatios = {0, 100}
    RecvRates = {0, 5}
    ProbeRates = {0}
    SlowTicks = 1
    FreezeTicks = 1
    HoldTicks = 1
    TimeoutTicks = 1
    MaxDrops = 1
INVARIANTS TypeOK RateInBounds OneWindowPerDrop
PROPERTIES RateFallsForAReason RateRecovers
