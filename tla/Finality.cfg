SPECIFICATION FairSpec
CONSTANTS
    w1 = w1
    w2 = w2
    Workers = {w1, w2}
    Nobody = Nobody
    Paying <- Two
    Backing <- None
    Networks <- Setups
    PerRound = 1
    MaxSkip = 2
    Lags <- Absent
INVARIANTS
    RoundsHold
    SettledIsFinal
PROPERTIES
    IsDecided
