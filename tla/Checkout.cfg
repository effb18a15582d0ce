SPECIFICATION FairSpec
CONSTANTS
    t1 = t1
    t2 = t2
    Tabs = {t1, t2}
    MaxAttempts = 2
    ExpiresAt = 2
    MinRemaining = 2
    PageLife = 1
    Horizon = 2
    MaxRevision = 1
INVARIANTS
    PageHolds
PROPERTIES
    ConfirmingStays
    RefusedMovesNothing
    PayerIsServed
CHECK_DEADLOCK FALSE
