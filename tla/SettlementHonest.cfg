SPECIFICATION FairSpec
CONSTANTS
    p1 = p1
    a1 = a1
    a2 = a2
    t1 = t1
    t2 = t2
    t3 = t3
    o1 = o1
    o2 = o2
    w1 = w1
    w2 = w2
    Payments <- OnePayment
    Attempts <- TwoAttempts
    PaymentOf <- AllOfOne
    Deadline <- EarlyDeadline
    Transfers <- ThreeTransfers
    KeyOf <- ThreeKeys
    Kind <- ThreeKinds
    Observers = {o1}
    Workers = {w1}
    MaxHeight = 3
    MaxForks = 1
    Width = 2
    MinRemaining = 1
    MaxAttempts = 2
    Overclaims = FALSE
    MaxSets = 0
INVARIANTS
    ExpiredIsUnpaid
    LedgerIsTheChain
PROPERTIES
    
    PayableEnds
    PaidIsSettled
