SPECIFICATION Spec
CONSTANTS
    p1 = p1
    a1 = a1
    a2 = a2
    t1 = t1
    t2 = t2
    t3 = t3
    o1 = o1
    o2 = o2
    w1 = w1
    w2 = w2
    Payments <- OnePayment
    Attempts <- OneAttempt
    PaymentOf <- OneOfOne
    Deadline <- EarlyDeadline
    Transfers <- FirstTwo
    KeyOf <- TwoOfOneKey
    Kind <- FullAndShort
    Observers = {o1}
    Workers = {w1, w2}
    MaxHeight = 3
    MaxForks = 1
    Width = 2
    MinRemaining = 1
    MaxAttempts = 2
    Overclaims = TRUE
    MaxSets = 1
SYMMETRY Working
INVARIANTS
    SucceededIsPaid
    
PROPERTIES
    KeepsPromise
CHECK_DEADLOCK FALSE
