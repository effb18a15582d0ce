SPECIFICATION FairSpec
CONSTANTS
    r1 = r1
    r2 = r2
    p1 = p1
    q1 = q1
    q2 = q2
    k1 = k1
    NoKey = NoKey
    Nobody = Nobody
    t1 = t1
    w1 = w1
    Payments = {p1}
    Received <- ReceivedTwo
    Life = 3
    MaxNow = 3
    Width = 2
    MaxHeight = 3
    MaxForks = 1
    Refunds <- TwoRefunds
    Attempts <- Nonces
    Requests = {q1, q2}
    For <- ForOne
    Under <- KeyOfFirst
    Asks <- AskOneAndRest
    Sends <- FirstTwice
    Transfers = {t1}
    KeyOf <- OneKey
    Carries <- Later
    Overclaims = TRUE
    Workers = {w1}
INVARIANTS
    WithinCeiling
    RefundsHold
    ExpiredIsUnspent
    
PROPERTIES
    KeepsAccount
    RefundsEnd
CHECK_DEADLOCK FALSE
