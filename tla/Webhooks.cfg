SPECIFICATION FairSpec
CONSTANTS
    e1 = e1
    x = x
    w1 = w1
    w2 = w2
    Nobody = Nobody
    Endpoints = {e1}
    Accounts = {x}
    About <- TwoOfOne
    Wants <- AllOfTwo
    MaxTests = 1
    Workers = {w1, w2}
    Overruns = FALSE
    MaxAttempts = 2
    PerEndpoint = 2
    PerRound = 2
    MaxResends = 1
    MaxChanges = 2
    MaxAged = 1
    MaxAsked = 2
INVARIANTS
    DeliveriesHold
    OneDelivery
    InOrder
    SentByOne
PROPERTIES
    EverythingIsTold
