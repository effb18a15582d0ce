SPECIFICATION LiveSpec
CONSTANTS
    i1 = i1
    Instances = {i1}
    Nobody = Nobody
    Someone = Someone
    Width = 2
    MinWidth = 1
    Limit = 1
    Poll = 1
    MaxInterval = 1
    RetryAfters = {0}
    RecoverAfter = 1
    Stale = 0
    Every = 1
    FallsBehind = TRUE
    Repoints = FALSE
    MaxFinal = 4
    MaxRestarts = 0
PROPERTIES
    CatchesUp
CHECK_DEADLOCK FALSE
