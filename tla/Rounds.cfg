SPECIFICATION LiveSpec
CONSTANTS
    i1 = i1
    Instances = {i1}
    Nobody = Nobody
    Someone = Someone
    Width = 2
    MinWidth = 1
    Limit = 1
    Poll = 1
    MaxInterval = 2
    RetryAfters = {0, 3}
    RecoverAfter = 2
    Stale = 0
    Every = 1
    FallsBehind = FALSE
    Repoints = TRUE
    MaxFinal = 3
    MaxRestarts = 1
PROPERTIES
    BoundsAndCursorStay
    ObservingIsFresh
    CatchesUp
CHECK_DEADLOCK FALSE
