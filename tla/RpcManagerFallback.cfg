SPECIFICATION Spec
CONSTANTS
    shadow = shadow
    shadowPool = shadowPool
    beets = beets
    beetsPool = beetsPool
    Callers <- MCCalls
    Inner <- MCApart
    N = 2
    RateGap = 1
    MaxBackoff = 3
    MaxFailures = 2
    MaxTime = 2
INVARIANTS
    ThrowMeansAllTried
CHECK_DEADLOCK FALSE
