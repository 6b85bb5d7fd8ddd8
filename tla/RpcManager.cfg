SPECIFICATION Spec
CONSTANTS
    shadow = shadow
    shadowPool = shadowPool
    beets = beets
    beetsPool = beetsPool
    Callers <- MCQuotes
    Inner <- MCInside
    N = 3
    RateGap = 1
    MaxBackoff = 3
    MaxFailures = 2
    MaxTime = 2
INVARIANTS
    ThrowUndisturbed
PROPERTIES
    RateLimitedPerQuote
CHECK_DEADLOCK FALSE
