SPECIFICATION FairAllSpec
CONSTANTS
    c1 = c1
    c2 = c2
    c3 = c3
    Focuses = {"breaker", "shutdown", "streams", "rates"}
    Callers <- MCCallers
    FailureThreshold = 2
    ResetTimeout = 1
    MaxGeneration = 4
    MaxNow = 4
    Results = {"m1", "m2", "m3", "m4"}
    Closers = {"s1", "s2"}
    Streams = {"s1", "s2"}
    Lengths = {0, 2}
    Buffer = 1
    RateCallers = {1, 2}
    RateKeys <- MCRateKeys
    DefaultLimit = 2
    RateWindow = 2
    EvictInterval = 1
    EvictEvery = 3
    DayLength = 5
    MaxRateCalls = 3
    MaxRateTime = 3
INVARIANTS SingleProbe StopsOnceDrained StreamsExplained PredicatesExact
PROPERTIES AutomatonSpec HalfOpenResolves  StreamsEnd
CHECK_DEADLOCK FALSE
