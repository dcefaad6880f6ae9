SPECIFICATION BreakerRingSpec
CONSTANTS
    TotalBuckets = 2
    TicksPerSec = 2
    RateNum = 1
    RateDen = 2
    Keys = {k1}
    Requests = {r1, r2, r3}
    NoKey = NoKey
    MaxRequests = 1
    HalfOpenTimeout = 5
    MaxPerBucket = 2
    MaxPerTick = 2
INVARIANTS
    TypeOK
    RingTypeOK
    NeverCountsStale
    CountsRecent
PROPERTIES
    OpenIsQuiet
    WedgedForever
    ImplementsAbstract
    OpenGetsProbed
