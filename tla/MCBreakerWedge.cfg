SPECIFICATION FairSpec
CONSTANTS
    TotalBuckets = 2
    TicksPerSec = 1
    RateNum = 1
    RateDen = 2
    Keys = {k1}
    Requests = {r1, r2, r3}
    NoKey = NoKey
    MaxRequests = 1
    HalfOpenTimeout = 3
    MaxPerBucket = 2
PROPERTY
    HalfOpenKeepsProbing
