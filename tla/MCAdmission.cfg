SPECIFICATION AdmissionSpec
CONSTANTS
    main = main
    alternative = alternative
    fallback = fallback
    v1 = v1
    v2 = v2
    a1 = a1
    k1 = k1
    k2 = k2
    k3 = k3
    r1 = r1
    r2 = r2
    Models <- MCModels
    Main = main
    Rules <- MCRules
    Loaded <- MCLoaded
    ModelOf <- MCModelOf
    APIKeys <- MCAPIKeys
    InitialStatus <- MCInitialStatus
    FallbackChain <- MCFallbackChain
    RoundRobin = {v1}
    AtRandom = {v2}
    NoRule = NoRule
    Keys = {k1, k2, k3}
    Requests = {r1, r2}
    NoKey = NoKey
    MaxRequests = 0
    user = user
    app = app
    c1 = c1
    c2 = c2
    BucketKeys <- MCBucketKeys
    Callers <- MCCallers
    BucketsOf <- MCBucketsOf
    Capacity <- MCCapacity
    Rate <- MCRate
    Skew <- MCSkew
    NumDimensions = 2
    Cost = 1
    MaxSkew = 1
    TTL = 3
    MaxDelay = 1
    NotSent = NotSent
    MaxResends = 1
    MaxTime = 3
INVARIANTS
    LimiterTypeOK
    NoTokenFromNowhere
    PassesWithinRate
    TypeOK
    GivesUpExhausted
    EqualShares
SYMMETRY MCSymmetry
