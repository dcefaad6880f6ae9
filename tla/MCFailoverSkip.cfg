SPECIFICATION Spec
CONSTANTS
    main = main
    alternative = alternative
    fallback = fallback
    v1 = v1
    v2 = v2
    a1 = a1
    k1 = k1
    k2 = k2
    k3 = k3
    r1 = r1
    r2 = r2
    Models <- MCModels
    Main = main
    Rules <- MCRules
    Loaded <- MCLoaded
    ModelOf <- MCModelOf
    APIKeys <- MCAPIKeys
    InitialStatus <- MCInitialStatus
    FallbackChain <- MCFallbackChain
    RoundRobin = {v1}
    AtRandom = {v2}
    NoRule = NoRule
    Keys = {k1, k2, k3}
    Requests = {r1, r2}
    NoKey = NoKey
    MaxRequests = 0
INVARIANT AllKeysFirst
SYMMETRY MCSymmetry
