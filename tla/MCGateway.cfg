SPECIFICATION FairSpec
CONSTANTS
    k1 = k1
    k2 = k2
    stream = stream
    unary = unary
    NoKey = NoKey
    Keys <- MCKeys
    Requests <- MCRequests
    Streaming <- MCStreaming
    Walks <- MCWalks
    MaxRequests = 0
    MaxTokens = 2
INVARIANTS
    TypeOK
    BillsLastAnswer
    WellKeysStayClosed
PROPERTY
    EveryRequestEnds
