SPECIFICATION FairSpec
CONSTANTS
    MaxAttempts = 2
    MaxChunks <- MCMaxChunks
    Session <- MCSession
    Usage <- MCUsage
    NoStream = NoStream
INVARIANTS
    TypeOK
    WriterIsLent
    NoBodyLeaks
    NilMeansComplete
    CountsDelivered
    NoneWaitsInVain
PROPERTIES
    EveryCallEnds
