SPECIFICATION FairSpec
CONSTANTS
    run1 = run1
    run2 = run2
    Client = Client
    Runs <- MCRuns
    Limit = 2
    MaxRecords = 3
INVARIANTS
    TypeOK
    ReplaysThePast
    HistoryHasNoGaps
PROPERTY
    RunEnds
