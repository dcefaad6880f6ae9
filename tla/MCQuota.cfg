SPECIFICATION Spec
CONSTANTS
    user = user
    app1 = app1
    app2 = app2
    r1 = r1
    r2 = r2
    r3 = r3
    Keys <- MCKeys
    Requests <- MCRequests
    Path <- MCPath
    Total <- MCTotal
    Estimate = 0
    MaxActual = 2
    MaxRetries = 1
INVARIANTS
    TypeOK
    OverdraftBounded
PROPERTIES
    OnlyStreamsOverdraw
    ImplementsAccount
SYMMETRY MCSymmetry
