SPECIFICATION Spec
CONSTANTS
    g1 = g1
    w1 = w1
    w2 = w2
    m1 = m1
    m2 = m2
    well = well
    unwell = unwell
    Gateways = {g1}
    Writers = {w1, w2}
    Models = {m1, m2}
    Keys = {well, unwell}
    Writes <- MCWrites
    InitialStore <- MCInitialStore
    FailedIn <- MCFailedIn
    Healthy = {well}
    NoModel = NoModel
    MaxVersion = 2
    MaxRetries = 1
INVARIANTS
    TypeOK
    QuietIsCurrent
PROPERTIES
    NeverGoesBack
    RecoveredRejoins
