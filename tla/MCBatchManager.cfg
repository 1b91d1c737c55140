SPECIFICATION FairSpec
CONSTANTS
    m1 = m1
    m2 = m2
    m3 = m3
    i1 = i1
    i2 = i2
    Metrics = {m1, m2, m3}
    Items = {i1, i2}
    Item <- MCItem
    Size = 2
    MaxAttempts = 3
    MaxFailures = 2
INVARIANTS
    TypeOK
    Conservation
    NothingStranded
    StopDrains
PROPERTIES
    ImplementsLedger
    StopTerminates
    EventuallySettled
CHECK_DEADLOCK FALSE
